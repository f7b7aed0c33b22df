---------------------------- MODULE Sums_proofs -----------------------------
(***************************************************************************)
(* Induction over a set of naturals, functions defined by recursion over   *)
(* the naturals, and the facts about sums that the proofs of the component *)
(* modules rest on.                                                        *)
(*                                                                         *)
(* The induction theorem of the library takes an operator as its           *)
(* parameter.  NatSetInduction speaks of a set instead; it is proved from  *)
(* the pigeonhole principle for finite sets.                               *)
(***************************************************************************)
EXTENDS Sums, FiniteSetTheorems, TLAPS

\* A finite set is not mapped one-to-one into itself without one element.
LEMMA NoDescent ==
  ASSUME NEW T, IsFiniteSet(T), NEW x \in T, NEW f \in [T -> T \ {x}]
  PROVE  \E a, b \in T : a # b /\ f[a] = f[b]
<1>1. IsFiniteSet(T \ {x})
  BY FS_RemoveElement, Zenon
<1>2. Cardinality(T \ {x}) = Cardinality(T) - 1
  BY FS_RemoveElement, Zenon
<1>3. Cardinality(T) \in Nat
  BY FS_CardinalityType, Zenon
<1>4. Cardinality(T \ {x}) < Cardinality(T)
  BY <1>2, <1>3
<1> QED
  BY <1>1, <1>4, FS_PigeonHole, Zenon

\* A set that holds 0 and with each natural the next holds all of them.
THEOREM NatSetInduction ==
  ASSUME NEW S, 0 \in S, \A n \in Nat : n \in S => n + 1 \in S
  PROVE  Nat \subseteq S
<1> SUFFICES ASSUME NEW x \in Nat, x \notin S PROVE FALSE
  OBVIOUS
<1> DEFINE T == (0 .. x) \ S
           f == [k \in T |-> k - 1]
<1>1. IsFiniteSet(T)
  <2>1. 0 \in Int /\ x \in Int
    OBVIOUS
  <2>2. IsFiniteSet(0 .. x)
    BY <2>1, FS_Interval, Zenon
  <2> QED
    BY <2>2, FS_Difference, Zenon
<1>2. x \in T
  OBVIOUS
<1>3. f \in [T -> T \ {x}]
  <2> SUFFICES ASSUME NEW k \in T PROVE k - 1 \in T /\ k - 1 # x
    OBVIOUS
  <2>1. k \in Nat /\ k <= x /\ k \notin S /\ k # 0
    OBVIOUS
  <2>2. k - 1 \in Nat /\ (k - 1) + 1 = k /\ k - 1 # x /\ k - 1 <= x
    BY <2>1
  <2>3. k - 1 \notin S
    BY <2>1, <2>2
  <2> QED
    BY <2>2, <2>3
<1>4. \A a, b \in T : f[a] = f[b] => a = b
  OBVIOUS
<1> HIDE DEF T, f
<1> QED
  BY <1>1, <1>2, <1>3, <1>4, NoDescent, Zenon
-----------------------------------------------------------------------------
\* f starts with v0 and g takes each of its values to the next.
Follows(f, v0, g) ==
  f[0] = v0 /\ \A n \in Nat : f[n + 1] = g[n][f[n]]

\* A function on the naturals that is defined by recursion exists.
THEOREM RecursionExists ==
  ASSUME NEW V, NEW v0 \in V, NEW g \in [Nat -> [V -> V]]
  PROVE  \E f \in [Nat -> V] : Follows(f, v0, g)
<1> DEFINE Approx(n) ==
             {a \in [0 .. n -> V] :
                a[0] = v0 /\ \A k \in Nat : k < n => a[k + 1] = g[k][a[k]]}
           Reached == {n \in Nat : \E a : a \in Approx(n)}
           Agreed  == {k \in Nat :
                         \A n, m \in Nat : \A a \in Approx(n), b \in Approx(m) :
                           k <= n /\ k <= m => a[k] = b[k]}
<1>1. Nat \subseteq Reached
  <2>1. 0 \in Reached
    <3>1. [k \in 0 .. 0 |-> v0] \in Approx(0)
      OBVIOUS
    <3> QED
      BY <3>1
  <2>2. \A n \in Nat : n \in Reached => n + 1 \in Reached
    <3> SUFFICES ASSUME NEW n \in Nat, NEW a, a \in Approx(n)
                 PROVE  n + 1 \in Reached
      OBVIOUS
    <3> DEFINE b == [k \in 0 .. n + 1 |-> IF k <= n THEN a[k] ELSE g[n][a[n]]]
    <3>1. a[n] \in V /\ g[n][a[n]] \in V
      OBVIOUS
    <3>2. b \in [0 .. n + 1 -> V]
      BY <3>1
    <3>3. b[0] = v0
      OBVIOUS
    <3>4. ASSUME NEW k \in Nat, k < n + 1
          PROVE  b[k + 1] = g[k][b[k]]
      <4>1. CASE k < n
        <5>1. b[k] = a[k] /\ b[k + 1] = a[k + 1]
          BY <4>1
        <5>2. a[k + 1] = g[k][a[k]]
          BY <4>1
        <5> QED
          BY <5>1, <5>2
      <4>2. CASE k = n
        <5>1. b[k] = a[n] /\ b[k + 1] = g[n][a[n]]
          BY <4>2
        <5> QED
          BY <5>1, <4>2
      <4> QED
        BY <3>4, <4>1, <4>2
    <3> HIDE DEF b
    <3>5. b \in Approx(n + 1)
      BY <3>2, <3>3, <3>4
    <3> HIDE DEF Approx
    <3> QED
      BY <3>5
  <2> HIDE DEF Reached
  <2> QED
    BY <2>1, <2>2, NatSetInduction, Zenon
<1>2. Nat \subseteq Agreed
  <2>1. 0 \in Agreed
    OBVIOUS
  <2>2. \A k \in Nat : k \in Agreed => k + 1 \in Agreed
    <3> SUFFICES ASSUME NEW k \in Nat, k \in Agreed,
                        NEW n \in Nat, NEW m \in Nat,
                        NEW a \in Approx(n), NEW b \in Approx(m),
                        k + 1 <= n, k + 1 <= m
                 PROVE  a[k + 1] = b[k + 1]
      <4> HIDE DEF Approx
      <4> QED
        OBVIOUS
    <3>1. a[k] = b[k]
      <4>1. k <= n /\ k <= m
        OBVIOUS
      <4> HIDE DEF Approx
      <4> QED
        BY <4>1
    <3>2. a[k + 1] = g[k][a[k]] /\ b[k + 1] = g[k][b[k]]
      OBVIOUS
    <3> QED
      BY <3>1, <3>2
  <2> HIDE DEF Agreed
  <2> QED
    BY <2>1, <2>2, NatSetInduction, Zenon
<1> DEFINE A(n) == CHOOSE a : a \in Approx(n)
           f    == [n \in Nat |-> A(n)[n]]
<1>3. \A n \in Nat : A(n) \in Approx(n)
  <2> HIDE DEF Approx
  <2> QED
    BY <1>1
<1> HIDE DEF A
<1>4. f \in [Nat -> V]
  <2> SUFFICES ASSUME NEW n \in Nat PROVE A(n)[n] \in V
    OBVIOUS
  <2> QED
    BY <1>3
<1>5. f[0] = v0
  BY <1>3
<1>6. ASSUME NEW n \in Nat PROVE f[n + 1] = g[n][f[n]]
  <2>1. A(n + 1) \in Approx(n + 1) /\ A(n) \in Approx(n)
    BY <1>3
  <2>2. A(n + 1)[n] = A(n)[n]
    <3>1. n \in Agreed
      BY <1>2
    <3> HIDE DEF Approx
    <3> QED
      BY <2>1, <3>1
  <2>3. A(n + 1)[n + 1] = g[n][A(n + 1)[n]]
    BY <2>1
  <2> QED
    BY <2>2, <2>3
<1> HIDE DEF f
<1>7. Follows(f, v0, g)
  BY <1>5, <1>6 DEF Follows
<1> QED
  BY <1>4, <1>7
-----------------------------------------------------------------------------
\* A set of numbers that holds the sums of its numbers.
Summable(V) == 0 \in V /\ \A a, b \in V : a + b \in V

\* The partial sums behind SumUpTo.
PartialSums(s, f, n) ==
  /\ s[0] = 0
  /\ \A k \in 0 .. n - 1 : s[k + 1] = s[k] + f[k]
  /\ SumUpTo(f, n) = s[n]

\* A sum over the first n numbers is the last of its partial sums, whatever set the
\* summands are from, if it holds their sums.
LEMMA SumSteps ==
  ASSUME NEW V, Summable(V),
         NEW n \in Nat, NEW f \in [0 .. n - 1 -> V]
  PROVE  \E s \in [0 .. n -> V] : PartialSums(s, f, n)
<1> DEFINE g == [k \in Nat |-> [v \in V |-> IF k < n THEN v + f[k] ELSE v]]
           Body(s) == [k \in 0 .. n |-> IF k = 0 THEN 0 ELSE s[k - 1] + f[k - 1]]
           c == CHOOSE s : s = Body(s)
<1> USE DEF Summable
<1>1. g \in [Nat -> [V -> V]]
  OBVIOUS
<1>2. PICK h \in [Nat -> V] : Follows(h, 0, g)
  <2> HIDE DEF g
  <2> QED
    BY <1>1, RecursionExists, Zenon
<1> DEFINE s == [k \in 0 .. n |-> h[k]]
<1>3. s = Body(s)
  <2> SUFFICES ASSUME NEW k \in 0 .. n, k # 0
               PROVE  h[k] = s[k - 1] + f[k - 1]
    BY <1>2 DEF Follows
  <2>1. k - 1 \in 0 .. n - 1 /\ k - 1 \in Nat /\ (k - 1) + 1 = k
    OBVIOUS
  <2>2. h[k] = g[k - 1][h[k - 1]]
    BY <1>2, <2>1 DEF Follows
  <2> QED
    BY <2>1, <2>2
<1>4. c = Body(c)
  <2> HIDE DEF Body, s
  <2> QED
    BY <1>3
<1>5. SumUpTo(f, n) = c[n]
  BY DEF SumUpTo
<1> HIDE DEF c, s, g
<1>6. c[0] = 0 /\ \A k \in 0 .. n - 1 : c[k + 1] = c[k] + f[k]
  <2>1. \A k \in 0 .. n : c[k] = IF k = 0 THEN 0 ELSE c[k - 1] + f[k - 1]
    BY <1>4
  <2>2. ASSUME NEW k \in 0 .. n - 1 PROVE c[k + 1] = c[k] + f[k]
    <3>1. k + 1 \in 0 .. n /\ k + 1 # 0 /\ (k + 1) - 1 = k
      OBVIOUS
    <3>2. c[k + 1] = c[(k + 1) - 1] + f[(k + 1) - 1]
      BY <2>1, <3>1
    <3> QED
      BY <3>1, <3>2
  <2> QED
    BY <2>1, <2>2
<1>7. c \in [0 .. n -> V]
  <2> DEFINE S == {k \in Nat : k <= n => c[k] \in V}
  <2>1. 0 \in S
    BY <1>6
  <2>2. \A k \in Nat : k \in S => k + 1 \in S
    <3> SUFFICES ASSUME NEW k \in Nat, k \in S, k + 1 <= n
                 PROVE  c[k + 1] \in V
      OBVIOUS
    <3>1. k \in 0 .. n - 1 /\ c[k] \in V
      OBVIOUS
    <3>2. c[k + 1] = c[k] + f[k] /\ f[k] \in V
      BY <1>6, <3>1
    <3> HIDE DEF S
    <3> QED
      BY <3>1, <3>2, Zenon
  <2>3. Nat \subseteq S
    <3> HIDE DEF S
    <3> QED
      BY <2>1, <2>2, NatSetInduction, Zenon
  <2>4. \A k \in 0 .. n : c[k] \in V
    BY <2>3
  <2>5. c = [k \in 0 .. n |-> c[k]]
    BY <1>4
  <2> QED
    BY <2>4, <2>5
<1> QED
  BY <1>5, <1>6, <1>7 DEF PartialSums

\* The partial sums of natural numbers.
LEMMA SumDef ==
  ASSUME NEW n \in Nat, NEW f \in [0 .. n - 1 -> Nat]
  PROVE  \E s \in [0 .. n -> Nat] :
           /\ s[0] = 0
           /\ \A k \in 0 .. n - 1 : s[k + 1] = s[k] + f[k]
           /\ SumUpTo(f, n) = s[n]
<1>1. Summable(Nat)
  BY DEF Summable
<1>2. \E s \in [0 .. n -> Nat] : PartialSums(s, f, n)
  BY <1>1, SumSteps
<1> QED
  BY <1>2 DEF PartialSums

\* A sum of natural numbers is a natural number.
LEMMA SumType ==
  ASSUME NEW n \in Nat, NEW f \in [0 .. n - 1 -> Nat]
  PROVE  SumUpTo(f, n) \in Nat
BY SumDef

\* A sum of zeros is zero.
LEMMA SumZero ==
  ASSUME NEW n \in Nat, NEW f \in [0 .. n - 1 -> Nat],
         \A i \in 0 .. n - 1 : f[i] = 0
  PROVE  SumUpTo(f, n) = 0
<1> PICK s \in [0 .. n -> Nat] :
      /\ s[0] = 0
      /\ \A k \in 0 .. n - 1 : s[k + 1] = s[k] + f[k]
      /\ SumUpTo(f, n) = s[n]
  BY SumDef
<1> DEFINE S == {k \in Nat : k <= n => s[k] = 0}
<1>1. 0 \in S
  OBVIOUS
<1>2. \A k \in Nat : k \in S => k + 1 \in S
  OBVIOUS
<1>3. Nat \subseteq S
  <2> HIDE DEF S
  <2> QED
    BY <1>1, <1>2, NatSetInduction, Zenon
<1> QED
  BY <1>3

\* Each term is at most the sum.
LEMMA SumAtLeast ==
  ASSUME NEW n \in Nat, NEW f \in [0 .. n - 1 -> Nat], NEW i \in 0 .. n - 1
  PROVE  f[i] <= SumUpTo(f, n)
<1> PICK s \in [0 .. n -> Nat] :
      /\ s[0] = 0
      /\ \A k \in 0 .. n - 1 : s[k + 1] = s[k] + f[k]
      /\ SumUpTo(f, n) = s[n]
  BY SumDef
<1> DEFINE S == {k \in Nat : k <= n /\ i < k => f[i] <= s[k]}
<1>1. 0 \in S
  OBVIOUS
<1>2. \A k \in Nat : k \in S => k + 1 \in S
  <2> SUFFICES ASSUME NEW k \in Nat, k \in S, k + 1 <= n, i < k + 1
               PROVE  f[i] <= s[k + 1]
    OBVIOUS
  <2>1. s[k + 1] = s[k] + f[k] /\ s[k] \in Nat /\ f[k] \in Nat /\ f[i] \in Nat
    OBVIOUS
  <2>2. CASE i = k
    BY <2>1, <2>2
  <2>3. CASE i < k
    <3>1. f[i] <= s[k]
      BY <2>3
    <3> HIDE DEF S
    <3> QED
      BY <2>1, <3>1
  <2> QED
    BY <2>2, <2>3
<1>3. Nat \subseteq S
  <2> HIDE DEF S
  <2> QED
    BY <1>1, <1>2, NatSetInduction, Zenon
<1> QED
  BY <1>3

\* Changing one term changes the sum by the difference.
LEMMA SumChange ==
  ASSUME NEW n \in Nat, NEW f \in [0 .. n - 1 -> Nat],
         NEW g \in [0 .. n - 1 -> Nat], NEW i \in 0 .. n - 1,
         \A j \in 0 .. n - 1 : j # i => g[j] = f[j]
  PROVE  SumUpTo(g, n) = SumUpTo(f, n) + g[i] - f[i]
<1> PICK s \in [0 .. n -> Nat] :
      /\ s[0] = 0
      /\ \A k \in 0 .. n - 1 : s[k + 1] = s[k] + f[k]
      /\ SumUpTo(f, n) = s[n]
  BY SumDef
<1> PICK t \in [0 .. n -> Nat] :
      /\ t[0] = 0
      /\ \A k \in 0 .. n - 1 : t[k + 1] = t[k] + g[k]
      /\ SumUpTo(g, n) = t[n]
  BY SumDef
<1> DEFINE S == {k \in Nat : k <= n =>
                   /\ k <= i => t[k] = s[k]
                   /\ k > i => t[k] = s[k] + g[i] - f[i]}
<1>1. 0 \in S
  OBVIOUS
<1>2. \A k \in Nat : k \in S => k + 1 \in S
  <2> SUFFICES ASSUME NEW k \in Nat, k \in S, k + 1 <= n
               PROVE  k + 1 \in S
    <3>1. \A k \in Nat : k + 1 <= n \/ k + 1 \in S
      OBVIOUS
    <3> QED
      BY <3>1
  <2>1. k \in 0 .. n - 1 /\ k \in 0 .. n
    OBVIOUS
  <2>2. s[k + 1] = s[k] + f[k] /\ t[k + 1] = t[k] + g[k]
    BY <2>1
  <2>3. /\ s[k] \in Nat /\ t[k] \in Nat /\ f[k] \in Nat /\ g[k] \in Nat
        /\ f[i] \in Nat /\ g[i] \in Nat
    BY <2>1
  <2>4. k # i => g[k] = f[k]
    BY <2>1
  <2>5. CASE k < i
    BY <2>2, <2>3, <2>4, <2>5
  <2>6. CASE k = i
    BY <2>2, <2>3, <2>6
  <2>7. CASE k > i
    BY <2>2, <2>3, <2>4, <2>7
  <2> QED
    BY <2>5, <2>6, <2>7
<1>3. Nat \subseteq S
  <2> HIDE DEF S
  <2> QED
    BY <1>1, <1>2, NatSetInduction, Zenon
<1> QED
  BY <1>3

\* The sum of two functions, term by term, is the sum of their sums.
LEMMA SumAdd ==
  ASSUME NEW n \in Nat, NEW f \in [0 .. n - 1 -> Nat],
         NEW g \in [0 .. n - 1 -> Nat], NEW h \in [0 .. n - 1 -> Nat],
         \A j \in 0 .. n - 1 : h[j] = f[j] + g[j]
  PROVE  SumUpTo(h, n) = SumUpTo(f, n) + SumUpTo(g, n)
<1> PICK s \in [0 .. n -> Nat] :
      /\ s[0] = 0
      /\ \A k \in 0 .. n - 1 : s[k + 1] = s[k] + f[k]
      /\ SumUpTo(f, n) = s[n]
  BY SumDef
<1> PICK t \in [0 .. n -> Nat] :
      /\ t[0] = 0
      /\ \A k \in 0 .. n - 1 : t[k + 1] = t[k] + g[k]
      /\ SumUpTo(g, n) = t[n]
  BY SumDef
<1> PICK u \in [0 .. n -> Nat] :
      /\ u[0] = 0
      /\ \A k \in 0 .. n - 1 : u[k + 1] = u[k] + h[k]
      /\ SumUpTo(h, n) = u[n]
  BY SumDef
<1> DEFINE S == {k \in Nat : k <= n => u[k] = s[k] + t[k]}
<1>1. 0 \in S
  OBVIOUS
<1>2. \A k \in Nat : k \in S => k + 1 \in S
  <2> SUFFICES ASSUME NEW k \in Nat, k \in S, k + 1 <= n
               PROVE  u[k + 1] = s[k + 1] + t[k + 1]
    OBVIOUS
  <2>1. /\ s[k + 1] = s[k] + f[k] /\ t[k + 1] = t[k] + g[k]
        /\ u[k + 1] = u[k] + h[k] /\ h[k] = f[k] + g[k]
        /\ s[k] \in Nat /\ t[k] \in Nat /\ f[k] \in Nat /\ g[k] \in Nat
    OBVIOUS
  <2> QED
    BY <2>1
<1>3. Nat \subseteq S
  <2> HIDE DEF S
  <2> QED
    BY <1>1, <1>2, NatSetInduction, Zenon
<1> QED
  BY <1>3

\* A common factor can be taken out of a sum.
LEMMA SumScale ==
  ASSUME NEW n \in Nat, NEW f \in [0 .. n - 1 -> Nat],
         NEW g \in [0 .. n - 1 -> Nat], NEW m \in Nat,
         \A j \in 0 .. n - 1 : g[j] = m * f[j]
  PROVE  SumUpTo(g, n) = m * SumUpTo(f, n)
<1> PICK s \in [0 .. n -> Nat] :
      /\ s[0] = 0
      /\ \A k \in 0 .. n - 1 : s[k + 1] = s[k] + f[k]
      /\ SumUpTo(f, n) = s[n]
  BY SumDef
<1> PICK t \in [0 .. n -> Nat] :
      /\ t[0] = 0
      /\ \A k \in 0 .. n - 1 : t[k + 1] = t[k] + g[k]
      /\ SumUpTo(g, n) = t[n]
  BY SumDef
<1> DEFINE S == {k \in Nat : k <= n => t[k] = m * s[k]}
<1>1. 0 \in S
  OBVIOUS
<1>2. \A k \in Nat : k \in S => k + 1 \in S
  <2> SUFFICES ASSUME NEW k \in Nat, k \in S, k + 1 <= n
               PROVE  t[k + 1] = m * s[k + 1]
    OBVIOUS
  <2>1. /\ s[k + 1] = s[k] + f[k] /\ t[k + 1] = t[k] + g[k] /\ g[k] = m * f[k]
        /\ s[k] \in Nat /\ f[k] \in Nat /\ t[k] = m * s[k]
    OBVIOUS
  <2>2. m * (s[k] + f[k]) = m * s[k] + m * f[k]
    BY <2>1
  <2> HIDE DEF S
  <2> QED
    BY <2>1, <2>2
<1>3. Nat \subseteq S
  <2> HIDE DEF S
  <2> QED
    BY <1>1, <1>2, NatSetInduction, Zenon
<1> QED
  BY <1>3
=============================================================================
