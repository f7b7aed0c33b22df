--------------------------- MODULE Router_proofs ----------------------------
(***************************************************************************)
(* Proofs about Router: for every amount, whichever token is WETH and      *)
(* wherever a transaction reverts, the router keeps nothing and gives      *)
(* nothing away, the pair has been sent what it books, and a user pays and *)
(* gets no more and no less than the limits of the call say.               *)
(*                                                                         *)
(* The argument is an account of the calls that are left.  Each call adds  *)
(* a fixed number to a balance, so what the calls left will add up to is   *)
(* known from the start of the transaction: the balances and that sum      *)
(* together do not change from call to call.                               *)
(***************************************************************************)
EXTENDS Router, Sums_proofs, SequenceTheorems

-----------------------------------------------------------------------------
\* What the calls of sequence s add up to, each by the value that g gives it.
Total(g, s) == SumUpTo([i \in 0 .. Len(s) - 1 |-> g[s[i + 1]]], Len(s))

\* The partial sums along a sequence.
LEMMA TotalSteps ==
  ASSUME NEW S, NEW s \in Seq(S), NEW g \in [S -> Int]
  PROVE  \E p \in [0 .. Len(s) -> Int] :
           /\ p[0] = 0
           /\ \A k \in 0 .. Len(s) - 1 : p[k + 1] = p[k] + g[s[k + 1]]
           /\ Total(g, s) = p[Len(s)]
<1> DEFINE f == [i \in 0 .. Len(s) - 1 |-> g[s[i + 1]]]
<1>1. Summable(Int)
  BY DEF Summable
<1>2. Len(s) \in Nat /\ f \in [0 .. Len(s) - 1 -> Int]
  <2>1. Len(s) \in Nat /\ \A i \in 0 .. Len(s) - 1 : s[i + 1] \in S
    OBVIOUS
  <2> QED
    BY <2>1
<1>3. \A i \in 0 .. Len(s) - 1 : f[i] = g[s[i + 1]]
  OBVIOUS
<1>4. Total(g, s) = SumUpTo(f, Len(s))
  BY DEF Total
<1> HIDE DEF f
<1>5. PICK p \in [0 .. Len(s) -> Int] : PartialSums(p, f, Len(s))
  BY <1>1, <1>2, SumSteps
<1> QED
  BY <1>3, <1>4, <1>5 DEF PartialSums

\* The sum along two sequences is the sum of their sums.
LEMMA TotalCat ==
  ASSUME NEW S, NEW s \in Seq(S), NEW t \in Seq(S), NEW g \in [S -> Int]
  PROVE  /\ s \o t \in Seq(S)
         /\ Total(g, s) \in Int
         /\ Total(g, t) \in Int
         /\ Total(g, s \o t) = Total(g, s) + Total(g, t)
<1> DEFINE u == s \o t
           m == Len(s)
           n == Len(t)
<1>1. /\ u \in Seq(S) /\ Len(u) = m + n /\ m \in Nat /\ n \in Nat
      /\ \A k \in 0 .. m - 1 : u[k + 1] = s[k + 1]
      /\ \A k \in 0 .. n - 1 : u[(m + k) + 1] = t[k + 1]
      /\ \A k \in 0 .. n - 1 : g[t[k + 1]] \in Int
  OBVIOUS
<1>2. PICK a \in [0 .. m -> Int] :
        /\ a[0] = 0
        /\ \A k \in 0 .. m - 1 : a[k + 1] = a[k] + g[s[k + 1]]
        /\ Total(g, s) = a[m]
  BY TotalSteps
<1>3. PICK c \in [0 .. n -> Int] :
        /\ c[0] = 0
        /\ \A k \in 0 .. n - 1 : c[k + 1] = c[k] + g[t[k + 1]]
        /\ Total(g, t) = c[n]
  BY TotalSteps
<1>4. PICK d \in [0 .. Len(u) -> Int] :
        /\ d[0] = 0
        /\ \A k \in 0 .. Len(u) - 1 : d[k + 1] = d[k] + g[u[k + 1]]
        /\ Total(g, u) = d[Len(u)]
  BY <1>1, TotalSteps
<1> HIDE DEF u, m, n
<1>5. d[m] = a[m]
  <2> DEFINE D == {k \in Nat : k <= m => d[k] = a[k]}
  <2>1. 0 \in D
    BY <1>2, <1>4
  <2>2. \A k \in Nat : k \in D => k + 1 \in D
    <3> SUFFICES ASSUME NEW k \in Nat, k \in D, k + 1 <= m PROVE d[k + 1] = a[k + 1]
      BY SMTT(60)
    <3>1. k \in 0 .. m - 1 /\ k \in 0 .. Len(u) - 1 /\ d[k] = a[k]
      BY <1>1
    <3> QED
      BY <1>1, <1>2, <1>4, <3>1
  <2>3. Nat \subseteq D
    <3> HIDE DEF D
    <3> QED
      BY <2>1, <2>2, NatSetInduction, Zenon
  <2> QED
    BY <1>1, <2>3
<1>6. d[m + n] = a[m] + c[n]
  <2> DEFINE D == {k \in Nat : k <= n => d[m + k] = a[m] + c[k]}
  <2>1. 0 \in D
    BY <1>1, <1>2, <1>3, <1>5
  <2>2. \A k \in Nat : k \in D => k + 1 \in D
    <3> SUFFICES ASSUME NEW k \in Nat, k \in D, k + 1 <= n
                 PROVE  d[m + (k + 1)] = a[m] + c[k + 1]
      BY SMTT(60)
    <3>1. k \in 0 .. n - 1 /\ m + k \in 0 .. Len(u) - 1 /\ d[m + k] = a[m] + c[k]
      BY <1>1
    <3>2. d[(m + k) + 1] = d[m + k] + g[u[(m + k) + 1]]
      BY <1>4, <3>1
    <3>3. u[(m + k) + 1] = t[k + 1] /\ c[k + 1] = c[k] + g[t[k + 1]]
      BY <1>1, <1>3, <3>1
    <3>4. /\ (m + k) + 1 = m + (k + 1)
          /\ a[m] \in Int /\ c[k] \in Int /\ c[k + 1] \in Int /\ g[t[k + 1]] \in Int
      BY <1>1, <1>2, <1>3, <3>1
    <3>5. d[m + (k + 1)] = (a[m] + c[k]) + g[t[k + 1]]
      BY <3>1, <3>2, <3>3, <3>4, Zenon
    <3>6. \A v, w, x \in Int : (v + w) + x = v + (w + x)
      OBVIOUS
    <3> HIDE DEF D
    <3> QED
      BY <3>3, <3>4, <3>5, <3>6, SMTT(60)
  <2>3. Nat \subseteq D
    <3> HIDE DEF D
    <3> QED
      BY <2>1, <2>2, NatSetInduction, Zenon
  <2> QED
    BY <1>1, <2>3
<1>7. a[m] \in Int /\ c[n] \in Int
  BY <1>1, <1>2, <1>3
<1> QED
  BY <1>1, <1>2, <1>3, <1>4, <1>6, <1>7 DEF u

\* No call, and one call.
LEMMA TotalOne ==
  ASSUME NEW S, NEW g \in [S -> Int]
  PROVE  /\ <<>> \in Seq(S) /\ Total(g, <<>>) = 0
         /\ \A c \in S : <<c>> \in Seq(S) /\ Total(g, <<c>>) = g[c]
<1>1. <<>> \in Seq(S) /\ Len(<<>>) = 0
  OBVIOUS
<1>2. Total(g, <<>>) = 0
  BY <1>1, TotalSteps, ZenonT(60)
<1>3. ASSUME NEW c \in S PROVE <<c>> \in Seq(S) /\ Total(g, <<c>>) = g[c]
  <2>1. <<c>> \in Seq(S) /\ Len(<<c>>) = 1 /\ <<c>>[1] = c
    OBVIOUS
  <2>2. PICK p \in [0 .. 1 -> Int] :
          /\ p[0] = 0
          /\ \A k \in 0 .. 1 - 1 : p[k + 1] = p[k] + g[<<c>>[k + 1]]
          /\ Total(g, <<c>>) = p[1]
    BY <2>1, TotalSteps
  <2>3. p[0 + 1] = p[0] + g[<<c>>[0 + 1]]
    BY <2>2
  <2>4. g[c] \in Int
    OBVIOUS
  <2> QED
    BY <2>1, <2>2, <2>3, <2>4
<1> QED
  BY <1>1, <1>2, <1>3

\* The first call and the others.
LEMMA TotalHead ==
  ASSUME NEW S, NEW s \in Seq(S), s # <<>>, NEW g \in [S -> Int]
  PROVE  /\ Head(s) \in S /\ Tail(s) \in Seq(S)
         /\ Total(g, Tail(s)) \in Int
         /\ Total(g, s) = g[Head(s)] + Total(g, Tail(s))
<1> DEFINE h == <<Head(s)>>
           r == Tail(s)
<1>1. Head(s) \in S /\ r \in Seq(S) /\ s = h \o r
  OBVIOUS
<1>2. h \in Seq(S) /\ Total(g, h) = g[Head(s)]
  BY <1>1, TotalOne
<1> HIDE DEF h, r
<1>3. /\ Total(g, r) \in Int
      /\ Total(g, h \o r) = Total(g, h) + Total(g, r)
  BY <1>1, <1>2, TotalCat, SMTT(60)
<1>4. Head(s) \in S /\ r \in Seq(S) /\ Total(g, r) \in Int
      /\ Total(g, s) = g[Head(s)] + Total(g, r)
  BY <1>1, <1>2, <1>3
<1> QED
  BY <1>4 DEF r
-----------------------------------------------------------------------------
(***************************************************************************)
(* The calls that the transactions consist of, and what a call adds to the *)
(* balance of a party in an asset, to what the pair has beyond its books,  *)
(* and to the number of calls that revert.                                 *)
(***************************************************************************)
Party == {"user", "router", "pair"}

Kind == {"transfer", "deposit", "unwrap", "book", "holds", "revert"}

WellFormed(c) ==
  /\ c.kind = "transfer" => /\ c.asset \in Asset /\ c.amount \in Nat
                            /\ c.from \in Party /\ c.to \in Party /\ c.from # c.to
  /\ c.kind = "deposit" => /\ c.asset = "ETH" /\ c.amount \in Nat
                           /\ c.from = "router" /\ c.to = "weth"
  /\ c.kind = "unwrap" => /\ c.asset = WETH /\ c.amount \in Nat
                          /\ c.from = "router" /\ c.to = "weth"
  /\ c.kind = "book" => c.asset \in Token /\ c.to = ""
  /\ c.kind = "holds" => /\ c.asset \in Token /\ c.amount \in Nat
                         /\ c.from = "router" /\ c.to = ""
  /\ c.kind = "revert" => c.to = ""

Call == {c \in [kind : Kind, asset : Asset \cup {""}, from : Holder \cup {""},
                to : Holder \cup {""}, amount : Int] : WellFormed(c)}

GainOf(h, a, c) ==
  IF c.kind = "transfer"
  THEN IF c.asset # a THEN 0
       ELSE IF c.to = h THEN c.amount ELSE IF c.from = h THEN -c.amount ELSE 0
  ELSE IF h = "router" /\ c.kind = "deposit"
  THEN IF a = "ETH" THEN -c.amount ELSE IF a = WETH THEN c.amount ELSE 0
  ELSE IF h = "router" /\ c.kind = "unwrap"
  THEN IF a = "ETH" THEN c.amount ELSE IF a = WETH THEN -c.amount ELSE 0
  ELSE 0

BookedOf(a, c) == IF c.kind = "book" /\ c.asset = a THEN c.amount ELSE 0

RouterGain(a) == [c \in Call |-> GainOf("router", a, c)]
UserGain(a)   == [c \in Call |-> GainOf("user", a, c)]
PairGap(a)    == [c \in Call |-> GainOf("pair", a, c) - BookedOf(a, c)]
Stops         == [c \in Call |-> IF c.kind = "revert" THEN 1 ELSE 0]

\* A sequence of calls adds r, u and p in asset a, and k calls of it revert.
Adds(s, a, r, u, p, k) ==
  /\ s \in Seq(Call)
  /\ Total(RouterGain(a), s) = r
  /\ Total(UserGain(a), s) = u
  /\ Total(PairGap(a), s) = p
  /\ Total(Stops, s) = k

\* The values of a call are integers.
LEMMA GainTypes ==
  ASSUME NEW a \in Asset
  PROVE  /\ RouterGain(a) \in [Call -> Int]
         /\ UserGain(a) \in [Call -> Int]
         /\ PairGap(a) \in [Call -> Int]
         /\ Stops \in [Call -> Int]
<1>1. \A c \in Call : c.amount \in Int
  BY DEF Call
<1>2. ASSUME NEW c \in Call, NEW h \in Party
      PROVE  GainOf(h, a, c) \in Int /\ BookedOf(a, c) \in Int
  <2>1. c.amount \in Int /\ -c.amount \in Int
    BY <1>1
  <2> QED
    BY <2>1 DEF GainOf, BookedOf
<1>3. \A c \in Call : GainOf("pair", a, c) - BookedOf(a, c) \in Int
  BY <1>2 DEF Party
<1> QED
  BY <1>2, <1>3 DEF RouterGain, UserGain, PairGap, Stops, Party

\* No call adds nothing, one call its values.
LEMMA AddsOne ==
  ASSUME NEW a \in Asset
  PROVE  /\ Adds(<<>>, a, 0, 0, 0, 0)
         /\ \A c \in Call :
              Adds(<<c>>, a, GainOf("router", a, c), GainOf("user", a, c),
                   GainOf("pair", a, c) - BookedOf(a, c),
                   IF c.kind = "revert" THEN 1 ELSE 0)
<1>1. Adds(<<>>, a, 0, 0, 0, 0)
  BY GainTypes, TotalOne DEF Adds
<1>2. ASSUME NEW c \in Call
      PROVE  Adds(<<c>>, a, GainOf("router", a, c), GainOf("user", a, c),
                  GainOf("pair", a, c) - BookedOf(a, c),
                  IF c.kind = "revert" THEN 1 ELSE 0)
  <2>1. /\ <<c>> \in Seq(Call)
        /\ Total(RouterGain(a), <<c>>) = RouterGain(a)[c]
        /\ Total(UserGain(a), <<c>>) = UserGain(a)[c]
        /\ Total(PairGap(a), <<c>>) = PairGap(a)[c]
        /\ Total(Stops, <<c>>) = Stops[c]
    BY GainTypes, TotalOne, ZenonT(60)
  <2> QED
    BY <2>1 DEF Adds, RouterGain, UserGain, PairGap, Stops
<1> QED
  BY <1>1, <1>2

\* Two sequences add what the one adds and what the other adds.
LEMMA AddsCat ==
  ASSUME NEW a \in Asset, NEW s, NEW t,
         NEW r, NEW u, NEW p, NEW k, NEW v, NEW w, NEW x, NEW y,
         Adds(s, a, r, u, p, k), Adds(t, a, v, w, x, y)
  PROVE  Adds(s \o t, a, r + v, u + w, p + x, k + y)
<1>1. s \in Seq(Call) /\ t \in Seq(Call)
  BY DEF Adds
<1>2. \A g \in [Call -> Int] : /\ s \o t \in Seq(Call)
                              /\ Total(g, s \o t) = Total(g, s) + Total(g, t)
  BY <1>1, TotalCat
<1> QED
  BY <1>2, GainTypes DEF Adds

\* The first call and the others.
LEMMA AddsHead ==
  ASSUME NEW a \in Asset, NEW s \in Seq(Call), s # <<>>
  PROVE  LET c == Head(s)
         IN  /\ c \in Call /\ Tail(s) \in Seq(Call)
             /\ Total(RouterGain(a), s) = GainOf("router", a, c) + Total(RouterGain(a), Tail(s))
             /\ Total(UserGain(a), s) = GainOf("user", a, c) + Total(UserGain(a), Tail(s))
             /\ Total(PairGap(a), s)
                  = (GainOf("pair", a, c) - BookedOf(a, c)) + Total(PairGap(a), Tail(s))
             /\ Total(Stops, s)
                  = (IF c.kind = "revert" THEN 1 ELSE 0) + Total(Stops, Tail(s))
             /\ Total(RouterGain(a), Tail(s)) \in Int
             /\ Total(UserGain(a), Tail(s)) \in Int
             /\ Total(PairGap(a), Tail(s)) \in Int
             /\ Total(Stops, Tail(s)) \in Int
<1>1. \A g \in [Call -> Int] :
        /\ Head(s) \in Call /\ Tail(s) \in Seq(Call)
        /\ Total(g, Tail(s)) \in Int
        /\ Total(g, s) = g[Head(s)] + Total(g, Tail(s))
  BY TotalHead
<1> QED
  BY <1>1, GainTypes DEF RouterGain, UserGain, PairGap, Stops

-----------------------------------------------------------------------------
(***************************************************************************)
(* The call that sends ether to the user comes last, if there is one.  A   *)
(* part of a transaction has none, what it ends with may have one.         *)
(***************************************************************************)
EtherOut(c) == c.asset = "ETH" /\ c.to = "user"

Calm(s) == \A i \in 1 .. Len(s) : ~EtherOut(s[i])

EtherLast(s) == \A i \in 1 .. Len(s) : EtherOut(s[i]) => i = Len(s)

Part(s, a, r, u, p, k) == Adds(s, a, r, u, p, k) /\ Calm(s)

End(s, a, r, u, p, k) == Adds(s, a, r, u, p, k) /\ EtherLast(s)

\* A part ends a transaction that ends without sending ether.
LEMMA PartEnds ==
  ASSUME NEW s, NEW a, NEW r, NEW u, NEW p, NEW k, Part(s, a, r, u, p, k)
  PROVE  End(s, a, r, u, p, k)
BY DEF Part, End, Calm, EtherLast

\* A part and a part are a part.
LEMMA PartCat ==
  ASSUME NEW a \in Asset, NEW s, NEW t,
         NEW r, NEW u, NEW p, NEW k, NEW v, NEW w, NEW x, NEW y,
         Part(s, a, r, u, p, k), Part(t, a, v, w, x, y)
  PROVE  Part(s \o t, a, r + v, u + w, p + x, k + y)
<1>1. Adds(s \o t, a, r + v, u + w, p + x, k + y)
  BY AddsCat DEF Part
<1>2. s \in Seq(Call) /\ t \in Seq(Call) /\ Calm(s) /\ Calm(t)
  BY DEF Part, Adds
<1>3. Calm(s \o t)
  BY <1>2 DEF Calm
<1> QED
  BY <1>1, <1>3 DEF Part

\* A part and an end are an end.
LEMMA EndCat ==
  ASSUME NEW a \in Asset, NEW s, NEW t,
         NEW r, NEW u, NEW p, NEW k, NEW v, NEW w, NEW x, NEW y,
         Part(s, a, r, u, p, k), End(t, a, v, w, x, y)
  PROVE  End(s \o t, a, r + v, u + w, p + x, k + y)
<1>1. Adds(s \o t, a, r + v, u + w, p + x, k + y)
  BY AddsCat DEF Part, End
<1>2. s \in Seq(Call) /\ t \in Seq(Call) /\ Calm(s) /\ EtherLast(t)
  BY DEF Part, End, Adds
<1>3. EtherLast(s \o t)
  BY <1>2 DEF Calm, EtherLast
<1> QED
  BY <1>1, <1>3 DEF End

\* The calls after the first send ether last; after ether there is no call.
LEMMA EtherLastTail ==
  ASSUME NEW s \in Seq(Call), s # <<>>, EtherLast(s)
  PROVE  EtherLast(Tail(s)) /\ (EtherOut(Head(s)) => Tail(s) = <<>>)
<1> DEFINE m == Len(s)
           r == Tail(s)
<1>1. /\ m \in Nat /\ m >= 1 /\ r \in Seq(Call) /\ Len(r) = m - 1
      /\ \A i \in 1 .. m - 1 : r[i] = s[i + 1]
      /\ Head(s) = s[1]
  OBVIOUS
<1>2. \A i \in 1 .. m : EtherOut(s[i]) => i = m
  BY DEF EtherLast
<1>3. Len(r) = 0 => r = <<>>
  <2>1. \A q \in Seq(Call) : Len(q) = 0 => q = <<>>
    OBVIOUS
  <2>2. r \in Seq(Call)
    BY <1>1
  <2> HIDE DEF r
  <2> QED
    BY <2>1, <2>2
<1>4. EtherOut(Head(s)) <=> EtherOut(s[1])
  BY <1>1, Zenon
<1> HIDE DEF m, r
<1>5. ASSUME NEW i \in 1 .. Len(r), EtherOut(r[i]) PROVE i = Len(r)
  <2>1. i + 1 \in 1 .. m /\ i \in 1 .. m - 1
    BY <1>1
  <2>2. EtherOut(s[i + 1])
    BY <1>1, <1>5, <2>1, Zenon
  <2> QED
    BY <1>1, <1>2, <2>1, <2>2
<1>6. ASSUME EtherOut(Head(s)) PROVE r = <<>>
  <2>1. 1 = m
    BY <1>1, <1>2, <1>4, <1>6
  <2> QED
    BY <1>1, <1>3, <2>1
<1> QED
  BY <1>5, <1>6 DEF EtherLast, r

-----------------------------------------------------------------------------
(***************************************************************************)
(* What the parts of the transactions add.                                 *)
(***************************************************************************)
When(condition, n) == IF condition THEN n ELSE 0
Less(condition, n) == IF condition THEN -n ELSE 0

MovedOf(h, a, asset, from, to, n) ==
  IF asset # a THEN 0 ELSE IF to = h THEN n ELSE IF from = h THEN -n ELSE 0

\* A sequence of one call.
LEMMA OneCall ==
  ASSUME NEW a \in Asset, NEW c \in Call
  PROVE  LET r == GainOf("router", a, c)
             u == GainOf("user", a, c)
             p == GainOf("pair", a, c) - BookedOf(a, c)
             k == IF c.kind = "revert" THEN 1 ELSE 0
         IN  /\ End(<<c>>, a, r, u, p, k)
             /\ ~EtherOut(c) => Part(<<c>>, a, r, u, p, k)
<1>1. EtherLast(<<c>>) /\ (~EtherOut(c) => Calm(<<c>>))
  BY DEF EtherLast, Calm
<1> QED
  BY <1>1, AddsOne DEF Part, End

\* Nothing is a part that adds nothing.
LEMMA NoCall ==
  ASSUME NEW a \in Asset
  PROVE  Part(<<>>, a, 0, 0, 0, 0)
<1>1. Calm(<<>>)
  BY DEF Calm
<1> QED
  BY <1>1, AddsOne DEF Part

\* What makes a record a call.
LEMMA DoIsCall ==
  ASSUME NEW kind \in Kind, NEW asset \in Asset \cup {""}, NEW from \in Holder \cup {""},
         NEW to \in Holder \cup {""}, NEW n \in Int,
         WellFormed(Do(kind, asset, from, to, n))
  PROVE  Do(kind, asset, from, to, n) \in Call
<1>1. Do(kind, asset, from, to, n)
        \in [kind : Kind, asset : Asset \cup {""}, from : Holder \cup {""},
            to : Holder \cup {""}, amount : Int]
  BY DEF Do
<1> QED
  BY <1>1 DEF Call

\* A transfer between the user, the router and the pair.
LEMMA TransferAdds ==
  ASSUME NEW a \in Asset, NEW b \in Asset, NEW f \in Party, NEW t \in Party, f # t,
         NEW n \in Nat
  PROVE  LET s == Transfer(b, f, t, n)
             r == MovedOf("router", a, b, f, t, n)
             u == MovedOf("user", a, b, f, t, n)
             p == MovedOf("pair", a, b, f, t, n)
         IN  /\ End(s, a, r, u, p, 0)
             /\ ~(b = "ETH" /\ t = "user") => Part(s, a, r, u, p, 0)
<1> DEFINE c == Do("transfer", b, f, t, n)
<1>1. c.kind = "transfer" /\ c.asset = b /\ c.from = f /\ c.to = t /\ c.amount = n
  BY DEF Do
<1>2. c \in Call
  <2>1. WellFormed(c)
    <3> HIDE DEF c
    <3> QED
      BY <1>1 DEF WellFormed
  <2>2. "transfer" \in Kind /\ b \in Asset \cup {""}
    BY DEF Kind
  <2>3. f \in Holder \cup {""} /\ t \in Holder \cup {""}
    BY DEF Party, Holder
  <2>4. n \in Int
    OBVIOUS
  <2> QED
    BY <2>1, <2>2, <2>3, <2>4, DoIsCall
<1>3. /\ GainOf("router", a, c) = MovedOf("router", a, b, f, t, n)
      /\ GainOf("user", a, c) = MovedOf("user", a, b, f, t, n)
      /\ GainOf("pair", a, c) = MovedOf("pair", a, b, f, t, n)
      /\ BookedOf(a, c) = 0
      /\ (IF c.kind = "revert" THEN 1 ELSE 0) = 0
      /\ EtherOut(c) <=> b = "ETH" /\ t = "user"
  BY <1>1 DEF GainOf, MovedOf, BookedOf, EtherOut
<1>4. MovedOf("pair", a, b, f, t, n) \in Int
  BY DEF MovedOf
<1>5. GainOf("pair", a, c) - BookedOf(a, c) = MovedOf("pair", a, b, f, t, n)
  BY <1>3, <1>4
<1>6. Transfer(b, f, t, n) = <<c>>
  BY DEF Transfer
<1> HIDE DEF c
<1> QED
  BY <1>2, <1>3, <1>5, <1>6, OneCall

\* Wrapping, unwrapping, booking, and the checks that may stop a transaction.
LEMMA OtherCallsAdd ==
  ASSUME NEW a \in Asset, NEW n \in Nat, NEW t \in Token, NEW i \in Int
  PROVE  /\ Part(Deposit(n), a,
                 IF a = "ETH" THEN -n ELSE IF a = WETH THEN n ELSE 0, 0, 0, 0)
         /\ Part(Unwrap(n), a,
                 IF a = "ETH" THEN n ELSE IF a = WETH THEN -n ELSE 0, 0, 0, 0)
         /\ Part(Book(t, i), a, 0, 0, Less(a = t, i), 0)
         /\ Part(Holds(t, n), a, 0, 0, 0, 0)
         /\ \A P \in BOOLEAN : Part(Require(P), a, 0, 0, 0, When(~P, 1))
<1> DEFINE d == Do("deposit", "ETH", "router", "weth", n)
           w == Do("unwrap", WETH, "router", "weth", n)
           b == Do("book", t, "", "", i)
           h == Do("holds", t, "router", "", n)
           v == Do("revert", "", "", "", 0)
<1>1. /\ d.kind = "deposit" /\ d.asset = "ETH" /\ d.from = "router" /\ d.to = "weth"
      /\ d.amount = n
      /\ w.kind = "unwrap" /\ w.asset = WETH /\ w.from = "router" /\ w.to = "weth"
      /\ w.amount = n
      /\ b.kind = "book" /\ b.asset = t /\ b.to = "" /\ b.amount = i
      /\ h.kind = "holds" /\ h.asset = t /\ h.from = "router" /\ h.to = "" /\ h.amount = n
      /\ v.kind = "revert" /\ v.asset = "" /\ v.to = "" /\ v.amount = 0
  BY DEF Do
<1>2. d \in Call /\ w \in Call /\ b \in Call /\ h \in Call /\ v \in Call
  <2>1. WellFormed(d) /\ WellFormed(w) /\ WellFormed(b) /\ WellFormed(h) /\ WellFormed(v)
    <3> HIDE DEF d, w, b, h, v
    <3> QED
      BY <1>1 DEF WellFormed
  <2>2. /\ "deposit" \in Kind /\ "unwrap" \in Kind /\ "book" \in Kind
        /\ "holds" \in Kind /\ "revert" \in Kind
    BY DEF Kind
  <2>3. /\ "ETH" \in Asset \cup {""} /\ WETH \in Asset \cup {""}
        /\ t \in Asset \cup {""} /\ "" \in Asset \cup {""}
    BY WETHAssumption DEF Asset, Token
  <2>4. /\ "router" \in Holder \cup {""} /\ "weth" \in Holder \cup {""}
        /\ "" \in Holder \cup {""}
    BY DEF Holder
  <2>5. n \in Int /\ 0 \in Int
    OBVIOUS
  <2>6. d \in Call
    BY <2>1, <2>2, <2>3, <2>4, <2>5, DoIsCall
  <2>7. w \in Call
    BY <2>1, <2>2, <2>3, <2>4, <2>5, DoIsCall
  <2>8. b \in Call
    BY <2>1, <2>2, <2>3, <2>4, <2>5, DoIsCall
  <2>9. h \in Call
    BY <2>1, <2>2, <2>3, <2>4, <2>5, DoIsCall
  <2>10. v \in Call
    BY <2>1, <2>2, <2>3, <2>4, <2>5, DoIsCall
  <2> QED
    BY <2>6, <2>7, <2>8, <2>9, <2>10
<1>3. /\ Deposit(n) = <<d>> /\ Unwrap(n) = <<w>> /\ Book(t, i) = <<b>>
      /\ Holds(t, n) = <<h>>
      /\ Require(TRUE) = <<>> /\ Require(FALSE) = <<v>>
  BY DEF Deposit, Unwrap, Book, Holds, Require
<1> HIDE DEF d, w, b, h, v
<1>4. ASSUME NEW c \in {d, w, b, h, v}
      PROVE  Part(<<c>>, a, GainOf("router", a, c), GainOf("user", a, c),
                  GainOf("pair", a, c) - BookedOf(a, c),
                  IF c.kind = "revert" THEN 1 ELSE 0)
  <2>1. c \in Call /\ ~EtherOut(c)
    BY <1>1, <1>2 DEF EtherOut
  <2> QED
    BY <2>1, OneCall
<1>5. /\ GainOf("router", a, d) = IF a = "ETH" THEN -n ELSE IF a = WETH THEN n ELSE 0
      /\ GainOf("router", a, w) = IF a = "ETH" THEN n ELSE IF a = WETH THEN -n ELSE 0
      /\ \A c \in {b, h, v} : GainOf("router", a, c) = 0
      /\ \A c \in {d, w, b, h, v} : GainOf("user", a, c) = 0 /\ GainOf("pair", a, c) = 0
      /\ \A c \in {d, w, h, v} : BookedOf(a, c) = 0
      /\ BookedOf(a, b) = When(a = t, i)
      /\ \A c \in {d, w, b, h} : c.kind # "revert"
  BY <1>1 DEF GainOf, BookedOf, When, Less
<1>6. /\ \A c \in {d, w, h, v} : GainOf("pair", a, c) - BookedOf(a, c) = 0
      /\ GainOf("pair", a, b) - BookedOf(a, b) = Less(a = t, i)
  BY <1>5 DEF When, Less
<1>7. Part(<<d>>, a, IF a = "ETH" THEN -n ELSE IF a = WETH THEN n ELSE 0, 0, 0, 0)
  BY <1>4, <1>5, <1>6
<1>8. Part(<<w>>, a, IF a = "ETH" THEN n ELSE IF a = WETH THEN -n ELSE 0, 0, 0, 0)
  BY <1>4, <1>5, <1>6
<1>9. Part(<<b>>, a, 0, 0, Less(a = t, i), 0) /\ Part(<<h>>, a, 0, 0, 0, 0)
  BY <1>4, <1>5, <1>6
<1>10. Part(<<v>>, a, 0, 0, 0, 1)
  BY <1>1, <1>4, <1>5, <1>6
<1>11. \A P \in BOOLEAN : Part(Require(P), a, 0, 0, 0, When(~P, 1))
  <2>1. When(~TRUE, 1) = 0 /\ When(~FALSE, 1) = 1
    BY DEF When, Less
  <2>2. Part(Require(TRUE), a, 0, 0, 0, 0) /\ Part(Require(FALSE), a, 0, 0, 0, 1)
    BY <1>3, <1>10, NoCall
  <2> QED
    BY <2>1, <2>2
<1> QED
  BY <1>3, <1>7, <1>8, <1>9, <1>11

\* A payment to the pair, in ether or not.
LEMMA PayInAdds ==
  ASSUME NEW a \in Asset, NEW eth \in BOOLEAN, NEW t \in Token, NEW n \in Nat
  PROVE  Part(PayIn(eth, t, n), a,
              Less(ByEther(eth, t) /\ a = "ETH", n),
              Less(~ByEther(eth, t) /\ a = t, n),
              When(a = t, n), 0)
<1>1. t \in Asset /\ t # "ETH"
  BY DEF Asset, Token
<1>2. "router" \in Party /\ "user" \in Party /\ "pair" \in Party
  BY DEF Party
<1>3. CASE ByEther(eth, t)
  <2> DEFINE v == IF a = "ETH" THEN -n ELSE IF a = WETH THEN n ELSE 0
             r == MovedOf("router", a, t, "router", "pair", n)
             u == MovedOf("user", a, t, "router", "pair", n)
             p == MovedOf("pair", a, t, "router", "pair", n)
  <2>1. Part(Deposit(n), a, v, 0, 0, 0)
    BY OtherCallsAdd
  <2>2. Part(Transfer(t, "router", "pair", n), a, r, u, p, 0)
    BY <1>1, <1>2, TransferAdds
  <2>3. /\ v + r = Less(ByEther(eth, t) /\ a = "ETH", n)
        /\ 0 + u = Less(~ByEther(eth, t) /\ a = t, n)
        /\ 0 + p = When(a = t, n) /\ 0 + 0 = 0
    <3>1. Less(ByEther(eth, t) /\ a = "ETH", n) = IF a = "ETH" THEN -n ELSE 0
      BY <1>3, Zenon DEF When, Less
    <3>2. Less(~ByEther(eth, t) /\ a = t, n) = 0
      BY <1>3, Zenon DEF When, Less
    <3>3. t = WETH
      BY <1>3 DEF ByEther
    <3>4. v + r = (IF a = "ETH" THEN -n ELSE 0) /\ 0 + u = 0 /\ 0 + 0 = 0
      BY <1>1, <3>3 DEF MovedOf
    <3>5. 0 + p = When(a = t, n)
      BY <1>1 DEF MovedOf, When, Less
    <3> QED
      BY <3>1, <3>2, <3>4, <3>5, Zenon
  <2>4. PayIn(eth, t, n) = Deposit(n) \o Transfer(t, "router", "pair", n)
    BY <1>3 DEF PayIn
  <2> HIDE DEF v, r, u, p
  <2>5. Part(PayIn(eth, t, n), a, v + r, 0 + u, 0 + p, 0 + 0)
    BY <2>1, <2>2, <2>4, PartCat, Zenon
  <2> QED
    BY <2>3, <2>5, Zenon
<1>4. CASE ~ByEther(eth, t)
  <2> DEFINE r == MovedOf("router", a, t, "user", "pair", n)
             u == MovedOf("user", a, t, "user", "pair", n)
             p == MovedOf("pair", a, t, "user", "pair", n)
  <2>1. Part(Transfer(t, "user", "pair", n), a, r, u, p, 0)
    BY <1>1, <1>2, TransferAdds
  <2>2. /\ r = Less(ByEther(eth, t) /\ a = "ETH", n)
        /\ u = Less(~ByEther(eth, t) /\ a = t, n)
        /\ p = When(a = t, n)
    <3>1. Less(ByEther(eth, t) /\ a = "ETH", n) = 0
      BY <1>4, Zenon DEF When, Less
    <3>2. Less(~ByEther(eth, t) /\ a = t, n) = IF a = t THEN -n ELSE 0
      BY <1>4, Zenon DEF When, Less
    <3>3. r = 0 /\ u = (IF a = t THEN -n ELSE 0) /\ p = When(a = t, n)
      BY <1>1 DEF MovedOf, When, Less
    <3> QED
      BY <3>1, <3>2, <3>3, Zenon
  <2>3. PayIn(eth, t, n) = Transfer(t, "user", "pair", n)
    BY <1>4 DEF PayIn
  <2> QED
    BY <2>1, <2>2, <2>3, Zenon
<1> QED
  BY <1>3, <1>4

\* A payment to the user, in ether or not.
LEMMA PayOutAdds ==
  ASSUME NEW a \in Asset, NEW eth \in BOOLEAN, NEW t \in Token, NEW n \in Nat
  PROVE  LET s == PayOut(eth, t, n)
         IN  /\ End(s, a, Less(a = t, n), Of(eth, t, n)[a], 0, 0)
             /\ ~ByEther(eth, t) => Part(s, a, Less(a = t, n), Of(eth, t, n)[a], 0, 0)
<1>1. t \in Asset /\ t # "ETH" /\ "ETH" \in Asset
  BY DEF Asset, Token
<1>2. "router" \in Party /\ "user" \in Party /\ "pair" \in Party
  BY DEF Party
<1>3. Of(eth, t, n)[a] = When(a = IF ByEther(eth, t) THEN "ETH" ELSE t, n)
  BY DEF Of, Nothing, When, Less
<1>4. ASSUME ByEther(eth, t)
      PROVE  End(PayOut(eth, t, n), a, Less(a = t, n), Of(eth, t, n)[a], 0, 0)
  <2> DEFINE v == IF a = "ETH" THEN n ELSE IF a = WETH THEN -n ELSE 0
             r == MovedOf("router", a, "ETH", "router", "user", n)
             u == MovedOf("user", a, "ETH", "router", "user", n)
             p == MovedOf("pair", a, "ETH", "router", "user", n)
  <2>1. Part(Unwrap(n), a, v, 0, 0, 0)
    BY OtherCallsAdd
  <2>2. End(Transfer("ETH", "router", "user", n), a, r, u, p, 0)
    BY <1>1, <1>2, TransferAdds
  <2>3. /\ v + r = Less(a = t, n)
        /\ 0 + u = Of(eth, t, n)[a]
        /\ 0 + p = 0 /\ 0 + 0 = 0
    BY <1>1, <1>3, <1>4 DEF ByEther, When, Less, MovedOf
  <2>4. PayOut(eth, t, n) = Unwrap(n) \o Transfer("ETH", "router", "user", n)
    BY <1>4 DEF PayOut
  <2> HIDE DEF v, r, u, p
  <2>5. End(PayOut(eth, t, n), a, v + r, 0 + u, 0 + p, 0 + 0)
    BY <2>1, <2>2, <2>4, EndCat, Zenon
  <2> QED
    BY <2>3, <2>5, Zenon
<1>5. ASSUME ~ByEther(eth, t)
      PROVE  Part(PayOut(eth, t, n), a, Less(a = t, n), Of(eth, t, n)[a], 0, 0)
  <2> DEFINE r == MovedOf("router", a, t, "router", "user", n)
             u == MovedOf("user", a, t, "router", "user", n)
             p == MovedOf("pair", a, t, "router", "user", n)
  <2>1. Part(Transfer(t, "router", "user", n), a, r, u, p, 0)
    BY <1>1, <1>2, TransferAdds
  <2>2. r = Less(a = t, n) /\ u = Of(eth, t, n)[a] /\ p = 0
    BY <1>1, <1>3, <1>5 DEF When, Less, MovedOf
  <2>3. PayOut(eth, t, n) = Transfer(t, "router", "user", n)
    BY <1>5 DEF PayOut
  <2> QED
    BY <2>1, <2>2, <2>3, Zenon
<1> QED
  BY <1>4, <1>5, PartEnds, Zenon

\* The pair pays what it takes off its books.
LEMMA PairPaysAdds ==
  ASSUME NEW a \in Asset, NEW t \in Token, NEW n \in Nat
  PROVE  Part(PairPays(t, n), a, When(a = t, n), 0, 0, 0)
<1> DEFINE b == Less(a = t, -n)
           r == MovedOf("router", a, t, "pair", "router", n)
           u == MovedOf("user", a, t, "pair", "router", n)
           p == MovedOf("pair", a, t, "pair", "router", n)
<1>1. t \in Asset /\ t # "ETH" /\ "router" \in Party /\ "pair" \in Party /\ -n \in Int
  BY DEF Asset, Token, Party
<1>2. Part(Book(t, -n), a, 0, 0, b, 0)
  BY <1>1, OtherCallsAdd
<1>3. Part(Transfer(t, "pair", "router", n), a, r, u, p, 0)
  BY <1>1, TransferAdds
<1>4. 0 + r = When(a = t, n) /\ 0 + u = 0 /\ b + p = 0 /\ 0 + 0 = 0
  BY <1>1 DEF When, Less, MovedOf
<1> HIDE DEF b, r, u, p
<1>5. Part(Book(t, -n) \o Transfer(t, "pair", "router", n), a, 0 + r, 0 + u, b + p, 0 + 0)
  BY <1>2, <1>3, PartCat, Zenon
<1> QED
  BY <1>4, <1>5, Zenon DEF PairPays

\* Both payments to the user, the ether last.
LEMMA PayOutBothAdds ==
  ASSUME NEW a \in Asset, NEW eth \in BOOLEAN, NEW t \in Token, NEW n \in Nat, NEW m \in Nat
  PROVE  End(PayOutBoth(eth, t, n, m), a,
             Less(a = t, n) + Less(a = Other(t), m), Both(eth, t, n, m)[a], 0, 0)
<1> DEFINE o == Other(t)
           r == Less(a = t, n)
           q == Less(a = o, m)
           u == Of(eth, t, n)[a]
           w == Of(eth, o, m)[a]
<1>1. o \in Token /\ o # t
  BY DEF Other, Token
<1>2. u \in Int /\ w \in Int /\ r \in Int /\ q \in Int
  BY DEF Of, Nothing, When, Less
<1>3. /\ r + q = Less(a = t, n) + Less(a = o, m)
      /\ q + r = Less(a = t, n) + Less(a = o, m)
  BY DEF When, Less
<1>4. Both(eth, t, n, m)[a] = u + w /\ Both(eth, t, n, m)[a] = w + u
  BY <1>2 DEF Both
<1>5. /\ End(PayOut(eth, t, n), a, r, u, 0, 0)
      /\ ~ByEther(eth, t) => Part(PayOut(eth, t, n), a, r, u, 0, 0)
  BY PayOutAdds, Zenon
<1>6. /\ End(PayOut(eth, o, m), a, q, w, 0, 0)
      /\ ~ByEther(eth, o) => Part(PayOut(eth, o, m), a, q, w, 0, 0)
  BY <1>1, PayOutAdds, Zenon
<1>7. ByEther(eth, t) => ~ByEther(eth, o)
  BY <1>1 DEF ByEther
<1>8. 0 + 0 = 0
  OBVIOUS
<1>9. CASE ByEther(eth, t)
  <2>1. PayOutBoth(eth, t, n, m) = PayOut(eth, o, m) \o PayOut(eth, t, n)
    BY <1>9 DEF PayOutBoth
  <2> HIDE DEF o, r, q, u, w
  <2>2. End(PayOutBoth(eth, t, n, m), a, q + r, w + u, 0 + 0, 0 + 0)
    BY <1>5, <1>6, <1>7, <1>9, <2>1, EndCat, Zenon
  <2> QED
    BY <1>3, <1>4, <1>8, <2>2, Zenon DEF o
<1>10. CASE ~ByEther(eth, t)
  <2>1. PayOutBoth(eth, t, n, m) = PayOut(eth, t, n) \o PayOut(eth, o, m)
    BY <1>10 DEF PayOutBoth
  <2> HIDE DEF o, r, q, u, w
  <2>2. End(PayOutBoth(eth, t, n, m), a, r + q, u + w, 0 + 0, 0 + 0)
    BY <1>5, <1>6, <1>10, <2>1, EndCat, Zenon
  <2> QED
    BY <1>3, <1>4, <1>8, <2>2, Zenon DEF o
<1> QED
  BY <1>9, <1>10

\* The ether that was sent along and not used.
LEMMA RefundAdds ==
  ASSUME NEW a \in Asset, NEW eth \in BOOLEAN, NEW value \in Nat, NEW n \in Nat
  PROVE  LET some == eth /\ value > n /\ a = "ETH"
         IN  End(Refund(eth, value, n), a,
                 Less(some, value - n), When(some, value - n), 0, 0)
<1> DEFINE some == eth /\ value > n /\ a = "ETH"
           back == When(some, value - n)
           paid == Less(some, value - n)
<1>1. CASE eth /\ value > n
  <2>1. value - n \in Nat /\ "ETH" \in Asset /\ "router" \in Party /\ "user" \in Party
    BY <1>1 DEF Asset, Party
  <2>2. /\ MovedOf("router", a, "ETH", "router", "user", value - n) = paid
        /\ MovedOf("user", a, "ETH", "router", "user", value - n) = back
        /\ MovedOf("pair", a, "ETH", "router", "user", value - n) = 0
    BY <1>1 DEF MovedOf, When, Less
  <2>3. Refund(eth, value, n) = Transfer("ETH", "router", "user", value - n)
    BY <1>1 DEF Refund
  <2>4. LET x == value - n
        IN  End(Transfer("ETH", "router", "user", x), a,
                MovedOf("router", a, "ETH", "router", "user", x),
                MovedOf("user", a, "ETH", "router", "user", x),
                MovedOf("pair", a, "ETH", "router", "user", x), 0)
    BY <2>1, TransferAdds
  <2> QED
    BY <2>2, <2>3, <2>4, Zenon
<1>2. CASE ~(eth /\ value > n)
  <2>1. back = 0 /\ paid = 0
    BY <1>2, Zenon DEF When, Less
  <2>2. Refund(eth, value, n) = <<>>
    BY <1>2 DEF Refund
  <2> QED
    BY <2>1, <2>2, NoCall, PartEnds, Zenon
<1> QED
  BY <1>1, <1>2

\* The pair books both amounts.
LEMMA BookBothAdds ==
  ASSUME NEW a \in Asset, NEW n \in Nat, NEW m \in Nat
  PROVE  Part(BookBoth(<<n, m>>), a, 0, 0, Less(a = "A", n) + Less(a = "B", m), 0)
<1> DEFINE x == Less(a = "A", n)
           y == Less(a = "B", m)
<1>1. "A" \in Token /\ "B" \in Token /\ n \in Int /\ m \in Int
  BY DEF Token
<1>2. Part(Book("A", n), a, 0, 0, x, 0) /\ Part(Book("B", m), a, 0, 0, y, 0)
  BY <1>1, OtherCallsAdd
<1>3. x + y = Less(a = "A", n) + Less(a = "B", m) /\ 0 + 0 = 0
  BY DEF When, Less
<1>4. BookBoth(<<n, m>>) = Book("A", n) \o Book("B", m)
  BY DEF BookBoth
<1> HIDE DEF x, y
<1>5. Part(BookBoth(<<n, m>>), a, 0 + 0, 0 + 0, x + y, 0 + 0)
  BY <1>2, <1>4, PartCat, Zenon
<1> QED
  BY <1>3, <1>5, Zenon

-----------------------------------------------------------------------------
(***************************************************************************)
(* The inductive invariant.  A transaction that has been settled in        *)
(* advance: the calls leave the router and the pair where they were, and   *)
(* either one of them reverts or the user stays within the limits.  Less   *)
(* ether than a transaction needs is its own hindrance, since the router   *)
(* starts with none.                                                       *)
(***************************************************************************)
Balances == [Holder -> [Asset -> Nat]]

Bounds == [max : [Asset -> Nat], min : [Asset -> Nat]]

Settled(s, limits) ==
  /\ s \in Seq(Call)
  /\ limits \in Bounds
  /\ EtherLast(s)
  /\ \A t \in Token : Total(RouterGain(t), s) = 0 /\ Total(PairGap(t), s) = 0
  /\ Total(RouterGain("ETH"), s) <= 0
  /\ \/ Total(Stops, s) >= 1
     \/ \A a \in Asset : Total(UserGain(a), s) >= limits.min[a] - limits.max[a]

\* What has been wrapped is there to be unwrapped.
Wrapped(b) ==
  b["weth"]["ETH"] = (b["user"][WETH] + b["router"][WETH]) + (b["pair"][WETH] + b["weth"][WETH])

Typed ==
  /\ bal \in Balances /\ books \in [Token -> Nat]
  /\ saved[1] \in Balances /\ saved[2] \in [Token -> Nat]
  /\ todo \in Seq(Call) /\ call \in Bounds

SavedBetween ==
  /\ Wrapped(saved[1])
  /\ saved[1]["router"]["ETH"] = 0
  /\ \A t \in Token : saved[1]["pair"][t] = saved[2][t]

RouterAccount ==
  /\ \A t \in Token : bal["router"][t] + Total(RouterGain(t), todo) = saved[1]["router"][t]
  /\ bal["router"]["ETH"] + Total(RouterGain("ETH"), todo) <= 0

PairAccount ==
  \A t \in Token : (bal["pair"][t] - books[t]) + Total(PairGap(t), todo) = 0

UserAccount ==
  \/ Total(Stops, todo) >= 1
  \/ \A a \in Asset :
       bal["user"][a] + Total(UserGain(a), todo)
         >= (saved[1]["user"][a] - call.max[a]) + call.min[a]

Accounted ==
  /\ Typed /\ Wrapped(bal) /\ SavedBetween /\ EtherLast(todo)
  /\ RouterAccount /\ PairAccount /\ UserAccount

-----------------------------------------------------------------------------
(***************************************************************************)
(* Every transaction is settled in advance.                                *)
(***************************************************************************)

\* What is to be shown of the calls of a transaction, asset by asset.
LEMMA SettledBy ==
  ASSUME NEW s, NEW limits \in Bounds, NEW k \in Int,
         \A a \in Asset : \E r, u, p \in Int :
           /\ End(s, a, r, u, p, k)
           /\ a \in Token => r = 0 /\ p = 0
           /\ a = "ETH" => r <= 0
           /\ k >= 1 \/ u >= limits.min[a] - limits.max[a]
  PROVE  Settled(s, limits)
<1>1. "ETH" \in Asset /\ \A t \in Token : t \in Asset
  BY DEF Asset
<1>2. s \in Seq(Call) /\ EtherLast(s) /\ Total(Stops, s) = k
  BY <1>1 DEF End, Adds
<1>3. \A t \in Token : Total(RouterGain(t), s) = 0 /\ Total(PairGap(t), s) = 0
  BY <1>1 DEF End, Adds
<1>4. Total(RouterGain("ETH"), s) <= 0
  BY <1>1 DEF End, Adds
<1>5. k >= 1 \/ \A a \in Asset : Total(UserGain(a), s) >= limits.min[a] - limits.max[a]
  BY DEF End, Adds
<1> QED
  BY <1>2, <1>3, <1>4, <1>5 DEF Settled

\* The amount in ether or in the token itself.
LEMMA OfValue ==
  ASSUME NEW eth \in BOOLEAN, NEW t \in Token, NEW n \in Nat
  PROVE  /\ Of(eth, t, n) \in [Asset -> Nat]
         /\ ByEther(eth, t) => \A a \in Asset : Of(eth, t, n)[a] = When(a = "ETH", n)
         /\ ~ByEther(eth, t) => \A a \in Asset : Of(eth, t, n)[a] = When(a = t, n)
<1>1. "ETH" \in Asset /\ t \in Asset
  BY DEF Asset
<1>2. Nothing \in [Asset -> Nat] /\ \A a \in Asset : Nothing[a] = 0
  BY DEF Nothing
<1> QED
  BY <1>1, <1>2 DEF Of, When

\* The limits of a call.
LEMMA LimitsTypes ==
  /\ Nothing \in [Asset -> Nat]
  /\ \A eth \in BOOLEAN, t \in Token, n, m \in Nat :
       /\ Both(eth, t, n, m) \in [Asset -> Nat]
       /\ \A a \in Asset :
            Both(eth, t, n, m)[a] = Of(eth, t, n)[a] + Of(eth, Other(t), m)[a]
  /\ \A max, min \in [Asset -> Nat] :
       /\ Limits(max, min) \in Bounds
       /\ Limits(max, min).max = max /\ Limits(max, min).min = min
<1>1. Nothing \in [Asset -> Nat]
  BY DEF Nothing
<1>2. ASSUME NEW eth \in BOOLEAN, NEW t \in Token, NEW n \in Nat, NEW m \in Nat
      PROVE  /\ Both(eth, t, n, m) \in [Asset -> Nat]
             /\ \A a \in Asset :
                  Both(eth, t, n, m)[a] = Of(eth, t, n)[a] + Of(eth, Other(t), m)[a]
  <2>1. Other(t) \in Token
    BY DEF Other, Token
  <2>2. Of(eth, t, n) \in [Asset -> Nat] /\ Of(eth, Other(t), m) \in [Asset -> Nat]
    BY <2>1, OfValue
  <2> QED
    BY <2>2 DEF Both
<1>3. \A max, min \in [Asset -> Nat] :
       /\ Limits(max, min) \in Bounds
       /\ Limits(max, min).max = max /\ Limits(max, min).min = min
  BY DEF Limits, Bounds
<1> QED
  BY <1>1, <1>2, <1>3

\* The ether that comes with the call.
LEMMA EtherSentAdds ==
  ASSUME NEW a \in Asset, NEW value \in Nat
  PROVE  Part(Transfer("ETH", "user", "router", value), a,
              When(a = "ETH", value), Less(a = "ETH", value), 0, 0)
<1>1. "ETH" \in Asset /\ "user" \in Party /\ "router" \in Party
  BY DEF Asset, Party
<1>2. /\ MovedOf("router", a, "ETH", "user", "router", value) = When(a = "ETH", value)
      /\ MovedOf("user", a, "ETH", "user", "router", value) = Less(a = "ETH", value)
      /\ MovedOf("pair", a, "ETH", "user", "router", value) = 0
  BY DEF MovedOf, When, Less
<1> QED
  BY <1>1, <1>2, TransferAdds

\* A condition that is required.
LEMMA RequireAdds ==
  ASSUME NEW a \in Asset, NEW P \in BOOLEAN
  PROVE  Part(Require(P), a, 0, 0, 0, When(~P, 1))
<1>1. "A" \in Token /\ 0 \in Nat /\ 0 \in Int
  BY DEF Token
<1> QED
  BY <1>1, OtherCallsAdd, Zenon

\* More of a token is more of its asset.
LEMMA OfMonotone ==
  ASSUME NEW eth \in BOOLEAN, NEW t \in Token, NEW n \in Nat, NEW m \in Nat, n <= m,
         NEW a \in Asset
  PROVE  /\ Of(eth, t, n)[a] <= Of(eth, t, m)[a]
         /\ Of(eth, t, n)[a] \in Nat /\ Of(eth, t, m)[a] \in Nat
<1>1. Of(eth, t, n)[a] \in Nat /\ Of(eth, t, m)[a] \in Nat
  BY OfValue
<1>2. CASE ByEther(eth, t)
  BY <1>2, OfValue DEF When
<1>3. CASE ~ByEther(eth, t)
  BY <1>3, OfValue DEF When
<1> QED
  BY <1>1, <1>2, <1>3

\* More of both tokens is more of every asset.
LEMMA BothMonotone ==
  ASSUME NEW eth \in BOOLEAN, NEW t \in Token,
         NEW n \in Nat, NEW m \in Nat, NEW x \in Nat, NEW y \in Nat, n <= x, m <= y,
         NEW a \in Asset
  PROVE  Both(eth, t, n, m)[a] <= Both(eth, t, x, y)[a]
<1>1. Other(t) \in Token
  BY DEF Other, Token
<1>2. /\ Of(eth, t, n)[a] <= Of(eth, t, x)[a]
      /\ Of(eth, t, n)[a] \in Nat /\ Of(eth, t, x)[a] \in Nat
  BY OfMonotone
<1>3. /\ Of(eth, Other(t), m)[a] <= Of(eth, Other(t), y)[a]
      /\ Of(eth, Other(t), m)[a] \in Nat /\ Of(eth, Other(t), y)[a] \in Nat
  BY <1>1, OfMonotone
<1>4. /\ Both(eth, t, n, m)[a] = Of(eth, t, n)[a] + Of(eth, Other(t), m)[a]
      /\ Both(eth, t, x, y)[a] = Of(eth, t, x)[a] + Of(eth, Other(t), y)[a]
  BY LimitsTypes
<1> QED
  BY <1>2, <1>3, <1>4

\* An amount of both tokens is a natural number of each asset.
LEMMA BothValue ==
  ASSUME NEW eth \in BOOLEAN, NEW t \in Token, NEW n \in Nat, NEW m \in Nat, NEW a \in Asset
  PROVE  /\ Both(eth, t, n, m)[a] \in Nat
         /\ Both(eth, t, n, m)[a] = Of(eth, t, n)[a] + Of(eth, Other(t), m)[a]
<1>1. Both(eth, t, n, m) \in [Asset -> Nat]
  BY LimitsTypes
<1>2. Both(eth, t, n, m)[a] = Of(eth, t, n)[a] + Of(eth, Other(t), m)[a]
  BY DEF Both
<1> QED
  BY <1>1, <1>2
\* longTermSwap..: what is paid is booked, the ether beyond it comes back.
LEMMA LongTermSwapSettled ==
  ASSUME NEW eth \in BOOLEAN, NEW t \in Token, NEW value \in Nat, NEW n \in Nat,
         ~ByEther(eth, t) => value = 0
  PROVE  Settled(Transfer("ETH", "user", "router", value)
                   \o (PayIn(eth, t, n) \o Book(t, n) \o Refund(ByEther(eth, t), value, n)),
                       Limits(Of(eth, t, n), Nothing))
<1> DEFINE sent == Transfer("ETH", "user", "router", value)
           paid == PayIn(eth, t, n)
           booked == Book(t, n)
           back == Refund(ByEther(eth, t), value, n)
           limits == Limits(Of(eth, t, n), Nothing)
           k == (0 + ((0 + 0) + 0))
<1>1. k \in Int /\ ByEther(eth, t) \in BOOLEAN
  BY DEF ByEther
<1>2. limits \in Bounds /\ limits.max = Of(eth, t, n) /\ limits.min = Nothing
  <2>1. Of(eth, t, n) \in [Asset -> Nat]
    BY OfValue
  <2> QED
    BY <2>1, LimitsTypes, Zenon
<1>3. ASSUME NEW a \in Asset
      PROVE  \E r, u, p \in Int :
               /\ End(sent \o ((paid \o booked) \o back), a, r, u, p, k)
               /\ a \in Token => r = 0 /\ p = 0
               /\ a = "ETH" => r <= 0
               /\ k >= 1 \/ u >= limits.min[a] - limits.max[a]
  <2> DEFINE r0 == When(a = "ETH", value)
             u0 == Less(a = "ETH", value)
             r1 == Less(ByEther(eth, t) /\ a = "ETH", n)
             u1 == Less(~ByEther(eth, t) /\ a = t, n)
             p1 == When(a = t, n)
             p2 == Less(a = t, n)
             r3 == Less(ByEther(eth, t) /\ value > n /\ a = "ETH", value - n)
             u3 == When(ByEther(eth, t) /\ value > n /\ a = "ETH", value - n)
             r == (r0 + ((r1 + 0) + r3))
             u == (u0 + ((u1 + 0) + u3))
             p == (0 + ((p1 + p2) + 0))
  <2>1. Part(sent, a, r0, u0, 0, 0)
    BY EtherSentAdds
  <2>2. Part(paid, a, r1, u1, p1, 0)
    BY PayInAdds
  <2>3. Part(booked, a, 0, 0, p2, 0)
    BY OtherCallsAdd
  <2>4. End(back, a, r3, u3, 0, 0)
    BY <1>1, RefundAdds, Zenon
  <2>5. r \in Int /\ u \in Int /\ p \in Int
    BY DEF When, Less
  <2>6. (a \in Token => r = 0 /\ p = 0) /\ (a = "ETH" => r <= 0)
    BY DEF When, Less, Asset, Token
  <2>7. k >= 1 \/ u >= limits.min[a] - limits.max[a]
    <3>1. limits.max[a] = Of(eth, t, n)[a] /\ limits.min[a] = 0
      BY <1>2 DEF Nothing
    <3>2. CASE ByEther(eth, t)
      <4>1. Of(eth, t, n)[a] = When(a = "ETH", n)
        BY <3>2, OfValue
      <4> QED
        BY <1>2, <3>1, <3>2, <4>1 DEF When, Less
    <3>3. CASE ~ByEther(eth, t)
      <4>1. Of(eth, t, n)[a] = When(a = t, n)
        BY <3>3, OfValue
      <4> QED
        BY <1>2, <3>1, <3>3, <4>1 DEF When, Less
    <3> QED
      BY <3>2, <3>3
  <2> HIDE DEF sent, paid, booked, back, limits
  <2> HIDE DEF r0, u0, r1, u1, p1, p2, r3, u3
  <2>8. Part(paid \o booked, a, (r1 + 0), (u1 + 0), (p1 + p2), (0 + 0))
    BY <2>2, <2>3, PartCat, Zenon
  <2>9. End((paid \o booked) \o back, a, ((r1 + 0) + r3), ((u1 + 0) + u3), ((p1 + p2) + 0),
            ((0 + 0) + 0))
    BY <2>8, <2>4, EndCat, Zenon
  <2>10. End(sent \o ((paid \o booked) \o back), a, r, u, p, k)
    BY <2>1, <2>9, EndCat, Zenon
  <2> HIDE DEF r, u, p
  <2> QED
    BY <2>5, <2>6, <2>7, <2>10, Zenon
<1> HIDE DEF limits, k
<1>4. Settled(sent \o ((paid \o booked) \o back), limits)
  BY <1>2, <1>1, <1>3, SettledBy, Zenon
<1> QED
  BY <1>4, Zenon DEF limits


\* cancelTermSwap..: what the pair pays is what the user gets.
LEMMA CancelTermSwapSettled ==
  ASSUME NEW eth \in BOOLEAN, NEW t \in Token, NEW n \in Nat, NEW m \in Nat
  PROVE  Settled(Transfer("ETH", "user", "router", 0)
                   \o (PairPays(Other(t), m) \o PairPays(t, n)
                       \o Holds(t, n) \o Holds(Other(t), m)
                       \o PayOutBoth(eth, t, n, m)), 
                 Limits(Nothing, Both(eth, t, n, m)))
<1> DEFINE sent == Transfer("ETH", "user", "router", 0)
           bought == PairPays(Other(t), m)
           unsold == PairPays(t, n)
           enough == Holds(t, n)
           enoughOther == Holds(Other(t), m)
           given == PayOutBoth(eth, t, n, m)
           limits == 
                 Limits(Nothing, Both(eth, t, n, m))
           k == (0 + ((((0 + 0) + 0) + 0) + 0))
<1>1. k \in Int /\ Other(t) \in Token /\ Other(t) # t
  BY DEF Other, Token
<1>2. limits \in Bounds /\ limits.max = Nothing /\ limits.min = Both(eth, t, n, m)
  <2>1. Nothing \in [Asset -> Nat]
    BY <1>1, OfValue, LimitsTypes, Zenon
  <2>2. Both(eth, t, n, m) \in [Asset -> Nat]
    BY <1>1, OfValue, LimitsTypes, Zenon
  <2> QED
    BY <2>1, <2>2, LimitsTypes, Zenon
<1>3. ASSUME NEW a \in Asset
      PROVE  \E r, u, p \in Int :
               /\ End(sent \o ((((bought \o unsold) \o enough) \o enoughOther) \o given), a, r,
                      u, p, k)
               /\ a \in Token => r = 0 /\ p = 0
               /\ a = "ETH" => r <= 0
               /\ k >= 1 \/ u >= limits.min[a] - limits.max[a]
  <2> DEFINE r0 == When(a = "ETH", 0)
             u0 == Less(a = "ETH", 0)
             r1 == When(a = Other(t), m)
             r2 == When(a = t, n)
             r5 == Less(a = t, n) + Less(a = Other(t), m)
             u5 == Both(eth, t, n, m)[a]
             r == (r0 + ((((r1 + r2) + 0) + 0) + r5))
             u == (u0 + ((((0 + 0) + 0) + 0) + u5))
             p == (0 + ((((0 + 0) + 0) + 0) + 0))
  <2>1. Part(sent, a, r0, u0, 0, 0)
    BY EtherSentAdds
  <2>2. Part(bought, a, r1, 0, 0, 0)
    BY <1>1, PairPaysAdds
  <2>3. Part(unsold, a, r2, 0, 0, 0)
    BY <1>1, PairPaysAdds
  <2>4. Part(enough, a, 0, 0, 0, 0)
    BY <1>1, OtherCallsAdd
  <2>5. Part(enoughOther, a, 0, 0, 0, 0)
    BY <1>1, OtherCallsAdd
  <2>6. End(given, a, r5, u5, 0, 0)
    BY PayOutBothAdds
  <2>7. r \in Int /\ u \in Int /\ p \in Int
    BY <1>1, BothValue, OfValue, SMTT(60) DEF When, Less
  <2>8. (a \in Token => r = 0 /\ p = 0) /\ (a = "ETH" => r <= 0)
    BY <1>1 DEF When, Less, Asset, Token
  <2>9. k >= 1 \/ u >= limits.min[a] - limits.max[a]
    <3>1. Both(eth, t, n, m)[a] \in Nat /\ limits.max[a] = 0
      BY <1>2, BothValue DEF Nothing
    <3> QED
      BY <1>2, <3>1 DEF Less
  <2> HIDE DEF sent, bought, unsold, enough, enoughOther, given, limits
  <2> HIDE DEF r0, u0, r1, r2, r5, u5
  <2>10. Part(bought \o unsold, a, (r1 + r2), (0 + 0), (0 + 0), (0 + 0))
    BY <2>2, <2>3, PartCat, Zenon
  <2>11. Part((bought \o unsold) \o enough, a, ((r1 + r2) + 0), ((0 + 0) + 0), ((0 + 0) + 0),
             ((0 + 0) + 0))
    BY <2>10, <2>4, PartCat, Zenon
  <2>12. Part(((bought \o unsold) \o enough) \o enoughOther, a, (((r1 + r2) + 0) + 0),
             (((0 + 0) + 0) + 0), (((0 + 0) + 0) + 0), (((0 + 0) + 0) + 0))
    BY <2>11, <2>5, PartCat, Zenon
  <2>13. End((((bought \o unsold) \o enough) \o enoughOther) \o given, a,
             ((((r1 + r2) + 0) + 0) + r5), ((((0 + 0) + 0) + 0) + u5),
             ((((0 + 0) + 0) + 0) + 0), ((((0 + 0) + 0) + 0) + 0))
    BY <2>12, <2>6, EndCat, Zenon
  <2>14. End(sent \o ((((bought \o unsold) \o enough) \o enoughOther) \o given), a, r, u, p, k)
    BY <2>1, <2>13, EndCat, Zenon
  <2> HIDE DEF r, u, p
  <2> QED
    BY <2>7, <2>8, <2>9, <2>14, Zenon
<1> HIDE DEF limits, k
<1>4. Settled(sent \o ((((bought \o unsold) \o enough) \o enoughOther) \o given), limits)
  BY <1>2, <1>1, <1>3, SettledBy, Zenon
<1> QED
  BY <1>4, Zenon DEF limits

\* withdrawProceedsFromTermSwap..: what the pair pays is what the user gets.
LEMMA WithdrawProceedsSettled ==
  ASSUME NEW eth \in BOOLEAN, NEW t \in Token, NEW n \in Nat
  PROVE  Settled(Transfer("ETH", "user", "router", 0)
                   \o (PairPays(Other(t), n) \o Holds(Other(t), n)
                       \o PayOut(eth, Other(t), n)), 
                 Limits(Nothing, Of(eth, Other(t), n)))
<1> DEFINE sent == Transfer("ETH", "user", "router", 0)
           proceeds == PairPays(Other(t), n)
           enough == Holds(Other(t), n)
           given == PayOut(eth, Other(t), n)
           limits == 
                 Limits(Nothing, Of(eth, Other(t), n))
           k == (0 + ((0 + 0) + 0))
<1>1. k \in Int /\ Other(t) \in Token /\ Other(t) # t
  BY DEF Other, Token
<1>2. limits \in Bounds /\ limits.max = Nothing /\ limits.min = Of(eth, Other(t), n)
  <2>1. Nothing \in [Asset -> Nat]
    BY <1>1, OfValue, LimitsTypes, Zenon
  <2>2. Of(eth, Other(t), n) \in [Asset -> Nat]
    BY <1>1, OfValue, LimitsTypes, Zenon
  <2> QED
    BY <2>1, <2>2, LimitsTypes, Zenon
<1>3. ASSUME NEW a \in Asset
      PROVE  \E r, u, p \in Int :
               /\ End(sent \o ((proceeds \o enough) \o given), a, r, u, p, k)
               /\ a \in Token => r = 0 /\ p = 0
               /\ a = "ETH" => r <= 0
               /\ k >= 1 \/ u >= limits.min[a] - limits.max[a]
  <2> DEFINE r0 == When(a = "ETH", 0)
             u0 == Less(a = "ETH", 0)
             r1 == When(a = Other(t), n)
             r3 == Less(a = Other(t), n)
             u3 == Of(eth, Other(t), n)[a]
             r == (r0 + ((r1 + 0) + r3))
             u == (u0 + ((0 + 0) + u3))
             p == (0 + ((0 + 0) + 0))
  <2>1. Part(sent, a, r0, u0, 0, 0)
    BY EtherSentAdds
  <2>2. Part(proceeds, a, r1, 0, 0, 0)
    BY <1>1, PairPaysAdds
  <2>3. Part(enough, a, 0, 0, 0, 0)
    BY <1>1, OtherCallsAdd
  <2>4. End(given, a, r3, u3, 0, 0)
    BY <1>1, PayOutAdds, Zenon
  <2>5. r \in Int /\ u \in Int /\ p \in Int
    BY <1>1, BothValue, OfValue DEF When, Less
  <2>6. (a \in Token => r = 0 /\ p = 0) /\ (a = "ETH" => r <= 0)
    BY <1>1 DEF When, Less, Asset, Token
  <2>7. k >= 1 \/ u >= limits.min[a] - limits.max[a]
    <3>1. Of(eth, Other(t), n)[a] \in Nat /\ limits.max[a] = 0
      BY <1>2, <1>1, OfValue DEF Nothing
    <3> QED
      BY <1>2, <3>1 DEF Less
  <2> HIDE DEF sent, proceeds, enough, given, limits
  <2> HIDE DEF r0, u0, r1, r3, u3
  <2>8. Part(proceeds \o enough, a, (r1 + 0), (0 + 0), (0 + 0), (0 + 0))
    BY <2>2, <2>3, PartCat, Zenon
  <2>9. End((proceeds \o enough) \o given, a, ((r1 + 0) + r3), ((0 + 0) + u3), ((0 + 0) + 0),
            ((0 + 0) + 0))
    BY <2>8, <2>4, EndCat, Zenon
  <2>10. End(sent \o ((proceeds \o enough) \o given), a, r, u, p, k)
    BY <2>1, <2>9, EndCat, Zenon
  <2> HIDE DEF r, u, p
  <2> QED
    BY <2>5, <2>6, <2>7, <2>10, Zenon
<1> HIDE DEF limits, k
<1>4. Settled(sent \o ((proceeds \o enough) \o given), limits)
  BY <1>2, <1>1, <1>3, SettledBy, Zenon
<1> QED
  BY <1>4, Zenon DEF limits

\* withdrawLiquidity..: what the pair pays is what the user gets, or too little.
LEMMA WithdrawLiquiditySettled ==
  ASSUME NEW eth \in BOOLEAN, NEW t \in Token, NEW n \in Nat, NEW m \in Nat,
         NEW x \in Nat, NEW y \in Nat, IF t = "A" THEN n = x /\ m = y ELSE n = y /\ m = x,
         NEW min \in Nat, NEW minOther \in Nat
  PROVE  Settled(Transfer("ETH", "user", "router", 0)
                   \o (PairPays("A", x) \o PairPays("B", y)
                       \o Require(n >= min /\ m >= minOther)
                       \o Holds(t, n) \o Holds(Other(t), m)
                       \o PayOutBoth(eth, t, n, m)), 
                 Limits(Nothing, Both(eth, t, min, minOther)))
<1> DEFINE sent == Transfer("ETH", "user", "router", 0)
           paid == PairPays("A", x)
           paidOther == PairPays("B", y)
           noLess == Require(n >= min /\ m >= minOther)
           enough == Holds(t, n)
           enoughOther == Holds(Other(t), m)
           given == PayOutBoth(eth, t, n, m)
           limits == 
                 Limits(Nothing, Both(eth, t, min, minOther))
           k == (0 + (((((0 + 0) + When(~(n >= min /\ m >= minOther), 1)) + 0) + 0) + 0))
<1>1. k \in Int /\ "A" \in Token /\ "B" \in Token
      /\ Other(t) \in Token /\ Other(t) # t
      /\ (n >= min /\ m >= minOther) \in BOOLEAN
  BY DEF Other, Token, When
<1>2. limits \in Bounds /\ limits.max = Nothing /\ limits.min = Both(eth, t, min, minOther)
  <2>1. Nothing \in [Asset -> Nat]
    BY <1>1, OfValue, LimitsTypes, Zenon
  <2>2. Both(eth, t, min, minOther) \in [Asset -> Nat]
    BY <1>1, OfValue, LimitsTypes, Zenon
  <2> QED
    BY <2>1, <2>2, LimitsTypes, Zenon
<1>3. ASSUME NEW a \in Asset
      PROVE  \E r, u, p \in Int :
               /\ End(sent \o (((((paid \o paidOther) \o noLess) \o enough) \o enoughOther)
                      \o given), a, r, u, p, k)
               /\ a \in Token => r = 0 /\ p = 0
               /\ a = "ETH" => r <= 0
               /\ k >= 1 \/ u >= limits.min[a] - limits.max[a]
  <2> DEFINE r0 == When(a = "ETH", 0)
             u0 == Less(a = "ETH", 0)
             r1 == When(a = "A", x)
             r2 == When(a = "B", y)
             r6 == Less(a = t, n) + Less(a = Other(t), m)
             u6 == Both(eth, t, n, m)[a]
             r == (r0 + (((((r1 + r2) + 0) + 0) + 0) + r6))
             u == (u0 + (((((0 + 0) + 0) + 0) + 0) + u6))
             p == (0 + (((((0 + 0) + 0) + 0) + 0) + 0))
  <2>1. Part(sent, a, r0, u0, 0, 0)
    BY EtherSentAdds
  <2>2. Part(paid, a, r1, 0, 0, 0)
    BY <1>1, PairPaysAdds
  <2>3. Part(paidOther, a, r2, 0, 0, 0)
    BY <1>1, PairPaysAdds
  <2>4. Part(noLess, a, 0, 0, 0, When(~(n >= min /\ m >= minOther), 1))
    BY <1>1, RequireAdds, Zenon
  <2>5. Part(enough, a, 0, 0, 0, 0)
    BY <1>1, OtherCallsAdd
  <2>6. Part(enoughOther, a, 0, 0, 0, 0)
    BY <1>1, OtherCallsAdd
  <2>7. End(given, a, r6, u6, 0, 0)
    BY PayOutBothAdds
  <2>8. r \in Int /\ u \in Int /\ p \in Int
    <3>1. Both(eth, t, n, m)[a] \in Int
      BY BothValue
    <3>2. r \in Int /\ p \in Int
      BY DEF When, Less
    <3>3. u \in Int
      <4> HIDE DEF r, p
      <4> QED
        BY <3>1 DEF Less
    <3> QED
      BY <3>2, <3>3
  <2>9. (a \in Token => r = 0 /\ p = 0) /\ (a = "ETH" => r <= 0)
    BY <1>1 DEF When, Less, Asset, Token, Other
  <2>10. k >= 1 \/ u >= limits.min[a] - limits.max[a]
    <3>1. Both(eth, t, min, minOther)[a] \in Nat /\ Both(eth, t, n, m)[a] \in Nat
      BY BothValue
    <3>2. limits.max[a] = 0 /\ limits.min[a] = Both(eth, t, min, minOther)[a]
      BY <1>2 DEF Nothing
    <3>3. CASE n >= min /\ m >= minOther
      <4>1. Both(eth, t, min, minOther)[a] <= Both(eth, t, n, m)[a]
        BY <3>3, BothMonotone
      <4> QED
        BY <3>1, <3>2, <4>1 DEF Less
    <3>4. CASE ~(n >= min /\ m >= minOther)
      BY <3>4 DEF When
    <3> QED
      BY <3>3, <3>4
  <2> HIDE DEF sent, paid, paidOther, noLess, enough, enoughOther, given, limits
  <2> HIDE DEF r0, u0, r1, r2, r6, u6
  <2>11. Part(paid \o paidOther, a, (r1 + r2), (0 + 0), (0 + 0), (0 + 0))
    BY <2>2, <2>3, PartCat, Zenon
  <2>12. Part((paid \o paidOther) \o noLess, a, ((r1 + r2) + 0), ((0 + 0) + 0), ((0 + 0) + 0),
             ((0 + 0) + When(~(n >= min /\ m >= minOther), 1)))
    BY <2>11, <2>4, PartCat, Zenon
  <2>13. Part(((paid \o paidOther) \o noLess) \o enough, a, (((r1 + r2) + 0) + 0),
             (((0 + 0) + 0) + 0), (((0 + 0) + 0) + 0),
             (((0 + 0) + When(~(n >= min /\ m >= minOther), 1)) + 0))
    BY <2>12, <2>5, PartCat, Zenon
  <2>14. Part((((paid \o paidOther) \o noLess) \o enough) \o enoughOther, a,
             ((((r1 + r2) + 0) + 0) + 0), ((((0 + 0) + 0) + 0) + 0), ((((0 + 0) + 0) + 0) + 0),
             ((((0 + 0) + When(~(n >= min /\ m >= minOther), 1)) + 0) + 0))
    BY <2>13, <2>6, PartCat, Zenon
  <2>15. End(((((paid \o paidOther) \o noLess) \o enough) \o enoughOther) \o given, a,
             (((((r1 + r2) + 0) + 0) + 0) + r6), (((((0 + 0) + 0) + 0) + 0) + u6),
             (((((0 + 0) + 0) + 0) + 0) + 0),
             (((((0 + 0) + When(~(n >= min /\ m >= minOther), 1)) + 0) + 0) + 0))
    BY <2>14, <2>7, EndCat, Zenon
  <2>16. End(sent \o (((((paid \o paidOther) \o noLess) \o enough) \o enoughOther) \o given), a,
             r, u, p, k)
    BY <2>1, <2>15, EndCat, Zenon
  <2> HIDE DEF r, u, p
  <2> QED
    BY <2>8, <2>9, <2>10, <2>16, Zenon
<1> HIDE DEF limits, k
<1>4. Settled(sent \o (((((paid \o paidOther) \o noLess) \o enough) \o enoughOther) \o given),
          limits)
  BY <1>2, <1>1, <1>3, SettledBy, Zenon
<1> QED
  BY <1>4, Zenon DEF limits

\* addInitialLiquidity..: what is paid is booked, ether beyond it comes back.
LEMMA AddInitialLiquiditySettled ==
  ASSUME NEW eth \in BOOLEAN, NEW t \in Token, NEW n \in Nat, NEW m \in Nat,
         NEW value \in Nat, ~eth => value = 0, eth => t # WETH,
         NEW x \in Nat, NEW y \in Nat, IF t = "A" THEN n = x /\ m = y ELSE n = y /\ m = x
  PROVE  Settled(Transfer("ETH", "user", "router", value)
                   \o (PayIn(eth, t, n) \o PayIn(eth, Other(t), m) \o BookBoth(<<x, y>>)
                       \o Refund(eth, value, EtherIn(t, n, m))), 
                 Limits(Both(eth, t, n, m), Nothing))
<1> DEFINE sent == Transfer("ETH", "user", "router", value)
           paid == PayIn(eth, t, n)
           paidOther == PayIn(eth, Other(t), m)
           booked == BookBoth(<<x, y>>)
           back == Refund(eth, value, EtherIn(t, n, m))
           limits == 
                 Limits(Both(eth, t, n, m), Nothing)
           k == (0 + (((0 + 0) + 0) + 0))
<1>1. k \in Int /\ Other(t) \in Token /\ Other(t) # t
      /\ EtherIn(t, n, m) \in Nat
  BY DEF Other, Token, EtherIn
<1>2. limits \in Bounds /\ limits.max = Both(eth, t, n, m) /\ limits.min = Nothing
  <2>1. Nothing \in [Asset -> Nat]
    BY <1>1, OfValue, LimitsTypes, Zenon
  <2>2. Both(eth, t, n, m) \in [Asset -> Nat]
    BY <1>1, OfValue, LimitsTypes, Zenon
  <2> QED
    BY <2>1, <2>2, LimitsTypes, Zenon
<1>3. ASSUME NEW a \in Asset
      PROVE  \E r, u, p \in Int :
               /\ End(sent \o (((paid \o paidOther) \o booked) \o back), a, r, u, p, k)
               /\ a \in Token => r = 0 /\ p = 0
               /\ a = "ETH" => r <= 0
               /\ k >= 1 \/ u >= limits.min[a] - limits.max[a]
  <2> DEFINE r0 == When(a = "ETH", value)
             u0 == Less(a = "ETH", value)
             r1 == Less(ByEther(eth, t) /\ a = "ETH", n)
             u1 == Less(~ByEther(eth, t) /\ a = t, n)
             p1 == When(a = t, n)
             r2 == Less(ByEther(eth, Other(t)) /\ a = "ETH", m)
             u2 == Less(~ByEther(eth, Other(t)) /\ a = Other(t), m)
             p2 == When(a = Other(t), m)
             p3 == Less(a = "A", x) + Less(a = "B", y)
             r4 == Less(eth /\ value > EtherIn(t, n, m) /\ a = "ETH", value - EtherIn(t, n, m))
             u4 == When(eth /\ value > EtherIn(t, n, m) /\ a = "ETH", value - EtherIn(t, n, m))
             r == (r0 + (((r1 + r2) + 0) + r4))
             u == (u0 + (((u1 + u2) + 0) + u4))
             p == (0 + (((p1 + p2) + p3) + 0))
  <2>1. Part(sent, a, r0, u0, 0, 0)
    BY EtherSentAdds
  <2>2. Part(paid, a, r1, u1, p1, 0)
    BY PayInAdds
  <2>3. Part(paidOther, a, r2, u2, p2, 0)
    BY <1>1, PayInAdds, ZenonT(60)
  <2>4. Part(booked, a, 0, 0, p3, 0)
    BY BookBothAdds
  <2>5. End(back, a, r4, u4, 0, 0)
    BY <1>1, RefundAdds, Zenon
  <2>6. r \in Int /\ u \in Int /\ p \in Int
    BY <1>1 DEF When, Less
  <2>7. (a \in Token => r = 0 /\ p = 0) /\ (a = "ETH" => r <= 0)
    <3>1. t \in Token /\ Other(t) \in Token /\ Other(t) # t /\ WETH \in Token
          /\ (a \in Token => a # "ETH" /\ (a = t \/ a = Other(t)))
          /\ (a = "ETH" => a # t /\ a # Other(t) /\ a # "A" /\ a # "B")
      BY <1>1, WETHAssumption DEF Token, Other
    <3>2. p1 + p2 = When(a = "A", x) + When(a = "B", y)
      BY <1>1 DEF When, Other, Token
    <3>3. p = 0
      BY <3>2 DEF When, Less
    <3>4. CASE ~eth
      <4>1. ~ByEther(eth, t) /\ ~ByEther(eth, Other(t))
        BY <3>4 DEF ByEther
      <4> QED
        BY <3>1, <3>3, <3>4, <4>1 DEF When, Less
    <3>5. CASE eth
      <4>1. ~ByEther(eth, t) /\ ByEther(eth, Other(t)) /\ EtherIn(t, n, m) = m
        BY <1>1, <3>5, WETHAssumption DEF ByEther, Token, EtherIn
      <4> QED
        BY <3>1, <3>3, <3>5, <4>1 DEF When, Less
    <3> QED
      BY <3>4, <3>5
  <2>8. k >= 1 \/ u >= limits.min[a] - limits.max[a]
    <3>1. limits.max[a] = Of(eth, t, n)[a] + Of(eth, Other(t), m)[a] /\ limits.min[a] = 0
      <4>1. Both(eth, t, n, m)[a] = Of(eth, t, n)[a] + Of(eth, Other(t), m)[a]
        BY BothValue
      <4> QED
        BY <1>2, <4>1 DEF Nothing
    <3>2. CASE ~eth
      <4>1. ~ByEther(eth, t) /\ ~ByEther(eth, Other(t))
        BY <3>2 DEF ByEther
      <4>2. Of(eth, t, n)[a] = When(a = t, n)
        BY <4>1, OfValue
      <4>3. Of(eth, Other(t), m)[a] = When(a = Other(t), m)
        BY <1>1, <4>1, OfValue
      <4> QED
        BY <1>1, <3>1, <3>2, <4>1, <4>2, <4>3 DEF When, Less
    <3>3. CASE eth
      <4>1. ~ByEther(eth, t) /\ ByEther(eth, Other(t)) /\ EtherIn(t, n, m) = m
        BY <1>1, <3>3, WETHAssumption DEF ByEther, Token, EtherIn
      <4>2. Of(eth, t, n)[a] = When(a = t, n)
        BY <4>1, OfValue
      <4>3. Of(eth, Other(t), m)[a] = When(a = "ETH", m)
        BY <1>1, <4>1, OfValue
      <4>4. a = "ETH" => a # t
        BY DEF Token
      <4>5. u0 + u4 >= -When(a = "ETH", m) /\ u0 \in Int /\ u4 \in Int
        BY <3>3, <4>1 DEF When, Less
      <4>6. u1 = Less(a = t, n) /\ u2 = 0
        BY <4>1, Zenon DEF Less
      <4> HIDE DEF u0, u1, u2, u4
      <4> QED
        BY <3>1, <4>2, <4>3, <4>5, <4>6 DEF When, Less
    <3> QED
      BY <3>2, <3>3
  <2> HIDE DEF sent, paid, paidOther, booked, back, limits
  <2> HIDE DEF r0, u0, r1, u1, p1, r2, u2, p2, p3, r4, u4
  <2>9. Part(paid \o paidOther, a, (r1 + r2), (u1 + u2), (p1 + p2), (0 + 0))
    BY <2>2, <2>3, PartCat, Zenon
  <2>10. Part((paid \o paidOther) \o booked, a, ((r1 + r2) + 0), ((u1 + u2) + 0),
             ((p1 + p2) + p3), ((0 + 0) + 0))
    BY <2>9, <2>4, PartCat, Zenon
  <2>11. End(((paid \o paidOther) \o booked) \o back, a, (((r1 + r2) + 0) + r4),
             (((u1 + u2) + 0) + u4), (((p1 + p2) + p3) + 0), (((0 + 0) + 0) + 0))
    BY <2>10, <2>5, EndCat, Zenon
  <2>12. End(sent \o (((paid \o paidOther) \o booked) \o back), a, r, u, p, k)
    BY <2>1, <2>11, EndCat, Zenon
  <2> HIDE DEF r, u, p
  <2> QED
    BY <2>6, <2>7, <2>8, <2>12, Zenon
<1> HIDE DEF limits, k
<1>4. Settled(sent \o (((paid \o paidOther) \o booked) \o back), limits)
  BY <1>2, <1>1, <1>3, SettledBy, Zenon
<1> QED
  BY <1>4, Zenon DEF limits

\* addLiquidity..: what is paid is booked, or it is too much.
LEMMA AddLiquiditySettled ==
  ASSUME NEW eth \in BOOLEAN, NEW t \in Token, NEW n \in Nat, NEW m \in Nat,
         NEW value \in Nat, ~eth => value = 0, eth => t # WETH,
         NEW x \in Nat, NEW y \in Nat, IF t = "A" THEN n = x /\ m = y ELSE n = y /\ m = x,
         NEW max \in Nat, NEW maxOther \in Nat
  PROVE  Settled(Transfer("ETH", "user", "router", value)
                   \o (Require(n <= max /\ m <= maxOther)
                       \o PayIn(eth, t, n) \o PayIn(eth, Other(t), m) \o BookBoth(<<x, y>>)
                       \o Refund(eth, value, EtherIn(t, n, m))), 
                 Limits(Both(eth, t, max, maxOther), Nothing))
<1> DEFINE sent == Transfer("ETH", "user", "router", value)
           noMore == Require(n <= max /\ m <= maxOther)
           paid == PayIn(eth, t, n)
           paidOther == PayIn(eth, Other(t), m)
           booked == BookBoth(<<x, y>>)
           back == Refund(eth, value, EtherIn(t, n, m))
           limits == 
                 Limits(Both(eth, t, max, maxOther), Nothing)
           k == (0 + ((((When(~(n <= max /\ m <= maxOther), 1) + 0) + 0) + 0) + 0))
<1>1. k \in Int /\ Other(t) \in Token /\ Other(t) # t
      /\ EtherIn(t, n, m) \in Nat
      /\ (n <= max /\ m <= maxOther) \in BOOLEAN
  BY DEF Other, Token, EtherIn, When
<1>2. limits \in Bounds /\ limits.max = Both(eth, t, max, maxOther) /\ limits.min = Nothing
  <2>1. Nothing \in [Asset -> Nat]
    BY <1>1, OfValue, LimitsTypes, Zenon
  <2>2. Both(eth, t, max, maxOther) \in [Asset -> Nat]
    BY <1>1, OfValue, LimitsTypes, Zenon
  <2> QED
    BY <2>1, <2>2, LimitsTypes, Zenon
<1>3. ASSUME NEW a \in Asset
      PROVE  \E r, u, p \in Int :
               /\ End(sent \o ((((noMore \o paid) \o paidOther) \o booked) \o back), a, r, u, p, k)
               /\ a \in Token => r = 0 /\ p = 0
               /\ a = "ETH" => r <= 0
               /\ k >= 1 \/ u >= limits.min[a] - limits.max[a]
  <2> DEFINE r0 == When(a = "ETH", value)
             u0 == Less(a = "ETH", value)
             r2 == Less(ByEther(eth, t) /\ a = "ETH", n)
             u2 == Less(~ByEther(eth, t) /\ a = t, n)
             p2 == When(a = t, n)
             r3 == Less(ByEther(eth, Other(t)) /\ a = "ETH", m)
             u3 == Less(~ByEther(eth, Other(t)) /\ a = Other(t), m)
             p3 == When(a = Other(t), m)
             p4 == Less(a = "A", x) + Less(a = "B", y)
             r5 == Less(eth /\ value > EtherIn(t, n, m) /\ a = "ETH", value - EtherIn(t, n, m))
             u5 == When(eth /\ value > EtherIn(t, n, m) /\ a = "ETH", value - EtherIn(t, n, m))
             r == (r0 + ((((0 + r2) + r3) + 0) + r5))
             u == (u0 + ((((0 + u2) + u3) + 0) + u5))
             p == (0 + ((((0 + p2) + p3) + p4) + 0))
  <2>1. Part(sent, a, r0, u0, 0, 0)
    BY EtherSentAdds
  <2>2. Part(noMore, a, 0, 0, 0, When(~(n <= max /\ m <= maxOther), 1))
    BY <1>1, RequireAdds, Zenon
  <2>3. Part(paid, a, r2, u2, p2, 0)
    BY PayInAdds
  <2>4. Part(paidOther, a, r3, u3, p3, 0)
    BY <1>1, PayInAdds, ZenonT(60)
  <2>5. Part(booked, a, 0, 0, p4, 0)
    BY BookBothAdds
  <2>6. End(back, a, r5, u5, 0, 0)
    BY <1>1, RefundAdds, Zenon
  <2>7. r \in Int /\ u \in Int /\ p \in Int
    BY <1>1 DEF When, Less
  <2>8. (a \in Token => r = 0 /\ p = 0) /\ (a = "ETH" => r <= 0)
    <3>1. t \in Token /\ Other(t) \in Token /\ Other(t) # t /\ WETH \in Token
          /\ (a \in Token => a # "ETH" /\ (a = t \/ a = Other(t)))
          /\ (a = "ETH" => a # t /\ a # Other(t) /\ a # "A" /\ a # "B")
      BY <1>1, WETHAssumption DEF Token, Other
    <3>2. p2 + p3 = When(a = "A", x) + When(a = "B", y)
      BY <1>1 DEF When, Other, Token
    <3>3. p = 0
      BY <3>2 DEF When, Less
    <3>4. CASE ~eth
      <4>1. ~ByEther(eth, t) /\ ~ByEther(eth, Other(t))
        BY <3>4 DEF ByEther
      <4> QED
        BY <3>1, <3>3, <3>4, <4>1 DEF When, Less
    <3>5. CASE eth
      <4>1. ~ByEther(eth, t) /\ ByEther(eth, Other(t)) /\ EtherIn(t, n, m) = m
        BY <1>1, <3>5, WETHAssumption DEF ByEther, Token, EtherIn
      <4> QED
        BY <3>1, <3>3, <3>5, <4>1 DEF When, Less
    <3> QED
      BY <3>4, <3>5
  <2>9. k >= 1 \/ u >= limits.min[a] - limits.max[a]
    <3>1. limits.max[a] = Of(eth, t, max)[a] + Of(eth, Other(t), maxOther)[a] /\ limits.min[a] = 0
      <4>1. Both(eth, t, max, maxOther)[a] = Of(eth, t, max)[a] + Of(eth, Other(t), maxOther)[a]
        BY BothValue
      <4> QED
        BY <1>2, <4>1 DEF Nothing
    <3>2. CASE ~(n <= max /\ m <= maxOther)
      BY <3>2 DEF When
    <3>3. ASSUME n <= max, m <= maxOther
          PROVE  u >= limits.min[a] - limits.max[a]
      <4>1. CASE ~eth
        <5>1. ~ByEther(eth, t) /\ ~ByEther(eth, Other(t))
          BY <4>1 DEF ByEther
        <5>2. Of(eth, t, max)[a] = When(a = t, max)
          BY <5>1, OfValue
        <5>3. Of(eth, Other(t), maxOther)[a] = When(a = Other(t), maxOther)
          BY <1>1, <5>1, OfValue
        <5> QED
          BY <1>1, <3>1, <4>1, <5>1, <5>2, <5>3, <3>3 DEF When, Less
      <4>2. CASE eth
        <5>1. ~ByEther(eth, t) /\ ByEther(eth, Other(t)) /\ EtherIn(t, n, m) = m
          BY <1>1, <4>2, WETHAssumption DEF ByEther, Token, EtherIn
        <5>2. Of(eth, t, max)[a] = When(a = t, max)
          BY <5>1, OfValue
        <5>3. Of(eth, Other(t), maxOther)[a] = When(a = "ETH", maxOther)
          BY <1>1, <5>1, OfValue
        <5>4. a = "ETH" => a # t
          BY DEF Token
        <5>5. u0 + u5 >= -When(a = "ETH", m) /\ u0 \in Int /\ u5 \in Int
          BY <4>2, <5>1 DEF When, Less
        <5>6. u2 = Less(a = t, n) /\ u3 = 0
          BY <5>1, Zenon DEF Less
        <5> HIDE DEF u0, u2, u3, u5
        <5> QED
          BY <3>1, <5>2, <5>3, <5>5, <5>6, <3>3 DEF When, Less
      <4> QED
        BY <4>1, <4>2
    <3> QED
      BY <3>2, <3>3
  <2> HIDE DEF sent, noMore, paid, paidOther, booked, back, limits
  <2> HIDE DEF r0, u0, r2, u2, p2, r3, u3, p3, p4, r5, u5
  <2>10. Part(noMore \o paid, a, (0 + r2), (0 + u2), (0 + p2),
             (When(~(n <= max /\ m <= maxOther), 1) + 0))
    BY <2>2, <2>3, PartCat, Zenon
  <2>11. Part((noMore \o paid) \o paidOther, a, ((0 + r2) + r3), ((0 + u2) + u3),
             ((0 + p2) + p3), ((When(~(n <= max /\ m <= maxOther), 1) + 0) + 0))
    BY <2>10, <2>4, PartCat, Zenon
  <2>12. Part(((noMore \o paid) \o paidOther) \o booked, a, (((0 + r2) + r3) + 0),
             (((0 + u2) + u3) + 0), (((0 + p2) + p3) + p4),
             (((When(~(n <= max /\ m <= maxOther), 1) + 0) + 0) + 0))
    BY <2>11, <2>5, PartCat, Zenon
  <2>13. End((((noMore \o paid) \o paidOther) \o booked) \o back, a,
             ((((0 + r2) + r3) + 0) + r5), ((((0 + u2) + u3) + 0) + u5),
             ((((0 + p2) + p3) + p4) + 0),
             ((((When(~(n <= max /\ m <= maxOther), 1) + 0) + 0) + 0) + 0))
    BY <2>12, <2>6, EndCat, Zenon
  <2>14. End(sent \o ((((noMore \o paid) \o paidOther) \o booked) \o back), a, r, u, p, k)
    BY <2>1, <2>13, EndCat, Zenon
  <2> HIDE DEF r, u, p
  <2> QED
    BY <2>7, <2>8, <2>9, <2>14, Zenon
<1> HIDE DEF limits, k
<1>4. Settled(sent \o ((((noMore \o paid) \o paidOther) \o booked) \o back), limits)
  BY <1>2, <1>1, <1>3, SettledBy, Zenon
<1> QED
  BY <1>4, Zenon DEF limits

\* instantSwap..: what is paid is booked, what the pair pays is what the user
\* gets, or too little, and the ether beyond what is paid comes back.
LEMMA InstantSwapSettled ==
  ASSUME NEW eth \in BOOLEAN, NEW t \in Token, NEW n \in Nat, NEW o \in Nat,
         NEW value \in Nat, ~ByEther(eth, t) => value = 0, NEW min \in Nat
  PROVE  Settled(Transfer("ETH", "user", "router", value)
                   \o (PayIn(eth, t, n) \o Book(t, n) \o PairPays(Other(t), o)
                       \o Require(o >= min) \o Holds(Other(t), o)
                       \o PayOut(eth, Other(t), o)
                       \o Refund(ByEther(eth, t), value, n)), 
                 Limits(Of(eth, t, n), Of(eth, Other(t), min)))
<1> DEFINE sent == Transfer("ETH", "user", "router", value)
           paid == PayIn(eth, t, n)
           booked == Book(t, n)
           paidBack == PairPays(Other(t), o)
           noLess == Require(o >= min)
           enough == Holds(Other(t), o)
           given == PayOut(eth, Other(t), o)
           back == Refund(ByEther(eth, t), value, n)
           limits == 
                 Limits(Of(eth, t, n), Of(eth, Other(t), min))
           k == (0 + ((((((0 + 0) + 0) + When(~(o >= min), 1)) + 0) + 0) + 0))
<1>1. k \in Int /\ Other(t) \in Token /\ Other(t) # t
      /\ ByEther(eth, t) \in BOOLEAN /\ (o >= min) \in BOOLEAN
  BY DEF Other, Token, When, ByEther
<1>2. limits \in Bounds /\ limits.max = Of(eth, t, n) /\ limits.min = Of(eth, Other(t), min)
  <2>1. Of(eth, t, n) \in [Asset -> Nat]
    BY <1>1, OfValue, LimitsTypes, Zenon
  <2>2. Of(eth, Other(t), min) \in [Asset -> Nat]
    BY <1>1, OfValue, LimitsTypes, Zenon
  <2> QED
    BY <2>1, <2>2, LimitsTypes, Zenon
<1>3. ASSUME NEW a \in Asset
      PROVE  \E r, u, p \in Int :
               /\ End(sent \o ((((((paid \o booked) \o paidBack) \o noLess) \o enough)
                      \o given) \o back), a, r, u, p, k)
               /\ a \in Token => r = 0 /\ p = 0
               /\ a = "ETH" => r <= 0
               /\ k >= 1 \/ u >= limits.min[a] - limits.max[a]
  <2> DEFINE r0 == When(a = "ETH", value)
             u0 == Less(a = "ETH", value)
             r1 == Less(ByEther(eth, t) /\ a = "ETH", n)
             u1 == Less(~ByEther(eth, t) /\ a = t, n)
             p1 == When(a = t, n)
             p2 == Less(a = t, n)
             r3 == When(a = Other(t), o)
             r6 == Less(a = Other(t), o)
             u6 == Of(eth, Other(t), o)[a]
             r7 == Less(ByEther(eth, t) /\ value > n /\ a = "ETH", value - n)
             u7 == When(ByEther(eth, t) /\ value > n /\ a = "ETH", value - n)
             r == (r0 + ((((((r1 + 0) + r3) + 0) + 0) + r6) + r7))
             u == (u0 + ((((((u1 + 0) + 0) + 0) + 0) + u6) + u7))
             p == (0 + ((((((p1 + p2) + 0) + 0) + 0) + 0) + 0))
  <2>1. Part(sent, a, r0, u0, 0, 0)
    BY EtherSentAdds
  <2>2. Part(paid, a, r1, u1, p1, 0)
    BY PayInAdds
  <2>3. Part(booked, a, 0, 0, p2, 0)
    BY OtherCallsAdd
  <2>4. Part(paidBack, a, r3, 0, 0, 0)
    BY <1>1, PairPaysAdds
  <2>5. Part(noLess, a, 0, 0, 0, When(~(o >= min), 1))
    BY <1>1, RequireAdds, Zenon
  <2>6. Part(enough, a, 0, 0, 0, 0)
    BY <1>1, OtherCallsAdd
  <2>7. /\ End(given, a, r6, u6, 0, 0)
        /\ ~ByEther(eth, Other(t)) => Part(given, a, r6, u6, 0, 0)
    BY <1>1, PayOutAdds, Zenon
  <2>8. End(back, a, r7, u7, 0, 0)
    BY <1>1, RefundAdds, Zenon
  <2>9. r \in Int /\ u \in Int /\ p \in Int
    <3>1. u6 \in Int
      <4>1. Of(eth, Other(t), o) \in [Asset -> Nat]
        BY <1>1, OfValue
      <4> QED
        BY <4>1
    <3>2. r \in Int /\ p \in Int
      BY DEF When, Less
    <3>3. u0 \in Int /\ u1 \in Int /\ u7 \in Int
      BY DEF When, Less
    <3> HIDE DEF u0, u1, u6, u7
    <3>4. u \in Int
      BY <3>1, <3>3
    <3> QED
      BY <3>2, <3>4
  <2>10. (a \in Token => r = 0 /\ p = 0) /\ (a = "ETH" => r <= 0)
    <3>1. p = 0
      BY DEF When, Less
    <3>2. r3 + r6 = 0
      BY DEF When, Less
    <3>3. r = r0 + (r1 + r7)
      <4>1. r0 \in Int /\ r1 \in Int /\ r3 \in Int /\ r6 \in Int /\ r7 \in Int
        BY DEF When, Less
      <4> HIDE DEF r0, r1, r3, r6, r7
      <4> QED
        BY <3>2, <4>1
    <3>4. (a \in Token => r0 + (r1 + r7) = 0) /\ (a = "ETH" => r0 + (r1 + r7) <= 0)
      BY DEF When, Less, Token
    <3> HIDE DEF r, p
    <3> QED
      BY <3>1, <3>3, <3>4
  <2>11. k >= 1 \/ u >= limits.min[a] - limits.max[a]
    <3>1. CASE ~(o >= min)
      BY <3>1 DEF When
    <3>2. ASSUME o >= min PROVE u >= limits.min[a] - limits.max[a]
      <4>1. /\ Of(eth, Other(t), min)[a] <= u6
            /\ Of(eth, Other(t), min)[a] \in Nat /\ u6 \in Nat
        BY <1>1, <3>2, OfMonotone
      <4>2. Of(eth, t, n)[a] \in Nat
        BY OfValue
      <4>3. u0 + (u1 + u7) >= -Of(eth, t, n)[a]
        <5>1. CASE ByEther(eth, t)
          <6>1. Of(eth, t, n)[a] = When(a = "ETH", n)
            BY <5>1, OfValue
          <6> QED
            BY <5>1, <6>1 DEF When, Less
        <5>2. CASE ~ByEther(eth, t)
          <6>1. Of(eth, t, n)[a] = When(a = t, n)
            BY <5>2, OfValue
          <6> QED
            BY <5>2, <6>1 DEF When, Less
        <5> QED
          BY <5>1, <5>2
      <4>4. u0 \in Int /\ u1 \in Int /\ u7 \in Int
        BY DEF When, Less
      <4>5. limits.max[a] = Of(eth, t, n)[a] /\ limits.min[a] = Of(eth, Other(t), min)[a]
        BY <1>2
      <4> HIDE DEF u0, u1, u6, u7
      <4> QED
        BY <4>1, <4>2, <4>3, <4>4, <4>5
    <3> QED
      BY <3>1, <3>2
  <2>12. ByEther(eth, Other(t)) => back = <<>> /\ r7 = 0 /\ u7 = 0
    <3>1. ByEther(eth, Other(t)) => ~ByEther(eth, t)
      BY <1>1 DEF ByEther
    <3>2. ~ByEther(eth, t) => Less(ByEther(eth, t) /\ value > n /\ a = "ETH", value - n) = 0
      BY Zenon DEF Less
    <3>3. ~ByEther(eth, t) => When(ByEther(eth, t) /\ value > n /\ a = "ETH", value - n) = 0
      BY Zenon DEF When
    <3> QED
      BY <3>1, <3>2, <3>3 DEF Refund
  <2>13. /\ r1 \in Int /\ r3 \in Int /\ r6 \in Int /\ u1 \in Int /\ u6 \in Int
         /\ p1 \in Int /\ p2 \in Int /\ When(~(o >= min), 1) \in Int
    <3>1. u6 \in Int
      <4>1. Of(eth, Other(t), o) \in [Asset -> Nat]
        BY <1>1, OfValue
      <4> QED
        BY <4>1
    <3>2. /\ r1 \in Int /\ r3 \in Int /\ r6 \in Int /\ u1 \in Int
          /\ p1 \in Int /\ p2 \in Int /\ When(~(o >= min), 1) \in Int
      BY DEF When, Less
    <3> QED
      BY <3>1, <3>2, Zenon
  <2> HIDE DEF sent, paid, booked, paidBack, noLess, enough, given, back, limits
  <2> HIDE DEF r0, u0, r1, u1, p1, p2, r3, r6, u6, r7, u7
  <2>14. Part(paid \o booked, a, (r1 + 0), (u1 + 0), (p1 + p2), (0 + 0))
    BY <2>2, <2>3, PartCat, Zenon
  <2>15. Part((paid \o booked) \o paidBack, a, ((r1 + 0) + r3), ((u1 + 0) + 0), ((p1 + p2) + 0),
             ((0 + 0) + 0))
    BY <2>14, <2>4, PartCat, Zenon
  <2>16. Part(((paid \o booked) \o paidBack) \o noLess, a, (((r1 + 0) + r3) + 0),
             (((u1 + 0) + 0) + 0), (((p1 + p2) + 0) + 0), (((0 + 0) + 0) + When(~(o >= min), 1)))
    BY <2>15, <2>5, PartCat, Zenon
  <2>17. Part((((paid \o booked) \o paidBack) \o noLess) \o enough, a,
             ((((r1 + 0) + r3) + 0) + 0), ((((u1 + 0) + 0) + 0) + 0),
             ((((p1 + p2) + 0) + 0) + 0), ((((0 + 0) + 0) + When(~(o >= min), 1)) + 0))
    BY <2>16, <2>6, PartCat, Zenon
  <2>18. /\ End(((((paid \o booked) \o paidBack) \o noLess) \o enough) \o given, a,
                (((((r1 + 0) + r3) + 0) + 0) + r6), (((((u1 + 0) + 0) + 0) + 0) + u6),
                (((((p1 + p2) + 0) + 0) + 0) + 0),
                (((((0 + 0) + 0) + When(~(o >= min), 1)) + 0) + 0))
         /\ ~ByEther(eth, Other(t))
                => Part(((((paid \o booked) \o paidBack) \o noLess) \o enough) \o given, a,
                (((((r1 + 0) + r3) + 0) + 0) + r6), (((((u1 + 0) + 0) + 0) + 0) + u6),
                (((((p1 + p2) + 0) + 0) + 0) + 0),
                (((((0 + 0) + 0) + When(~(o >= min), 1)) + 0) + 0))
    BY <2>17, <2>7, PartCat, EndCat, Zenon
  <2>19. End((((((paid \o booked) \o paidBack) \o noLess) \o enough) \o given) \o back, a,
             ((((((r1 + 0) + r3) + 0) + 0) + r6) + r7),
             ((((((u1 + 0) + 0) + 0) + 0) + u6) + u7), ((((((p1 + p2) + 0) + 0) + 0) + 0) + 0),
             ((((((0 + 0) + 0) + When(~(o >= min), 1)) + 0) + 0) + 0))
    <3>1. CASE ~ByEther(eth, Other(t))
      BY <2>18, <2>8, <3>1, EndCat, Zenon
    <3>2. CASE ByEther(eth, Other(t))
      <4> DEFINE y == ((((paid \o booked) \o paidBack) \o noLess) \o enough) \o given
                 ry == (((((r1 + 0) + r3) + 0) + 0) + r6)
                 uy == (((((u1 + 0) + 0) + 0) + 0) + u6)
                 py == (((((p1 + p2) + 0) + 0) + 0) + 0)
                 ky == (((((0 + 0) + 0) + When(~(o >= min), 1)) + 0) + 0)
      <4>1. back = <<>> /\ r7 = 0 /\ u7 = 0
        BY <2>12, <3>2
      <4>2. End(y, a, ry, uy, py, ky)
        BY <2>18
      <4>3. ry \in Int /\ uy \in Int /\ py \in Int /\ ky \in Int
        BY <2>13
      <4>4. y \in Seq(Call)
        BY <4>2 DEF End, Adds
      <4> HIDE DEF y, ry, uy, py, ky
      <4>5. y \o <<>> = y /\ ry + 0 = ry /\ uy + 0 = uy /\ py + 0 = py /\ ky + 0 = ky
        BY <4>3, <4>4
      <4>6. End(y \o back, a, ry + r7, uy + u7, py + 0, ky + 0)
        BY <4>1, <4>2, <4>5, Zenon
      <4> QED
        BY <4>6, Zenon DEF y, ry, uy, py, ky
    <3> QED
      BY <3>1, <3>2, Zenon
  <2>20. End(sent \o ((((((paid \o booked) \o paidBack) \o noLess) \o enough) \o given)
             \o back), a, r, u, p, k)
    BY <2>1, <2>19, EndCat, Zenon
  <2> HIDE DEF r, u, p
  <2> QED
    BY <2>9, <2>10, <2>11, <2>20, Zenon
<1> HIDE DEF limits, k
<1>4. Settled(sent
          \o ((((((paid \o booked) \o paidBack) \o noLess) \o enough) \o given) \o back), limits)
  BY <1>2, <1>1, <1>3, SettledBy, Zenon
<1> QED
  BY <1>4, Zenon DEF limits

\* Whatever the transaction, its calls are settled in advance.
LEMMA TransactionSettled ==
  ASSUME Transaction
  PROVE  \E value \in Nat : \E limits, calls :
           /\ Begin(value, limits, calls)
           /\ Settled(Transfer("ETH", "user", "router", value) \o calls, limits)
<1>1. PICK eth \in BOOLEAN, t \in Token, x \in Amount, y \in Amount :
        \/ \E value \in IF eth THEN Amount ELSE {0} :
             \/ AddInitialLiquidity(eth, t, value, x, y)
             \/ \E max, maxOther \in Amount :
                  AddLiquidity(eth, t, value, <<x, y>>, max, maxOther)
        \/ \E value \in IF ByEther(eth, t) THEN Amount ELSE {0} :
             \/ \E min \in Amount : InstantSwap(eth, t, value, x, y, min)
             \/ LongTermSwap(eth, t, value, x)
        \/ \E min, minOther \in Amount : WithdrawLiquidity(eth, t, <<x, y>>, min, minOther)
        \/ CancelTermSwap(eth, t, x, y)
        \/ WithdrawProceeds(eth, t, x)
  BY DEF Transaction
<1>2. x \in Nat /\ y \in Nat /\ 0 \in Nat /\ \A z \in Amount : z \in Nat
  BY AmountAssumption
<1> DEFINE n == SortAmounts(t, x, y)[1]
           m == SortAmounts(t, x, y)[2]
<1>3. /\ n \in Nat /\ m \in Nat
      /\ IF t = "A" THEN n = x /\ m = y ELSE n = y /\ m = x
      /\ IF t = "A" THEN x = n /\ y = m ELSE x = m /\ y = n
      /\ SortAmounts(t, x, y) = <<n, m>>
      /\ <<x, y>>[1] = x /\ <<x, y>>[2] = y
  BY <1>2 DEF SortAmounts
<1>4. CASE \E value \in IF eth THEN Amount ELSE {0} :
             \/ AddInitialLiquidity(eth, t, value, x, y)
             \/ \E max, maxOther \in Amount :
                  AddLiquidity(eth, t, value, <<x, y>>, max, maxOther)
  <2>1. PICK value \in IF eth THEN Amount ELSE {0} :
             \/ AddInitialLiquidity(eth, t, value, x, y)
             \/ \E max, maxOther \in Amount :
                  AddLiquidity(eth, t, value, <<x, y>>, max, maxOther)
    BY <1>4
  <2>2. value \in Nat /\ (~eth => value = 0)
    BY <1>2, <2>1
  <2>3. CASE AddInitialLiquidity(eth, t, value, x, y)
    <3> DEFINE calls == PayIn(eth, t, x) \o PayIn(eth, Other(t), y) \o BookBoth(<<n, m>>)
                          \o Refund(eth, value, EtherIn(t, x, y))
               limits == Limits(Both(eth, t, x, y), Nothing)
    <3> HIDE DEF n, m
    <3>1. (eth => t # WETH) /\ Begin(value, limits, calls)
      BY <1>3, <2>3, Zenon DEF AddInitialLiquidity
    <3>2. IF t = "A" THEN x = n /\ y = m ELSE x = m /\ y = n
      BY <1>3
    <3>3. Settled(Transfer("ETH", "user", "router", value) \o calls, limits)
      BY <1>2, <1>3, <2>2, <3>1, <3>2, AddInitialLiquiditySettled, Zenon
    <3> HIDE DEF calls, limits
    <3> QED
      BY <2>2, <3>1, <3>3, Zenon
  <2>4. CASE \E max, maxOther \in Amount :
               AddLiquidity(eth, t, value, <<x, y>>, max, maxOther)
    <3>1. PICK max \in Amount, maxOther \in Amount :
            AddLiquidity(eth, t, value, <<x, y>>, max, maxOther)
      BY <2>4
    <3> DEFINE calls == Require(n <= max /\ m <= maxOther)
                          \o PayIn(eth, t, n) \o PayIn(eth, Other(t), m) \o BookBoth(<<x, y>>)
                          \o Refund(eth, value, EtherIn(t, n, m))
               limits == Limits(Both(eth, t, max, maxOther), Nothing)
    <3>2. (eth => t # WETH) /\ Begin(value, limits, calls)
      BY <1>3, <3>1, Zenon DEF AddLiquidity
    <3> HIDE DEF n, m
    <3>3. max \in Nat /\ maxOther \in Nat
      BY <1>2
    <3>4. /\ x \in Nat /\ y \in Nat /\ n \in Nat /\ m \in Nat /\ value \in Nat
          /\ IF t = "A" THEN n = x /\ m = y ELSE n = y /\ m = x
          /\ (~eth => value = 0) /\ (eth => t # WETH)
      BY <1>2, <1>3, <2>2, <3>2
    <3>5. Settled(Transfer("ETH", "user", "router", value) \o calls, limits)
      BY <3>3, <3>4, AddLiquiditySettled, ZenonT(150)
    <3> HIDE DEF calls, limits
    <3> QED
      BY <2>2, <3>2, <3>5, Zenon
  <2> QED
    BY <2>1, <2>3, <2>4
<1>5. CASE \E value \in IF ByEther(eth, t) THEN Amount ELSE {0} :
             \/ \E min \in Amount : InstantSwap(eth, t, value, x, y, min)
             \/ LongTermSwap(eth, t, value, x)
  <2>1. PICK value \in IF ByEther(eth, t) THEN Amount ELSE {0} :
             \/ \E min \in Amount : InstantSwap(eth, t, value, x, y, min)
             \/ LongTermSwap(eth, t, value, x)
    BY <1>5
  <2>2. value \in Nat /\ (~ByEther(eth, t) => value = 0)
    BY <1>2, <2>1
  <2>3. CASE \E min \in Amount : InstantSwap(eth, t, value, x, y, min)
    <3>1. PICK min \in Amount : InstantSwap(eth, t, value, x, y, min)
      BY <2>3
    <3> DEFINE calls == PayIn(eth, t, x) \o Book(t, x) \o PairPays(Other(t), y)
                          \o Require(y >= min) \o Holds(Other(t), y)
                          \o PayOut(eth, Other(t), y)
                          \o Refund(ByEther(eth, t), value, x)
               limits == Limits(Of(eth, t, x), Of(eth, Other(t), min))
    <3>2. Begin(value, limits, calls)
      BY <3>1 DEF InstantSwap
    <3>3. Settled(Transfer("ETH", "user", "router", value) \o calls, limits)
      BY <1>2, <2>2, InstantSwapSettled, Zenon
    <3> HIDE DEF calls, limits
    <3> QED
      BY <2>2, <3>2, <3>3, Zenon
  <2>4. CASE LongTermSwap(eth, t, value, x)
    <3> DEFINE calls == PayIn(eth, t, x) \o Book(t, x) \o Refund(ByEther(eth, t), value, x)
               limits == Limits(Of(eth, t, x), Nothing)
    <3>1. Begin(value, limits, calls)
      BY <2>4 DEF LongTermSwap
    <3>2. Settled(Transfer("ETH", "user", "router", value) \o calls, limits)
      BY <1>2, <2>2, LongTermSwapSettled, Zenon
    <3> HIDE DEF calls, limits
    <3> QED
      BY <2>2, <3>1, <3>2, Zenon
  <2> QED
    BY <2>1, <2>3, <2>4
<1>6. CASE \E min, minOther \in Amount : WithdrawLiquidity(eth, t, <<x, y>>, min, minOther)
  <2>1. PICK min \in Amount, minOther \in Amount :
          WithdrawLiquidity(eth, t, <<x, y>>, min, minOther)
    BY <1>6
  <2> DEFINE calls == PairPays("A", x) \o PairPays("B", y)
                        \o Require(n >= min /\ m >= minOther)
                        \o Holds(t, n) \o Holds(Other(t), m)
                        \o PayOutBoth(eth, t, n, m)
             limits == Limits(Nothing, Both(eth, t, min, minOther))
  <2>2. Begin(0, limits, calls)
    BY <1>3, <2>1, Zenon DEF WithdrawLiquidity
  <2> HIDE DEF n, m
  <2>3. Settled(Transfer("ETH", "user", "router", 0) \o calls, limits)
    BY <1>2, <1>3, WithdrawLiquiditySettled, ZenonT(60)
  <2> HIDE DEF calls, limits
  <2> QED
    BY <1>2, <2>2, <2>3, Zenon
<1>7. CASE CancelTermSwap(eth, t, x, y)
  <2> DEFINE calls == PairPays(Other(t), y) \o PairPays(t, x)
                        \o Holds(t, x) \o Holds(Other(t), y)
                        \o PayOutBoth(eth, t, x, y)
             limits == Limits(Nothing, Both(eth, t, x, y))
  <2>1. Begin(0, limits, calls)
    BY <1>7 DEF CancelTermSwap
  <2>2. Settled(Transfer("ETH", "user", "router", 0) \o calls, limits)
    BY <1>2, CancelTermSwapSettled, Zenon
  <2> HIDE DEF calls, limits
  <2> QED
    BY <1>2, <2>1, <2>2, Zenon
<1>8. CASE WithdrawProceeds(eth, t, x)
  <2> DEFINE calls == PairPays(Other(t), x) \o Holds(Other(t), x) \o PayOut(eth, Other(t), x)
             limits == Limits(Nothing, Of(eth, Other(t), x))
  <2>1. Begin(0, limits, calls)
    BY <1>8 DEF WithdrawProceeds
  <2>2. Settled(Transfer("ETH", "user", "router", 0) \o calls, limits)
    BY <1>2, WithdrawProceedsSettled, Zenon
  <2> HIDE DEF calls, limits
  <2> QED
    BY <1>2, <2>1, <2>2, Zenon
<1> QED
  BY <1>1, <1>4, <1>5, <1>6, <1>7, <1>8

-----------------------------------------------------------------------------
(***************************************************************************)
(* The balances change by what the account says of a call.                 *)
(***************************************************************************)

\* Balances b are those before, changed by call c, as far as the account goes.
Changed(b, c) ==
  /\ b \in Balances
  /\ Wrapped(b)
  /\ \A a \in Asset :
       /\ b["router"][a] = bal["router"][a] + GainOf("router", a, c)
       /\ b["user"][a] = bal["user"][a] + GainOf("user", a, c)
       /\ b["pair"][a] = bal["pair"][a] + GainOf("pair", a, c)

\* A balance after a move.
LEMMA MovedValue ==
  ASSUME bal \in Balances, NEW from, NEW to, NEW asset, NEW n \in Nat
  PROVE  LET b == Moved(from, to, asset, n)
         IN  /\ DOMAIN b = Holder
             /\ \A h \in Holder :
                  /\ b[h] = [a \in Asset |->
                       IF a # asset THEN bal[h][a]
                       ELSE bal[h][a] - (IF h = from THEN n ELSE 0)
                                      + (IF h = to THEN n ELSE 0)]
                  /\ \A a \in Asset :
                       /\ bal[h][a] \in Nat
                       /\ b[h][a] = IF a # asset THEN bal[h][a]
                                    ELSE bal[h][a] - (IF h = from THEN n ELSE 0)
                                                   + (IF h = to THEN n ELSE 0)
BY DEF Moved, Balances

\* A transfer.
LEMMA TransferChanges ==
  ASSUME bal \in Balances, Wrapped(bal), NEW c \in Call, c.kind = "transfer",
         bal[c.from][c.asset] >= c.amount
  PROVE  Changed(Moved(c.from, c.to, c.asset, c.amount), c)
<1> DEFINE b == Moved(c.from, c.to, c.asset, c.amount)
<1>1. /\ c.asset \in Asset /\ c.amount \in Nat
      /\ c.from \in Party /\ c.to \in Party /\ c.from # c.to
  BY DEF Call, WellFormed
<1>2. /\ DOMAIN b = Holder
      /\ \A h \in Holder :
           /\ b[h] = [a \in Asset |->
                IF a # c.asset THEN bal[h][a]
                ELSE bal[h][a] - (IF h = c.from THEN c.amount ELSE 0)
                               + (IF h = c.to THEN c.amount ELSE 0)]
           /\ \A a \in Asset :
                /\ bal[h][a] \in Nat
                /\ b[h][a] = IF a # c.asset THEN bal[h][a]
                             ELSE bal[h][a] - (IF h = c.from THEN c.amount ELSE 0)
                                            + (IF h = c.to THEN c.amount ELSE 0)
  BY <1>1, MovedValue
<1>3. b = [h \in Holder |-> b[h]]
  BY DEF Moved
<1> HIDE DEF b
<1>4. \A h \in Holder, a \in Asset : b[h][a] \in Nat
  BY <1>1, <1>2
<1>5. b \in Balances
  <2>1. \A h \in Holder : b[h] \in [Asset -> Nat]
    BY <1>2, <1>4
  <2> QED
    BY <1>3, <2>1 DEF Balances
<1>6. \A a \in Asset :
        /\ b["router"][a] = bal["router"][a] + GainOf("router", a, c)
        /\ b["user"][a] = bal["user"][a] + GainOf("user", a, c)
        /\ b["pair"][a] = bal["pair"][a] + GainOf("pair", a, c)
  <2>1. "router" \in Holder /\ "user" \in Holder /\ "pair" \in Holder
    BY DEF Holder
  <2> QED
    BY <1>1, <1>2, <2>1 DEF GainOf
<1>7. Wrapped(b)
  <2>1. WETH \in Asset /\ "ETH" \in Asset /\ WETH # "ETH"
    BY WETHAssumption DEF Asset, Token
  <2>2. /\ "router" \in Holder /\ "user" \in Holder /\ "pair" \in Holder /\ "weth" \in Holder
        /\ c.from # "weth" /\ c.to # "weth"
    BY <1>1 DEF Holder, Party
  <2>3. /\ b["weth"]["ETH"] = bal["weth"]["ETH"] /\ b["weth"][WETH] = bal["weth"][WETH]
        /\ bal["weth"]["ETH"] \in Nat /\ bal["weth"][WETH] \in Nat
    BY <1>1, <1>2, <2>1, <2>2
  <2>4. /\ b["user"][WETH] = bal["user"][WETH] + GainOf("user", WETH, c)
        /\ b["router"][WETH] = bal["router"][WETH] + GainOf("router", WETH, c)
        /\ b["pair"][WETH] = bal["pair"][WETH] + GainOf("pair", WETH, c)
        /\ bal["user"][WETH] \in Nat /\ bal["router"][WETH] \in Nat
        /\ bal["pair"][WETH] \in Nat
    BY <1>2, <1>6, <2>1, <2>2
  <2>5. /\ GainOf("user", WETH, c) \in Int /\ GainOf("router", WETH, c) \in Int
        /\ GainOf("pair", WETH, c) \in Int
        /\ (GainOf("user", WETH, c) + GainOf("router", WETH, c)) + GainOf("pair", WETH, c) = 0
    BY <1>1 DEF GainOf, Party
  <2>6. bal["weth"]["ETH"] = (bal["user"][WETH] + bal["router"][WETH])
                              + (bal["pair"][WETH] + bal["weth"][WETH])
    BY DEF Wrapped
  <2>7. \A u, r, p, w, i, j, k \in Int :
          (i + j) + k = 0 => ((u + i) + (r + j)) + ((p + k) + w) = (u + r) + (p + w)
    OBVIOUS
  <2>8. b["weth"]["ETH"] = (b["user"][WETH] + b["router"][WETH])
                            + (b["pair"][WETH] + b["weth"][WETH])
    BY <2>3, <2>4, <2>5, <2>6, <2>7
  <2> QED
    BY <2>8 DEF Wrapped
<1> QED
  BY <1>5, <1>6, <1>7 DEF Changed, b

\* Wrapping ether.
LEMMA DepositChanges ==
  ASSUME bal \in Balances, Wrapped(bal), NEW c \in Call, c.kind = "deposit",
         bal["router"]["ETH"] >= c.amount
  PROVE  Changed([Moved("router", "weth", "ETH", c.amount)
                    EXCEPT !["router"][WETH] = @ + c.amount], c)
<1> DEFINE d == Moved("router", "weth", "ETH", c.amount)
           b == [d EXCEPT !["router"][WETH] = @ + c.amount]
<1>1. c.amount \in Nat
  BY DEF Call, WellFormed
<1>2. /\ DOMAIN d = Holder
      /\ \A h \in Holder :
           /\ d[h] = [a \in Asset |->
                IF a # "ETH" THEN bal[h][a]
                ELSE bal[h][a] - (IF h = "router" THEN c.amount ELSE 0)
                               + (IF h = "weth" THEN c.amount ELSE 0)]
           /\ \A a \in Asset :
                /\ bal[h][a] \in Nat
                /\ d[h][a] = IF a # "ETH" THEN bal[h][a]
                             ELSE bal[h][a] - (IF h = "router" THEN c.amount ELSE 0)
                                            + (IF h = "weth" THEN c.amount ELSE 0)
  BY <1>1, MovedValue
<1>3. /\ "router" \in Holder /\ "user" \in Holder /\ "pair" \in Holder /\ "weth" \in Holder
      /\ WETH \in Asset /\ "ETH" \in Asset /\ WETH # "ETH"
  BY WETHAssumption DEF Holder, Asset, Token
<1>4. d = [h \in Holder |-> d[h]] /\ \A h \in Holder : d[h] = [a \in Asset |-> d[h][a]]
  BY DEF Moved
<1> HIDE DEF d
<1>5. b = [h \in Holder |-> [a \in Asset |->
             IF h = "router" /\ a = WETH THEN d[h][a] + c.amount ELSE d[h][a]]]
  BY <1>3, <1>4
<1> HIDE DEF b
<1>6. \A h \in Holder, a \in Asset :
        b[h][a] = IF h = "router" /\ a = WETH THEN d[h][a] + c.amount ELSE d[h][a]
  BY <1>5
<1>7. \A h \in Holder, a \in Asset : b[h][a] \in Nat
  BY <1>1, <1>2, <1>6
<1>8. b \in Balances
  <2>1. b = [h \in Holder |-> [a \in Asset |-> b[h][a]]]
    BY <1>5
  <2> QED
    BY <1>7, <2>1 DEF Balances
<1>9. \A a \in Asset :
        /\ b["router"][a] = bal["router"][a] + GainOf("router", a, c)
        /\ b["user"][a] = bal["user"][a] + GainOf("user", a, c)
        /\ b["pair"][a] = bal["pair"][a] + GainOf("pair", a, c)
  <2> SUFFICES ASSUME NEW a \in Asset
               PROVE  /\ b["router"][a] = bal["router"][a] + GainOf("router", a, c)
                      /\ b["user"][a] = bal["user"][a] + GainOf("user", a, c)
                      /\ b["pair"][a] = bal["pair"][a] + GainOf("pair", a, c)
    OBVIOUS
  <2>1. /\ bal["router"][a] \in Nat /\ bal["user"][a] \in Nat /\ bal["pair"][a] \in Nat
        /\ b["user"][a] = bal["user"][a] /\ b["pair"][a] = bal["pair"][a]
    BY <1>1, <1>2, <1>3, <1>6
  <2>2. GainOf("user", a, c) = 0 /\ GainOf("pair", a, c) = 0
    BY DEF GainOf
  <2>3. GainOf("router", a, c)
          = IF a = "ETH" THEN -c.amount ELSE IF a = WETH THEN c.amount ELSE 0
    BY DEF GainOf
  <2>4. b["router"][a] = bal["router"][a] + GainOf("router", a, c)
    BY <1>1, <1>2, <1>3, <1>6, <2>1, <2>3
  <2> QED
    BY <2>1, <2>2, <2>4
<1>10. Wrapped(b)
  <2>1. /\ b["weth"]["ETH"] = bal["weth"]["ETH"] + c.amount
        /\ b["weth"][WETH] = bal["weth"][WETH]
        /\ b["user"][WETH] = bal["user"][WETH]
        /\ b["pair"][WETH] = bal["pair"][WETH]
        /\ b["router"][WETH] = bal["router"][WETH] + c.amount
    BY <1>1, <1>2, <1>3, <1>6
  <2>2. /\ bal["user"][WETH] \in Int /\ bal["router"][WETH] \in Int
        /\ bal["pair"][WETH] \in Int /\ bal["weth"][WETH] \in Int
    BY <1>2, <1>3
  <2>3. bal["weth"]["ETH"] = (bal["user"][WETH] + bal["router"][WETH])
                              + (bal["pair"][WETH] + bal["weth"][WETH])
    BY DEF Wrapped
  <2>4. \A u, r, p, w, i \in Int : ((u + r) + (p + w)) + i = (u + (r + i)) + (p + w)
    OBVIOUS
  <2>5. b["weth"]["ETH"] = (b["user"][WETH] + b["router"][WETH])
                            + (b["pair"][WETH] + b["weth"][WETH])
    BY <1>1, <2>1, <2>2, <2>3, <2>4
  <2> QED
    BY <2>5 DEF Wrapped
<1>11. Changed(b, c)
  BY <1>8, <1>9, <1>10 DEF Changed
<1> QED
  BY <1>11 DEF b, d

\* Unwrapping ether: it is there, since all that was wrapped is.
LEMMA UnwrapChanges ==
  ASSUME bal \in Balances, Wrapped(bal), NEW c \in Call, c.kind = "unwrap",
         bal["router"][WETH] >= c.amount
  PROVE  Changed([Moved("weth", "router", "ETH", c.amount)
                    EXCEPT !["router"][WETH] = @ - c.amount], c)
<1> DEFINE d == Moved("weth", "router", "ETH", c.amount)
           b == [d EXCEPT !["router"][WETH] = @ - c.amount]
<1>1. c.amount \in Nat
  BY DEF Call, WellFormed
<1>2. /\ DOMAIN d = Holder
      /\ \A h \in Holder :
           /\ d[h] = [a \in Asset |->
                IF a # "ETH" THEN bal[h][a]
                ELSE bal[h][a] - (IF h = "weth" THEN c.amount ELSE 0)
                               + (IF h = "router" THEN c.amount ELSE 0)]
           /\ \A a \in Asset :
                /\ bal[h][a] \in Nat
                /\ d[h][a] = IF a # "ETH" THEN bal[h][a]
                             ELSE bal[h][a] - (IF h = "weth" THEN c.amount ELSE 0)
                                            + (IF h = "router" THEN c.amount ELSE 0)
  BY <1>1, MovedValue
<1>3. /\ "router" \in Holder /\ "user" \in Holder /\ "pair" \in Holder /\ "weth" \in Holder
      /\ WETH \in Asset /\ "ETH" \in Asset /\ WETH # "ETH"
  BY WETHAssumption DEF Holder, Asset, Token
<1>4. d = [h \in Holder |-> d[h]] /\ \A h \in Holder : d[h] = [a \in Asset |-> d[h][a]]
  BY DEF Moved
<1> HIDE DEF d
<1>5. b = [h \in Holder |-> [a \in Asset |->
             IF h = "router" /\ a = WETH THEN d[h][a] - c.amount ELSE d[h][a]]]
  BY <1>3, <1>4
<1> HIDE DEF b
<1>6. \A h \in Holder, a \in Asset :
        b[h][a] = IF h = "router" /\ a = WETH THEN d[h][a] - c.amount ELSE d[h][a]
  BY <1>5
<1>7. \A h \in Holder, a \in Asset : b[h][a] \in Nat
  <2>1. bal["weth"]["ETH"] = (bal["user"][WETH] + bal["router"][WETH])
                              + (bal["pair"][WETH] + bal["weth"][WETH])
    BY DEF Wrapped
  <2>2. /\ bal["user"][WETH] \in Nat /\ bal["router"][WETH] \in Nat
        /\ bal["pair"][WETH] \in Nat /\ bal["weth"][WETH] \in Nat
    BY <1>2, <1>3
  <2>3. bal["weth"]["ETH"] >= c.amount
    BY <1>1, <2>1, <2>2
  <2> QED
    BY <1>1, <1>2, <1>3, <1>6, <2>3
<1>8. b \in Balances
  <2>1. b = [h \in Holder |-> [a \in Asset |-> b[h][a]]]
    BY <1>5
  <2> QED
    BY <1>7, <2>1 DEF Balances
<1>9. \A a \in Asset :
        /\ b["router"][a] = bal["router"][a] + GainOf("router", a, c)
        /\ b["user"][a] = bal["user"][a] + GainOf("user", a, c)
        /\ b["pair"][a] = bal["pair"][a] + GainOf("pair", a, c)
  <2> SUFFICES ASSUME NEW a \in Asset
               PROVE  /\ b["router"][a] = bal["router"][a] + GainOf("router", a, c)
                      /\ b["user"][a] = bal["user"][a] + GainOf("user", a, c)
                      /\ b["pair"][a] = bal["pair"][a] + GainOf("pair", a, c)
    OBVIOUS
  <2>1. /\ bal["router"][a] \in Nat /\ bal["user"][a] \in Nat /\ bal["pair"][a] \in Nat
        /\ b["user"][a] = bal["user"][a] /\ b["pair"][a] = bal["pair"][a]
    BY <1>1, <1>2, <1>3, <1>6
  <2>2. GainOf("user", a, c) = 0 /\ GainOf("pair", a, c) = 0
    BY DEF GainOf
  <2>3. GainOf("router", a, c)
          = IF a = "ETH" THEN c.amount ELSE IF a = WETH THEN -c.amount ELSE 0
    BY DEF GainOf
  <2>4. b["router"][a] = bal["router"][a] + GainOf("router", a, c)
    BY <1>1, <1>2, <1>3, <1>6, <2>1, <2>3
  <2> QED
    BY <2>1, <2>2, <2>4
<1>10. Wrapped(b)
  <2>1. /\ b["weth"]["ETH"] = bal["weth"]["ETH"] - c.amount
        /\ b["weth"][WETH] = bal["weth"][WETH]
        /\ b["user"][WETH] = bal["user"][WETH]
        /\ b["pair"][WETH] = bal["pair"][WETH]
        /\ b["router"][WETH] = bal["router"][WETH] - c.amount
    BY <1>1, <1>2, <1>3, <1>6
  <2>2. /\ bal["user"][WETH] \in Int /\ bal["router"][WETH] \in Int
        /\ bal["pair"][WETH] \in Int /\ bal["weth"][WETH] \in Int
    BY <1>2, <1>3
  <2>3. bal["weth"]["ETH"] = (bal["user"][WETH] + bal["router"][WETH])
                              + (bal["pair"][WETH] + bal["weth"][WETH])
    BY DEF Wrapped
  <2>4. \A u, r, p, w, i \in Int : ((u + r) + (p + w)) - i = (u + (r - i)) + (p + w)
    OBVIOUS
  <2>5. b["weth"]["ETH"] = (b["user"][WETH] + b["router"][WETH])
                            + (b["pair"][WETH] + b["weth"][WETH])
    BY <1>1, <2>1, <2>2, <2>3, <2>4
  <2> QED
    BY <2>5 DEF Wrapped
<1>11. Changed(b, c)
  BY <1>8, <1>9, <1>10 DEF Changed
<1> QED
  BY <1>11 DEF b, d

\* Every call that succeeds.
LEMMA CallChanges ==
  ASSUME bal \in Balances, books \in [Token -> Nat], Wrapped(bal),
         NEW c \in Call, Succeeds(c)
  PROVE  LET after == IF c.kind = "book"
                      THEN [books EXCEPT ![c.asset] = @ + c.amount] ELSE books
         IN  /\ Changed(BalancesAfter(c), c)
             /\ after \in [Token -> Nat]
             /\ \A t \in Token : after[t] = books[t] + BookedOf(t, c)
             /\ c.kind # "revert"
<1>1. c.kind \in Kind /\ c.amount \in Int
  BY DEF Call
<1>2. c.kind # "revert"
  BY DEF Succeeds
<1>3. CASE c.kind = "transfer"
  <2>1. bal[c.from][c.asset] >= c.amount
    BY <1>3 DEF Succeeds, Balance
  <2>2. BalancesAfter(c) = Moved(c.from, c.to, c.asset, c.amount)
    BY <1>3 DEF BalancesAfter
  <2>3. \A t \in Token : books[t] = books[t] + BookedOf(t, c)
    BY <1>3 DEF BookedOf
  <2> QED
    BY <1>2, <1>3, <2>1, <2>2, <2>3, TransferChanges
<1>4. CASE c.kind = "deposit"
  <2>1. bal["router"]["ETH"] >= c.amount
    BY <1>4 DEF Succeeds, Balance, Call, WellFormed
  <2>2. BalancesAfter(c) = [Moved("router", "weth", "ETH", c.amount)
                              EXCEPT !["router"][WETH] = @ + c.amount]
    BY <1>4 DEF BalancesAfter
  <2>3. \A t \in Token : books[t] = books[t] + BookedOf(t, c)
    BY <1>4 DEF BookedOf
  <2> QED
    BY <1>2, <1>4, <2>1, <2>2, <2>3, DepositChanges
<1>5. CASE c.kind = "unwrap"
  <2>1. bal["router"][WETH] >= c.amount
    BY <1>5 DEF Succeeds, Balance, Call, WellFormed
  <2>2. BalancesAfter(c) = [Moved("weth", "router", "ETH", c.amount)
                              EXCEPT !["router"][WETH] = @ - c.amount]
    BY <1>5 DEF BalancesAfter
  <2>3. \A t \in Token : books[t] = books[t] + BookedOf(t, c)
    BY <1>5 DEF BookedOf
  <2> QED
    BY <1>2, <1>5, <2>1, <2>2, <2>3, UnwrapChanges
<1>6. ASSUME c.kind \in {"book", "holds"} PROVE Changed(BalancesAfter(c), c)
  <2>1. BalancesAfter(c) = bal
    BY <1>6 DEF BalancesAfter
  <2>2. \A a \in Asset, h \in Party : GainOf(h, a, c) = 0
    BY <1>6 DEF GainOf
  <2>3. "user" \in Party /\ "router" \in Party /\ "pair" \in Party /\ Party \subseteq Holder
    BY DEF Party, Holder
  <2>4. \A h \in Holder, a \in Asset : bal[h][a] \in Nat
    BY DEF Balances
  <2> QED
    BY <2>1, <2>2, <2>3, <2>4 DEF Changed
<1>7. CASE c.kind = "book"
  <2>1. c.asset \in Token /\ books[c.asset] + c.amount >= 0
    BY <1>7 DEF Succeeds, Call, WellFormed
  <2> DEFINE after == [books EXCEPT ![c.asset] = @ + c.amount]
  <2>2. after \in [Token -> Nat]
    BY <1>1, <2>1
  <2>3. \A t \in Token : after[t] = books[t] + BookedOf(t, c)
    BY <1>1, <1>7, <2>1 DEF BookedOf
  <2> QED
    BY <1>2, <1>6, <1>7, <2>2, <2>3
<1>8. CASE c.kind = "holds"
  <2>1. \A t \in Token : books[t] = books[t] + BookedOf(t, c)
    BY <1>8 DEF BookedOf
  <2> QED
    BY <1>2, <1>6, <1>8, <2>1
<1> QED
  BY <1>1, <1>2, <1>3, <1>4, <1>5, <1>7, <1>8 DEF Kind

-----------------------------------------------------------------------------
(***************************************************************************)
(* Every step keeps the account.                                           *)
(***************************************************************************)

\* When no call is left, the account is of the balances alone.
LEMMA NoCallsLeft ==
  /\ EtherLast(<<>>)
  /\ \A a \in Asset :
       /\ Total(RouterGain(a), <<>>) = 0 /\ Total(UserGain(a), <<>>) = 0
       /\ Total(PairGap(a), <<>>) = 0 /\ Total(Stops, <<>>) = 0
<1>1. EtherLast(<<>>)
  BY DEF EtherLast
<1> QED
  BY <1>1, AddsOne DEF Adds

\* Between transactions.
LEMMA AccountedIdle ==
  ASSUME Accounted, Idle
  PROVE  /\ bal["router"]["ETH"] = 0
         /\ \A t \in Token : bal["router"][t] = saved[1]["router"][t]
         /\ \A t \in Token : bal["pair"][t] = books[t]
         /\ \A a \in Asset :
              bal["user"][a] >= (saved[1]["user"][a] - call.max[a]) + call.min[a]
<1>1. todo = <<>> /\ "ETH" \in Asset /\ Token \subseteq Asset
  BY DEF Idle, Asset
<1>2. /\ "router" \in Holder /\ "pair" \in Holder /\ "user" \in Holder
  BY DEF Holder
<1>3. /\ \A h \in Holder, a \in Asset : bal[h][a] \in Nat
      /\ \A t \in Token : books[t] \in Nat
  BY DEF Accounted, Typed, Balances
<1>4. bal["router"]["ETH"] = 0
  BY <1>1, <1>2, <1>3, NoCallsLeft DEF Accounted, RouterAccount
<1>5. \A t \in Token : bal["router"][t] = saved[1]["router"][t]
  <2> TAKE t \in Token
  <2>1. bal["router"][t] + Total(RouterGain(t), <<>>) = saved[1]["router"][t]
    BY <1>1 DEF Accounted, RouterAccount
  <2>2. Total(RouterGain(t), <<>>) = 0 /\ bal["router"][t] \in Nat
    BY <1>1, <1>2, <1>3, NoCallsLeft
  <2> QED
    BY <2>1, <2>2
<1>6. \A t \in Token : bal["pair"][t] = books[t]
  <2> TAKE t \in Token
  <2>1. (bal["pair"][t] - books[t]) + Total(PairGap(t), <<>>) = 0
    BY <1>1 DEF Accounted, PairAccount
  <2>2. Total(PairGap(t), <<>>) = 0 /\ bal["pair"][t] \in Nat /\ books[t] \in Nat
    BY <1>1, <1>2, <1>3, NoCallsLeft
  <2> QED
    BY <2>1, <2>2
<1>7. \A a \in Asset : bal["user"][a] >= (saved[1]["user"][a] - call.max[a]) + call.min[a]
  <2> TAKE a \in Asset
  <2>1. Total(Stops, <<>>) = 0 /\ Total(UserGain(a), <<>>) = 0
    BY NoCallsLeft
  <2>2. bal["user"][a] + Total(UserGain(a), <<>>)
          >= (saved[1]["user"][a] - call.max[a]) + call.min[a]
    BY <1>1, <2>1 DEF Accounted, UserAccount
  <2>3. bal["user"][a] \in Nat
    BY <1>2, <1>3
  <2> QED
    BY <2>1, <2>2, <2>3
<1> QED
  BY <1>4, <1>5, <1>6, <1>7

\* The initial states.
LEMMA InitAccounted ==
  ASSUME Init
  PROVE  Accounted
<1>1. PICK gift \in [Token -> Gifts] :
        bal = [h \in Holder |-> [a \in Asset |->
                CASE h = "user" -> Wealth
                  [] h = "router" /\ a # "ETH" -> gift[a]
                  [] h = "pair" /\ a # "ETH" -> 2
                  [] h = "weth" /\ a = "ETH" -> Wealth + gift[WETH] + 2
                  [] OTHER -> 0]]
  BY DEF Init
<1>2. /\ books = [t \in Token |-> 2] /\ todo = <<>>
      /\ call = [max |-> [a \in Asset |-> 0], min |-> [a \in Asset |-> 0]]
      /\ saved = <<bal, books>> /\ saved[1] = bal /\ saved[2] = books
  BY DEF Init
<1>3. /\ Wealth \in Nat /\ \A t \in Token : gift[t] \in Nat
      /\ WETH \in Token /\ "ETH" \notin Token /\ Asset = Token \cup {"ETH"}
  BY AmountAssumption, WETHAssumption DEF Asset, Token
<1>4. bal = [h \in Holder |-> [a \in Asset |-> bal[h][a]]]
  BY <1>1
<1>5. \A a \in Asset :
        /\ bal["user"][a] = Wealth
        /\ bal["router"][a] = IF a = "ETH" THEN 0 ELSE gift[a]
        /\ bal["pair"][a] = IF a = "ETH" THEN 0 ELSE 2
        /\ bal["weth"][a] = IF a = "ETH" THEN (Wealth + gift[WETH]) + 2 ELSE 0
  BY <1>1 DEF Holder
<1>6. bal \in Balances
  <2>1. \A h \in Holder, a \in Asset : bal[h][a] \in Nat
    BY <1>3, <1>5 DEF Holder
  <2> QED
    BY <1>4, <2>1 DEF Balances
<1>7. Typed
  BY <1>2, <1>6 DEF Typed, Bounds
<1>8. Wrapped(bal)
  BY <1>3, <1>5 DEF Wrapped
<1>9. SavedBetween
  BY <1>2, <1>3, <1>5, <1>8 DEF SavedBetween
<1>10. EtherLast(todo) /\ RouterAccount /\ PairAccount
  <2>1. /\ \A t \in Token : /\ Total(RouterGain(t), todo) = 0 /\ Total(PairGap(t), todo) = 0
                           /\ bal["router"][t] \in Nat /\ bal["pair"][t] = 2
                           /\ books[t] = 2
      /\ Total(RouterGain("ETH"), todo) = 0 /\ bal["router"]["ETH"] = 0
      /\ EtherLast(todo)
    BY <1>2, <1>3, <1>5, NoCallsLeft
  <2>2. RouterAccount
    BY <1>2, <2>1 DEF RouterAccount
  <2>3. PairAccount
    BY <2>1 DEF PairAccount
  <2> QED
    BY <2>1, <2>2, <2>3
<1>11. UserAccount
  BY <1>2, <1>3, <1>5, NoCallsLeft DEF UserAccount
<1> QED
  BY <1>7, <1>8, <1>9, <1>10, <1>11 DEF Accounted

\* The totals are of the calls left, after a step as before it.
LEMMA TotalsAfter ==
  ASSUME NEW s, todo' = s
  PROVE  /\ \A a \in Asset : Total(RouterGain(a), todo)' = Total(RouterGain(a), s)
         /\ \A a \in Asset : Total(UserGain(a), todo)' = Total(UserGain(a), s)
         /\ \A a \in Asset : Total(PairGap(a), todo)' = Total(PairGap(a), s)
         /\ Total(Stops, todo)' = Total(Stops, s)
<1>1. \A a \in Asset : Total(RouterGain(a), todo)' = Total(RouterGain(a), s)
  BY DEF Total, RouterGain
<1>2. \A a \in Asset : Total(UserGain(a), todo)' = Total(UserGain(a), s)
  BY DEF Total, UserGain
<1>3. \A a \in Asset : Total(PairGap(a), todo)' = Total(PairGap(a), s)
  BY DEF Total, PairGap
<1>4. Total(Stops, todo)' = Total(Stops, s)
  BY DEF Total, Stops
<1> QED
  BY <1>1, <1>2, <1>3, <1>4

\* A transaction that begins is settled in advance.
LEMMA BeginAccounted ==
  ASSUME Accounted, NEW value \in Nat, NEW limits, NEW calls,
         Begin(value, limits, calls),
         Settled(Transfer("ETH", "user", "router", value) \o calls, limits)
  PROVE  Accounted'
<1> DEFINE s == Transfer("ETH", "user", "router", value) \o calls
<1>1. /\ Idle /\ todo' = s /\ call' = limits /\ saved' = <<bal, books>>
      /\ bal' = bal /\ books' = books
  BY DEF Begin
<1>2. Settled(s, limits)
  OBVIOUS
<1> HIDE DEF s
<1>3. saved'[1] = bal /\ saved'[2] = books
  BY <1>1
<1>4. /\ bal["router"]["ETH"] = 0
      /\ \A t \in Token : bal["pair"][t] = books[t]
  BY <1>1, AccountedIdle
<1>5. /\ \A h \in Holder, a \in Asset : bal[h][a] \in Nat
      /\ \A t \in Token : books[t] \in Nat
      /\ "router" \in Holder /\ "user" \in Holder /\ "pair" \in Holder
      /\ "ETH" \in Asset /\ Token \subseteq Asset
  BY DEF Accounted, Typed, Balances, Holder, Asset
<1>6. Typed'
  BY <1>1, <1>2, <1>3 DEF Accounted, Typed, Settled
<1>7. Wrapped(bal)' /\ SavedBetween'
  BY <1>1, <1>3, <1>4 DEF Accounted, SavedBetween, Wrapped
<1>8. EtherLast(todo)'
  BY <1>1, <1>2 DEF Settled, EtherLast
<1>9. RouterAccount'
  <2>1. /\ \A t \in Token : Total(RouterGain(t), s) = 0
        /\ Total(RouterGain("ETH"), s) <= 0
    BY <1>2 DEF Settled
  <2>2. /\ \A t \in Token : bal["router"][t] + Total(RouterGain(t), s) = bal["router"][t]
        /\ bal["router"]["ETH"] + Total(RouterGain("ETH"), s) <= 0
    <3>1. s \in Seq(Call) /\ Total(RouterGain("ETH"), s) \in Int
      BY <1>2, <1>5, GainTypes, TotalCat DEF Settled
    <3> QED
      BY <1>4, <1>5, <2>1, <3>1
  <2> QED
    BY <1>1, <1>3, <1>5, <2>2, TotalsAfter DEF RouterAccount
<1>10. PairAccount'
  <2>1. \A t \in Token : (bal["pair"][t] - books[t]) + Total(PairGap(t), s) = 0
    BY <1>2, <1>4, <1>5 DEF Settled
  <2> QED
    BY <1>1, <1>5, <2>1, TotalsAfter DEF PairAccount
<1>11. UserAccount'
  <2>1. CASE Total(Stops, s) >= 1
    BY <1>1, <2>1, TotalsAfter DEF UserAccount
  <2>2. CASE \A a \in Asset : Total(UserGain(a), s) >= limits.min[a] - limits.max[a]
    <3>1. \A a \in Asset : bal["user"][a] + Total(UserGain(a), s)
                             >= (bal["user"][a] - limits.max[a]) + limits.min[a]
      <4> TAKE a \in Asset
      <4>1. Total(UserGain(a), s) \in Int
        BY <1>2, GainTypes, TotalCat DEF Settled
      <4>2. limits.max[a] \in Nat /\ limits.min[a] \in Nat /\ bal["user"][a] \in Nat
        BY <1>2, <1>5 DEF Settled, Bounds
      <4> QED
        BY <2>2, <4>1, <4>2
    <3> QED
      BY <1>1, <1>3, <3>1, TotalsAfter DEF UserAccount
  <2> QED
    BY <1>2, <2>1, <2>2 DEF Settled
<1> QED
  BY <1>6, <1>7, <1>8, <1>9, <1>10, <1>11 DEF Accounted

\* A call moves between the balance and what the calls left will add.
LEMMA NextCallAccounted ==
  ASSUME Accounted, NextCall
  PROVE  Accounted'
<1> DEFINE c == Head(todo)
           r == Tail(todo)
<1>1. /\ todo # <<>> /\ Succeeds(c) /\ bal' = BalancesAfter(c) /\ todo' = r
      /\ call' = call /\ saved' = saved
      /\ books' = IF c.kind = "book"
                  THEN [books EXCEPT ![c.asset] = @ + c.amount] ELSE books
  BY DEF NextCall, Idle
<1>2. /\ bal \in Balances /\ books \in [Token -> Nat] /\ Wrapped(bal)
      /\ todo \in Seq(Call) /\ EtherLast(todo)
  BY DEF Accounted, Typed
<1>3. EtherLast(r)
  BY <1>1, <1>2, EtherLastTail
<1>4. \A a \in Asset :
        /\ c \in Call /\ r \in Seq(Call)
        /\ Total(RouterGain(a), todo) = GainOf("router", a, c) + Total(RouterGain(a), r)
        /\ Total(UserGain(a), todo) = GainOf("user", a, c) + Total(UserGain(a), r)
        /\ Total(PairGap(a), todo)
             = (GainOf("pair", a, c) - BookedOf(a, c)) + Total(PairGap(a), r)
        /\ Total(Stops, todo) = (IF c.kind = "revert" THEN 1 ELSE 0) + Total(Stops, r)
        /\ Total(RouterGain(a), r) \in Int
        /\ Total(UserGain(a), r) \in Int
        /\ Total(PairGap(a), r) \in Int
        /\ Total(Stops, r) \in Int
  BY <1>1, <1>2, AddsHead
<1>5. "ETH" \in Asset /\ Token \subseteq Asset /\ c \in Call /\ r \in Seq(Call)
  BY <1>4 DEF Asset
<1> HIDE DEF c, r
<1>6. /\ Changed(bal', c)
      /\ books' \in [Token -> Nat]
      /\ \A t \in Token : books'[t] = books[t] + BookedOf(t, c)
      /\ c.kind # "revert"
  BY <1>1, <1>2, <1>5, CallChanges
<1>7. \A a \in Asset :
        /\ bal'["router"][a] = bal["router"][a] + GainOf("router", a, c)
        /\ bal'["user"][a] = bal["user"][a] + GainOf("user", a, c)
        /\ bal'["pair"][a] = bal["pair"][a] + GainOf("pair", a, c)
  BY <1>6 DEF Changed
<1>8. \A a \in Asset : /\ bal["router"][a] \in Int /\ bal["user"][a] \in Int
                       /\ bal["pair"][a] \in Int
                       /\ GainOf("router", a, c) \in Int /\ GainOf("user", a, c) \in Int
                       /\ GainOf("pair", a, c) \in Int /\ BookedOf(a, c) \in Int
  <2>1. \A a \in Asset : /\ bal["router"][a] \in Int /\ bal["user"][a] \in Int
                         /\ bal["pair"][a] \in Int
    BY <1>2 DEF Balances, Holder
  <2>2. c.amount \in Int
    BY <1>5 DEF Call
  <2>3. \A a \in Asset : /\ GainOf("router", a, c) \in Int /\ GainOf("user", a, c) \in Int
                         /\ GainOf("pair", a, c) \in Int /\ BookedOf(a, c) \in Int
    BY <2>2 DEF GainOf, BookedOf
  <2> QED
    BY <2>1, <2>3
<1>9. Typed'
  <2>1. bal' \in Balances
    BY <1>6 DEF Changed
  <2> QED
    BY <1>1, <1>5, <1>6, <2>1 DEF Accounted, Typed
<1>10. Wrapped(bal)' /\ SavedBetween'
  BY <1>1, <1>6 DEF Accounted, SavedBetween, Changed, Wrapped
<1>11. EtherLast(todo)'
  BY <1>1, <1>3 DEF EtherLast
<1>12. todo' = r /\ call' = call /\ saved' = saved
  BY <1>1
<1>13. RouterAccount'
  <2>1. /\ \A t \in Token : bal["router"][t] + Total(RouterGain(t), todo)
                              = saved[1]["router"][t]
        /\ bal["router"]["ETH"] + Total(RouterGain("ETH"), todo) <= 0
    BY DEF Accounted, RouterAccount
  <2>2. \A a \in Asset : bal'["router"][a] + Total(RouterGain(a), r)
                           = bal["router"][a] + Total(RouterGain(a), todo)
    BY <1>4, <1>7, <1>8, SMTT(60)
  <2>3. /\ \A t \in Token : bal'["router"][t] + Total(RouterGain(t), r)
                              = saved[1]["router"][t]
        /\ bal'["router"]["ETH"] + Total(RouterGain("ETH"), r) <= 0
    BY <1>5, <2>1, <2>2
  <2>4. \A a \in Asset : Total(RouterGain(a), todo)' = Total(RouterGain(a), r)
    BY <1>12, TotalsAfter
  <2> QED
    BY <1>5, <1>12, <2>3, <2>4 DEF RouterAccount
<1>14. PairAccount'
  <2>1. \A t \in Token : (bal["pair"][t] - books[t]) + Total(PairGap(t), todo) = 0
    BY DEF Accounted, PairAccount
  <2>2. \A t \in Token : (bal'["pair"][t] - books'[t]) + Total(PairGap(t), r) = 0
    <3> TAKE t \in Token
    <3>1. /\ bal["pair"][t] \in Int /\ books[t] \in Int
          /\ GainOf("pair", t, c) \in Int /\ BookedOf(t, c) \in Int
          /\ Total(PairGap(t), r) \in Int
      BY <1>2, <1>4, <1>5, <1>8
    <3>2. /\ bal'["pair"][t] = bal["pair"][t] + GainOf("pair", t, c)
          /\ books'[t] = books[t] + BookedOf(t, c)
          /\ Total(PairGap(t), todo)
               = (GainOf("pair", t, c) - BookedOf(t, c)) + Total(PairGap(t), r)
          /\ (bal["pair"][t] - books[t]) + Total(PairGap(t), todo) = 0
      BY <1>4, <1>5, <1>6, <1>7, <2>1
    <3> QED
      BY <3>1, <3>2
  <2>3. \A a \in Asset : Total(PairGap(a), todo)' = Total(PairGap(a), r)
    BY <1>12, TotalsAfter
  <2> QED
    BY <1>5, <1>12, <2>2, <2>3 DEF PairAccount
<1>15. UserAccount'
  <2>1. CASE Total(Stops, todo) >= 1
    <3>1. Total(Stops, r) >= 1
      BY <1>4, <1>5, <1>6, <2>1
    <3> QED
      BY <1>12, <3>1, TotalsAfter DEF UserAccount
  <2>2. CASE \A a \in Asset : bal["user"][a] + Total(UserGain(a), todo)
                               >= (saved[1]["user"][a] - call.max[a]) + call.min[a]
    <3>1. \A a \in Asset : bal'["user"][a] + Total(UserGain(a), r)
                             = bal["user"][a] + Total(UserGain(a), todo)
      BY <1>4, <1>7, <1>8, SMTT(60)
    <3>2. \A a \in Asset : bal'["user"][a] + Total(UserGain(a), r)
                             >= (saved[1]["user"][a] - call.max[a]) + call.min[a]
      BY <2>2, <3>1
    <3> QED
      BY <1>12, <3>2, TotalsAfter DEF UserAccount
  <2> QED
    BY <2>1, <2>2 DEF Accounted, UserAccount
<1> QED
  BY <1>9, <1>10, <1>11, <1>13, <1>14, <1>15 DEF Accounted

\* A revert goes back to between transactions.
LEMMA RevertAccounted ==
  ASSUME Accounted, Revert
  PROVE  Accounted'
<1>1. /\ bal' = saved[1] /\ books' = saved[2] /\ todo' = <<>>
      /\ call' = Limits(Nothing, Nothing) /\ saved' = saved
  BY DEF Revert
<1>2. /\ saved[1] \in Balances /\ saved[2] \in [Token -> Nat] /\ SavedBetween
  BY DEF Accounted, Typed
<1>3. /\ \A h \in Holder, a \in Asset : saved[1][h][a] \in Nat
      /\ \A t \in Token : saved[2][t] \in Nat
      /\ "router" \in Holder /\ "user" \in Holder /\ "pair" \in Holder
      /\ "ETH" \in Asset /\ Token \subseteq Asset
  BY <1>2 DEF Balances, Holder, Asset
<1>4. Typed'
  <2>1. call' \in Bounds
    BY <1>1, LimitsTypes
  <2> QED
    BY <1>1, <1>2, <2>1 DEF Typed
<1>5. Wrapped(bal)' /\ SavedBetween' /\ EtherLast(todo)'
  BY <1>1, <1>2, NoCallsLeft DEF SavedBetween, Wrapped, EtherLast
<1>6. RouterAccount'
  <2>1. /\ \A t \in Token : saved[1]["router"][t] + Total(RouterGain(t), <<>>)
                              = saved[1]["router"][t]
        /\ saved[1]["router"]["ETH"] + Total(RouterGain("ETH"), <<>>) <= 0
    BY <1>2, <1>3, NoCallsLeft DEF SavedBetween
  <2> QED
    BY <1>1, <1>3, <2>1, TotalsAfter DEF RouterAccount
<1>7. PairAccount'
  <2>1. \A t \in Token : (saved[1]["pair"][t] - saved[2][t]) + Total(PairGap(t), <<>>) = 0
    BY <1>2, <1>3, NoCallsLeft DEF SavedBetween
  <2> QED
    BY <1>1, <1>3, <2>1, TotalsAfter DEF PairAccount
<1>8. UserAccount'
  <2>1. \A a \in Asset : Nothing[a] = 0
    BY DEF Nothing
  <2>2. call'.max = Nothing /\ call'.min = Nothing
    BY <1>1 DEF Limits
  <2>3. \A a \in Asset : saved[1]["user"][a] + Total(UserGain(a), <<>>)
                           >= (saved[1]["user"][a] - Nothing[a]) + Nothing[a]
    BY <1>3, <2>1, NoCallsLeft
  <2> QED
    BY <1>1, <2>2, <2>3, TotalsAfter DEF UserAccount
<1> QED
  BY <1>4, <1>5, <1>6, <1>7, <1>8 DEF Accounted

\* Every step.
LEMMA StepAccounted ==
  ASSUME Accounted, [Next]_vars
  PROVE  Accounted'
<1>1. CASE Transaction
  <2>1. PICK value \in Nat : \E limits, calls :
          /\ Begin(value, limits, calls)
          /\ Settled(Transfer("ETH", "user", "router", value) \o calls, limits)
    BY <1>1, TransactionSettled
  <2>2. PICK limits, calls :
          /\ Begin(value, limits, calls)
          /\ Settled(Transfer("ETH", "user", "router", value) \o calls, limits)
    BY <2>1
  <2> QED
    BY <2>2, BeginAccounted
<1>2. CASE NextCall
  BY <1>2, NextCallAccounted
<1>3. CASE Revert
  BY <1>3, RevertAccounted
<1>4. CASE UNCHANGED vars
  <2>1. bal' = bal /\ books' = books /\ todo' = todo /\ call' = call /\ saved' = saved
    BY <1>4 DEF vars
  <2>2. Typed' /\ Wrapped(bal)' /\ SavedBetween' /\ EtherLast(todo)'
    BY <2>1 DEF Accounted, Typed, SavedBetween, Wrapped, EtherLast
  <2>3. RouterAccount' /\ PairAccount'
    BY <2>1 DEF Accounted, RouterAccount, PairAccount, RouterGain, PairGap, Total
  <2>4. UserAccount'
    BY <2>1 DEF Accounted, UserAccount, UserGain, Stops, Total
  <2> QED
    BY <2>2, <2>3, <2>4 DEF Accounted
<1> QED
  BY <1>1, <1>2, <1>3, <1>4 DEF Next
-----------------------------------------------------------------------------
(***************************************************************************)
(* The account holds in every reachable state, for all amounts, any wealth *)
(* and any gifts, and with it what the runs check.                         *)
(***************************************************************************)

\* Wherever a transaction of the router stands, the balances and the calls
\* that are left add up to what they were before it, within the limits.
THEOREM SpecAccounted == Spec => []Accounted
<1>1. Init => Accounted
  BY InitAccounted
<1>2. Accounted /\ [Next]_vars => Accounted'
  BY StepAccounted
<1> QED
  BY <1>1, <1>2, PTL DEF Spec

\* No balance and no book of the pair falls below zero: what is paid is there,
\* the ether behind WETH included.
THEOREM RouterTypeCorrect == Spec => []RouterTypeOK
<1>1. Accounted => RouterTypeOK
  BY DEF Accounted, Typed, Balances, RouterTypeOK
<1> QED
  BY <1>1, SpecAccounted, PTL

\* The router keeps nothing of a transaction, and pays nobody of what lies
\* there by mistake.
THEOREM KeepsNothingCorrect == Spec => []RouterKeepsNothing
<1>1. ASSUME Accounted, Idle
      PROVE  bal["router"] = saved[1]["router"] /\ bal["router"]["ETH"] = 0
  <2>1. /\ bal["router"]["ETH"] = 0
        /\ \A t \in Token : bal["router"][t] = saved[1]["router"][t]
    BY <1>1, AccountedIdle
  <2>2. bal["router"] \in [Asset -> Nat] /\ saved[1]["router"] \in [Asset -> Nat]
    BY <1>1 DEF Accounted, Typed, Balances, Holder
  <2>3. saved[1]["router"]["ETH"] = 0
    BY <1>1 DEF Accounted, SavedBetween
  <2>4. \A a \in Asset : bal["router"][a] = saved[1]["router"][a]
    BY <2>1, <2>3 DEF Asset
  <2>5. \A f, g \in [Asset -> Nat] : (\A a \in Asset : f[a] = g[a]) => f = g
    OBVIOUS
  <2> QED
    BY <2>1, <2>2, <2>4, <2>5
<1>2. Accounted => RouterKeepsNothing
  BY <1>1 DEF RouterKeepsNothing
<1> QED
  BY <1>2, SpecAccounted, PTL

\* The pair has been sent exactly what it booked.
THEOREM PairBackedCorrect == Spec => []PairBacked
<1>1. Accounted => PairBacked
  BY AccountedIdle DEF PairBacked
<1> QED
  BY <1>1, SpecAccounted, PTL

\* A user pays no more than the maxima of the call and gets no less than the
\* minima.
THEOREM LimitsCorrect == Spec => []LimitsKept
<1>1. Accounted => LimitsKept
  BY AccountedIdle DEF LimitsKept
<1> QED
  BY <1>1, SpecAccounted, PTL

\* When ether is sent to the user, who may then call back, the router holds
\* nothing of the transaction any more.
THEOREM EmptyWhenCalledBackCorrect == Spec => EmptyWhenCalledBack
<1>1. ASSUME Accounted, RouterKeepsNothing', NextCall,
             Head(todo).asset = "ETH", Head(todo).to = "user", NEW a \in Asset
      PROVE  bal'["router"][a] = saved[1]["router"][a]
  <2>1. /\ todo # <<>> /\ todo \in Seq(Call) /\ EtherLast(todo) /\ todo' = Tail(todo)
        /\ saved' = saved
    BY <1>1 DEF NextCall, Idle, Accounted, Typed
  <2>2. Tail(todo) = <<>>
    BY <1>1, <2>1, EtherLastTail DEF EtherOut
  <2>3. Idle'
    BY <2>1, <2>2 DEF Idle
  <2> QED
    BY <1>1, <2>1, <2>3 DEF RouterKeepsNothing
<1>2. Accounted /\ RouterKeepsNothing'
        => [ \A a \in Asset :
               NextCall /\ Head(todo).asset = "ETH" /\ Head(todo).to = "user" =>
                 bal'["router"][a] = saved[1]["router"][a] ]_vars
  BY <1>1
<1> QED
  BY <1>2, SpecAccounted, KeepsNothingCorrect, PTL DEF EmptyWhenCalledBack
=============================================================================
