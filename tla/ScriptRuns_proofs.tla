------------------------- MODULE ScriptRuns_proofs --------------------------
(***************************************************************************)
(* Proofs about ScriptRuns, for every instance of the constants.           *)
(***************************************************************************)
EXTENDS ScriptRuns, SequenceTheorems, FiniteSetTheorems, TLAPS

-----------------------------------------------------------------------------
(***************************************************************************)
(* Annotated programs.  A sequence of instructions is annotated with a     *)
(* label before each instruction and one at its end; D relates the labels  *)
(* before and after an instruction that is done, T those before and after  *)
(* one that throws into a handler.                                         *)
(***************************************************************************)
Fns == {"deploy", "approve", "createPairWrapper", "addInitialLiquidity",
        "addInitialLiquidityETH", "addLiquidity", "withdrawLiquidity",
        "instantSwapTokenToToken", "longTermSwapTokenToToken",
        "cancelTermSwapTokenToToken", "withdrawProceedsFromTermSwapTokenToToken",
        "executeVirtualOrdersWrapper"}

CallType ==
  {c \in [fn : Fns, token : Token, amount : Nat, by : Nat, exact : BOOLEAN] :
     c.exact => c.fn = "addLiquidity"}

Instr ==
  [op : {"clock", "pair", "ratio", "ids", "lookup", "submit", "wait"},
   call : CallType, gas : BOOLEAN, tx : Handle, back : Nat,
   next : Nat \ {0}, catch : Nat, says : {"none", "initial"}]

\* The instruction without its way on.
Bare(i) == [i EXCEPT !.next = 1, !.catch = 0]

GoesOn(D, T, lab, instr, i, end) ==
  /\ i + instr.next <= end
  /\ <<lab[i], Bare(instr), lab[i + instr.next]>> \in D
  /\ instr.catch # 0 =>
       /\ i + instr.catch <= end
       /\ <<lab[i], Bare(instr), lab[i + instr.catch]>> \in T

Labelled(L, D, T, s, lab) ==
  /\ lab \in [1 .. Len(s) + 1 -> L]
  /\ \A i \in 1 .. Len(s) : GoesOn(D, T, lab, s[i], i, Len(s) + 1)

\* From p at the first instruction to q after the last one.
Flow(L, D, T, p, s, q) ==
  /\ s \in Seq(Instr)
  /\ \E lab : Labelled(L, D, T, s, lab) /\ lab[1] = p /\ lab[Len(s) + 1] = q

\* No jumps, and an error at any instruction may be handled at label r.
Line(L, D, T, p, s, q, r) ==
  /\ s \in Seq(Instr)
  /\ \A i \in 1 .. Len(s) : s[i].next = 1 /\ s[i].catch = 0
  /\ \E lab : /\ Labelled(L, D, T, s, lab) /\ lab[1] = p /\ lab[Len(s) + 1] = q
              /\ \A i \in 1 .. Len(s) : <<lab[i], Bare(s[i]), r>> \in T

\* An instruction goes on in a longer program as it does in a part of it.
LEMMA MoveInstruction ==
  ASSUME NEW D, NEW T, NEW a, NEW c, NEW instr \in Instr, NEW i \in Nat \ {0},
         NEW k \in Nat, NEW end \in Nat, NEW end2 \in Nat,
         GoesOn(D, T, a, instr, i, end), end + k <= end2,
         \A x \in 1 .. end : c[x + k] = a[x]
  PROVE  GoesOn(D, T, c, instr, i + k, end2)
<1> DEFINE n == instr.next
           m == instr.catch
<1>1. n \in Nat \ {0} /\ m \in Nat
  BY DEF Instr
<1>2. /\ i + n <= end
      /\ <<a[i], Bare(instr), a[i + n]>> \in D
      /\ m # 0 => i + m <= end /\ <<a[i], Bare(instr), a[i + m]>> \in T
  BY DEF GoesOn
<1> HIDE DEF n, m
<1>3. /\ (i + k) + n = (i + n) + k /\ (i + k) + m = (i + m) + k
      /\ i \in 1 .. end /\ i + n \in 1 .. end
      /\ (i + k) + n <= end2
  BY <1>1, <1>2
<1>4. m # 0 => i + m \in 1 .. end /\ (i + k) + m <= end2
  BY <1>1, <1>2
<1>5. /\ c[i + k] = a[i] /\ c[(i + k) + n] = a[i + n]
      /\ m # 0 => c[(i + k) + m] = a[i + m]
  BY <1>3, <1>4
<1>6. /\ (i + k) + n <= end2
      /\ <<c[i + k], Bare(instr), c[(i + k) + n]>> \in D
      /\ m # 0 => /\ (i + k) + m <= end2
                  /\ <<c[i + k], Bare(instr), c[(i + k) + m]>> \in T
  BY <1>2, <1>3, <1>4, <1>5
<1> QED
  BY <1>6 DEF GoesOn, n, m

\* The labels of two programs, one after the other.
LEMMA JoinLabels ==
  ASSUME NEW L, NEW D, NEW T, NEW s \in Seq(Instr), NEW t \in Seq(Instr), NEW a, NEW b,
         Labelled(L, D, T, s, a), Labelled(L, D, T, t, b), a[Len(s) + 1] = b[1]
  PROVE  LET c == [i \in 1 .. Len(s \o t) + 1 |->
                     IF i <= Len(s) THEN a[i] ELSE b[i - Len(s)]]
         IN  Labelled(L, D, T, s \o t, c)
<1> DEFINE st == s \o t
           c == [i \in 1 .. Len(st) + 1 |-> IF i <= Len(s) THEN a[i] ELSE b[i - Len(s)]]
<1>1. /\ st \in Seq(Instr) /\ Len(st) = Len(s) + Len(t)
      /\ Len(s) \in Nat /\ Len(t) \in Nat
      /\ \A i \in 1 .. Len(s) : st[i] = s[i] /\ s[i] \in Instr
      /\ \A i \in 1 .. Len(t) : st[i + Len(s)] = t[i] /\ t[i] \in Instr
  OBVIOUS
<1>2. /\ a \in [1 .. Len(s) + 1 -> L] /\ b \in [1 .. Len(t) + 1 -> L]
      /\ \A i \in 1 .. Len(s) : GoesOn(D, T, a, s[i], i, Len(s) + 1)
      /\ \A i \in 1 .. Len(t) : GoesOn(D, T, b, t[i], i, Len(t) + 1)
  BY DEF Labelled
<1> HIDE DEF st
<1>3. /\ \A i \in 1 .. Len(s) + 1 : c[i] = a[i]
      /\ \A i \in 1 .. Len(t) + 1 : c[i + Len(s)] = b[i]
  <2>1. \A i \in 1 .. Len(s) + 1 : c[i] = a[i]
    BY <1>1
  <2>2. \A i \in 1 .. Len(t) + 1 : c[i + Len(s)] = b[i]
    BY <1>1
  <2> QED
    BY <2>1, <2>2
<1>4. c \in [1 .. Len(st) + 1 -> L]
  BY <1>1, <1>2
<1> HIDE DEF c
<1>5. \A i \in 1 .. Len(s) : GoesOn(D, T, c, s[i], i, Len(st) + 1)
  <2> SUFFICES ASSUME NEW i \in 1 .. Len(s)
               PROVE  GoesOn(D, T, c, s[i], i, Len(st) + 1)
    OBVIOUS
  <2> DEFINE instr == s[i]
             end == Len(s) + 1
             end2 == Len(st) + 1
  <2>1. /\ instr \in Instr /\ i \in Nat \ {0} /\ 0 \in Nat
        /\ end \in Nat /\ end2 \in Nat /\ end + 0 <= end2
        /\ i + 0 = i
    BY <1>1
  <2>2. GoesOn(D, T, a, instr, i, end)
    BY <1>2
  <2>3. \A x \in 1 .. end : c[x + 0] = a[x]
    BY <1>1, <1>3
  <2> HIDE DEF instr, end, end2
  <2>4. GoesOn(D, T, c, instr, i + 0, end2)
    BY <2>1, <2>2, <2>3, MoveInstruction
  <2> QED
    BY <2>1, <2>4 DEF instr, end2
<1>6. \A i \in 1 .. Len(t) : GoesOn(D, T, c, t[i], i + Len(s), Len(st) + 1)
  <2> SUFFICES ASSUME NEW i \in 1 .. Len(t)
               PROVE  GoesOn(D, T, c, t[i], i + Len(s), Len(st) + 1)
    OBVIOUS
  <2> DEFINE instr == t[i]
             k == Len(s)
             end == Len(t) + 1
             end2 == Len(st) + 1
  <2>1. /\ instr \in Instr /\ i \in Nat \ {0} /\ k \in Nat
        /\ end \in Nat /\ end2 \in Nat /\ end + k <= end2
    BY <1>1
  <2>2. GoesOn(D, T, b, instr, i, end)
    BY <1>2
  <2>3. \A x \in 1 .. end : c[x + k] = b[x]
    BY <1>3
  <2> HIDE DEF instr, k, end, end2
  <2>4. GoesOn(D, T, c, instr, i + k, end2)
    BY <2>1, <2>2, <2>3, MoveInstruction
  <2> QED
    BY <2>4 DEF instr, k, end2
<1>7. \A j \in 1 .. Len(st) : GoesOn(D, T, c, st[j], j, Len(st) + 1)
  <2> SUFFICES ASSUME NEW j \in 1 .. Len(st)
               PROVE  GoesOn(D, T, c, st[j], j, Len(st) + 1)
    OBVIOUS
  <2>1. CASE j <= Len(s)
    <3>1. j \in 1 .. Len(s)
      BY <1>1, <2>1
    <3> QED
      BY <1>1, <1>5, <3>1
  <2>2. CASE ~(j <= Len(s))
    <3> DEFINE i == j - Len(s)
    <3>1. i \in 1 .. Len(t) /\ i + Len(s) = j
      BY <1>1, <2>2
    <3> HIDE DEF i
    <3>2. GoesOn(D, T, c, t[i], i + Len(s), Len(st) + 1) /\ st[i + Len(s)] = t[i]
      BY <1>1, <1>6, <3>1
    <3> QED
      BY <3>1, <3>2
  <2> QED
    BY <2>1, <2>2
<1>8. Labelled(L, D, T, st, c)
  BY <1>4, <1>7 DEF Labelled
<1> QED
  BY <1>8 DEF st, c

\* Programs with matching labels can be put one after the other.
LEMMA JoinFlows ==
  ASSUME NEW L, NEW D, NEW T, NEW p, NEW q, NEW r, NEW s, NEW t,
         Flow(L, D, T, p, s, q), Flow(L, D, T, q, t, r)
  PROVE  Flow(L, D, T, p, s \o t, r)
<1>1. s \in Seq(Instr) /\ t \in Seq(Instr)
  BY DEF Flow
<1>2. PICK a : Labelled(L, D, T, s, a) /\ a[1] = p /\ a[Len(s) + 1] = q
  BY DEF Flow
<1>3. PICK b : Labelled(L, D, T, t, b) /\ b[1] = q /\ b[Len(t) + 1] = r
  BY DEF Flow
<1> DEFINE c == [i \in 1 .. Len(s \o t) + 1 |->
                   IF i <= Len(s) THEN a[i] ELSE b[i - Len(s)]]
<1>4. Labelled(L, D, T, s \o t, c)
  BY <1>1, <1>2, <1>3, JoinLabels
<1>5. Len(s) \in Nat /\ Len(t) \in Nat /\ Len(s \o t) = Len(s) + Len(t) /\ s \o t \in Seq(Instr)
  BY <1>1
<1>6. c[1] = p
  BY <1>2, <1>3, <1>5
<1>7. c[Len(s \o t) + 1] = r
  BY <1>3, <1>5
<1> HIDE DEF c
<1> QED
  BY <1>4, <1>5, <1>6, <1>7 DEF Flow

\* Two lines, one after the other, are a line.
LEMMA JoinLines ==
  ASSUME NEW L, NEW D, NEW T, NEW p, NEW q, NEW r, NEW s, NEW t, NEW h,
         Line(L, D, T, p, s, q, h), Line(L, D, T, q, t, r, h)
  PROVE  Line(L, D, T, p, s \o t, r, h)
<1>1. /\ s \in Seq(Instr) /\ t \in Seq(Instr)
      /\ \A i \in 1 .. Len(s) : s[i].next = 1 /\ s[i].catch = 0
      /\ \A i \in 1 .. Len(t) : t[i].next = 1 /\ t[i].catch = 0
  BY DEF Line
<1>2. PICK a : /\ Labelled(L, D, T, s, a) /\ a[1] = p /\ a[Len(s) + 1] = q
               /\ \A i \in 1 .. Len(s) : <<a[i], Bare(s[i]), h>> \in T
  BY DEF Line
<1>3. PICK b : /\ Labelled(L, D, T, t, b) /\ b[1] = q /\ b[Len(t) + 1] = r
               /\ \A i \in 1 .. Len(t) : <<b[i], Bare(t[i]), h>> \in T
  BY DEF Line
<1> DEFINE st == s \o t
           c == [i \in 1 .. Len(st) + 1 |->
                   IF i <= Len(s) THEN a[i] ELSE b[i - Len(s)]]
<1>4. Labelled(L, D, T, st, c)
  BY <1>1, <1>2, <1>3, JoinLabels
<1>5. /\ Len(s) \in Nat /\ Len(t) \in Nat /\ Len(st) = Len(s) + Len(t) /\ st \in Seq(Instr)
      /\ \A i \in 1 .. Len(s) : st[i] = s[i]
      /\ \A i \in 1 .. Len(t) : st[i + Len(s)] = t[i]
  BY <1>1
<1> HIDE DEF st
<1>6. c[1] = p
  BY <1>2, <1>3, <1>5
<1>7. c[Len(st) + 1] = r
  BY <1>3, <1>5
<1>8. /\ \A i \in 1 .. Len(s) : c[i] = a[i]
      /\ \A i \in 1 .. Len(t) : c[i + Len(s)] = b[i]
  <2>1. \A i \in 1 .. Len(s) : c[i] = a[i]
    BY <1>5
  <2>2. \A i \in 1 .. Len(t) : c[i + Len(s)] = b[i]
    BY <1>5
  <2> QED
    BY <2>1, <2>2
<1> HIDE DEF c
<1>9. \A k \in 1 .. Len(st) :
        st[k].next = 1 /\ st[k].catch = 0 /\ <<c[k], Bare(st[k]), h>> \in T
  <2> SUFFICES ASSUME NEW k \in 1 .. Len(st)
               PROVE  st[k].next = 1 /\ st[k].catch = 0 /\ <<c[k], Bare(st[k]), h>> \in T
    OBVIOUS
  <2>1. CASE k <= Len(s)
    <3>1. k \in 1 .. Len(s)
      BY <1>5, <2>1
    <3>2. st[k] = s[k] /\ c[k] = a[k]
      BY <1>5, <1>8, <3>1
    <3> QED
      BY <1>1, <1>2, <3>1, <3>2
  <2>2. CASE ~(k <= Len(s))
    <3> DEFINE i == k - Len(s)
    <3>1. i \in 1 .. Len(t) /\ i + Len(s) = k
      BY <1>5, <2>2
    <3> HIDE DEF i
    <3>2. st[k] = t[i] /\ c[k] = b[i]
      BY <1>5, <1>8, <3>1
    <3> QED
      BY <1>1, <1>3, <3>1, <3>2
  <2> QED
    BY <2>1, <2>2
<1>10. Line(L, D, T, p, st, r, h)
  BY <1>4, <1>5, <1>6, <1>7, <1>9 DEF Line
<1> QED
  BY <1>10 DEF st

\* A line is a flow; its errors leave the program.
LEMMA LineIsFlow ==
  ASSUME NEW L, NEW D, NEW T, NEW p, NEW q, NEW s, NEW h, Line(L, D, T, p, s, q, h)
  PROVE  Flow(L, D, T, p, s, q)
BY DEF Line, Flow

\* One instruction without jumps is a line.
LEMMA OneLine ==
  ASSUME NEW L, NEW D, NEW T, NEW p \in L, NEW q \in L, NEW h, NEW i \in Instr,
         i.next = 1, i.catch = 0, <<p, Bare(i), q>> \in D, <<p, Bare(i), h>> \in T
  PROVE  Line(L, D, T, p, <<i>>, q, h)
<1> DEFINE s == <<i>>
           c == [k \in 1 .. 2 |-> IF k = 1 THEN p ELSE q]
<1>1. s \in Seq(Instr) /\ Len(s) = 1 /\ s[1] = i
  OBVIOUS
<1>2. c \in [1 .. 2 -> L] /\ c[1] = p /\ c[2] = q
  OBVIOUS
<1> HIDE DEF s, c
<1>3. GoesOn(D, T, c, i, 1, 2)
  BY <1>2 DEF GoesOn
<1>4. Labelled(L, D, T, s, c)
  <2>1. Len(s) + 1 = 2 /\ 1 .. Len(s) = {1}
    BY <1>1
  <2> QED
    BY <1>1, <1>2, <1>3, <2>1 DEF Labelled
<1>5. /\ \A k \in 1 .. Len(s) : s[k].next = 1 /\ s[k].catch = 0 /\ <<c[k], Bare(s[k]), h>> \in T
      /\ c[Len(s) + 1] = q
  <2>1. Len(s) + 1 = 2 /\ 1 .. Len(s) = {1}
    BY <1>1
  <2> QED
    BY <1>1, <1>2, <2>1
<1>6. Line(L, D, T, p, s, q, h)
  BY <1>1, <1>2, <1>4, <1>5 DEF Line
<1> QED
  BY <1>6 DEF s

\* Instructions that do not change the label.
LEMMA IdleLine ==
  ASSUME NEW L, NEW D, NEW T, NEW p \in L, NEW h, NEW s \in Seq(Instr),
         \A i \in 1 .. Len(s) : /\ s[i].next = 1 /\ s[i].catch = 0
                                /\ <<p, Bare(s[i]), p>> \in D /\ <<p, Bare(s[i]), h>> \in T
  PROVE  Line(L, D, T, p, s, p, h)
<1> DEFINE c == [k \in 1 .. Len(s) + 1 |-> p]
<1>1. Len(s) \in Nat
  OBVIOUS
<1>2. c \in [1 .. Len(s) + 1 -> L] /\ \A k \in 1 .. Len(s) + 1 : c[k] = p
  OBVIOUS
<1> HIDE DEF c
<1>3. \A i \in 1 .. Len(s) : GoesOn(D, T, c, s[i], i, Len(s) + 1)
  <2> SUFFICES ASSUME NEW i \in 1 .. Len(s)
               PROVE  GoesOn(D, T, c, s[i], i, Len(s) + 1)
    OBVIOUS
  <2>1. c[i] = p /\ c[i + 1] = p /\ i + 1 <= Len(s) + 1
    BY <1>1, <1>2
  <2> QED
    BY <2>1 DEF GoesOn
<1>4. Labelled(L, D, T, s, c)
  BY <1>2, <1>3 DEF Labelled
<1>5. c[1] = p /\ c[Len(s) + 1] = p /\ \A i \in 1 .. Len(s) : c[i] = p
  BY <1>1, <1>2
<1> QED
  BY <1>4, <1>5 DEF Line

\* The empty program leads from a label to itself.
LEMMA EmptyFlow ==
  ASSUME NEW L, NEW D, NEW T, NEW p \in L
  PROVE  Flow(L, D, T, p, <<>>, p)
<1> DEFINE s == <<>>
           c == [k \in 1 .. 1 |-> p]
<1>1. s \in Seq(Instr) /\ Len(s) = 0
  OBVIOUS
<1>2. c \in [1 .. 1 -> L] /\ c[1] = p
  OBVIOUS
<1> HIDE DEF s, c
<1>3. 1 .. Len(s) = {} /\ Len(s) + 1 = 1
  BY <1>1
<1>4. Labelled(L, D, T, s, c)
  BY <1>2, <1>3 DEF Labelled
<1>5. Flow(L, D, T, p, s, p)
  BY <1>1, <1>2, <1>3, <1>4 DEF Flow
<1> QED
  BY <1>5 DEF s
-----------------------------------------------------------------------------
\* An instruction of the body of a try, k before its handler.
Redirected(i, k, v) == [i EXCEPT !.catch = k, !.next = v]

\* Where an instruction goes on is no part of what it does.
LEMMA Redirect ==
  ASSUME NEW i \in Instr, NEW k \in Nat, NEW v \in Nat \ {0}
  PROVE  /\ Redirected(i, k, v) \in Instr
         /\ Redirected(i, k, v).next = v /\ Redirected(i, k, v).catch = k
         /\ Bare(Redirected(i, k, v)) = Bare(i)
<1> DEFINE j == Redirected(i, k, v)
<1>1. j \in Instr /\ j.next = v /\ j.catch = k
  BY DEF Redirected, Instr
<1>2. Bare(j) = Bare(i)
  BY DEF Redirected, Instr, Bare
<1> QED
  BY <1>1, <1>2

\* An error anywhere in the body goes on at the handler, and both end alike.
LEMMA TryFlow ==
  ASSUME NEW L, NEW D, NEW T, NEW p, NEW q, NEW r, NEW body, NEW handler,
         Line(L, D, T, p, body, q, r), body # <<>>, Flow(L, D, T, r, handler, q)
  PROVE  Flow(L, D, T, p, Try(body, handler), q) /\ Try(body, handler) # <<>>
<1> DEFINE n == Len(body)
           m == Len(handler)
<1>1. /\ body \in Seq(Instr) /\ handler \in Seq(Instr)
      /\ \A i \in 1 .. n : body[i].next = 1 /\ body[i].catch = 0
  BY DEF Line, Flow
<1>2. PICK a : /\ Labelled(L, D, T, body, a) /\ a[1] = p /\ a[n + 1] = q
               /\ \A i \in 1 .. n : <<a[i], Bare(body[i]), r>> \in T
  BY DEF Line
<1>3. PICK b : Labelled(L, D, T, handler, b) /\ b[1] = r /\ b[m + 1] = q
  BY DEF Flow
<1>4. /\ n \in Nat \ {0} /\ m \in Nat
      /\ \A i \in 1 .. n : body[i] \in Instr
      /\ \A i \in 1 .. m : handler[i] \in Instr
  BY <1>1
<1>5. /\ a \in [1 .. n + 1 -> L] /\ b \in [1 .. m + 1 -> L]
      /\ \A i \in 1 .. n : GoesOn(D, T, a, body[i], i, n + 1)
      /\ \A i \in 1 .. m : GoesOn(D, T, b, handler[i], i, m + 1)
  BY <1>2, <1>3 DEF Labelled
<1> DEFINE tried == [i \in 1 .. n |-> Redirected(body[i], n + 1 - i, IF i = n THEN 1 + m ELSE 1)]
           all == tried \o handler
           c == [i \in 1 .. n + m + 1 |-> IF i <= n THEN a[i] ELSE b[i - n]]
<1>6. \A i \in 1 .. n : /\ tried[i] \in Instr
                        /\ tried[i].next = (IF i = n THEN 1 + m ELSE 1)
                        /\ tried[i].catch = n + 1 - i
                        /\ Bare(tried[i]) = Bare(body[i])
  <2> SUFFICES ASSUME NEW i \in 1 .. n
               PROVE  /\ tried[i] \in Instr
                      /\ tried[i].next = (IF i = n THEN 1 + m ELSE 1)
                      /\ tried[i].catch = n + 1 - i
                      /\ Bare(tried[i]) = Bare(body[i])
    OBVIOUS
  <2> DEFINE instr == body[i]
             k == n + 1 - i
             v == IF i = n THEN 1 + m ELSE 1
             w == Redirected(instr, k, v)
  <2>1. tried[i] = w
    OBVIOUS
  <2>2. instr \in Instr
    BY <1>4
  <2>3. k \in Nat /\ v \in Nat \ {0}
    <3> HIDE DEF n, m
    <3> QED
      BY <1>4
  <2> HIDE DEF instr, k, v
  <2>4. w \in Instr /\ w.next = v /\ w.catch = k /\ Bare(w) = Bare(instr)
    BY <2>2, <2>3, Redirect
  <2> HIDE DEF w, tried
  <2> QED
    BY <2>1, <2>4 DEF instr, k, v
<1>7. Try(body, handler) = all
  <2>1. tried = [i \in 1 .. n |-> [body[i] EXCEPT !.catch = n + 1 - i,
                         !.next = IF i = n THEN 1 + m ELSE @]]
    <3>1. \A i \in 1 .. n : Redirected(body[i], n + 1 - i, IF i = n THEN 1 + m ELSE 1)
            = [body[i] EXCEPT !.catch = n + 1 - i, !.next = IF i = n THEN 1 + m ELSE @]
      BY <1>1 DEF Redirected
    <3> QED
      BY <3>1
  <2> HIDE DEF tried
  <2> QED
    BY <2>1 DEF Try
<1>8. tried \in [1 .. n -> Instr]
  BY <1>6
<1> HIDE DEF n, m
<1>9. tried \in Seq(Instr) /\ Len(tried) = n
  BY <1>4, <1>8
<1> HIDE DEF tried
<1>10. /\ all \in Seq(Instr) /\ Len(all) = n + m
       /\ \A i \in 1 .. n : all[i] = tried[i]
       /\ \A i \in 1 .. m : all[i + n] = handler[i]
  <2>1. Len(handler) = m
    BY DEF m
  <2>2. tried \in Seq(Instr) /\ handler \in Seq(Instr)
    BY <1>1, <1>9
  <2>3. /\ all \in Seq(Instr) /\ Len(all) = Len(tried) + Len(handler)
        /\ \A i \in 1 .. Len(tried) : all[i] = tried[i]
        /\ \A i \in 1 .. Len(handler) : all[i + Len(tried)] = handler[i]
    BY <2>2
  <2> HIDE DEF all
  <2> QED
    BY <1>9, <2>1, <2>3
<1> HIDE DEF all
<1>11. /\ \A i \in 1 .. n : c[i] = a[i]
       /\ \A i \in 1 .. m + 1 : c[i + n] = b[i]
  <2>1. \A i \in 1 .. n : c[i] = a[i]
    BY <1>4
  <2>2. \A i \in 1 .. m + 1 : c[i + n] = b[i]
    BY <1>4
  <2> QED
    BY <2>1, <2>2
<1>12. c \in [1 .. n + m + 1 -> L]
  BY <1>4, <1>5
<1> HIDE DEF c
<1>13. c[n + 1] = r /\ c[n + m + 1] = q /\ c[1] = p
  <2>1. c[1 + n] = b[1] /\ c[(m + 1) + n] = b[m + 1] /\ c[1] = a[1]
    BY <1>4, <1>11
  <2> QED
    BY <1>2, <1>3, <1>4, <2>1
<1>14. \A i \in 1 .. n : GoesOn(D, T, c, tried[i], i, n + m + 1)
  <2> SUFFICES ASSUME NEW i \in 1 .. n
               PROVE  GoesOn(D, T, c, tried[i], i, n + m + 1)
    OBVIOUS
  <2> DEFINE x == tried[i]
  <2>1. /\ x.next = (IF i = n THEN 1 + m ELSE 1) /\ x.catch = n + 1 - i
        /\ Bare(x) = Bare(body[i])
    BY <1>6
  <2>2. <<a[i], Bare(body[i]), a[i + 1]>> \in D /\ c[i] = a[i]
    BY <1>1, <1>5, <1>11 DEF GoesOn
  <2>3. <<a[i], Bare(body[i]), r>> \in T
    BY <1>2
  <2> HIDE DEF x
  <2>4. i + x.catch = n + 1 /\ i + x.catch <= n + m + 1
    BY <1>4, <2>1
  <2>5. c[i + x.next] = a[i + 1] /\ i + x.next <= n + m + 1
    <3>1. CASE i = n
      <4>1. i + x.next = n + m + 1 /\ i + 1 = n + 1
        BY <1>4, <2>1, <3>1
      <4> QED
        BY <1>2, <1>4, <1>13, <4>1 DEF n
    <3>2. CASE i # n
      <4>1. x.next = 1 /\ i + 1 \in 1 .. n
        BY <1>4, <2>1, <3>2
      <4> QED
        BY <1>4, <1>11, <4>1
    <3> QED
      BY <3>1, <3>2
  <2>6. <<c[i], Bare(x), c[i + x.next]>> \in D
    BY <2>1, <2>2, <2>5
  <2>7. <<c[i], Bare(x), c[i + x.catch]>> \in T
    BY <1>13, <2>1, <2>2, <2>3, <2>4
  <2>8. GoesOn(D, T, c, x, i, n + m + 1)
    BY <2>4, <2>5, <2>6, <2>7 DEF GoesOn
  <2> QED
    BY <2>8 DEF x
<1>15. \A i \in 1 .. m : GoesOn(D, T, c, handler[i], i + n, n + m + 1)
  <2> SUFFICES ASSUME NEW i \in 1 .. m
               PROVE  GoesOn(D, T, c, handler[i], i + n, n + m + 1)
    OBVIOUS
  <2> DEFINE instr == handler[i]
             end == m + 1
             end2 == n + m + 1
  <2>1. /\ instr \in Instr /\ i \in Nat \ {0} /\ n \in Nat
        /\ end \in Nat /\ end2 \in Nat /\ end + n <= end2
    BY <1>4
  <2>2. GoesOn(D, T, b, instr, i, end)
    BY <1>5
  <2>3. \A x \in 1 .. end : c[x + n] = b[x]
    BY <1>11
  <2> HIDE DEF instr, end, end2
  <2>4. GoesOn(D, T, c, instr, i + n, end2)
    BY <2>1, <2>2, <2>3, MoveInstruction
  <2> QED
    BY <2>4 DEF instr, end2
<1>16. \A j \in 1 .. Len(all) : GoesOn(D, T, c, all[j], j, Len(all) + 1)
  <2> SUFFICES ASSUME NEW j \in 1 .. n + m
               PROVE  GoesOn(D, T, c, all[j], j, n + m + 1)
    BY <1>10
  <2>1. CASE j <= n
    <3>1. j \in 1 .. n
      BY <1>4, <2>1
    <3> QED
      BY <1>10, <1>14, <3>1
  <2>2. CASE ~(j <= n)
    <3> DEFINE i == j - n
    <3>1. i \in 1 .. m /\ i + n = j
      BY <1>4, <2>2
    <3> HIDE DEF i
    <3>2. GoesOn(D, T, c, handler[i], i + n, n + m + 1) /\ all[i + n] = handler[i]
      BY <1>10, <1>15, <3>1
    <3> QED
      BY <3>1, <3>2
  <2> QED
    BY <2>1, <2>2
<1>17. Labelled(L, D, T, all, c)
  BY <1>10, <1>12, <1>16 DEF Labelled
<1>18. Flow(L, D, T, p, all, q)
  BY <1>10, <1>13, <1>17 DEF Flow
<1>19. all # <<>>
  <2>1. Len(all) # 0 /\ Len(<<>>) = 0
    BY <1>4, <1>10
  <2> QED
    BY <2>1, Zenon
<1> QED
  BY <1>7, <1>18, <1>19

\* A sequence is all but its last instruction, and that one.
LEMMA Split ==
  ASSUME NEW a \in Instr, NEW b \in Instr
  PROVE  <<a, b>> = <<a>> \o <<b>>
<1> DEFINE x == <<a, b>>
           y == <<a>> \o <<b>>
<1>1. x \in Seq(Instr) /\ Len(x) = 2 /\ x[1] = a /\ x[2] = b
  OBVIOUS
<1>2. y \in Seq(Instr) /\ Len(y) = 2 /\ y[1] = a /\ y[2] = b
  OBVIOUS
<1> HIDE DEF x, y
<1>3. \A i \in 1 .. Len(x) : x[i] = y[i]
  <2>1. 1 .. Len(x) = {1, 2}
    BY <1>1
  <2> QED
    BY <1>1, <1>2, <2>1
<1>4. x = y
  BY <1>1, <1>2, <1>3, SeqEqual
<1> QED
  BY <1>4 DEF x, y

\* A message is printed after the last instruction.
LEMMA SayingLast ==
  ASSUME NEW s \in Seq(Instr), NEW i \in Instr, NEW what \in {"none", "initial"}
  PROVE  Saying(what, s \o <<i>>) = s \o <<[i EXCEPT !.says = what]>>
<1> DEFINE j == [i EXCEPT !.says = what]
           x == s \o <<i>>
           y == s \o <<j>>
           z == [x EXCEPT ![Len(x)] = j]
<1>1. j \in Instr
  BY DEF Instr
<1>2. Saying(what, x) = [x EXCEPT ![Len(x)] = [x[Len(x)] EXCEPT !.says = what]]
  BY DEF Saying
<1>3. /\ x \in Seq(Instr) /\ Len(x) = Len(s) + 1 /\ Len(s) \in Nat
      /\ x[Len(s) + 1] = i /\ \A k \in 1 .. Len(s) : x[k] = s[k]
  OBVIOUS
<1>4. Saying(what, x) = z
  <2>1. x[Len(x)] = i
    BY <1>3
  <2> HIDE DEF x
  <2> QED
    BY <1>2, <2>1
<1> HIDE DEF j
<1>5. /\ y \in Seq(Instr) /\ Len(y) = Len(s) + 1
      /\ y[Len(s) + 1] = j /\ \A k \in 1 .. Len(s) : y[k] = s[k]
  BY <1>1
<1> HIDE DEF x, y
<1>6. /\ z \in Seq(Instr) /\ Len(z) = Len(s) + 1
      /\ z[Len(s) + 1] = j /\ \A k \in 1 .. Len(s) : z[k] = s[k]
  <2>1. Len(x) \in 1 .. Len(x)
    BY <1>3
  <2>2. /\ z \in Seq(Instr) /\ Len(z) = Len(x)
        /\ \A k \in 1 .. Len(x) : z[k] = IF k = Len(x) THEN j ELSE x[k]
    BY <1>1, <1>3, <2>1, ExceptSeq
  <2> HIDE DEF z
  <2> QED
    BY <1>3, <2>2
<1> HIDE DEF z
<1>7. z = y
  <2>1. \A k \in 1 .. Len(z) : z[k] = y[k]
    <3> SUFFICES ASSUME NEW k \in 1 .. Len(s) + 1 PROVE z[k] = y[k]
      BY <1>6
    <3>1. k \in 1 .. Len(s) \/ k = Len(s) + 1
      BY <1>3
    <3> QED
      BY <1>5, <1>6, <3>1
  <2> QED
    BY <1>5, <1>6, <2>1, SeqEqual
<1> QED
  BY <1>4, <1>7 DEF x, y, j
-----------------------------------------------------------------------------
(***************************************************************************)
(* The instructions of the scripts.                                        *)
(***************************************************************************)
LEMMA StraightIsBare ==
  ASSUME NEW i \in Instr, i.next = 1, i.catch = 0
  PROVE  Bare(i) = i
BY DEF Bare, Instr

Sends(i, call) ==
  /\ i \in Instr /\ call \in CallType
  /\ i.op = "submit" /\ i.call = call /\ i.next = 1 /\ i.catch = 0

Reads(i) == i \in Instr /\ i.op # "submit" /\ i.next = 1 /\ i.catch = 0

\* The calls of the scripts are calls of the router.
LEMMA Calls ==
  ASSUME NEW t \in Token, NEW n \in Nat, NEW by \in Nat
  PROVE  /\ Deploy \in CallType /\ Approve(t, n) \in CallType
         /\ CreatePairWrapper(by) \in CallType
         /\ AddInitialLiquidity(n, by) \in CallType
         /\ AddInitialLiquidityETH(n, by) \in CallType
         /\ AddLiquidity(n, by) \in CallType
         /\ AddLiquidityExactly(n, by) \in CallType
         /\ WithdrawLiquidity(n, by) \in CallType
         /\ InstantSwap(t, n, by) \in CallType
         /\ LongTermSwap(t, n, by) \in CallType
         /\ CancelTermSwap(t, by) \in CallType
         /\ WithdrawProceeds(t, by) \in CallType
         /\ ExecuteVirtualOrders \in CallType
<1> 0 \in Token
  BY DEF Token
<1>0. \A fn \in Fns, u \in Token, k, d \in Nat : Call(fn, u, k, d) \in CallType
  BY DEF Call, CallType
<1>1. Deploy \in CallType /\ Approve(t, n) \in CallType
  BY <1>0 DEF Deploy, Approve, Fns
<1>2. CreatePairWrapper(by) \in CallType /\ ExecuteVirtualOrders \in CallType
  BY <1>0 DEF CreatePairWrapper, ExecuteVirtualOrders, Fns
<1>3. /\ AddInitialLiquidity(n, by) \in CallType
      /\ AddInitialLiquidityETH(n, by) \in CallType
  BY <1>0 DEF AddInitialLiquidity, AddInitialLiquidityETH, Fns
<1>4. AddLiquidity(n, by) \in CallType /\ WithdrawLiquidity(n, by) \in CallType
  BY <1>0 DEF AddLiquidity, WithdrawLiquidity, Fns
<1>5. AddLiquidityExactly(n, by) \in CallType
  <2> DEFINE c == AddLiquidity(n, by)
  <2>1. c \in CallType /\ c.fn = "addLiquidity"
    BY <1>4 DEF AddLiquidity, Call
  <2> HIDE DEF c
  <2>2. [c EXCEPT !.exact = TRUE] \in CallType
    BY <2>1 DEF CallType
  <2> QED
    BY <2>2 DEF AddLiquidityExactly, c
<1>6. InstantSwap(t, n, by) \in CallType /\ LongTermSwap(t, n, by) \in CallType
  BY <1>0 DEF InstantSwap, LongTermSwap, Fns
<1>7. CancelTermSwap(t, by) \in CallType /\ WithdrawProceeds(t, by) \in CallType
  BY <1>0 DEF CancelTermSwap, WithdrawProceeds, Fns
<1> QED
  BY <1>1, <1>2, <1>3, <1>4, <1>5, <1>6, <1>7

\* An instruction goes on at the next one, and throws out of main.
LEMMA InstructionType ==
  ASSUME NEW op \in {"clock", "pair", "ratio", "ids", "lookup", "submit", "wait"}
  PROVE  /\ Instruction(op) \in Instr /\ Instruction(op).op = op
         /\ Instruction(op).next = 1 /\ Instruction(op).catch = 0
         /\ Instruction(op).says = "none"
<1>1. Deploy \in CallType
  BY Calls DEF Token
<1>2. "none" \in Handle
  BY DEF Handle
<1> QED
  BY <1>1, <1>2 DEF Instruction, Instr

\* What sends a call, with or without a handle or a gas limit.
LEMMA SubmitSends ==
  ASSUME NEW call \in CallType, NEW tx \in Handle
  PROVE  /\ Sends(Submit(call), call) /\ Sends(SubmitAs(tx, call), call)
         /\ Sends(WithGas(Submit(call)), call) /\ Sends(WithGas(SubmitAs(tx, call)), call)
         /\ SubmitAs(tx, call).tx = tx /\ WithGas(SubmitAs(tx, call)).tx = tx
         /\ Submit(call).says = "none" /\ SubmitAs(tx, call).says = "none"
         /\ WithGas(Submit(call)).says = "none"
         /\ WithGas(SubmitAs(tx, call)).says = "none"
<1> DEFINE i == Instruction("submit")
           j == Submit(call)
           k == SubmitAs(tx, call)
<1>1. /\ i \in Instr /\ i.op = "submit" /\ i.next = 1 /\ i.catch = 0 /\ i.says = "none"
  BY InstructionType
<1> HIDE DEF i
<1>2. j = [i EXCEPT !.call = call]
  BY DEF Submit, i
<1>3. Sends(j, call) /\ j.says = "none"
  BY <1>1, <1>2 DEF Sends, Instr
<1> HIDE DEF j
<1>4. k = [j EXCEPT !.tx = tx]
  BY DEF SubmitAs, j
<1>5. Sends(k, call) /\ k.says = "none" /\ k.tx = tx
  BY <1>3, <1>4 DEF Sends, Instr
<1> HIDE DEF k
<1>6. Sends(WithGas(j), call) /\ WithGas(j).says = "none"
  BY <1>3 DEF Sends, Instr, WithGas
<1>7. Sends(WithGas(k), call) /\ WithGas(k).says = "none" /\ WithGas(k).tx = tx
  BY <1>5 DEF Sends, Instr, WithGas
<1> QED
  BY <1>3, <1>5, <1>6, <1>7 DEF j, k

\* All the others send nothing.
LEMMA OthersRead ==
  ASSUME NEW tx \in Handle, NEW n \in Nat
  PROVE  /\ Reads(ReadClock) /\ Reads(ReadPair) /\ Reads(ReadRatio) /\ Reads(ReadIds)
         /\ Reads(LookUp(n)) /\ Reads(Wait(tx))
         /\ Wait(tx).op = "wait" /\ Wait(tx).tx = tx /\ Wait(tx).says = "none"
<1>1. Reads(ReadClock) /\ Reads(ReadPair) /\ Reads(ReadRatio) /\ Reads(ReadIds)
  BY InstructionType DEF ReadClock, ReadPair, ReadRatio, ReadIds, Reads
<1>2. Reads(LookUp(n))
  <2> DEFINE i == Instruction("lookup")
  <2>1. i \in Instr /\ i.op = "lookup" /\ i.next = 1 /\ i.catch = 0
    BY InstructionType
  <2> HIDE DEF i
  <2>2. Reads([i EXCEPT !.back = n])
    BY <2>1 DEF Reads, Instr
  <2> QED
    BY <2>2 DEF LookUp, i
<1>3. Reads(Wait(tx)) /\ Wait(tx).op = "wait" /\ Wait(tx).tx = tx /\ Wait(tx).says = "none"
  <2> DEFINE i == Instruction("wait")
  <2>1. i \in Instr /\ i.op = "wait" /\ i.next = 1 /\ i.catch = 0 /\ i.says = "none"
    BY InstructionType
  <2> HIDE DEF i
  <2> DEFINE j == [i EXCEPT !.tx = tx]
  <2>2. Reads(j) /\ j.op = "wait" /\ j.tx = tx /\ j.says = "none"
    BY <2>1 DEF Reads, Instr
  <2> QED
    BY <2>2 DEF Wait, i
<1> QED
  BY <1>1, <1>2, <1>3

\* A message changes neither what is sent nor what is read.
LEMMA SaysAnything ==
  ASSUME NEW i \in Instr, NEW call, NEW what \in {"none", "initial"}
  PROVE  /\ [i EXCEPT !.says = what] \in Instr
         /\ Sends(i, call) => Sends([i EXCEPT !.says = what], call)
         /\ Reads(i) => Reads([i EXCEPT !.says = what])
<1> DEFINE j == [i EXCEPT !.says = what]
<1>1. /\ j \in Instr /\ j.op = i.op /\ j.call = i.call
      /\ j.next = i.next /\ j.catch = i.catch
  BY DEF Instr
<1> HIDE DEF j
<1>2. /\ j \in Instr
      /\ Sends(i, call) => Sends(j, call)
      /\ Reads(i) => Reads(j)
  BY <1>1 DEF Sends, Reads
<1> QED
  BY <1>2 DEF j

\* What each call moves from the account.
LEMMA NeedsOf ==
  ASSUME NEW t \in Token, NEW n \in Nat, NEW by \in Nat, NEW u \in Token
  PROVE  /\ Needs(Deploy)[u] = 0 /\ Needs(Approve(t, n))[u] = 0
         /\ Needs(CreatePairWrapper(by))[u] = 0
         /\ Needs(AddInitialLiquidity(n, by))[u] = n
         /\ Needs(AddInitialLiquidityETH(n, by))[u] = (IF u = 0 THEN n ELSE 0)
         /\ Needs(AddLiquidity(n, by))[u] = n
         /\ Needs(AddLiquidityExactly(n, by))[u] = n
         /\ Needs(WithdrawLiquidity(n, by))[u] = 0
         /\ Needs(InstantSwap(t, n, by))[u] = (IF u = t THEN n ELSE 0)
         /\ Needs(LongTermSwap(t, n, by))[u] = (IF u = t THEN n ELSE 0)
         /\ Needs(CancelTermSwap(t, by))[u] = 0
         /\ Needs(WithdrawProceeds(t, by))[u] = 0
         /\ Needs(ExecuteVirtualOrders)[u] = 0
<1>1. /\ Needs(Deploy)[u] = 0 /\ Needs(Approve(t, n))[u] = 0
      /\ Needs(CreatePairWrapper(by))[u] = 0
  BY DEF Needs, Fn, Call, Deploy, Approve, CreatePairWrapper
<1>2. /\ Needs(AddInitialLiquidity(n, by))[u] = n
      /\ Needs(AddInitialLiquidityETH(n, by))[u] = (IF u = 0 THEN n ELSE 0)
  BY DEF Needs, Fn, Call, AddInitialLiquidity, AddInitialLiquidityETH
<1>3. /\ Needs(AddLiquidity(n, by))[u] = n /\ Needs(WithdrawLiquidity(n, by))[u] = 0
  BY DEF Needs, Fn, Call, AddLiquidity, WithdrawLiquidity
<1>4. Needs(AddLiquidityExactly(n, by))[u] = n
  <2> DEFINE c == AddLiquidityExactly(n, by)
  <2>1. c.fn = "addLiquidity" /\ c.amount = n
    BY DEF Call, AddLiquidity, AddLiquidityExactly
  <2> HIDE DEF c
  <2>2. Needs(c)[u] = n
    BY <2>1 DEF Needs, Fn
  <2> QED
    BY <2>2 DEF c
<1>5. /\ Needs(InstantSwap(t, n, by))[u] = (IF u = t THEN n ELSE 0)
      /\ Needs(LongTermSwap(t, n, by))[u] = (IF u = t THEN n ELSE 0)
  BY DEF Needs, Fn, Call, InstantSwap, LongTermSwap
<1>6. /\ Needs(CancelTermSwap(t, by))[u] = 0 /\ Needs(WithdrawProceeds(t, by))[u] = 0
      /\ Needs(ExecuteVirtualOrders)[u] = 0
  BY DEF Needs, Fn, Call, CancelTermSwap, WithdrawProceeds, ExecuteVirtualOrders
<1> QED
  BY <1>1, <1>2, <1>3, <1>4, <1>5, <1>6

-----------------------------------------------------------------------------
(***************************************************************************)
(* Allowances along a program.  The label of a place says how much of each *)
(* token the router surely may take when what the script has sent so far   *)
(* is mined.                                                               *)
(***************************************************************************)
Allowance == [Token -> Nat]

Allowing(a, b) == [t \in Token |-> IF t = 0 THEN a ELSE b]

AllowDone(l, i, m) ==
  IF i.op = "submit"
  THEN \A t \in Token :
         /\ Needs(i.call)[t] <= l[t]
         /\ m[t] <= IF i.call.fn = "approve" /\ i.call.token = t THEN i.call.amount
                    ELSE IF Needs(i.call)[t] > 0 THEN 0 ELSE l[t]
  ELSE \A t \in Token : m[t] <= l[t]

AllowD == {x \in Allowance \X Instr \X Allowance : AllowDone(x[1], x[2], x[3])}

AllowT == {x \in Allowance \X Instr \X Allowance : \A t \in Token : x[3][t] <= x[1][t]}

AFlow(p, s, q) == Flow(Allowance, AllowD, AllowT, p, s, q) /\ s # <<>>

\* An error may be handled where nothing is allowed.
ALine(p, s, q) == Line(Allowance, AllowD, AllowT, p, s, q, Allowing(0, 0)) /\ s # <<>>

\* What starts with something is something.
LEMMA NotEmpty ==
  ASSUME NEW s \in Seq(Instr), NEW t \in Seq(Instr), s # <<>>
  PROVE  s \o t # <<>>
<1>1. Len(s) \in Nat /\ Len(t) \in Nat /\ Len(s \o t) = Len(s) + Len(t) /\ Len(s) # 0
  OBVIOUS
<1>2. Len(s \o t) # 0 /\ Len(<<>>) = 0
  BY <1>1
<1> QED
  BY <1>2, Zenon

\* Programs one after the other, as to allowances.
LEMMA JoinAFlows ==
  ASSUME NEW p, NEW q, NEW r, NEW s, NEW t, AFlow(p, s, q), AFlow(q, t, r)
  PROVE  AFlow(p, s \o t, r)
<1>1. Flow(Allowance, AllowD, AllowT, p, s \o t, r)
  BY JoinFlows DEF AFlow
<1>2. s \o t # <<>>
  BY NotEmpty DEF AFlow, Flow
<1> QED
  BY <1>1, <1>2 DEF AFlow

\* Lines one after the other, as to allowances.
LEMMA JoinALines ==
  ASSUME NEW p, NEW q, NEW r, NEW s, NEW t, ALine(p, s, q), ALine(q, t, r)
  PROVE  ALine(p, s \o t, r)
<1>1. Line(Allowance, AllowD, AllowT, p, s \o t, r, Allowing(0, 0))
  BY JoinLines DEF ALine
<1>2. s \o t # <<>>
  BY NotEmpty DEF ALine, Line
<1> QED
  BY <1>1, <1>2 DEF ALine

\* A line is a flow, as to allowances.
LEMMA ALineIsAFlow ==
  ASSUME NEW p, NEW q, NEW s, ALine(p, s, q)
  PROVE  AFlow(p, s, q)
BY LineIsFlow DEF ALine, AFlow

\* A handler starts where nothing is surely allowed.
LEMMA ATry ==
  ASSUME NEW p, NEW q, NEW body, NEW handler, ALine(p, body, q),
         Flow(Allowance, AllowD, AllowT, Allowing(0, 0), handler, q)
  PROVE  AFlow(p, Try(body, handler), q)
BY TryFlow DEF ALine, AFlow

\* The label with the given allowances of the two tokens.
LEMMA AllowingFacts ==
  ASSUME NEW a \in Nat, NEW b \in Nat
  PROVE  /\ Allowing(a, b) \in Allowance
         /\ Allowing(a, b)[0] = a /\ Allowing(a, b)[1] = b
         /\ \A t \in Token : t = 0 \/ t = 1
BY DEF Allowing, Allowance, Token

\* A straight instruction is a line, as to allowances.
LEMMA AOne ==
  ASSUME NEW l \in Allowance, NEW m \in Allowance, NEW i \in Instr, i.next = 1, i.catch = 0,
         AllowDone(l, i, m)
  PROVE  ALine(l, <<i>>, m)
<1>1. Bare(i) = i
  BY StraightIsBare
<1>2. <<l, i, m>> \in AllowD
  BY DEF AllowD
<1>3. Allowing(0, 0) \in Allowance /\ \A t \in Token : Allowing(0, 0)[t] <= l[t]
  BY DEF Allowing, Allowance
<1>4. <<l, i, Allowing(0, 0)>> \in AllowT
  BY <1>3 DEF AllowT
<1>5. Line(Allowance, AllowD, AllowT, l, <<i>>, m, Allowing(0, 0))
  BY <1>1, <1>2, <1>4, OneLine
<1>6. <<i>> # <<>>
  <2>1. Len(<<i>>) = 1 /\ Len(<<>>) = 0
    OBVIOUS
  <2> QED
    BY <2>1
<1> QED
  BY <1>5, <1>6 DEF ALine

\* Reading leaves the allowances alone.
LEMMA ARead ==
  ASSUME NEW a \in Nat, NEW b \in Nat, NEW i, Reads(i)
  PROVE  ALine(Allowing(a, b), <<i>>, Allowing(a, b))
<1>1. Allowing(a, b) \in Allowance
  BY AllowingFacts
<1>2. AllowDone(Allowing(a, b), i, Allowing(a, b))
  <2>1. \A t \in Token : Allowing(a, b)[t] \in Nat
    BY <1>1 DEF Allowance
  <2> QED
    BY <2>1 DEF AllowDone, Reads
<1> QED
  BY <1>1, <1>2, AOne DEF Reads

\* A call that is sent where the label x holds leads to the label y.
ACall(x, call, y) == call \in CallType /\ \A i : Sends(i, call) => ALine(x, <<i>>, y)

\* A call leads from one pair of allowances to another.
LEMMA ACallBy ==
  ASSUME NEW l \in Allowance, NEW m \in Allowance, NEW call \in CallType,
         \A t \in Token :
           /\ Needs(call)[t] <= l[t]
           /\ m[t] <= IF call.fn = "approve" /\ call.token = t THEN call.amount
                      ELSE IF Needs(call)[t] > 0 THEN 0 ELSE l[t]
  PROVE  ACall(l, call, m)
<1> SUFFICES ASSUME NEW i, Sends(i, call) PROVE ALine(l, <<i>>, m)
  BY DEF ACall
<1>1. /\ i \in Instr /\ i.op = "submit" /\ i.call = call
      /\ i.next = 1 /\ i.catch = 0
  BY DEF Sends
<1>2. AllowDone(l, i, m)
  BY <1>1 DEF AllowDone
<1> QED
  BY <1>1, <1>2, AOne

\* An approval replaces the one before it.
LEMMA AApproves ==
  ASSUME NEW a \in Nat, NEW b \in Nat, NEW n \in Nat
  PROVE  /\ ACall(Allowing(a, b), Approve(0, n), Allowing(n, b))
         /\ ACall(Allowing(a, b), Approve(1, n), Allowing(a, n))
<1>0. 0 \in Token /\ 1 \in Token /\ 0 \in Nat
  BY DEF Token
<1>1. Allowing(a, b) \in Allowance /\ Allowing(n, b) \in Allowance /\ Allowing(a, n) \in Allowance
  BY AllowingFacts
<1>2. ACall(Allowing(a, b), Approve(0, n), Allowing(n, b))
  <2> DEFINE c == Approve(0, n)
  <2>1. c \in CallType /\ c.fn = "approve" /\ c.token = 0 /\ c.amount = n
    BY <1>0, Calls DEF Approve, Call
  <2>2. \A u \in Token : Needs(c)[u] = 0
    BY <1>0, NeedsOf
  <2> HIDE DEF c
  <2>3. \A t \in Token :
           /\ Needs(c)[t] <= Allowing(a, b)[t]
           /\ Allowing(n, b)[t] <= IF c.fn = "approve" /\ c.token = t THEN c.amount
                      ELSE IF Needs(c)[t] > 0 THEN 0 ELSE Allowing(a, b)[t]
    BY <2>1, <2>2 DEF Allowing
  <2>4. ACall(Allowing(a, b), c, Allowing(n, b))
    BY <1>1, <2>1, <2>3, ACallBy
  <2> QED
    BY <2>4 DEF c
<1>3. ACall(Allowing(a, b), Approve(1, n), Allowing(a, n))
  <2> DEFINE c == Approve(1, n)
  <2>1. c \in CallType /\ c.fn = "approve" /\ c.token = 1 /\ c.amount = n
    BY <1>0, Calls DEF Approve, Call
  <2>2. \A u \in Token : Needs(c)[u] = 0
    BY <1>0, NeedsOf
  <2> HIDE DEF c
  <2>3. \A t \in Token :
           /\ Needs(c)[t] <= Allowing(a, b)[t]
           /\ Allowing(a, n)[t] <= IF c.fn = "approve" /\ c.token = t THEN c.amount
                      ELSE IF Needs(c)[t] > 0 THEN 0 ELSE Allowing(a, b)[t]
    BY <2>1, <2>2 DEF Allowing, Token
  <2>4. ACall(Allowing(a, b), c, Allowing(a, n))
    BY <1>1, <2>1, <2>3, ACallBy
  <2> QED
    BY <2>4 DEF c
<1> QED
  BY <1>2, <1>3

\* A call for which enough is allowed; it leaves nothing to rely on.
LEMMA ASpend ==
  ASSUME NEW a \in Nat, NEW b \in Nat, NEW call \in CallType,
         Needs(call)[0] <= a, Needs(call)[1] <= b
  PROVE  ACall(Allowing(a, b), call, Allowing(0, 0))
<1>1. Allowing(a, b) \in Allowance /\ Allowing(0, 0) \in Allowance
  BY AllowingFacts
<1>2. call.amount \in Nat
  BY DEF CallType
<1>3. \A t \in Token :
         /\ Needs(call)[t] <= Allowing(a, b)[t]
         /\ Allowing(0, 0)[t] <= IF call.fn = "approve" /\ call.token = t THEN call.amount
                    ELSE IF Needs(call)[t] > 0 THEN 0 ELSE Allowing(a, b)[t]
  BY <1>2 DEF Allowing, Token
<1> QED
  BY <1>1, <1>3, ACallBy

\* Calls that use the allowance of one token or of both.
LEMMA ASpends ==
  ASSUME NEW a \in Nat, NEW b \in Nat, NEW n \in Nat, NEW by \in Nat, n <= a
  PROVE  /\ ACall(Allowing(a, b), AddInitialLiquidityETH(n, by), Allowing(0, 0))
         /\ ACall(Allowing(a, b), InstantSwap(0, n, by), Allowing(0, 0))
         /\ ACall(Allowing(a, b), LongTermSwap(0, n, by), Allowing(0, 0))
         /\ ACall(Allowing(b, a), LongTermSwap(1, n, by), Allowing(0, 0))
         /\ n <= b => /\ ACall(Allowing(a, b), AddInitialLiquidity(n, by), Allowing(0, 0))
                      /\ ACall(Allowing(a, b), AddLiquidity(n, by), Allowing(0, 0))
                      /\ ACall(Allowing(a, b), AddLiquidityExactly(n, by), Allowing(0, 0))
<1>0. 0 \in Token /\ 1 \in Token
  BY DEF Token
<1>1. ACall(Allowing(a, b), AddInitialLiquidityETH(n, by), Allowing(0, 0))
  <2> DEFINE c == AddInitialLiquidityETH(n, by)
  <2>1. c \in CallType /\ Needs(c)[0] = n /\ Needs(c)[1] = 0
    BY <1>0, Calls, NeedsOf
  <2> HIDE DEF c
  <2>2. ACall(Allowing(a, b), c, Allowing(0, 0))
    BY <2>1, ASpend
  <2> QED
    BY <2>2 DEF c
<1>2. ACall(Allowing(a, b), InstantSwap(0, n, by), Allowing(0, 0))
  <2> DEFINE c == InstantSwap(0, n, by)
  <2>1. c \in CallType /\ Needs(c)[0] = n /\ Needs(c)[1] = 0
    BY <1>0, Calls, NeedsOf
  <2> HIDE DEF c
  <2>2. ACall(Allowing(a, b), c, Allowing(0, 0))
    BY <2>1, ASpend
  <2> QED
    BY <2>2 DEF c
<1>3. ACall(Allowing(a, b), LongTermSwap(0, n, by), Allowing(0, 0))
  <2> DEFINE c == LongTermSwap(0, n, by)
  <2>1. c \in CallType /\ Needs(c)[0] = n /\ Needs(c)[1] = 0
    BY <1>0, Calls, NeedsOf
  <2> HIDE DEF c
  <2>2. ACall(Allowing(a, b), c, Allowing(0, 0))
    BY <2>1, ASpend
  <2> QED
    BY <2>2 DEF c
<1>4. ACall(Allowing(b, a), LongTermSwap(1, n, by), Allowing(0, 0))
  <2> DEFINE c == LongTermSwap(1, n, by)
  <2>1. c \in CallType /\ Needs(c)[0] = 0 /\ Needs(c)[1] = n
    BY <1>0, Calls, NeedsOf
  <2> HIDE DEF c
  <2>2. ACall(Allowing(b, a), c, Allowing(0, 0))
    BY <2>1, ASpend
  <2> QED
    BY <2>2 DEF c
<1>5. ASSUME n <= b
      PROVE  /\ ACall(Allowing(a, b), AddInitialLiquidity(n, by), Allowing(0, 0))
             /\ ACall(Allowing(a, b), AddLiquidity(n, by), Allowing(0, 0))
             /\ ACall(Allowing(a, b), AddLiquidityExactly(n, by), Allowing(0, 0))
  <2> DEFINE c == AddInitialLiquidity(n, by)
             d == AddLiquidity(n, by)
             e == AddLiquidityExactly(n, by)
  <2>1. /\ c \in CallType /\ Needs(c)[0] = n /\ Needs(c)[1] = n
        /\ d \in CallType /\ Needs(d)[0] = n /\ Needs(d)[1] = n
        /\ e \in CallType /\ Needs(e)[0] = n /\ Needs(e)[1] = n
    BY <1>0, Calls, NeedsOf
  <2> HIDE DEF c, d, e
  <2>2. /\ ACall(Allowing(a, b), c, Allowing(0, 0))
        /\ ACall(Allowing(a, b), d, Allowing(0, 0))
        /\ ACall(Allowing(a, b), e, Allowing(0, 0))
    BY <1>5, <2>1, ASpend
  <2> QED
    BY <2>2 DEF c, d, e
<1> QED
  BY <1>1, <1>2, <1>3, <1>4, <1>5

\* Calls that need no allowance.
LEMMA AFree ==
  ASSUME NEW a \in Nat, NEW b \in Nat, NEW call \in CallType, call.fn # "approve",
         \A t \in Token : Needs(call)[t] = 0
  PROVE  ACall(Allowing(a, b), call, Allowing(a, b))
<1> DEFINE l == Allowing(a, b)
<1>1. l \in Allowance
  BY AllowingFacts
<1>2. \A t \in Token : l[t] \in Nat
  BY <1>1 DEF Allowance
<1> HIDE DEF l
<1>3. \A t \in Token :
         /\ Needs(call)[t] <= l[t]
         /\ l[t] <= IF call.fn = "approve" /\ call.token = t THEN call.amount
                    ELSE IF Needs(call)[t] > 0 THEN 0 ELSE l[t]
  <2> SUFFICES ASSUME NEW t \in Token
               PROVE  /\ Needs(call)[t] <= l[t]
                      /\ l[t] <= IF call.fn = "approve" /\ call.token = t THEN call.amount
                                 ELSE IF Needs(call)[t] > 0 THEN 0 ELSE l[t]
    OBVIOUS
  <2>1. Needs(call)[t] = 0 /\ l[t] \in Nat
    BY <1>2
  <2> QED
    BY <2>1
<1>4. ACall(l, call, l)
  BY <1>1, <1>3, ACallBy
<1> QED
  BY <1>4 DEF l

\* Calls that move nothing from the account.
LEMMA AFrees ==
  ASSUME NEW a \in Nat, NEW b \in Nat, NEW n \in Nat, NEW by \in Nat, NEW t \in Token
  PROVE  /\ ACall(Allowing(a, b), Deploy, Allowing(a, b))
         /\ ACall(Allowing(a, b), CreatePairWrapper(by), Allowing(a, b))
         /\ ACall(Allowing(a, b), WithdrawLiquidity(n, by), Allowing(a, b))
         /\ ACall(Allowing(a, b), CancelTermSwap(t, by), Allowing(a, b))
         /\ ACall(Allowing(a, b), WithdrawProceeds(t, by), Allowing(a, b))
         /\ ACall(Allowing(a, b), ExecuteVirtualOrders, Allowing(a, b))
<1>1. /\ Deploy \in CallType /\ CreatePairWrapper(by) \in CallType
      /\ WithdrawLiquidity(n, by) \in CallType /\ CancelTermSwap(t, by) \in CallType
      /\ WithdrawProceeds(t, by) \in CallType /\ ExecuteVirtualOrders \in CallType
  BY Calls
<1>2. \A u \in Token :
      /\ Needs(Deploy)[u] = 0 /\ Needs(CreatePairWrapper(by))[u] = 0
      /\ Needs(WithdrawLiquidity(n, by))[u] = 0 /\ Needs(CancelTermSwap(t, by))[u] = 0
      /\ Needs(WithdrawProceeds(t, by))[u] = 0 /\ Needs(ExecuteVirtualOrders)[u] = 0
  BY NeedsOf
<1>3. /\ Deploy.fn # "approve" /\ CreatePairWrapper(by).fn # "approve"
      /\ WithdrawLiquidity(n, by).fn # "approve" /\ CancelTermSwap(t, by).fn # "approve"
      /\ WithdrawProceeds(t, by).fn # "approve" /\ ExecuteVirtualOrders.fn # "approve"
  BY DEF Deploy, CreatePairWrapper, WithdrawLiquidity, CancelTermSwap, WithdrawProceeds,
         ExecuteVirtualOrders, Call
<1> QED
  BY <1>1, <1>2, <1>3, AFree

\* All ways to send a call, as to allowances.
LEMMA ASubmit ==
  ASSUME NEW x, NEW call, NEW a \in Nat, NEW b \in Nat, NEW tx \in Handle,
         ACall(x, call, Allowing(a, b))
  PROVE  /\ ALine(x, <<Submit(call)>>, Allowing(a, b))
         /\ ALine(x, <<SubmitAs(tx, call)>>, Allowing(a, b))
         /\ ALine(x, <<WithGas(Submit(call))>>, Allowing(a, b))
         /\ ALine(x, SubmitAndWait(call), Allowing(a, b))
         /\ ALine(x, SubmitWithGasAndWait(call), Allowing(a, b))
<1>1. call \in CallType /\ "tx" \in Handle
  BY DEF ACall, Handle
<1>2. /\ ALine(x, <<Submit(call)>>, Allowing(a, b))
      /\ ALine(x, <<SubmitAs(tx, call)>>, Allowing(a, b))
      /\ ALine(x, <<WithGas(Submit(call))>>, Allowing(a, b))
  BY <1>1, SubmitSends DEF ACall
<1>3. ALine(x, SubmitAndWait(call), Allowing(a, b))
  <2> DEFINE s == SubmitAs("tx", call)
             w == Wait("tx")
  <2>1. ALine(x, <<s>>, Allowing(a, b)) /\ s \in Instr
    BY <1>1, SubmitSends DEF ACall, Sends
  <2>2. Reads(w) /\ w \in Instr
    BY <1>1, OthersRead DEF Reads
  <2> HIDE DEF s, w
  <2>3. ALine(Allowing(a, b), <<w>>, Allowing(a, b))
    BY <2>2, ARead
  <2>4. ALine(x, <<s>> \o <<w>>, Allowing(a, b))
    BY <2>1, <2>3, JoinALines
  <2>5. ALine(x, <<s, w>>, Allowing(a, b))
    BY <2>1, <2>2, <2>4, Split
  <2> QED
    BY <2>5 DEF SubmitAndWait, s, w
<1>4. ALine(x, SubmitWithGasAndWait(call), Allowing(a, b))
  <2> DEFINE s == WithGas(SubmitAs("tx", call))
             w == Wait("tx")
  <2>1. ALine(x, <<s>>, Allowing(a, b)) /\ s \in Instr
    BY <1>1, SubmitSends DEF ACall, Sends
  <2>2. Reads(w) /\ w \in Instr
    BY <1>1, OthersRead DEF Reads
  <2> HIDE DEF s, w
  <2>3. ALine(Allowing(a, b), <<w>>, Allowing(a, b))
    BY <2>2, ARead
  <2>4. ALine(x, <<s>> \o <<w>>, Allowing(a, b))
    BY <2>1, <2>3, JoinALines
  <2>5. ALine(x, <<s, w>>, Allowing(a, b))
    BY <2>1, <2>2, <2>4, Split
  <2> QED
    BY <2>5 DEF SubmitWithGasAndWait, s, w
<1> QED
  BY <1>2, <1>3, <1>4

\* Both tokens are approved, whatever was before.
LEMMA AApproveBoth ==
  ASSUME NEW a \in Nat, NEW b \in Nat, NEW n \in Nat
  PROVE  ALine(Allowing(a, b), ApproveBoth(n), Allowing(n, n))
<1>0. "tx" \in Handle
  BY DEF Handle
<1>1. ACall(Allowing(a, b), Approve(0, n), Allowing(n, b))
  BY AApproves
<1>2. ACall(Allowing(n, b), Approve(1, n), Allowing(n, n))
  BY AApproves
<1>3. ALine(Allowing(a, b), SubmitAndWait(Approve(0, n)), Allowing(n, b))
  BY <1>0, <1>1, ASubmit
<1>4. ALine(Allowing(n, b), SubmitAndWait(Approve(1, n)), Allowing(n, n))
  BY <1>0, <1>2, ASubmit
<1> QED
  BY <1>3, <1>4, JoinALines DEF ApproveBoth
-----------------------------------------------------------------------------
\* Creating the pair needs no allowance, and may fail.
LEMMA ATryCreatePair ==
  ASSUME NEW by \in Nat
  PROVE  AFlow(Allowing(0, 0), TryCreatePair(by), Allowing(0, 0))
<1> DEFINE body == <<Submit(CreatePairWrapper(by))>>
           handler == <<>>
<1>1. ACall(Allowing(0, 0), CreatePairWrapper(by), Allowing(0, 0))
  BY AFrees DEF Token
<1>2. ALine(Allowing(0, 0), body, Allowing(0, 0))
  BY <1>1, ASubmit DEF Handle
<1>3. Allowing(0, 0) \in Allowance
  BY AllowingFacts
<1>4. Flow(Allowance, AllowD, AllowT, Allowing(0, 0), handler, Allowing(0, 0))
  BY <1>3, EmptyFlow
<1> HIDE DEF body, handler
<1>5. AFlow(Allowing(0, 0), Try(body, handler), Allowing(0, 0))
  BY <1>2, <1>4, ATry
<1> QED
  BY <1>5 DEF TryCreatePair, body, handler

\* The message after the last instruction does not matter.
LEMMA ASaying ==
  ASSUME NEW x, NEW y, NEW z, NEW s, NEW i \in Instr, NEW what \in {"none", "initial"},
         ALine(x, s, y), ALine(y, <<[i EXCEPT !.says = what]>>, z)
  PROVE  ALine(x, Saying(what, s \o <<i>>), z)
<1> DEFINE j == [i EXCEPT !.says = what]
<1>1. s \in Seq(Instr)
  BY DEF ALine, Line
<1>2. Saying(what, s \o <<i>>) = s \o <<j>>
  BY <1>1, SayingLast
<1>3. ALine(y, <<j>>, z)
  OBVIOUS
<1> HIDE DEF j
<1>4. ALine(x, s \o <<j>>, z)
  BY <1>3, JoinALines
<1> QED
  BY <1>2, <1>4

\* A line that ends with a call and a message.
LEMMA ASaidSubmit ==
  ASSUME NEW x, NEW y, NEW s, NEW call, NEW a \in Nat, NEW b \in Nat,
         ALine(x, s, y), ACall(y, call, Allowing(a, b))
  PROVE  ALine(x, Saying("initial", s \o <<Submit(call)>>), Allowing(a, b))
<1> DEFINE i == Submit(call)
           j == [i EXCEPT !.says = "initial"]
<1>1. call \in CallType /\ "tx" \in Handle
  BY DEF ACall, Handle
<1>2. Sends(i, call)
  BY <1>1, SubmitSends
<1>3. i \in Instr
  BY <1>2 DEF Sends
<1> HIDE DEF i
<1>4. Sends(j, call)
  BY <1>2, <1>3, SaysAnything
<1>5. ALine(y, <<j>>, Allowing(a, b))
  <2> HIDE DEF j
  <2> QED
    BY <1>4 DEF ACall
<1>6. ALine(x, Saying("initial", s \o <<i>>), Allowing(a, b))
  BY <1>3, <1>5, ASaying
<1> QED
  BY <1>6 DEF i

\* The readings without arguments, as to allowances.
LEMMA AReads ==
  ASSUME NEW a \in Nat, NEW b \in Nat
  PROVE  /\ ALine(Allowing(a, b), <<ReadClock>>, Allowing(a, b))
         /\ ALine(Allowing(a, b), <<ReadPair>>, Allowing(a, b))
         /\ ALine(Allowing(a, b), <<ReadRatio>>, Allowing(a, b))
         /\ ALine(Allowing(a, b), <<ReadIds>>, Allowing(a, b))
<1>1. "tx" \in Handle /\ 0 \in Nat
  BY DEF Handle
<1>2. Reads(ReadClock) /\ Reads(ReadPair) /\ Reads(ReadRatio) /\ Reads(ReadIds)
  BY <1>1, OthersRead
<1> QED
  BY <1>2, ARead

\* Looking up an order, as to allowances.
LEMMA ALookUps ==
  ASSUME NEW a \in Nat, NEW b \in Nat, NEW n \in Nat
  PROVE  ALine(Allowing(a, b), <<LookUp(n)>>, Allowing(a, b))
<1>1. "tx" \in Handle
  BY DEF Handle
<1> QED
  BY <1>1, OthersRead, ARead

\* Waiting, as to allowances.
LEMMA AWaits ==
  ASSUME NEW a \in Nat, NEW b \in Nat, NEW tx \in Handle
  PROVE  ALine(Allowing(a, b), <<Wait(tx)>>, Allowing(a, b))
<1>1. 0 \in Nat
  OBVIOUS
<1> QED
  BY <1>1, OthersRead, ARead

\* A sequence that is written out is a line if its pieces are.
LEMMA OnePieceMore ==
  ASSUME NEW x, NEW y, NEW z, NEW s, NEW u \in Seq(Instr),
         ALine(x, s, y), Len(u) = Len(s) + 1,
         \A k \in 1 .. Len(s) : u[k] = s[k],
         ALine(y, <<u[Len(u)]>>, z)
  PROVE  ALine(x, u, z)
<1> DEFINE i == u[Len(u)]
           v == s \o <<i>>
<1>1. s \in Seq(Instr) /\ Len(s) \in Nat
  BY DEF ALine, Line
<1>2. i \in Instr
  BY <1>1
<1>3. ALine(y, <<i>>, z)
  OBVIOUS
<1>4. i = u[Len(s) + 1]
  BY <1>1
<1> HIDE DEF i
<1>5. /\ v \in Seq(Instr) /\ Len(v) = Len(s) + 1
      /\ v[Len(s) + 1] = i /\ \A k \in 1 .. Len(s) : v[k] = s[k]
  BY <1>1, <1>2
<1>6. ALine(x, v, z)
  BY <1>3, JoinALines
<1> HIDE DEF v
<1>7. \A k \in 1 .. Len(u) : u[k] = v[k]
  <2> SUFFICES ASSUME NEW k \in 1 .. Len(s) + 1 PROVE u[k] = v[k]
    OBVIOUS
  <2>1. k \in 1 .. Len(s) \/ k = Len(s) + 1
    BY <1>1
  <2> QED
    BY <1>4, <1>5, <2>1
<1>8. u = v
  BY <1>5, <1>7, SeqEqual
<1> QED
  BY <1>6, <1>8

\* Two instructions in a row.
LEMMA ATwo ==
  ASSUME NEW x, NEW y, NEW z, NEW e1, NEW e2,
         ALine(x, <<e1>>, y), ALine(y, <<e2>>, z)
  PROVE  ALine(x, <<e1, e2>>, z)
<1> DEFINE s == <<e1>>
           t == <<e2>>
           u == <<e1, e2>>
<1>1. s \in Seq(Instr) /\ t \in Seq(Instr)
  BY DEF ALine, Line
<1>2. /\ Len(s) = 1 /\ Len(t) = 1 /\ t[1] = e2
      /\ s[1] = e1
  OBVIOUS
<1> HIDE DEF s, t
<1>3. /\ \A k \in 1 .. Len(s) : s[k] \in Instr
      /\ \A k \in 1 .. Len(t) : t[k] \in Instr
  BY <1>1, ElementOfSeq
<1> HIDE DEF u
<1>4. e1 \in Instr /\ e2 \in Instr
  BY <1>2, <1>3
<1>5. /\ u \in Seq(Instr) /\ Len(u) = 2
      /\ u[1] = e1 /\ u[2] = e2
  BY <1>4 DEF u
<1>6. \A k \in 1 .. Len(s) : u[k] = s[k]
  <2>1. 1 .. Len(s) = {1}
    BY <1>2
  <2> QED
    BY <1>2, <1>5, <2>1
<1>7. ALine(x, s, y) /\ ALine(y, <<u[2]>>, z)
  BY <1>5 DEF s
<1>8. Len(u) = Len(s) + 1 /\ u[Len(u)] = u[2]
  BY <1>2, <1>5
<1>9. ALine(x, u, z)
  BY <1>5, <1>6, <1>7, <1>8, OnePieceMore
<1> QED
  BY <1>9 DEF u

\* Three instructions in a row.
LEMMA AThree ==
  ASSUME NEW x, NEW y, NEW z, NEW e1, NEW e2, NEW e3,
         ALine(x, <<e1, e2>>, y), ALine(y, <<e3>>, z)
  PROVE  ALine(x, <<e1, e2, e3>>, z)
<1> DEFINE s == <<e1, e2>>
           t == <<e3>>
           u == <<e1, e2, e3>>
<1>1. s \in Seq(Instr) /\ t \in Seq(Instr)
  BY DEF ALine, Line
<1>2. /\ Len(s) = 2 /\ Len(t) = 1 /\ t[1] = e3
      /\ s[1] = e1 /\ s[2] = e2
  OBVIOUS
<1> HIDE DEF s, t
<1>3. /\ \A k \in 1 .. Len(s) : s[k] \in Instr
      /\ \A k \in 1 .. Len(t) : t[k] \in Instr
  BY <1>1, ElementOfSeq
<1> HIDE DEF u
<1>4. e1 \in Instr /\ e2 \in Instr /\ e3 \in Instr
  BY <1>2, <1>3
<1>5. /\ u \in Seq(Instr) /\ Len(u) = 3
      /\ u[1] = e1 /\ u[2] = e2 /\ u[3] = e3
  BY <1>4 DEF u
<1>6. \A k \in 1 .. Len(s) : u[k] = s[k]
  <2>1. 1 .. Len(s) = {1, 2}
    BY <1>2
  <2> QED
    BY <1>2, <1>5, <2>1
<1>7. ALine(x, s, y) /\ ALine(y, <<u[3]>>, z)
  BY <1>5 DEF s
<1>8. Len(u) = Len(s) + 1 /\ u[Len(u)] = u[3]
  BY <1>2, <1>5
<1>9. ALine(x, u, z)
  BY <1>5, <1>6, <1>7, <1>8, OnePieceMore
<1> QED
  BY <1>9 DEF u

\* Four instructions in a row.
LEMMA AFour ==
  ASSUME NEW x, NEW y, NEW z, NEW e1, NEW e2, NEW e3, NEW e4,
         ALine(x, <<e1, e2, e3>>, y), ALine(y, <<e4>>, z)
  PROVE  ALine(x, <<e1, e2, e3, e4>>, z)
<1> DEFINE s == <<e1, e2, e3>>
           t == <<e4>>
           u == <<e1, e2, e3, e4>>
<1>1. s \in Seq(Instr) /\ t \in Seq(Instr)
  BY DEF ALine, Line
<1>2. /\ Len(s) = 3 /\ Len(t) = 1 /\ t[1] = e4
      /\ s[1] = e1 /\ s[2] = e2 /\ s[3] = e3
  OBVIOUS
<1> HIDE DEF s, t
<1>3. /\ \A k \in 1 .. Len(s) : s[k] \in Instr
      /\ \A k \in 1 .. Len(t) : t[k] \in Instr
  BY <1>1, ElementOfSeq
<1> HIDE DEF u
<1>4. e1 \in Instr /\ e2 \in Instr /\ e3 \in Instr /\ e4 \in Instr
  BY <1>2, <1>3
<1>5. /\ u \in Seq(Instr) /\ Len(u) = 4
      /\ u[1] = e1 /\ u[2] = e2 /\ u[3] = e3 /\ u[4] = e4
  BY <1>4 DEF u
<1>6. \A k \in 1 .. Len(s) : u[k] = s[k]
  <2>1. 1 .. Len(s) = {1, 2, 3}
    BY <1>2
  <2> QED
    BY <1>2, <1>5, <2>1
<1>7. ALine(x, s, y) /\ ALine(y, <<u[4]>>, z)
  BY <1>5 DEF s
<1>8. Len(u) = Len(s) + 1 /\ u[Len(u)] = u[4]
  BY <1>2, <1>5
<1>9. ALine(x, u, z)
  BY <1>5, <1>6, <1>7, <1>8, OnePieceMore
<1> QED
  BY <1>9 DEF u

\* Five instructions in a row.
LEMMA AFive ==
  ASSUME NEW x, NEW y, NEW z, NEW e1, NEW e2, NEW e3, NEW e4, NEW e5,
         ALine(x, <<e1, e2, e3, e4>>, y), ALine(y, <<e5>>, z)
  PROVE  ALine(x, <<e1, e2, e3, e4, e5>>, z)
<1> DEFINE s == <<e1, e2, e3, e4>>
           t == <<e5>>
           u == <<e1, e2, e3, e4, e5>>
<1>1. s \in Seq(Instr) /\ t \in Seq(Instr)
  BY DEF ALine, Line
<1>2. /\ Len(s) = 4 /\ Len(t) = 1 /\ t[1] = e5
      /\ s[1] = e1 /\ s[2] = e2 /\ s[3] = e3 /\ s[4] = e4
  OBVIOUS
<1> HIDE DEF s, t
<1>3. /\ \A k \in 1 .. Len(s) : s[k] \in Instr
      /\ \A k \in 1 .. Len(t) : t[k] \in Instr
  BY <1>1, ElementOfSeq
<1> HIDE DEF u
<1>4. e1 \in Instr /\ e2 \in Instr /\ e3 \in Instr /\ e4 \in Instr /\ e5 \in Instr
  BY <1>2, <1>3
<1>5. /\ u \in Seq(Instr) /\ Len(u) = 5
      /\ u[1] = e1 /\ u[2] = e2 /\ u[3] = e3 /\ u[4] = e4 /\ u[5] = e5
  BY <1>4 DEF u
<1>6. \A k \in 1 .. Len(s) : u[k] = s[k]
  <2>1. 1 .. Len(s) = {1, 2, 3, 4}
    BY <1>2
  <2> QED
    BY <1>2, <1>5, <2>1
<1>7. ALine(x, s, y) /\ ALine(y, <<u[5]>>, z)
  BY <1>5 DEF s
<1>8. Len(u) = Len(s) + 1 /\ u[Len(u)] = u[5]
  BY <1>2, <1>5
<1>9. ALine(x, u, z)
  BY <1>5, <1>6, <1>7, <1>8, OnePieceMore
<1> QED
  BY <1>9 DEF u

\* Six instructions in a row.
LEMMA ASix ==
  ASSUME NEW x, NEW y, NEW z, NEW e1, NEW e2, NEW e3, NEW e4, NEW e5, NEW e6,
         ALine(x, <<e1, e2, e3, e4, e5>>, y), ALine(y, <<e6>>, z)
  PROVE  ALine(x, <<e1, e2, e3, e4, e5, e6>>, z)
<1> DEFINE s == <<e1, e2, e3, e4, e5>>
           t == <<e6>>
           u == <<e1, e2, e3, e4, e5, e6>>
<1>1. s \in Seq(Instr) /\ t \in Seq(Instr)
  BY DEF ALine, Line
<1>2. /\ Len(s) = 5 /\ Len(t) = 1 /\ t[1] = e6
      /\ s[1] = e1 /\ s[2] = e2 /\ s[3] = e3 /\ s[4] = e4 /\ s[5] = e5
  OBVIOUS
<1> HIDE DEF s, t
<1>3. /\ \A k \in 1 .. Len(s) : s[k] \in Instr
      /\ \A k \in 1 .. Len(t) : t[k] \in Instr
  BY <1>1, ElementOfSeq
<1> HIDE DEF u
<1>4. e1 \in Instr /\ e2 \in Instr /\ e3 \in Instr /\ e4 \in Instr /\ e5 \in Instr /\ e6 \in Instr
  BY <1>2, <1>3
<1>5. /\ u \in Seq(Instr) /\ Len(u) = 6
      /\ u[1] = e1 /\ u[2] = e2 /\ u[3] = e3 /\ u[4] = e4 /\ u[5] = e5 /\ u[6] = e6
  BY <1>4 DEF u
<1>6. \A k \in 1 .. Len(s) : u[k] = s[k]
  <2>1. 1 .. Len(s) = {1, 2, 3, 4, 5}
    BY <1>2
  <2> QED
    BY <1>2, <1>5, <2>1
<1>7. ALine(x, s, y) /\ ALine(y, <<u[6]>>, z)
  BY <1>5 DEF s
<1>8. Len(u) = Len(s) + 1 /\ u[Len(u)] = u[6]
  BY <1>2, <1>5
<1>9. ALine(x, u, z)
  BY <1>5, <1>6, <1>7, <1>8, OnePieceMore
<1> QED
  BY <1>9 DEF u
-----------------------------------------------------------------------------
\* A message after the last transaction has been waited for.
LEMMA ASaidWait ==
  ASSUME NEW x, NEW y, NEW s, NEW call, NEW a \in Nat, NEW b \in Nat,
         ALine(x, s, y), ACall(y, call, Allowing(a, b))
  PROVE  ALine(x, Saying("initial", s \o SubmitAndWait(call)), Allowing(a, b))
<1> DEFINE i == SubmitAs("tx", call)
           w == Wait("tx")
           j == [w EXCEPT !.says = "initial"]
<1>1. call \in CallType /\ "tx" \in Handle /\ 0 \in Nat
  BY DEF ACall, Handle
<1>2. Sends(i, call) /\ i \in Instr /\ Reads(w) /\ w \in Instr
  BY <1>1, SubmitSends, OthersRead DEF Sends, Reads
<1>3. ALine(y, <<i>>, Allowing(a, b))
  <2> HIDE DEF i
  <2> QED
    BY <1>2 DEF ACall
<1>4. SubmitAndWait(call) = <<i>> \o <<w>>
  <2>1. SubmitAndWait(call) = <<i, w>>
    BY DEF SubmitAndWait
  <2> HIDE DEF i, w
  <2> QED
    BY <1>2, <2>1, Split
<1> HIDE DEF i, w
<1>5. Reads(j)
  BY <1>2, SaysAnything
<1>6. ALine(Allowing(a, b), <<j>>, Allowing(a, b))
  <2> HIDE DEF j
  <2> QED
    BY <1>5, ARead
<1>7. ALine(x, s \o <<i>>, Allowing(a, b))
  BY <1>3, JoinALines
<1>8. ALine(x, Saying("initial", (s \o <<i>>) \o <<w>>), Allowing(a, b))
  <2> DEFINE si == s \o <<i>>
  <2> HIDE DEF si
  <2>1. ALine(x, si, Allowing(a, b))
    BY <1>7 DEF si
  <2>2. ALine(x, Saying("initial", si \o <<w>>), Allowing(a, b))
    BY <1>2, <1>6, <2>1, ASaying
  <2> QED
    BY <2>2 DEF si
<1>9. (s \o <<i>>) \o <<w>> = s \o SubmitAndWait(call)
  <2> DEFINE one == <<i>>
             two == <<w>>
  <2>1. s \in Seq(Instr) /\ one \in Seq(Instr) /\ two \in Seq(Instr)
    BY <1>2 DEF ALine, Line
  <2> HIDE DEF one, two
  <2>2. (s \o one) \o two = s \o (one \o two)
    BY <2>1, ConcatAssociative
  <2> QED
    BY <1>4, <2>2 DEF one, two
<1> QED
  BY <1>8, <1>9

-----------------------------------------------------------------------------
(***************************************************************************)
(* The scripts, piece by piece: each of them goes from nothing allowed to  *)
(* nothing allowed.                                                        *)
(***************************************************************************)
LEMMA AInstantSwapOf == ALine(Allowing(0, 0), InstantSwapOf(0), Allowing(0, 0))
<1>0. /\ "tx" \in Handle /\ "tx2" \in Handle /\ "token0" \in Handle /\ "token1" \in Handle
      /\ 0 \in Token
  BY DEF Handle, Token
<1>1. ALine(Allowing(0, 0), <<Submit(Approve(0, 1))>>, Allowing(1, 0))
  <2>1. ACall(Allowing(0, 0), Approve(0, 1), Allowing(1, 0))
    BY AApproves, <1>0
  <2> QED
    BY <1>0, <2>1, ASubmit
<1>2. ALine(Allowing(1, 0), <<Submit(InstantSwap(0, 1, 7))>>, Allowing(0, 0))
  <2>1. ACall(Allowing(1, 0), InstantSwap(0, 1, 7), Allowing(0, 0))
    BY ASpends, <1>0
  <2> QED
    BY <1>0, <2>1, ASubmit
<1>3. ALine(Allowing(0, 0), <<Submit(Approve(0, 1)), Submit(InstantSwap(0, 1, 7))>>,
      Allowing(0, 0))
  BY <1>1, <1>2, ATwo
<1> QED
  BY <1>3 DEF InstantSwapOf

\* An order is approved before it is placed; cancelling needs nothing.
LEMMA APlaceThenCancel == ALine(Allowing(0, 0), PlaceThenCancel(0), Allowing(0, 0))
<1>0. /\ "tx" \in Handle /\ "tx2" \in Handle /\ "token0" \in Handle /\ "token1" \in Handle
      /\ 0 \in Token
  BY DEF Handle, Token
<1>1. ALine(Allowing(0, 0), <<ReadIds>>, Allowing(0, 0))
  BY <1>0, AReads
<1>2. ALine(Allowing(0, 0), <<Submit(Approve(0, 1))>>, Allowing(1, 0))
  <2>1. ACall(Allowing(0, 0), Approve(0, 1), Allowing(1, 0))
    BY AApproves, <1>0
  <2> QED
    BY <1>0, <2>1, ASubmit
<1>3. ALine(Allowing(1, 0), <<WithGas(Submit(LongTermSwap(0, 1, 9)))>>, Allowing(0, 0))
  <2>1. ACall(Allowing(1, 0), LongTermSwap(0, 1, 9), Allowing(0, 0))
    BY ASpends, <1>0
  <2> QED
    BY <1>0, <2>1, ASubmit
<1>4. ALine(Allowing(0, 0), <<ReadClock>>, Allowing(0, 0))
  BY <1>0, AReads
<1>5. ALine(Allowing(0, 0), <<WithGas(Submit(CancelTermSwap(0, 1)))>>, Allowing(0, 0))
  <2>1. ACall(Allowing(0, 0), CancelTermSwap(0, 1), Allowing(0, 0))
    BY AFrees, <1>0
  <2> QED
    BY <1>0, <2>1, ASubmit
<1>6. ALine(Allowing(0, 0), <<ReadIds, Submit(Approve(0, 1))>>, Allowing(1, 0))
  BY <1>1, <1>2, ATwo
<1>7. ALine(Allowing(0, 0), <<ReadIds, Submit(Approve(0, 1)), WithGas(Submit(LongTermSwap(0,
      1, 9)))>>, Allowing(0, 0))
  BY <1>6, <1>3, AThree
<1>8. ALine(Allowing(0, 0), <<ReadIds, Submit(Approve(0, 1)), WithGas(Submit(LongTermSwap(0,
      1, 9))), ReadIds>>, Allowing(0, 0))
  BY <1>7, <1>1, AFour
<1>9. ALine(Allowing(0, 0), <<ReadIds, Submit(Approve(0, 1)), WithGas(Submit(LongTermSwap(0,
      1, 9))), ReadIds, ReadClock>>, Allowing(0, 0))
  BY <1>8, <1>4, AFive
<1>10. ALine(Allowing(0, 0), <<ReadIds, Submit(Approve(0, 1)), WithGas(Submit(LongTermSwap(0,
      1, 9))), ReadIds, ReadClock, WithGas(Submit(CancelTermSwap(0, 1)))>>, Allowing(0, 0))
  BY <1>9, <1>5, ASix
<1> QED
  BY <1>10 DEF PlaceThenCancel

\* Each way to provide liquidity approves what it takes.
LEMMA AProvideInHaste == AFlow(Allowing(0, 0), ProvideInHaste, Allowing(0, 0))
<1>0. /\ "tx" \in Handle /\ "tx2" \in Handle /\ "token0" \in Handle /\ "token1" \in Handle
      /\ 0 \in Token
  BY DEF Handle, Token
<1>1. AFlow(Allowing(0, 0), TryCreatePair(1), Allowing(0, 0))
  BY ATryCreatePair
<1>2. ALine(Allowing(0, 0), ApproveBoth(10), Allowing(10, 10))
  BY AApproveBoth
<1>3. ACall(Allowing(10, 10), AddInitialLiquidity(10, 3), Allowing(0, 0))
  BY ASpends
<1>4. ALine(Allowing(0, 0), Saying("initial", ApproveBoth(10) \o
      <<Submit(AddInitialLiquidity(10, 3))>>), Allowing(0, 0))
  BY <1>2, <1>3, ASaidSubmit
<1>5. ALine(Allowing(0, 0), <<ReadRatio>>, Allowing(0, 0))
  BY <1>0, AReads
<1>6. ALine(Allowing(0, 0), <<Submit(Approve(0, 3))>>, Allowing(3, 0))
  <2>1. ACall(Allowing(0, 0), Approve(0, 3), Allowing(3, 0))
    BY AApproves, <1>0
  <2> QED
    BY <1>0, <2>1, ASubmit
<1>7. ALine(Allowing(3, 0), <<Submit(Approve(1, 3))>>, Allowing(3, 3))
  <2>1. ACall(Allowing(3, 0), Approve(1, 3), Allowing(3, 3))
    BY AApproves, <1>0
  <2> QED
    BY <1>0, <2>1, ASubmit
<1>8. ALine(Allowing(3, 3), <<Submit(AddLiquidityExactly(3, 5))>>, Allowing(0, 0))
  <2>1. ACall(Allowing(3, 3), AddLiquidityExactly(3, 5), Allowing(0, 0))
    BY ASpends, <1>0
  <2> QED
    BY <1>0, <2>1, ASubmit
<1>9. ALine(Allowing(0, 0), <<ReadRatio, Submit(Approve(0, 3))>>, Allowing(3, 0))
  BY <1>5, <1>6, ATwo
<1>10. ALine(Allowing(0, 0), <<ReadRatio, Submit(Approve(0, 3)), Submit(Approve(1, 3))>>,
      Allowing(3, 3))
  BY <1>9, <1>7, AThree
<1>11. ALine(Allowing(0, 0), <<ReadRatio, Submit(Approve(0, 3)), Submit(Approve(1, 3)),
      Submit(AddLiquidityExactly(3, 5))>>, Allowing(0, 0))
  BY <1>10, <1>8, AFour
<1>12. Flow(Allowance, AllowD, AllowT, Allowing(0, 0), <<ReadRatio, Submit(Approve(0, 3)),
      Submit(Approve(1, 3)), Submit(AddLiquidityExactly(3, 5))>>, Allowing(0, 0))
  BY <1>11, LineIsFlow DEF ALine
<1>13. AFlow(Allowing(0, 0), Try(Saying("initial", ApproveBoth(10) \o
      <<Submit(AddInitialLiquidity(10, 3))>>), <<ReadRatio, Submit(Approve(0, 3)),
      Submit(Approve(1, 3)), Submit(AddLiquidityExactly(3, 5))>>), Allowing(0, 0))
  <2> DEFINE body == Saying("initial", ApproveBoth(10) \o <<Submit(AddInitialLiquidity(10,
        3))>>)
             handler == <<ReadRatio, Submit(Approve(0, 3)), Submit(Approve(1, 3)),
                   Submit(AddLiquidityExactly(3, 5))>>
  <2> HIDE DEF body, handler
  <2>1. AFlow(Allowing(0, 0), Try(body, handler), Allowing(0, 0))
    BY <1>4, <1>12, ATry DEF body, handler
  <2> QED
    BY <2>1 DEF body, handler
<1> DEFINE z1 == TryCreatePair(1)
           z2 == Try(Saying("initial", ApproveBoth(10) \o <<Submit(AddInitialLiquidity(10,
                 3))>>), <<ReadRatio, Submit(Approve(0, 3)), Submit(Approve(1, 3)),
                 Submit(AddLiquidityExactly(3, 5))>>)
<1>14. /\ AFlow(Allowing(0, 0), z1, Allowing(0, 0))
      /\ AFlow(Allowing(0, 0), z2, Allowing(0, 0))
  BY <1>1, <1>13
<1> HIDE DEF z1, z2
<1>15. AFlow(Allowing(0, 0), z1 \o z2, Allowing(0, 0))
  BY <1>14, JoinAFlows
<1> QED
  BY <1>15 DEF z1, z2, ProvideInHaste

\* sample-run.js approves what it needs.
LEMMA ASampleRun == AFlow(Allowing(0, 0), SampleRun, Allowing(0, 0))
<1>0. /\ "tx" \in Handle /\ "tx2" \in Handle /\ "token0" \in Handle /\ "token1" \in Handle
      /\ 0 \in Token
  BY DEF Handle, Token
<1>1. ALine(Allowing(0, 0), <<ReadClock>>, Allowing(0, 0))
  BY <1>0, AReads
<1>2. AFlow(Allowing(0, 0), <<ReadClock>>, Allowing(0, 0))
  BY <1>1, ALineIsAFlow
<1>3. AFlow(Allowing(0, 0), ProvideInHaste, Allowing(0, 0))
  BY AProvideInHaste
<1>4. AFlow(Allowing(0, 0), InstantSwapOf(0), Allowing(0, 0))
  BY AInstantSwapOf, ALineIsAFlow
<1>5. AFlow(Allowing(0, 0), PlaceThenCancel(0), Allowing(0, 0))
  BY APlaceThenCancel, ALineIsAFlow
<1> DEFINE z1 == <<ReadClock>>
           z2 == ProvideInHaste
           z3 == InstantSwapOf(0)
           z4 == PlaceThenCancel(0)
<1>6. /\ AFlow(Allowing(0, 0), z1, Allowing(0, 0))
      /\ AFlow(Allowing(0, 0), z2, Allowing(0, 0))
      /\ AFlow(Allowing(0, 0), z3, Allowing(0, 0))
      /\ AFlow(Allowing(0, 0), z4, Allowing(0, 0))
  BY <1>2, <1>3, <1>4, <1>5
<1> HIDE DEF z1, z2, z3, z4
<1>7. AFlow(Allowing(0, 0), z1 \o z2, Allowing(0, 0))
  BY <1>6, JoinAFlows
<1>8. AFlow(Allowing(0, 0), z1 \o z2 \o z3, Allowing(0, 0))
  BY <1>6, <1>7, JoinAFlows
<1>9. AFlow(Allowing(0, 0), z1 \o z2 \o z3 \o z4, Allowing(0, 0))
  BY <1>6, <1>8, JoinAFlows
<1> QED
  BY <1>9 DEF z1, z2, z3, z4, SampleRun

\* So does the first half of the other sample runs.
LEMMA AProvideInSteps == AFlow(Allowing(0, 0), ProvideInSteps, Allowing(0, 0))
<1>0. /\ "tx" \in Handle /\ "tx2" \in Handle /\ "token0" \in Handle /\ "token1" \in Handle
      /\ 0 \in Token
  BY DEF Handle, Token
<1>1. ALine(Allowing(0, 0), <<ReadClock>>, Allowing(0, 0))
  BY <1>0, AReads
<1>2. AFlow(Allowing(0, 0), <<ReadClock>>, Allowing(0, 0))
  BY <1>1, ALineIsAFlow
<1>3. ALine(Allowing(0, 0), SubmitAndWait(CreatePairWrapper(1)), Allowing(0, 0))
  <2>1. ACall(Allowing(0, 0), CreatePairWrapper(1), Allowing(0, 0))
    BY AFrees, <1>0
  <2> QED
    BY <1>0, <2>1, ASubmit
<1>4. Flow(Allowance, AllowD, AllowT, Allowing(0, 0), <<>>, Allowing(0, 0))
  BY AllowingFacts, EmptyFlow
<1>5. AFlow(Allowing(0, 0), Try(SubmitAndWait(CreatePairWrapper(1)), <<>>), Allowing(0, 0))
  <2> DEFINE body == SubmitAndWait(CreatePairWrapper(1))
             handler == <<>>
  <2> HIDE DEF body, handler
  <2>1. AFlow(Allowing(0, 0), Try(body, handler), Allowing(0, 0))
    BY <1>3, <1>4, ATry DEF body, handler
  <2> QED
    BY <2>1 DEF body, handler
<1>6. ALine(Allowing(0, 0), <<ReadPair>>, Allowing(0, 0))
  BY <1>0, AReads
<1>7. ALine(Allowing(0, 0), ApproveBoth(10), Allowing(10, 10))
  BY AApproveBoth
<1>8. ALine(Allowing(0, 0), <<ReadPair>> \o ApproveBoth(10), Allowing(10, 10))
  BY <1>6, <1>7, JoinALines
<1>9. ACall(Allowing(10, 10), AddInitialLiquidity(10, 3), Allowing(0, 0))
  BY ASpends
<1>10. ALine(Allowing(0, 0), Saying("initial", <<ReadPair>> \o ApproveBoth(10) \o
      SubmitAndWait(AddInitialLiquidity(10, 3))), Allowing(0, 0))
  BY <1>8, <1>9, ASaidWait
<1>11. ALine(Allowing(0, 0), ApproveBoth(100), Allowing(100, 100))
  BY AApproveBoth
<1>12. ALine(Allowing(100, 100), <<Submit(AddLiquidity(1, 5))>>, Allowing(0, 0))
  <2>1. ACall(Allowing(100, 100), AddLiquidity(1, 5), Allowing(0, 0))
    BY ASpends, <1>0
  <2> QED
    BY <1>0, <2>1, ASubmit
<1>13. ALine(Allowing(0, 0), ApproveBoth(100) \o <<Submit(AddLiquidity(1, 5))>>, Allowing(0,
      0))
  BY <1>11, <1>12, JoinALines
<1>14. Flow(Allowance, AllowD, AllowT, Allowing(0, 0), ApproveBoth(100) \o
      <<Submit(AddLiquidity(1, 5))>>, Allowing(0, 0))
  BY <1>13, LineIsFlow DEF ALine
<1>15. AFlow(Allowing(0, 0), Try(Saying("initial", <<ReadPair>> \o ApproveBoth(10) \o
      SubmitAndWait(AddInitialLiquidity(10, 3))), ApproveBoth(100) \o <<Submit(AddLiquidity(1,
      5))>>), Allowing(0, 0))
  <2> DEFINE body == Saying("initial", <<ReadPair>> \o ApproveBoth(10) \o
        SubmitAndWait(AddInitialLiquidity(10, 3)))
             handler == ApproveBoth(100) \o <<Submit(AddLiquidity(1, 5))>>
  <2> HIDE DEF body, handler
  <2>1. AFlow(Allowing(0, 0), Try(body, handler), Allowing(0, 0))
    BY <1>10, <1>14, ATry DEF body, handler
  <2> QED
    BY <2>1 DEF body, handler
<1>16. AFlow(Allowing(0, 0), <<ReadPair>>, Allowing(0, 0))
  BY <1>6, ALineIsAFlow
<1> DEFINE z1 == <<ReadClock>>
           z2 == Try(SubmitAndWait(CreatePairWrapper(1)), <<>>)
           z3 == Try(Saying("initial", <<ReadPair>> \o ApproveBoth(10) \o
                 SubmitAndWait(AddInitialLiquidity(10, 3))), ApproveBoth(100) \o
                 <<Submit(AddLiquidity(1, 5))>>)
           z4 == <<ReadPair>>
<1>17. /\ AFlow(Allowing(0, 0), z1, Allowing(0, 0))
      /\ AFlow(Allowing(0, 0), z2, Allowing(0, 0))
      /\ AFlow(Allowing(0, 0), z3, Allowing(0, 0))
      /\ AFlow(Allowing(0, 0), z4, Allowing(0, 0))
  BY <1>2, <1>5, <1>15, <1>16
<1> HIDE DEF z1, z2, z3, z4
<1>18. AFlow(Allowing(0, 0), z1 \o z2, Allowing(0, 0))
  BY <1>17, JoinAFlows
<1>19. AFlow(Allowing(0, 0), z1 \o z2 \o z3, Allowing(0, 0))
  BY <1>17, <1>18, JoinAFlows
<1>20. AFlow(Allowing(0, 0), z1 \o z2 \o z3 \o z4, Allowing(0, 0))
  BY <1>17, <1>19, JoinAFlows
<1> QED
  BY <1>20 DEF z1, z2, z3, z4, ProvideInSteps

\* Withdrawing needs no allowance.
LEMMA AWithdrawLast == ALine(Allowing(0, 0), WithdrawLast(5), Allowing(0, 0))
<1>0. /\ "tx" \in Handle /\ "tx2" \in Handle /\ "token0" \in Handle /\ "token1" \in Handle
      /\ 0 \in Token
  BY DEF Handle, Token
<1>1. ALine(Allowing(0, 0), <<ReadIds>>, Allowing(0, 0))
  BY <1>0, AReads
<1>2. ALine(Allowing(0, 0), SubmitWithGasAndWait(WithdrawProceeds(0, 5)), Allowing(0, 0))
  <2>1. ACall(Allowing(0, 0), WithdrawProceeds(0, 5), Allowing(0, 0))
    BY AFrees, <1>0
  <2> QED
    BY <1>0, <2>1, ASubmit
<1>3. ALine(Allowing(0, 0), <<ReadPair>>, Allowing(0, 0))
  BY <1>0, AReads
<1>4. ALine(Allowing(0, 0), <<ReadIds>> \o SubmitWithGasAndWait(WithdrawProceeds(0, 5)),
      Allowing(0, 0))
  BY <1>1, <1>2, JoinALines
<1>5. ALine(Allowing(0, 0), <<ReadIds>> \o SubmitWithGasAndWait(WithdrawProceeds(0, 5)) \o
      <<ReadPair>>, Allowing(0, 0))
  BY <1>4, <1>3, JoinALines
<1> QED
  BY <1>5 DEF WithdrawLast

\* sample-run-goerli.js approves what it needs.
LEMMA ASampleRunGoerli == AFlow(Allowing(0, 0), SampleRunGoerli, Allowing(0, 0))
<1>0. /\ "tx" \in Handle /\ "tx2" \in Handle /\ "token0" \in Handle /\ "token1" \in Handle
      /\ 0 \in Token
  BY DEF Handle, Token
<1>1. AFlow(Allowing(0, 0), ProvideInSteps, Allowing(0, 0))
  BY AProvideInSteps
<1>2. AFlow(Allowing(0, 0), InstantSwapOf(0), Allowing(0, 0))
  BY AInstantSwapOf, ALineIsAFlow
<1>3. ALine(Allowing(0, 0), <<SubmitAs("tx", Approve(0, 1))>>, Allowing(1, 0))
  <2>1. ACall(Allowing(0, 0), Approve(0, 1), Allowing(1, 0))
    BY AApproves, <1>0
  <2> QED
    BY <1>0, <2>1, ASubmit
<1>4. ALine(Allowing(1, 0), <<SubmitAs("tx2", Approve(1, 1))>>, Allowing(1, 1))
  <2>1. ACall(Allowing(1, 0), Approve(1, 1), Allowing(1, 1))
    BY AApproves, <1>0
  <2> QED
    BY <1>0, <2>1, ASubmit
<1>5. ALine(Allowing(1, 1), <<Wait("tx")>>, Allowing(1, 1))
  BY <1>0, AWaits
<1>6. ALine(Allowing(1, 1), <<Wait("tx2")>>, Allowing(1, 1))
  BY <1>0, AWaits
<1>7. ALine(Allowing(0, 0), <<SubmitAs("tx", Approve(0, 1)), SubmitAs("tx2", Approve(1, 1))>>,
      Allowing(1, 1))
  BY <1>3, <1>4, ATwo
<1>8. ALine(Allowing(0, 0), <<SubmitAs("tx", Approve(0, 1)), SubmitAs("tx2", Approve(1, 1)),
      Wait("tx")>>, Allowing(1, 1))
  BY <1>7, <1>5, AThree
<1>9. ALine(Allowing(0, 0), <<SubmitAs("tx", Approve(0, 1)), SubmitAs("tx2", Approve(1, 1)),
      Wait("tx"), Wait("tx2")>>, Allowing(1, 1))
  BY <1>8, <1>6, AFour
<1>10. AFlow(Allowing(0, 0), <<SubmitAs("tx", Approve(0, 1)), SubmitAs("tx2", Approve(1, 1)),
      Wait("tx"), Wait("tx2")>>, Allowing(1, 1))
  BY <1>9, ALineIsAFlow
<1>11. ALine(Allowing(1, 1), SubmitWithGasAndWait(LongTermSwap(0, 1, 11)), Allowing(0, 0))
  <2>1. ACall(Allowing(1, 1), LongTermSwap(0, 1, 11), Allowing(0, 0))
    BY ASpends, <1>0
  <2> QED
    BY <1>0, <2>1, ASubmit
<1>12. AFlow(Allowing(1, 1), SubmitWithGasAndWait(LongTermSwap(0, 1, 11)), Allowing(0, 0))
  BY <1>11, ALineIsAFlow
<1>13. AFlow(Allowing(0, 0), WithdrawLast(5), Allowing(0, 0))
  BY AWithdrawLast, ALineIsAFlow
<1> DEFINE z1 == ProvideInSteps
           z2 == InstantSwapOf(0)
           z3 == <<SubmitAs("tx", Approve(0, 1)), SubmitAs("tx2", Approve(1, 1)), Wait("tx"),
                 Wait("tx2")>>
           z4 == SubmitWithGasAndWait(LongTermSwap(0, 1, 11))
           z5 == WithdrawLast(5)
<1>14. /\ AFlow(Allowing(0, 0), z1, Allowing(0, 0))
      /\ AFlow(Allowing(0, 0), z2, Allowing(0, 0))
      /\ AFlow(Allowing(0, 0), z3, Allowing(1, 1))
      /\ AFlow(Allowing(1, 1), z4, Allowing(0, 0))
      /\ AFlow(Allowing(0, 0), z5, Allowing(0, 0))
  BY <1>1, <1>2, <1>10, <1>12, <1>13
<1> HIDE DEF z1, z2, z3, z4, z5
<1>15. AFlow(Allowing(0, 0), z1 \o z2, Allowing(0, 0))
  BY <1>14, JoinAFlows
<1>16. AFlow(Allowing(0, 0), z1 \o z2 \o z3, Allowing(1, 1))
  BY <1>14, <1>15, JoinAFlows
<1>17. AFlow(Allowing(0, 0), z1 \o z2 \o z3 \o z4, Allowing(0, 0))
  BY <1>14, <1>16, JoinAFlows
<1>18. AFlow(Allowing(0, 0), z1 \o z2 \o z3 \o z4 \o z5, Allowing(0, 0))
  BY <1>14, <1>17, JoinAFlows
<1> QED
  BY <1>18 DEF z1, z2, z3, z4, z5, SampleRunGoerli

\* sample-run-rinkeby.js approves what it needs.
LEMMA ASampleRunRinkeby == AFlow(Allowing(0, 0), SampleRunRinkeby, Allowing(0, 0))
<1>0. /\ "tx" \in Handle /\ "tx2" \in Handle /\ "token0" \in Handle /\ "token1" \in Handle
      /\ 0 \in Token
  BY DEF Handle, Token
<1>1. AFlow(Allowing(0, 0), ProvideInSteps, Allowing(0, 0))
  BY AProvideInSteps
<1>2. ALine(Allowing(0, 0), SubmitAndWait(Approve(0, 1)), Allowing(1, 0))
  <2>1. ACall(Allowing(0, 0), Approve(0, 1), Allowing(1, 0))
    BY AApproves, <1>0
  <2> QED
    BY <1>0, <2>1, ASubmit
<1>3. AFlow(Allowing(0, 0), SubmitAndWait(Approve(0, 1)), Allowing(1, 0))
  BY <1>2, ALineIsAFlow
<1>4. ALine(Allowing(1, 0), SubmitAndWait(LongTermSwap(0, 1, 3)), Allowing(0, 0))
  <2>1. ACall(Allowing(1, 0), LongTermSwap(0, 1, 3), Allowing(0, 0))
    BY ASpends, <1>0
  <2> QED
    BY <1>0, <2>1, ASubmit
<1>5. AFlow(Allowing(1, 0), SubmitAndWait(LongTermSwap(0, 1, 3)), Allowing(0, 0))
  BY <1>4, ALineIsAFlow
<1>6. ALine(Allowing(0, 0), <<ReadIds>>, Allowing(0, 0))
  BY <1>0, AReads
<1>7. AFlow(Allowing(0, 0), <<ReadIds>>, Allowing(0, 0))
  BY <1>6, ALineIsAFlow
<1>8. ALine(Allowing(0, 0), SubmitAndWait(WithdrawProceeds(0, 5)), Allowing(0, 0))
  <2>1. ACall(Allowing(0, 0), WithdrawProceeds(0, 5), Allowing(0, 0))
    BY AFrees, <1>0
  <2> QED
    BY <1>0, <2>1, ASubmit
<1>9. AFlow(Allowing(0, 0), SubmitAndWait(WithdrawProceeds(0, 5)), Allowing(0, 0))
  BY <1>8, ALineIsAFlow
<1>10. ALine(Allowing(0, 0), <<ReadPair>>, Allowing(0, 0))
  BY <1>0, AReads
<1>11. AFlow(Allowing(0, 0), <<ReadPair>>, Allowing(0, 0))
  BY <1>10, ALineIsAFlow
<1> DEFINE z1 == ProvideInSteps
           z2 == SubmitAndWait(Approve(0, 1))
           z3 == SubmitAndWait(LongTermSwap(0, 1, 3))
           z4 == <<ReadIds>>
           z5 == SubmitAndWait(WithdrawProceeds(0, 5))
           z6 == <<ReadPair>>
<1>12. /\ AFlow(Allowing(0, 0), z1, Allowing(0, 0))
      /\ AFlow(Allowing(0, 0), z2, Allowing(1, 0))
      /\ AFlow(Allowing(1, 0), z3, Allowing(0, 0))
      /\ AFlow(Allowing(0, 0), z4, Allowing(0, 0))
      /\ AFlow(Allowing(0, 0), z5, Allowing(0, 0))
      /\ AFlow(Allowing(0, 0), z6, Allowing(0, 0))
  BY <1>1, <1>3, <1>5, <1>7, <1>9, <1>11
<1> HIDE DEF z1, z2, z3, z4, z5, z6
<1>13. AFlow(Allowing(0, 0), z1 \o z2, Allowing(1, 0))
  BY <1>12, JoinAFlows
<1>14. AFlow(Allowing(0, 0), z1 \o z2 \o z3, Allowing(0, 0))
  BY <1>12, <1>13, JoinAFlows
<1>15. AFlow(Allowing(0, 0), z1 \o z2 \o z3 \o z4, Allowing(0, 0))
  BY <1>12, <1>14, JoinAFlows
<1>16. AFlow(Allowing(0, 0), z1 \o z2 \o z3 \o z4 \o z5, Allowing(0, 0))
  BY <1>12, <1>15, JoinAFlows
<1>17. AFlow(Allowing(0, 0), z1 \o z2 \o z3 \o z4 \o z5 \o z6, Allowing(0, 0))
  BY <1>12, <1>16, JoinAFlows
<1> QED
  BY <1>17 DEF z1, z2, z3, z4, z5, z6, SampleRunRinkeby

\* termSwap.js approves what it needs.
LEMMA ATermSwap == AFlow(Allowing(0, 0), TermSwap, Allowing(0, 0))
<1>0. /\ "tx" \in Handle /\ "tx2" \in Handle /\ "token0" \in Handle /\ "token1" \in Handle
      /\ 0 \in Token
  BY DEF Handle, Token
<1>1. ALine(Allowing(0, 0), <<ReadClock>>, Allowing(0, 0))
  BY <1>0, AReads
<1>2. AFlow(Allowing(0, 0), <<ReadClock>>, Allowing(0, 0))
  BY <1>1, ALineIsAFlow
<1>3. ALine(Allowing(0, 0), SubmitAndWait(Approve(0, 10)), Allowing(10, 0))
  <2>1. ACall(Allowing(0, 0), Approve(0, 10), Allowing(10, 0))
    BY AApproves, <1>0
  <2> QED
    BY <1>0, <2>1, ASubmit
<1>4. AFlow(Allowing(0, 0), SubmitAndWait(Approve(0, 10)), Allowing(10, 0))
  BY <1>3, ALineIsAFlow
<1>5. ALine(Allowing(10, 0), SubmitWithGasAndWait(LongTermSwap(0, 10, 60)), Allowing(0, 0))
  <2>1. ACall(Allowing(10, 0), LongTermSwap(0, 10, 60), Allowing(0, 0))
    BY ASpends, <1>0
  <2> QED
    BY <1>0, <2>1, ASubmit
<1>6. AFlow(Allowing(10, 0), SubmitWithGasAndWait(LongTermSwap(0, 10, 60)), Allowing(0, 0))
  BY <1>5, ALineIsAFlow
<1>7. ALine(Allowing(0, 0), SubmitAndWait(Approve(1, 10)), Allowing(0, 10))
  <2>1. ACall(Allowing(0, 0), Approve(1, 10), Allowing(0, 10))
    BY AApproves, <1>0
  <2> QED
    BY <1>0, <2>1, ASubmit
<1>8. AFlow(Allowing(0, 0), SubmitAndWait(Approve(1, 10)), Allowing(0, 10))
  BY <1>7, ALineIsAFlow
<1>9. ALine(Allowing(0, 10), SubmitWithGasAndWait(LongTermSwap(1, 10, 60)), Allowing(0, 0))
  <2>1. ACall(Allowing(0, 10), LongTermSwap(1, 10, 60), Allowing(0, 0))
    BY ASpends, <1>0
  <2> QED
    BY <1>0, <2>1, ASubmit
<1>10. AFlow(Allowing(0, 10), SubmitWithGasAndWait(LongTermSwap(1, 10, 60)), Allowing(0, 0))
  BY <1>9, ALineIsAFlow
<1>11. ALine(Allowing(0, 0), <<ReadIds>>, Allowing(0, 0))
  BY <1>0, AReads
<1>12. ALine(Allowing(0, 0), <<LookUp(1)>>, Allowing(0, 0))
  BY <1>0, ALookUps
<1>13. ALine(Allowing(0, 0), <<LookUp(2)>>, Allowing(0, 0))
  BY <1>0, ALookUps
<1>14. ALine(Allowing(0, 0), <<ReadIds, LookUp(1)>>, Allowing(0, 0))
  BY <1>11, <1>12, ATwo
<1>15. ALine(Allowing(0, 0), <<ReadIds, LookUp(1), LookUp(2)>>, Allowing(0, 0))
  BY <1>14, <1>13, AThree
<1>16. AFlow(Allowing(0, 0), <<ReadIds, LookUp(1), LookUp(2)>>, Allowing(0, 0))
  BY <1>15, ALineIsAFlow
<1> DEFINE z1 == <<ReadClock>>
           z2 == SubmitAndWait(Approve(0, 10))
           z3 == SubmitWithGasAndWait(LongTermSwap(0, 10, 60))
           z4 == SubmitAndWait(Approve(1, 10))
           z5 == SubmitWithGasAndWait(LongTermSwap(1, 10, 60))
           z6 == <<ReadIds, LookUp(1), LookUp(2)>>
<1>17. /\ AFlow(Allowing(0, 0), z1, Allowing(0, 0))
      /\ AFlow(Allowing(0, 0), z2, Allowing(10, 0))
      /\ AFlow(Allowing(10, 0), z3, Allowing(0, 0))
      /\ AFlow(Allowing(0, 0), z4, Allowing(0, 10))
      /\ AFlow(Allowing(0, 10), z5, Allowing(0, 0))
      /\ AFlow(Allowing(0, 0), z6, Allowing(0, 0))
  BY <1>2, <1>4, <1>6, <1>8, <1>10, <1>16
<1> HIDE DEF z1, z2, z3, z4, z5, z6
<1>18. AFlow(Allowing(0, 0), z1 \o z2, Allowing(10, 0))
  BY <1>17, JoinAFlows
<1>19. AFlow(Allowing(0, 0), z1 \o z2 \o z3, Allowing(0, 0))
  BY <1>17, <1>18, JoinAFlows
<1>20. AFlow(Allowing(0, 0), z1 \o z2 \o z3 \o z4, Allowing(0, 10))
  BY <1>17, <1>19, JoinAFlows
<1>21. AFlow(Allowing(0, 0), z1 \o z2 \o z3 \o z4 \o z5, Allowing(0, 0))
  BY <1>17, <1>20, JoinAFlows
<1>22. AFlow(Allowing(0, 0), z1 \o z2 \o z3 \o z4 \o z5 \o z6, Allowing(0, 0))
  BY <1>17, <1>21, JoinAFlows
<1> QED
  BY <1>22 DEF z1, z2, z3, z4, z5, z6, TermSwap

\* test-id.js and sample-reserve-display.js approve what they need.
LEMMA APlaceAndList == AFlow(Allowing(0, 0), PlaceAndList, Allowing(0, 0))
<1>0. /\ "tx" \in Handle /\ "tx2" \in Handle /\ "token0" \in Handle /\ "token1" \in Handle
      /\ 0 \in Token
  BY DEF Handle, Token
<1>1. ALine(Allowing(0, 0), <<ReadClock>>, Allowing(0, 0))
  BY <1>0, AReads
<1>2. AFlow(Allowing(0, 0), <<ReadClock>>, Allowing(0, 0))
  BY <1>1, ALineIsAFlow
<1>3. AFlow(Allowing(0, 0), TryCreatePair(1), Allowing(0, 0))
  BY ATryCreatePair
<1>4. ALine(Allowing(0, 0), <<ReadIds>>, Allowing(0, 0))
  BY <1>0, AReads
<1>5. ALine(Allowing(0, 0), <<Submit(Approve(0, 1))>>, Allowing(1, 0))
  <2>1. ACall(Allowing(0, 0), Approve(0, 1), Allowing(1, 0))
    BY AApproves, <1>0
  <2> QED
    BY <1>0, <2>1, ASubmit
<1>6. ALine(Allowing(1, 0), <<Submit(LongTermSwap(0, 1, 9))>>, Allowing(0, 0))
  <2>1. ACall(Allowing(1, 0), LongTermSwap(0, 1, 9), Allowing(0, 0))
    BY ASpends, <1>0
  <2> QED
    BY <1>0, <2>1, ASubmit
<1>7. ALine(Allowing(0, 0), <<ReadIds, Submit(Approve(0, 1))>>, Allowing(1, 0))
  BY <1>4, <1>5, ATwo
<1>8. ALine(Allowing(0, 0), <<ReadIds, Submit(Approve(0, 1)), Submit(LongTermSwap(0, 1, 9))>>,
      Allowing(0, 0))
  BY <1>7, <1>6, AThree
<1>9. ALine(Allowing(0, 0), <<ReadIds, Submit(Approve(0, 1)), Submit(LongTermSwap(0, 1, 9)),
      ReadIds>>, Allowing(0, 0))
  BY <1>8, <1>4, AFour
<1>10. AFlow(Allowing(0, 0), <<ReadIds, Submit(Approve(0, 1)), Submit(LongTermSwap(0, 1, 9)),
      ReadIds>>, Allowing(0, 0))
  BY <1>9, ALineIsAFlow
<1> DEFINE z1 == <<ReadClock>>
           z2 == TryCreatePair(1)
           z3 == <<ReadIds, Submit(Approve(0, 1)), Submit(LongTermSwap(0, 1, 9)), ReadIds>>
<1>11. /\ AFlow(Allowing(0, 0), z1, Allowing(0, 0))
      /\ AFlow(Allowing(0, 0), z2, Allowing(0, 0))
      /\ AFlow(Allowing(0, 0), z3, Allowing(0, 0))
  BY <1>2, <1>3, <1>10
<1> HIDE DEF z1, z2, z3
<1>12. AFlow(Allowing(0, 0), z1 \o z2, Allowing(0, 0))
  BY <1>11, JoinAFlows
<1>13. AFlow(Allowing(0, 0), z1 \o z2 \o z3, Allowing(0, 0))
  BY <1>11, <1>12, JoinAFlows
<1> QED
  BY <1>13 DEF z1, z2, z3, PlaceAndList

\* orderStatusCheck.js sends nothing.
LEMMA AOrderStatusCheck == AFlow(Allowing(0, 0), OrderStatusCheck, Allowing(0, 0))
<1>0. /\ "tx" \in Handle /\ "tx2" \in Handle /\ "token0" \in Handle /\ "token1" \in Handle
      /\ 0 \in Token
  BY DEF Handle, Token
<1>1. ALine(Allowing(0, 0), <<ReadClock>>, Allowing(0, 0))
  BY <1>0, AReads
<1>2. ALine(Allowing(0, 0), <<ReadIds>>, Allowing(0, 0))
  BY <1>0, AReads
<1>3. ALine(Allowing(0, 0), <<LookUp(11)>>, Allowing(0, 0))
  BY <1>0, ALookUps
<1>4. ALine(Allowing(0, 0), <<ReadClock, ReadIds>>, Allowing(0, 0))
  BY <1>1, <1>2, ATwo
<1>5. ALine(Allowing(0, 0), <<ReadClock, ReadIds, LookUp(11)>>, Allowing(0, 0))
  BY <1>4, <1>3, AThree
<1>6. AFlow(Allowing(0, 0), <<ReadClock, ReadIds, LookUp(11)>>, Allowing(0, 0))
  BY <1>5, ALineIsAFlow
<1> QED
  BY <1>6 DEF OrderStatusCheck

\* The initial liquidity of addLiquidity.js is approved.
LEMMA ATryInitialLiquidity == AFlow(Allowing(0, 0),
      TryInitialLiquidity(AddInitialLiquidity(10, 100)), Allowing(0, 0))
<1>1. ALine(Allowing(0, 0), ApproveBoth(10), Allowing(10, 10))
  BY AApproveBoth
<1>2. ACall(Allowing(10, 10), AddInitialLiquidity(10, 100), Allowing(0, 0))
  BY ASpends
<1>3. ALine(Allowing(0, 0), Saying("initial", ApproveBoth(10) \o
      <<Submit(AddInitialLiquidity(10, 100))>>), Allowing(0, 0))
  BY <1>1, <1>2, ASaidSubmit
<1>4. Flow(Allowance, AllowD, AllowT, Allowing(0, 0), <<>>, Allowing(0, 0))
  BY AllowingFacts, EmptyFlow
<1>5. AFlow(Allowing(0, 0), Try(Saying("initial", ApproveBoth(10) \o
      <<Submit(AddInitialLiquidity(10, 100))>>), <<>>), Allowing(0, 0))
  <2> DEFINE body == Saying("initial", ApproveBoth(10) \o <<Submit(AddInitialLiquidity(10,
        100))>>)
             handler == <<>>
  <2> HIDE DEF body, handler
  <2>1. AFlow(Allowing(0, 0), Try(body, handler), Allowing(0, 0))
    BY <1>3, <1>4, ATry DEF body, handler
  <2> QED
    BY <2>1 DEF body, handler
<1> QED
  BY <1>5 DEF TryInitialLiquidity

\* addLiquidity.js approves what it needs.
LEMMA AAddLiquidity == AFlow(Allowing(0, 0), AddLiquidityScript, Allowing(0, 0))
<1>0. /\ "tx" \in Handle /\ "tx2" \in Handle /\ "token0" \in Handle /\ "token1" \in Handle
      /\ 0 \in Token
  BY DEF Handle, Token
<1>1. ALine(Allowing(0, 0), <<ReadClock>>, Allowing(0, 0))
  BY <1>0, AReads
<1>2. AFlow(Allowing(0, 0), <<ReadClock>>, Allowing(0, 0))
  BY <1>1, ALineIsAFlow
<1>3. AFlow(Allowing(0, 0), TryCreatePair(500), Allowing(0, 0))
  BY ATryCreatePair
<1>4. AFlow(Allowing(0, 0), TryInitialLiquidity(AddInitialLiquidity(10, 100)), Allowing(0, 0))
  BY ATryInitialLiquidity
<1>5. ALine(Allowing(0, 0), ApproveBoth(100), Allowing(100, 100))
  BY AApproveBoth
<1>6. AFlow(Allowing(0, 0), ApproveBoth(100), Allowing(100, 100))
  BY <1>5, ALineIsAFlow
<1>7. ALine(Allowing(100, 100), SubmitWithGasAndWait(AddLiquidity(10, 100)), Allowing(0, 0))
  <2>1. ACall(Allowing(100, 100), AddLiquidity(10, 100), Allowing(0, 0))
    BY ASpends, <1>0
  <2> QED
    BY <1>0, <2>1, ASubmit
<1>8. AFlow(Allowing(100, 100), SubmitWithGasAndWait(AddLiquidity(10, 100)), Allowing(0, 0))
  BY <1>7, ALineIsAFlow
<1> DEFINE z1 == <<ReadClock>>
           z2 == TryCreatePair(500)
           z3 == TryInitialLiquidity(AddInitialLiquidity(10, 100))
           z4 == ApproveBoth(100)
           z5 == SubmitWithGasAndWait(AddLiquidity(10, 100))
<1>9. /\ AFlow(Allowing(0, 0), z1, Allowing(0, 0))
      /\ AFlow(Allowing(0, 0), z2, Allowing(0, 0))
      /\ AFlow(Allowing(0, 0), z3, Allowing(0, 0))
      /\ AFlow(Allowing(0, 0), z4, Allowing(100, 100))
      /\ AFlow(Allowing(100, 100), z5, Allowing(0, 0))
  BY <1>2, <1>3, <1>4, <1>6, <1>8
<1> HIDE DEF z1, z2, z3, z4, z5
<1>10. AFlow(Allowing(0, 0), z1 \o z2, Allowing(0, 0))
  BY <1>9, JoinAFlows
<1>11. AFlow(Allowing(0, 0), z1 \o z2 \o z3, Allowing(0, 0))
  BY <1>9, <1>10, JoinAFlows
<1>12. AFlow(Allowing(0, 0), z1 \o z2 \o z3 \o z4, Allowing(100, 100))
  BY <1>9, <1>11, JoinAFlows
<1>13. AFlow(Allowing(0, 0), z1 \o z2 \o z3 \o z4 \o z5, Allowing(0, 0))
  BY <1>9, <1>12, JoinAFlows
<1> QED
  BY <1>13 DEF z1, z2, z3, z4, z5, AddLiquidityScript

\* addInitialLiquidity.js approves what it needs.
LEMMA AAddInitialLiquidity == AFlow(Allowing(0, 0), AddInitialLiquidityScript, Allowing(0, 0))
<1>0. /\ "tx" \in Handle /\ "tx2" \in Handle /\ "token0" \in Handle /\ "token1" \in Handle
      /\ 0 \in Token
  BY DEF Handle, Token
<1>1. ALine(Allowing(0, 0), <<SubmitAs("token0", Deploy)>>, Allowing(0, 0))
  <2>1. ACall(Allowing(0, 0), Deploy, Allowing(0, 0))
    BY AFrees, <1>0
  <2> QED
    BY <1>0, <2>1, ASubmit
<1>2. ALine(Allowing(0, 0), <<SubmitAs("token1", Deploy)>>, Allowing(0, 0))
  <2>1. ACall(Allowing(0, 0), Deploy, Allowing(0, 0))
    BY AFrees, <1>0
  <2> QED
    BY <1>0, <2>1, ASubmit
<1>3. ALine(Allowing(0, 0), <<ReadClock>>, Allowing(0, 0))
  BY <1>0, AReads
<1>4. ALine(Allowing(0, 0), <<SubmitAs("token0", Deploy), SubmitAs("token1", Deploy)>>,
      Allowing(0, 0))
  BY <1>1, <1>2, ATwo
<1>5. ALine(Allowing(0, 0), <<SubmitAs("token0", Deploy), SubmitAs("token1", Deploy),
      ReadClock>>, Allowing(0, 0))
  BY <1>4, <1>3, AThree
<1>6. AFlow(Allowing(0, 0), <<SubmitAs("token0", Deploy), SubmitAs("token1", Deploy),
      ReadClock>>, Allowing(0, 0))
  BY <1>5, ALineIsAFlow
<1>7. AFlow(Allowing(0, 0), TryCreatePair(500), Allowing(0, 0))
  BY ATryCreatePair
<1>8. ALine(Allowing(0, 0), <<Wait("token0")>>, Allowing(0, 0))
  BY <1>0, AWaits
<1>9. ALine(Allowing(0, 0), SubmitAndWait(Approve(0, 10)), Allowing(10, 0))
  <2>1. ACall(Allowing(0, 0), Approve(0, 10), Allowing(10, 0))
    BY AApproves, <1>0
  <2> QED
    BY <1>0, <2>1, ASubmit
<1>10. ALine(Allowing(10, 0), <<Wait("token1")>>, Allowing(10, 0))
  BY <1>0, AWaits
<1>11. ALine(Allowing(10, 0), SubmitAndWait(Approve(1, 10)), Allowing(10, 10))
  <2>1. ACall(Allowing(10, 0), Approve(1, 10), Allowing(10, 10))
    BY AApproves, <1>0
  <2> QED
    BY <1>0, <2>1, ASubmit
<1>12. ALine(Allowing(0, 0), <<Wait("token0")>> \o SubmitAndWait(Approve(0, 10)), Allowing(10,
      0))
  BY <1>8, <1>9, JoinALines
<1>13. ALine(Allowing(0, 0), <<Wait("token0")>> \o SubmitAndWait(Approve(0, 10)) \o
      <<Wait("token1")>>, Allowing(10, 0))
  BY <1>12, <1>10, JoinALines
<1>14. ALine(Allowing(0, 0), <<Wait("token0")>> \o SubmitAndWait(Approve(0, 10)) \o
      <<Wait("token1")>> \o SubmitAndWait(Approve(1, 10)), Allowing(10, 10))
  BY <1>13, <1>11, JoinALines
<1>15. ACall(Allowing(10, 10), AddInitialLiquidity(10, 100), Allowing(0, 0))
  BY ASpends
<1>16. ALine(Allowing(0, 0), Saying("initial", <<Wait("token0")>> \o SubmitAndWait(Approve(0,
      10)) \o <<Wait("token1")>> \o SubmitAndWait(Approve(1, 10)) \o
      <<Submit(AddInitialLiquidity(10, 100))>>), Allowing(0, 0))
  BY <1>14, <1>15, ASaidSubmit
<1>17. Flow(Allowance, AllowD, AllowT, Allowing(0, 0), <<>>, Allowing(0, 0))
  BY AllowingFacts, EmptyFlow
<1>18. AFlow(Allowing(0, 0), Try(Saying("initial", <<Wait("token0")>> \o
      SubmitAndWait(Approve(0, 10)) \o <<Wait("token1")>> \o SubmitAndWait(Approve(1, 10)) \o
      <<Submit(AddInitialLiquidity(10, 100))>>), <<>>), Allowing(0, 0))
  <2> DEFINE body == Saying("initial", <<Wait("token0")>> \o SubmitAndWait(Approve(0, 10)) \o
        <<Wait("token1")>> \o SubmitAndWait(Approve(1, 10)) \o
        <<Submit(AddInitialLiquidity(10, 100))>>)
             handler == <<>>
  <2> HIDE DEF body, handler
  <2>1. AFlow(Allowing(0, 0), Try(body, handler), Allowing(0, 0))
    BY <1>16, <1>17, ATry DEF body, handler
  <2> QED
    BY <2>1 DEF body, handler
<1> DEFINE z1 == <<SubmitAs("token0", Deploy), SubmitAs("token1", Deploy), ReadClock>>
           z2 == TryCreatePair(500)
           z3 == Try(Saying("initial", <<Wait("token0")>> \o SubmitAndWait(Approve(0, 10)) \o
                 <<Wait("token1")>> \o SubmitAndWait(Approve(1, 10)) \o
                 <<Submit(AddInitialLiquidity(10, 100))>>), <<>>)
<1>19. /\ AFlow(Allowing(0, 0), z1, Allowing(0, 0))
      /\ AFlow(Allowing(0, 0), z2, Allowing(0, 0))
      /\ AFlow(Allowing(0, 0), z3, Allowing(0, 0))
  BY <1>6, <1>7, <1>18
<1> HIDE DEF z1, z2, z3
<1>20. AFlow(Allowing(0, 0), z1 \o z2, Allowing(0, 0))
  BY <1>19, JoinAFlows
<1>21. AFlow(Allowing(0, 0), z1 \o z2 \o z3, Allowing(0, 0))
  BY <1>19, <1>20, JoinAFlows
<1> QED
  BY <1>21 DEF z1, z2, z3, AddInitialLiquidityScript

\* addInitialLiquidityETH.js approves what it needs.
LEMMA AAddInitialLiquidityETH == AFlow(Allowing(0, 0), AddInitialLiquidityETHScript,
      Allowing(0, 0))
<1>0. /\ "tx" \in Handle /\ "tx2" \in Handle /\ "token0" \in Handle /\ "token1" \in Handle
      /\ 0 \in Token
  BY DEF Handle, Token
<1>1. ALine(Allowing(0, 0), <<SubmitAs("token0", Deploy)>>, Allowing(0, 0))
  <2>1. ACall(Allowing(0, 0), Deploy, Allowing(0, 0))
    BY AFrees, <1>0
  <2> QED
    BY <1>0, <2>1, ASubmit
<1>2. ALine(Allowing(0, 0), <<ReadClock>>, Allowing(0, 0))
  BY <1>0, AReads
<1>3. ALine(Allowing(0, 0), <<SubmitAs("token0", Deploy), ReadClock>>, Allowing(0, 0))
  BY <1>1, <1>2, ATwo
<1>4. AFlow(Allowing(0, 0), <<SubmitAs("token0", Deploy), ReadClock>>, Allowing(0, 0))
  BY <1>3, ALineIsAFlow
<1>5. AFlow(Allowing(0, 0), TryCreatePair(500), Allowing(0, 0))
  BY ATryCreatePair
<1>6. ALine(Allowing(0, 0), <<Wait("token0")>>, Allowing(0, 0))
  BY <1>0, AWaits
<1>7. ALine(Allowing(0, 0), ApproveBoth(10), Allowing(10, 10))
  BY AApproveBoth
<1>8. ALine(Allowing(0, 0), <<Wait("token0")>> \o ApproveBoth(10), Allowing(10, 10))
  BY <1>6, <1>7, JoinALines
<1>9. ACall(Allowing(10, 10), AddInitialLiquidityETH(10, 100), Allowing(0, 0))
  BY ASpends
<1>10. ALine(Allowing(0, 0), Saying("initial", <<Wait("token0")>> \o ApproveBoth(10) \o
      <<Submit(AddInitialLiquidityETH(10, 100))>>), Allowing(0, 0))
  BY <1>8, <1>9, ASaidSubmit
<1>11. Flow(Allowance, AllowD, AllowT, Allowing(0, 0), <<>>, Allowing(0, 0))
  BY AllowingFacts, EmptyFlow
<1>12. AFlow(Allowing(0, 0), Try(Saying("initial", <<Wait("token0")>> \o ApproveBoth(10) \o
      <<Submit(AddInitialLiquidityETH(10, 100))>>), <<>>), Allowing(0, 0))
  <2> DEFINE body == Saying("initial", <<Wait("token0")>> \o ApproveBoth(10) \o
        <<Submit(AddInitialLiquidityETH(10, 100))>>)
             handler == <<>>
  <2> HIDE DEF body, handler
  <2>1. AFlow(Allowing(0, 0), Try(body, handler), Allowing(0, 0))
    BY <1>10, <1>11, ATry DEF body, handler
  <2> QED
    BY <2>1 DEF body, handler
<1> DEFINE z1 == <<SubmitAs("token0", Deploy), ReadClock>>
           z2 == TryCreatePair(500)
           z3 == Try(Saying("initial", <<Wait("token0")>> \o ApproveBoth(10) \o
                 <<Submit(AddInitialLiquidityETH(10, 100))>>), <<>>)
<1>13. /\ AFlow(Allowing(0, 0), z1, Allowing(0, 0))
      /\ AFlow(Allowing(0, 0), z2, Allowing(0, 0))
      /\ AFlow(Allowing(0, 0), z3, Allowing(0, 0))
  BY <1>4, <1>5, <1>12
<1> HIDE DEF z1, z2, z3
<1>14. AFlow(Allowing(0, 0), z1 \o z2, Allowing(0, 0))
  BY <1>13, JoinAFlows
<1>15. AFlow(Allowing(0, 0), z1 \o z2 \o z3, Allowing(0, 0))
  BY <1>13, <1>14, JoinAFlows
<1> QED
  BY <1>15 DEF z1, z2, z3, AddInitialLiquidityETHScript

\* withdrawLiquidity.js needs no allowance.
LEMMA AWithdrawLiquidity == AFlow(Allowing(0, 0), WithdrawLiquidityScript, Allowing(0, 0))
<1>0. /\ "tx" \in Handle /\ "tx2" \in Handle /\ "token0" \in Handle /\ "token1" \in Handle
      /\ 0 \in Token
  BY DEF Handle, Token
<1>1. ALine(Allowing(0, 0), <<ReadClock>>, Allowing(0, 0))
  BY <1>0, AReads
<1>2. AFlow(Allowing(0, 0), <<ReadClock>>, Allowing(0, 0))
  BY <1>1, ALineIsAFlow
<1>3. ALine(Allowing(0, 0), SubmitWithGasAndWait(WithdrawLiquidity(100, 60)), Allowing(0, 0))
  <2>1. ACall(Allowing(0, 0), WithdrawLiquidity(100, 60), Allowing(0, 0))
    BY AFrees, <1>0
  <2> QED
    BY <1>0, <2>1, ASubmit
<1>4. AFlow(Allowing(0, 0), SubmitWithGasAndWait(WithdrawLiquidity(100, 60)), Allowing(0, 0))
  BY <1>3, ALineIsAFlow
<1> DEFINE z1 == <<ReadClock>>
           z2 == SubmitWithGasAndWait(WithdrawLiquidity(100, 60))
<1>5. /\ AFlow(Allowing(0, 0), z1, Allowing(0, 0))
      /\ AFlow(Allowing(0, 0), z2, Allowing(0, 0))
  BY <1>2, <1>4
<1> HIDE DEF z1, z2
<1>6. AFlow(Allowing(0, 0), z1 \o z2, Allowing(0, 0))
  BY <1>5, JoinAFlows
<1> QED
  BY <1>6 DEF z1, z2, WithdrawLiquidityScript

\* executeVirtualOrders.js needs no allowance.
LEMMA AExecuteVirtualOrders == AFlow(Allowing(0, 0), ExecuteVirtualOrdersScript, Allowing(0,
      0))
<1>0. /\ "tx" \in Handle /\ "tx2" \in Handle /\ "token0" \in Handle /\ "token1" \in Handle
      /\ 0 \in Token
  BY DEF Handle, Token
<1>1. ALine(Allowing(0, 0), <<ReadClock>>, Allowing(0, 0))
  BY <1>0, AReads
<1>2. AFlow(Allowing(0, 0), <<ReadClock>>, Allowing(0, 0))
  BY <1>1, ALineIsAFlow
<1>3. ALine(Allowing(0, 0), SubmitWithGasAndWait(ExecuteVirtualOrders), Allowing(0, 0))
  <2>1. ACall(Allowing(0, 0), ExecuteVirtualOrders, Allowing(0, 0))
    BY AFrees, <1>0
  <2> QED
    BY <1>0, <2>1, ASubmit
<1>4. AFlow(Allowing(0, 0), SubmitWithGasAndWait(ExecuteVirtualOrders), Allowing(0, 0))
  BY <1>3, ALineIsAFlow
<1> DEFINE z1 == <<ReadClock>>
           z2 == SubmitWithGasAndWait(ExecuteVirtualOrders)
<1>5. /\ AFlow(Allowing(0, 0), z1, Allowing(0, 0))
      /\ AFlow(Allowing(0, 0), z2, Allowing(0, 0))
  BY <1>2, <1>4
<1> HIDE DEF z1, z2
<1>6. AFlow(Allowing(0, 0), z1 \o z2, Allowing(0, 0))
  BY <1>5, JoinAFlows
<1> QED
  BY <1>6 DEF z1, z2, ExecuteVirtualOrdersScript

\* orders.js sends nothing.
LEMMA AOrders == AFlow(Allowing(0, 0), Orders, Allowing(0, 0))
<1> DEFINE a == <<ReadClock>>
           b == <<ReadIds>>
           ab == <<ReadClock, ReadIds>>
           z == [back \in 1 .. 12 |-> LookUp(back)]
<1>1. ALine(Allowing(0, 0), a, Allowing(0, 0)) /\ ALine(Allowing(0, 0), b, Allowing(0, 0))
  BY AReads
<1>2. ALine(Allowing(0, 0), ab, Allowing(0, 0))
  BY <1>1, ATwo
<1>3. "tx" \in Handle
  BY DEF Handle
<1>4. \A k \in 1 .. 12 : Reads(LookUp(k)) /\ LookUp(k) \in Instr
  BY <1>3, OthersRead DEF Reads
<1>5. z \in [1 .. 12 -> Instr] /\ \A k \in 1 .. 12 : Reads(z[k])
  BY <1>4
<1> HIDE DEF z
<1>6. z \in Seq(Instr) /\ Len(z) = 12
  <2> DEFINE n == 12
  <2>1. n \in Nat /\ z \in [1 .. n -> Instr]
    BY <1>5
  <2> HIDE DEF n
  <2>2. z \in Seq(Instr) /\ Len(z) = n
    BY <2>1
  <2> QED
    BY <2>2 DEF n
<1>7. Allowing(0, 0) \in Allowance /\ \A t \in Token : Allowing(0, 0)[t] \in Nat
  BY DEF Allowing, Allowance
<1> DEFINE p == Allowing(0, 0)
<1>8. \A k \in 1 .. Len(z) : /\ z[k].next = 1 /\ z[k].catch = 0
                             /\ <<p, Bare(z[k]), p>> \in AllowD
                             /\ <<p, Bare(z[k]), p>> \in AllowT
  <2> SUFFICES ASSUME NEW i \in Instr, Reads(i)
               PROVE  /\ i.next = 1 /\ i.catch = 0
                      /\ <<p, Bare(i), p>> \in AllowD
                      /\ <<p, Bare(i), p>> \in AllowT
    BY <1>5, <1>6 DEF Reads
  <2>1. Bare(i) = i /\ i.op # "submit" /\ i.next = 1 /\ i.catch = 0
    BY StraightIsBare DEF Reads
  <2> HIDE DEF p
  <2>2. p \in Allowance /\ \A t \in Token : p[t] \in Nat
    BY <1>7 DEF p
  <2>3. AllowDone(p, i, p) /\ \A t \in Token : p[t] <= p[t]
    BY <2>1, <2>2 DEF AllowDone
  <2>4. <<p, i, p>> \in AllowD
    BY <2>2, <2>3 DEF AllowD
  <2>5. <<p, i, p>> \in AllowT
    BY <2>2, <2>3 DEF AllowT
  <2> QED
    BY <2>1, <2>4, <2>5
<1>9. Line(Allowance, AllowD, AllowT, p, z, p, p)
  <2> HIDE DEF p
  <2>1. p \in Allowance
    BY <1>7 DEF p
  <2> QED
    BY <1>6, <1>8, <2>1, IdleLine
<1>10. z # <<>>
  <2>1. Len(z) # 0 /\ Len(<<>>) = 0
    BY <1>6
  <2> QED
    BY <2>1, Zenon
<1>11. ALine(p, z, p)
  BY <1>9, <1>10 DEF ALine
<1> HIDE DEF ab
<1>12. AFlow(p, ab \o z, p)
  BY <1>2, <1>11, JoinALines, ALineIsAFlow
<1> QED
  BY <1>12 DEF Orders, ab, z

\* Every script approves what it needs before it needs it, on all its ways.
LEMMA ScriptsApprove ==
  ASSUME NEW script \in Script
  PROVE  \E q : AFlow(Allowing(0, 0), Program[script], q)
<1>1. Script = {"SampleRun", "SampleRunGoerli", "SampleRunRinkeby", "TermSwap", "TestId",
                "SampleReserveDisplay", "Orders", "OrderStatusCheck",
                "AddLiquidity", "AddInitialLiquidity", "AddInitialLiquidityETH",
                "WithdrawLiquidity", "ExecuteVirtualOrders"}
  BY DEF Script, Program
<1>2. /\ Program["SampleRun"] = SampleRun
      /\ Program["SampleRunGoerli"] = SampleRunGoerli
      /\ Program["SampleRunRinkeby"] = SampleRunRinkeby
      /\ Program["TermSwap"] = TermSwap
      /\ Program["TestId"] = TestId
      /\ Program["SampleReserveDisplay"] = SampleReserveDisplay
      /\ Program["Orders"] = Orders
  BY DEF Program
<1>3. /\ Program["OrderStatusCheck"] = OrderStatusCheck
      /\ Program["AddLiquidity"] = AddLiquidityScript
      /\ Program["AddInitialLiquidity"] = AddInitialLiquidityScript
      /\ Program["AddInitialLiquidityETH"] = AddInitialLiquidityETHScript
      /\ Program["WithdrawLiquidity"] = WithdrawLiquidityScript
      /\ Program["ExecuteVirtualOrders"] = ExecuteVirtualOrdersScript
  BY DEF Program
<1>4. AFlow(Allowing(0, 0), TestId, Allowing(0, 0))
  BY APlaceAndList DEF TestId
<1>5. AFlow(Allowing(0, 0), SampleReserveDisplay, Allowing(0, 0))
  BY APlaceAndList DEF SampleReserveDisplay
<1>6. AFlow(Allowing(0, 0), Program[script], Allowing(0, 0))
  BY <1>1, <1>2, <1>3, <1>4, <1>5, ASampleRun, ASampleRunGoerli, ASampleRunRinkeby, ATermSwap,
     AOrders, AOrderStatusCheck, AAddLiquidity, AAddInitialLiquidity,
     AAddInitialLiquidityETH, AWithdrawLiquidity, AExecuteVirtualOrders
<1> QED
  BY <1>6
-----------------------------------------------------------------------------
(***************************************************************************)
(* The types, as an invariant that is inductive: every instruction that a  *)
(* script can come to is one of its program, and every pool is sound.      *)
(***************************************************************************)
TxType ==
  [fn : Fns, token : Token, amount : Nat, exact : BOOLEAN, deadline : Nat, price : Nat,
   executions : Nat, id : Nat, pool : 0 .. MaxRuns, run : 0 .. MaxRuns,
   status : {"pending", "ok", "reverted"}]

ProcType ==
  [script : Script \cup {"none"}, run : 0 .. MaxRuns, pc : Nat, stamp : Nat, price : Nat,
   executions : Nat, ids : Nat, shown : SUBSET Nat, tx : [Handle -> Nat],
   said : SUBSET {"initial"}, exit : {"running", "0", "1", "killed"}]

Sound(p) == p \in Pool /\ p.shares <= p.supply

InProgram ==
  Running => proc.script \in Script /\ proc.pc \in 1 .. Len(Program[proc.script])

PoolsOK == DOMAIN pools = 0 .. MaxRuns /\ \A r \in 0 .. MaxRuns : Sound(pools[r])

SentOK ==
  /\ sent \in Seq(TxType)
  /\ mined \in 0 .. Len(sent)
  /\ \A k \in 1 .. Len(sent) : /\ sent[k].status = "pending" <=> k > mined
                               /\ sent[k].exact => sent[k].fn = "addLiquidity"

ProcOK ==
  /\ proc \in ProcType
  /\ \A h \in Handle : proc.tx[h] <= Len(sent)
  /\ InProgram

TypeInv == time \in 0 .. MaxTime /\ PoolsOK /\ SentOK /\ ProcOK

\* A program is a sequence of instructions, and no jump leaves it.
LEMMA ProgramsOK ==
  ASSUME NEW script \in Script
  PROVE  /\ Program[script] \in Seq(Instr)
         /\ Len(Program[script]) \in Nat \ {0}
         /\ \A i \in 1 .. Len(Program[script]) :
              /\ Program[script][i] \in Instr
              /\ i + Program[script][i].next <= Len(Program[script]) + 1
              /\ Program[script][i].catch # 0 =>
                   i + Program[script][i].catch <= Len(Program[script]) + 1
<1> DEFINE s == Program[script]
<1>1. PICK q : AFlow(Allowing(0, 0), s, q)
  BY ScriptsApprove
<1> HIDE DEF s
<1>2. s \in Seq(Instr) /\ s # <<>>
  BY <1>1 DEF AFlow, Flow
<1>3. PICK lab : Labelled(Allowance, AllowD, AllowT, s, lab)
  BY <1>1 DEF AFlow, Flow
<1>4. Len(s) \in Nat \ {0} /\ \A i \in 1 .. Len(s) : s[i] \in Instr
  BY <1>2
<1>5. \A i \in 1 .. Len(s) : /\ i + s[i].next <= Len(s) + 1
                             /\ s[i].catch # 0 => i + s[i].catch <= Len(s) + 1
  BY <1>3 DEF Labelled, GoesOn
<1> QED
  BY <1>2, <1>4, <1>5 DEF s

\* The instruction that a script is at, and where it may go on.
LEMMA InstructionOK ==
  ASSUME InProgram, Running
  PROVE  /\ proc.script \in Script /\ proc.pc \in 1 .. Len(Program[proc.script])
         /\ Len(Program[proc.script]) \in Nat
         /\ I \in Instr /\ I.next \in Nat \ {0} /\ I.catch \in Nat
         /\ I.call \in CallType /\ I.tx \in Handle /\ I.back \in Nat
         /\ I.says \in {"none", "initial"}
         /\ proc.pc + I.next <= Len(Program[proc.script]) + 1
         /\ I.catch # 0 => proc.pc + I.catch <= Len(Program[proc.script]) + 1
<1>1. proc.script \in Script /\ proc.pc \in 1 .. Len(Program[proc.script])
  BY DEF InProgram
<1>2. /\ Len(Program[proc.script]) \in Nat
      /\ I \in Instr
      /\ proc.pc + I.next <= Len(Program[proc.script]) + 1
      /\ I.catch # 0 => proc.pc + I.catch <= Len(Program[proc.script]) + 1
  BY <1>1, ProgramsOK DEF I
<1>3. /\ I.next \in Nat \ {0} /\ I.catch \in Nat
      /\ I.call \in CallType /\ I.tx \in Handle /\ I.back \in Nat
      /\ I.says \in {"none", "initial"}
  BY <1>2 DEF Instr
<1> QED
  BY <1>1, <1>2, <1>3

\* The pool of a script is one of those there are.
LEMMA HomeOK ==
  ASSUME NEW p \in ProcType
  PROVE  Home(p) \in 0 .. MaxRuns
<1>1. p.run \in 0 .. MaxRuns
  BY DEF ProcType
<1> QED
  BY <1>1, BoundsAssumption DEF Home

\* The script goes on, and ends behind its last instruction.
GoesTo(p, q, by) ==
  /\ q \in ProcType
  /\ q.script = p.script /\ q.run = p.run /\ q.tx = p.tx
  /\ q.ids = p.ids /\ q.price = p.price /\ q.shown = p.shown
  /\ q.pc = p.pc + by
  /\ q.exit = IF p.pc + by > Len(Program[p.script]) THEN "0" ELSE p.exit

\* A script goes on by some instructions.
LEMMA AdvanceOK ==
  ASSUME NEW p \in ProcType, NEW by \in Nat
  PROVE  GoesTo(p, Advance(p, by), by) /\ Advance(p, by).said = p.said
<1> DEFINE n == p.pc + by
           e == IF p.pc + by > Len(Program[p.script]) THEN "0" ELSE p.exit
           q == [p EXCEPT !.pc = n, !.exit = e]
<1>1. Advance(p, by) = q
  BY DEF Advance
<1>2. n \in Nat /\ e \in {"running", "0", "1", "killed"}
  BY DEF ProcType
<1>3. n = p.pc + by /\ e = IF p.pc + by > Len(Program[p.script]) THEN "0" ELSE p.exit
  OBVIOUS
<1> HIDE DEF n, e
<1>4. /\ q \in ProcType
      /\ q.script = p.script /\ q.run = p.run /\ q.tx = p.tx
      /\ q.ids = p.ids /\ q.price = p.price /\ q.shown = p.shown
      /\ q.pc = n /\ q.exit = e /\ q.said = p.said
  BY <1>2 DEF ProcType
<1> HIDE DEF q
<1> QED
  BY <1>1, <1>3, <1>4 DEF GoesTo

\* An instruction that is done.
LEMMA DoneOK ==
  ASSUME NEW p \in ProcType, I \in Instr
  PROVE  /\ GoesTo(p, Done(p), I.next)
         /\ Done(p).said = p.said \cup ({I.says} \ {"none"})
<1> DEFINE said == p.said \cup ({I.says} \ {"none"})
           r == [p EXCEPT !.said = said]
<1>1. I.says \in {"none", "initial"} /\ I.next \in Nat
  BY DEF Instr
<1>2. said \in SUBSET {"initial"}
  BY <1>1 DEF ProcType
<1>3. Done(p) = Advance(r, I.next) /\ said = p.said \cup ({I.says} \ {"none"})
  BY DEF Done
<1> HIDE DEF said
<1>4. /\ r \in ProcType /\ r.said = said
      /\ r.script = p.script /\ r.run = p.run /\ r.tx = p.tx
      /\ r.ids = p.ids /\ r.price = p.price /\ r.shown = p.shown
      /\ r.pc = p.pc /\ r.exit = p.exit
  BY <1>2 DEF ProcType
<1> HIDE DEF r
<1>5. GoesTo(r, Advance(r, I.next), I.next) /\ Advance(r, I.next).said = r.said
  BY <1>1, <1>4, AdvanceOK
<1> QED
  BY <1>3, <1>4, <1>5 DEF GoesTo

\* An instruction that throws ends the script or goes on at its handler.
LEMMA ThrowOK ==
  ASSUME NEW p \in ProcType, I \in Instr
  PROVE  /\ I.catch = 0 => /\ Throw(p) \in ProcType /\ Throw(p).exit = "1"
                           /\ Throw(p).script = p.script /\ Throw(p).run = p.run
                           /\ Throw(p).tx = p.tx /\ Throw(p).pc = p.pc
                           /\ Throw(p).ids = p.ids /\ Throw(p).shown = p.shown
                           /\ Throw(p).said = p.said
         /\ I.catch # 0 => GoesTo(p, Throw(p), I.catch) /\ Throw(p).said = p.said
<1>1. I.catch \in Nat
  BY DEF Instr
<1>2. CASE I.catch = 0
  <2> DEFINE q == [p EXCEPT !.exit = "1"]
  <2>1. Throw(p) = q
    BY <1>2 DEF Throw
  <2>2. /\ q \in ProcType /\ q.exit = "1"
        /\ q.script = p.script /\ q.run = p.run
        /\ q.tx = p.tx /\ q.pc = p.pc /\ q.ids = p.ids /\ q.shown = p.shown /\ q.said = p.said
    BY DEF ProcType
  <2> HIDE DEF q
  <2> QED
    BY <1>2, <2>1, <2>2
<1>3. CASE I.catch # 0
  <2>1. Throw(p) = Advance(p, I.catch)
    BY <1>3 DEF Throw
  <2> QED
    BY <1>1, <1>3, <2>1, AdvanceOK
<1> QED
  BY <1>2, <1>3
-----------------------------------------------------------------------------
(***************************************************************************)
(* What a call does to a pool, function by function.                       *)
(***************************************************************************)
LEMMA EffectOf ==
  ASSUME NEW p, NEW x
  PROVE  /\ x.fn = "deploy" => Effect(p, x) = p
         /\ x.fn = "createPairWrapper" => Effect(p, x) = Created(p)
         /\ x.fn \in {"addInitialLiquidity", "addInitialLiquidityETH"} =>
              Effect(p, x) = [Spent(Created(p), x) EXCEPT
                !.supply = x.amount, !.shares = Spent(Created(p), x).shares + x.amount]
         /\ x.fn = "addLiquidity" =>
              Effect(p, x) = [Executed(Spent(p, x)) EXCEPT
                !.supply = Executed(Spent(p, x)).supply + x.amount,
                !.shares = Executed(Spent(p, x)).shares + x.amount]
         /\ x.fn = "withdrawLiquidity" =>
              Effect(p, x) = [Executed(p) EXCEPT
                !.supply = Executed(p).supply - x.amount,
                !.shares = Executed(p).shares - x.amount]
         /\ x.fn = "instantSwapTokenToToken" =>
              Effect(p, x) = [Executed(Spent(p, x)) EXCEPT
                !.price = Executed(Spent(p, x)).price + 1]
         /\ x.fn = "executeVirtualOrdersWrapper" => Effect(p, x) = Executed(p)
<1> DEFINE e == Effect(p, x)
           c == Spent(Created(p), x)
           r == Executed(Spent(p, x))
           s == Executed(p)
<1>1. x.fn = "deploy" => e = p
  BY DEF Effect, Fn, IsInitial, TakesOrder
<1>2. x.fn = "createPairWrapper" => e = Created(p)
  BY DEF Effect, Fn, IsInitial, TakesOrder
<1>3. x.fn \in {"addInitialLiquidity", "addInitialLiquidityETH"} =>
        e = [c EXCEPT !.supply = x.amount, !.shares = c.shares + x.amount]
  BY DEF Effect, Fn, IsInitial, TakesOrder
<1>4. x.fn = "addLiquidity" =>
        e = [r EXCEPT !.supply = r.supply + x.amount, !.shares = r.shares + x.amount]
  BY DEF Effect, Fn, IsInitial, TakesOrder
<1>5. x.fn = "withdrawLiquidity" =>
        e = [s EXCEPT !.supply = s.supply - x.amount, !.shares = s.shares - x.amount]
  BY DEF Effect, Fn, IsInitial, TakesOrder
<1>6. x.fn = "instantSwapTokenToToken" => e = [r EXCEPT !.price = r.price + 1]
  BY DEF Effect, Fn, IsInitial, TakesOrder
<1>7. x.fn = "executeVirtualOrdersWrapper" => e = s
  BY DEF Effect, Fn, IsInitial, TakesOrder
<1> HIDE DEF e, c, r, s
<1>8. /\ x.fn = "deploy" => e = p
      /\ x.fn = "createPairWrapper" => e = Created(p)
      /\ x.fn \in {"addInitialLiquidity", "addInitialLiquidityETH"} =>
           e = [c EXCEPT !.supply = x.amount, !.shares = c.shares + x.amount]
      /\ x.fn = "addLiquidity" =>
           e = [r EXCEPT !.supply = r.supply + x.amount, !.shares = r.shares + x.amount]
      /\ x.fn = "withdrawLiquidity" =>
           e = [s EXCEPT !.supply = s.supply - x.amount, !.shares = s.shares - x.amount]
      /\ x.fn = "instantSwapTokenToToken" => e = [r EXCEPT !.price = r.price + 1]
      /\ x.fn = "executeVirtualOrdersWrapper" => e = s
  BY <1>1, <1>2, <1>3, <1>4, <1>5, <1>6, <1>7
<1> QED
  BY <1>8 DEF e, c, r, s

\* Placing an order appends it.
LEMMA EffectOfOrder ==
  ASSUME NEW p, NEW x, NEW os, x.fn = "longTermSwapTokenToToken",
         os = Append(Executed(Spent(p, x)).orders,
                     [mine |-> TRUE, sells |-> x.token, state |-> "open"])
  PROVE  Effect(p, x) = [Executed(Spent(p, x)) EXCEPT !.orders = os]
BY DEF Effect, Fn, IsInitial, TakesOrder

\* Approving replaces the allowance.
LEMMA EffectOfApprove ==
  ASSUME NEW p, NEW x, x.fn = "approve"
  PROVE  Effect(p, x) = [p EXCEPT !.allowance = [p.allowance EXCEPT ![x.token] = x.amount]]
BY DEF Effect, Fn, IsInitial, TakesOrder

\* Cancelling and withdrawing change one order.
LEMMA EffectOfTaking ==
  ASSUME NEW p, NEW x, TakesOrder(x)
  PROVE  Effect(p, x) = [Executed(p) EXCEPT
           !.orders = [Executed(p).orders EXCEPT
             ![x.id + 1] = Taken(x, Executed(p).orders[x.id + 1])]]
BY DEF Effect, Fn, IsInitial, TakesOrder
-----------------------------------------------------------------------------
OrderType == [mine : BOOLEAN, sells : Token, state : OrderState]

\* The allowance of t is set or used by the call.
Touches(x, t) == (x.fn = "approve" /\ x.token = t) \/ Needs(x)[t] > 0

\* Orders are not removed, and those of others not changed.
KeepsOrders(p, q) ==
  /\ Len(p.orders) <= Len(q.orders)
  /\ \A i \in 1 .. Len(p.orders) :
       /\ q.orders[i].mine = p.orders[i].mine
       /\ ~p.orders[i].mine => q.orders[i] = p.orders[i]

Changes(p, q, x) ==
  /\ Sound(q)
  /\ \A t \in Token :
       /\ x.fn = "approve" /\ x.token = t => q.allowance[t] = x.amount
       /\ ~Touches(x, t) => q.allowance[t] = p.allowance[t]
  /\ KeepsOrders(p, q)

\* The parts of a pool.
LEMMA PoolFacts ==
  ASSUME NEW p \in Pool
  PROVE  /\ p.created \in BOOLEAN /\ p.supply \in Nat /\ p.shares \in Nat
         /\ p.allowance \in [Token -> Nat] /\ p.price \in Nat /\ p.executions \in Nat
         /\ p.orders \in Seq(OrderType) /\ Len(p.orders) \in Nat
         /\ \A t \in Token : p.allowance[t] \in Nat
         /\ \A i \in 1 .. Len(p.orders) : p.orders[i] \in OrderType
<1>1. /\ p.created \in BOOLEAN /\ p.supply \in Nat /\ p.shares \in Nat
      /\ p.allowance \in [Token -> Nat] /\ p.price \in Nat /\ p.executions \in Nat
      /\ p.orders \in Seq(OrderType)
  BY DEF Pool, OrderType
<1>2. \A i \in 1 .. Len(p.orders) : p.orders[i] \in OrderType
  BY <1>1, ElementOfSeq
<1>3. Len(p.orders) \in Nat
  BY <1>1
<1> QED
  BY <1>1, <1>2, <1>3

\* Orders that are the same are kept.
LEMMA KeepsSame ==
  ASSUME NEW p \in Pool, NEW q, q.orders = p.orders
  PROVE  KeepsOrders(p, q)
<1>1. Len(p.orders) \in Nat
  BY PoolFacts
<1> QED
  BY <1>1 DEF KeepsOrders

\* A call that does nothing changes nothing.
LEMMA NothingChanges ==
  ASSUME NEW p, Sound(p), NEW x, x.fn # "approve"
  PROVE  Changes(p, p, x)
BY KeepsSame DEF Changes, Sound

\* Executing virtual orders moves only the count of executions.
LEMMA ExecutedOK ==
  ASSUME NEW p \in Pool
  PROVE  /\ Executed(p) \in Pool
         /\ Executed(p).supply = p.supply /\ Executed(p).shares = p.shares
         /\ Executed(p).allowance = p.allowance /\ Executed(p).orders = p.orders
         /\ Executed(p).price = p.price
<1> DEFINE n == p.executions + 1
           q == [p EXCEPT !.executions = n]
<1>1. n \in Nat
  BY PoolFacts
<1>2. Executed(p) = q
  BY DEF Executed
<1> HIDE DEF n
<1>3. /\ q \in Pool
      /\ q.supply = p.supply /\ q.shares = p.shares
      /\ q.allowance = p.allowance /\ q.orders = p.orders /\ q.price = p.price
  BY <1>1 DEF Pool
<1> HIDE DEF q
<1> QED
  BY <1>2, <1>3

\* Creating the pair changes neither shares nor allowances nor orders.
LEMMA CreatedOK ==
  ASSUME NEW p \in Pool
  PROVE  /\ Created(p) \in Pool
         /\ Created(p).supply = p.supply /\ Created(p).shares = p.shares
         /\ Created(p).allowance = p.allowance /\ Created(p).orders = p.orders
<1> DEFINE n == p.executions + 1
           q == [p EXCEPT !.created = TRUE, !.executions = n]
<1>1. n \in Nat
  BY PoolFacts
<1>2. Created(p) = IF p.created THEN p ELSE q
  BY DEF Created
<1> HIDE DEF n
<1>3. /\ q \in Pool
      /\ q.supply = p.supply /\ q.shares = p.shares
      /\ q.allowance = p.allowance /\ q.orders = p.orders
  BY <1>1 DEF Pool
<1> HIDE DEF q
<1> QED
  BY <1>2, <1>3

WithShares(p, n, m) == [p EXCEPT !.supply = n, !.shares = m]

\* A pool with other shares, not more than there are.
LEMMA SharesOK ==
  ASSUME NEW p \in Pool, NEW n \in Nat, NEW m \in Nat, m <= n
  PROVE  /\ Sound(WithShares(p, n, m))
         /\ WithShares(p, n, m).allowance = p.allowance
         /\ WithShares(p, n, m).orders = p.orders
<1> DEFINE q == WithShares(p, n, m)
<1>1. /\ q \in Pool /\ q.supply = n /\ q.shares = m
      /\ q.allowance = p.allowance /\ q.orders = p.orders
  BY DEF Pool, WithShares
<1> HIDE DEF q
<1>2. Sound(q) /\ q.allowance = p.allowance /\ q.orders = p.orders
  BY <1>1 DEF Sound
<1> QED
  BY <1>2 DEF q

\* The parts of a transaction.
LEMMA TxFacts ==
  ASSUME NEW x \in TxType
  PROVE  /\ x.fn \in Fns /\ x.token \in Token /\ x.amount \in Nat /\ x.id \in Nat
         /\ x.pool \in 0 .. MaxRuns /\ x.run \in 0 .. MaxRuns /\ x.price \in Nat
         /\ x.deadline \in Nat /\ x.executions \in Nat /\ x.exact \in BOOLEAN
         /\ x.status \in {"pending", "ok", "reverted"}
BY DEF TxType

\* What a call moves are amounts.
LEMMA NeedsType ==
  ASSUME NEW x, x.amount \in Nat
  PROVE  Needs(x) \in [Token -> Nat] /\ \A t \in Token : Needs(x)[t] \in Nat
<1>1. Needs(x) \in [Token -> Nat]
  BY DEF Needs
<1> QED
  BY <1>1

\* Spending what is covered leaves allowances that are numbers.
LEMMA SpentOK ==
  ASSUME NEW p \in Pool, NEW x, x.amount \in Nat, Covered(p, x)
  PROVE  /\ Spent(p, x) \in Pool
         /\ Spent(p, x).supply = p.supply /\ Spent(p, x).shares = p.shares
         /\ Spent(p, x).orders = p.orders /\ Spent(p, x).price = p.price
         /\ \A t \in Token : Needs(x)[t] = 0 => Spent(p, x).allowance[t] = p.allowance[t]
<1> DEFINE a == [t \in Token |-> p.allowance[t] - Needs(x)[t]]
           q == [p EXCEPT !.allowance = a]
<1>1. \A t \in Token : /\ Needs(x)[t] \in Nat /\ p.allowance[t] \in Nat
                       /\ Needs(x)[t] <= p.allowance[t]
  BY NeedsType, PoolFacts DEF Covered
<1>2. a \in [Token -> Nat] /\ \A t \in Token : Needs(x)[t] = 0 => a[t] = p.allowance[t]
  BY <1>1
<1>3. Spent(p, x) = q
  BY DEF Spent
<1> HIDE DEF a
<1>4. /\ q \in Pool
      /\ q.supply = p.supply /\ q.shares = p.shares
      /\ q.orders = p.orders /\ q.price = p.price /\ q.allowance = a
  BY <1>2 DEF Pool
<1> HIDE DEF q
<1> QED
  BY <1>2, <1>3, <1>4

\* A change that only uses allowances of the tokens the call moves.
LEMMA SpendingChanges ==
  ASSUME NEW p, Sound(p), NEW q, Sound(q), NEW x, x.fn # "approve", x.amount \in Nat,
         q.orders = p.orders,
         \A t \in Token : Needs(x)[t] = 0 => q.allowance[t] = p.allowance[t]
  PROVE  Changes(p, q, x)
<1>1. KeepsOrders(p, q)
  BY KeepsSame DEF Sound
<1>2. \A t \in Token : ~Touches(x, t) => Needs(x)[t] = 0
  <2>1. \A t \in Token : Needs(x)[t] \in Nat
    BY NeedsType
  <2> QED
    BY <2>1 DEF Touches
<1> QED
  BY <1>1, <1>2 DEF Changes

\* What an accepted call may change: the owner's check is what keeps the
\* orders of others.
LEMMA EffectOK ==
  ASSUME NEW p, Sound(p), NEW x \in TxType, NEW now, Accepts(p, x, now)
  PROVE  Changes(p, Effect(p, x), x)
<1>1. p \in Pool /\ p.shares <= p.supply
  BY DEF Sound
<1>2. x.fn \in Fns /\ x.token \in Token /\ x.amount \in Nat /\ x.id \in Nat
  BY TxFacts
<1>3. /\ Covered(p, x)
      /\ IsInitial(x) => p.supply = 0
      /\ x.fn = "withdrawLiquidity" => x.amount <= p.shares /\ x.amount < p.supply
      /\ TakesOrder(x) => OrderAccepted(p, x, TRUE)
  BY DEF Accepts, AcceptsIf, Fn
<1>4. p.supply \in Nat /\ p.shares \in Nat /\ p.orders \in Seq(OrderType) /\ Len(p.orders) \in Nat
  BY <1>1, PoolFacts
<1>5. CASE x.fn = "deploy"
  <2>1. Effect(p, x) = p
    BY <1>5, EffectOf
  <2>2. Changes(p, p, x)
    BY <1>5, NothingChanges
  <2> QED
    BY <2>1, <2>2
<1>6. CASE x.fn = "approve"
  <2> DEFINE a == [p.allowance EXCEPT ![x.token] = x.amount]
             q == [p EXCEPT !.allowance = a]
  <2>1. Effect(p, x) = q
    BY <1>6, EffectOfApprove
  <2>2. p.allowance \in [Token -> Nat]
    BY <1>1, PoolFacts
  <2>3. /\ a \in [Token -> Nat] /\ a[x.token] = x.amount
        /\ \A t \in Token : t # x.token => a[t] = p.allowance[t]
    BY <1>2, <2>2
  <2> HIDE DEF a
  <2>4. /\ q \in Pool /\ q.allowance = a /\ q.orders = p.orders
        /\ q.supply = p.supply /\ q.shares = p.shares
    BY <1>1, <2>3 DEF Pool
  <2> HIDE DEF q
  <2>5. Sound(q) /\ KeepsOrders(p, q)
    BY <1>1, <2>4, KeepsSame DEF Sound
  <2>6. \A t \in Token : /\ x.fn = "approve" /\ x.token = t => q.allowance[t] = x.amount
                         /\ ~Touches(x, t) => q.allowance[t] = p.allowance[t]
    BY <1>6, <2>3, <2>4 DEF Touches
  <2> QED
    BY <2>1, <2>5, <2>6 DEF Changes
<1>7. CASE x.fn = "createPairWrapper"
  <2> DEFINE q == Created(p)
  <2>1. /\ q \in Pool /\ q.supply = p.supply /\ q.shares = p.shares
        /\ q.allowance = p.allowance /\ q.orders = p.orders
    BY <1>1, CreatedOK
  <2>2. Effect(p, x) = q
    BY <1>7, EffectOf
  <2> HIDE DEF q
  <2>3. Sound(q)
    BY <1>1, <2>1 DEF Sound
  <2>4. Changes(p, q, x)
    BY <1>2, <1>7, <2>1, <2>3, SpendingChanges
  <2> QED
    BY <2>2, <2>4
<1>8. CASE x.fn \in {"addInitialLiquidity", "addInitialLiquidityETH"}
  <2> DEFINE c == Created(p)
             d == Spent(c, x)
             n == x.amount
             m == d.shares + x.amount
             q == WithShares(d, n, m)
  <2>1. p.supply = 0
    BY <1>3, <1>8 DEF IsInitial, Fn
  <2>2. /\ c \in Pool /\ c.shares = p.shares /\ c.allowance = p.allowance
        /\ c.orders = p.orders
    BY <1>1, CreatedOK
  <2>3. Effect(p, x) = q
    BY <1>8, EffectOf DEF WithShares
  <2> HIDE DEF c
  <2>4. Covered(c, x)
    BY <1>3, <2>2 DEF Covered
  <2>5. /\ d \in Pool /\ d.shares = c.shares /\ d.orders = c.orders
        /\ \A t \in Token : Needs(x)[t] = 0 => d.allowance[t] = c.allowance[t]
    BY <1>2, <2>2, <2>4, SpentOK
  <2> HIDE DEF d
  <2>6. n \in Nat /\ m \in Nat /\ m <= n
    BY <1>1, <1>2, <1>4, <2>1, <2>2, <2>5
  <2> HIDE DEF n, m
  <2>7. Sound(q) /\ q.allowance = d.allowance /\ q.orders = d.orders
    BY <2>5, <2>6, SharesOK
  <2> HIDE DEF q
  <2>8. /\ q.orders = p.orders
        /\ \A t \in Token : Needs(x)[t] = 0 => q.allowance[t] = p.allowance[t]
    BY <2>2, <2>5, <2>7
  <2>9. Changes(p, q, x)
    BY <1>2, <1>8, <2>7, <2>8, SpendingChanges
  <2> QED
    BY <2>3, <2>9
<1>9. CASE x.fn = "addLiquidity"
  <2> DEFINE c == Spent(p, x)
             d == Executed(c)
             n == d.supply + x.amount
             m == d.shares + x.amount
             q == WithShares(d, n, m)
  <2>1. Effect(p, x) = q
    BY <1>9, EffectOf DEF WithShares
  <2>2. /\ c \in Pool /\ c.shares = p.shares /\ c.supply = p.supply /\ c.orders = p.orders
        /\ \A t \in Token : Needs(x)[t] = 0 => c.allowance[t] = p.allowance[t]
    BY <1>1, <1>2, <1>3, SpentOK
  <2> HIDE DEF c
  <2>3. /\ d \in Pool /\ d.shares = c.shares /\ d.supply = c.supply /\ d.orders = c.orders
        /\ d.allowance = c.allowance
    BY <2>2, ExecutedOK
  <2> HIDE DEF d
  <2>4. n \in Nat /\ m \in Nat /\ m <= n
    BY <1>1, <1>2, <1>4, <2>2, <2>3
  <2> HIDE DEF n, m
  <2>5. Sound(q) /\ q.allowance = d.allowance /\ q.orders = d.orders
    BY <2>3, <2>4, SharesOK
  <2> HIDE DEF q
  <2>6. /\ q.orders = p.orders
        /\ \A t \in Token : Needs(x)[t] = 0 => q.allowance[t] = p.allowance[t]
    BY <2>2, <2>3, <2>5
  <2>7. Changes(p, q, x)
    BY <1>2, <1>9, <2>5, <2>6, SpendingChanges
  <2> QED
    BY <2>1, <2>7
<1>10. CASE x.fn = "withdrawLiquidity"
  <2> DEFINE d == Executed(p)
             n == d.supply - x.amount
             m == d.shares - x.amount
             q == WithShares(d, n, m)
  <2>1. Effect(p, x) = q
    BY <1>10, EffectOf DEF WithShares
  <2>2. /\ d \in Pool /\ d.shares = p.shares /\ d.supply = p.supply /\ d.orders = p.orders
        /\ d.allowance = p.allowance
    BY <1>1, ExecutedOK
  <2> HIDE DEF d
  <2>3. n \in Nat /\ m \in Nat /\ m <= n
    BY <1>1, <1>2, <1>3, <1>4, <1>10, <2>2
  <2> HIDE DEF n, m
  <2>4. Sound(q) /\ q.allowance = d.allowance /\ q.orders = d.orders
    BY <2>2, <2>3, SharesOK
  <2> HIDE DEF q
  <2>5. Changes(p, q, x)
    BY <1>2, <1>10, <2>2, <2>4, SpendingChanges
  <2> QED
    BY <2>1, <2>5
<1>11. CASE x.fn = "instantSwapTokenToToken"
  <2> DEFINE c == Spent(p, x)
             d == Executed(c)
             n == d.price + 1
             q == [d EXCEPT !.price = n]
  <2>1. Effect(p, x) = q
    BY <1>11, EffectOf
  <2>2. /\ c \in Pool /\ c.shares = p.shares /\ c.supply = p.supply /\ c.orders = p.orders
        /\ \A t \in Token : Needs(x)[t] = 0 => c.allowance[t] = p.allowance[t]
    BY <1>1, <1>2, <1>3, SpentOK
  <2> HIDE DEF c
  <2>3. /\ d \in Pool /\ d.shares = c.shares /\ d.supply = c.supply /\ d.orders = c.orders
        /\ d.allowance = c.allowance
    BY <2>2, ExecutedOK
  <2> HIDE DEF d
  <2>4. n \in Nat
    BY <2>3, PoolFacts
  <2> HIDE DEF n
  <2>5. /\ q \in Pool /\ q.shares = d.shares /\ q.supply = d.supply /\ q.orders = d.orders
        /\ q.allowance = d.allowance
    BY <2>3, <2>4 DEF Pool
  <2> HIDE DEF q
  <2>6. /\ Sound(q) /\ q.orders = p.orders
        /\ \A t \in Token : Needs(x)[t] = 0 => q.allowance[t] = p.allowance[t]
    BY <1>1, <2>2, <2>3, <2>5 DEF Sound
  <2>7. Changes(p, q, x)
    BY <1>2, <1>11, <2>6, SpendingChanges
  <2> QED
    BY <2>1, <2>7
<1>12. CASE x.fn = "longTermSwapTokenToToken"
  <2> DEFINE c == Spent(p, x)
             d == Executed(c)
             o == [mine |-> TRUE, sells |-> x.token, state |-> "open"]
             os == Append(d.orders, o)
             q == [d EXCEPT !.orders = os]
  <2>0. os = Append(Executed(Spent(p, x)).orders,
                    [mine |-> TRUE, sells |-> x.token, state |-> "open"])
    OBVIOUS
  <2>1. Effect(p, x) = q
    <3> HIDE DEF os
    <3>1. Effect(p, x) = [Executed(Spent(p, x)) EXCEPT !.orders = os]
      BY <1>12, <2>0, EffectOfOrder
    <3> QED
      BY <3>1
  <2>2. /\ c \in Pool /\ c.shares = p.shares /\ c.supply = p.supply /\ c.orders = p.orders
        /\ \A t \in Token : Needs(x)[t] = 0 => c.allowance[t] = p.allowance[t]
    BY <1>1, <1>2, <1>3, SpentOK
  <2> HIDE DEF c
  <2>3. /\ d \in Pool /\ d.shares = c.shares /\ d.supply = c.supply /\ d.orders = c.orders
        /\ d.allowance = c.allowance
    BY <2>2, ExecutedOK
  <2> HIDE DEF d
  <2>4. o \in OrderType
    BY <1>2 DEF OrderType, OrderState
  <2> HIDE DEF o
  <2>5. /\ os \in Seq(OrderType) /\ Len(os) = Len(p.orders) + 1
        /\ \A i \in 1 .. Len(p.orders) : os[i] = p.orders[i]
    BY <1>4, <2>2, <2>3, <2>4, AppendProperties
  <2> HIDE DEF os
  <2>6. /\ q \in Pool /\ q.shares = d.shares /\ q.supply = d.supply /\ q.orders = os
        /\ q.allowance = d.allowance
    BY <2>3, <2>5 DEF Pool, OrderType
  <2> HIDE DEF q
  <2>7. /\ Sound(q)
        /\ \A t \in Token : Needs(x)[t] = 0 => q.allowance[t] = p.allowance[t]
    BY <1>1, <2>2, <2>3, <2>6 DEF Sound
  <2>8. KeepsOrders(p, q)
    BY <1>4, <2>5, <2>6 DEF KeepsOrders
  <2>9. \A t \in Token : ~Touches(x, t) => Needs(x)[t] = 0
    <3>1. \A t \in Token : Needs(x)[t] \in Nat
      BY <1>2, NeedsType
    <3> QED
      BY <3>1 DEF Touches
  <2>10. Changes(p, q, x)
    BY <1>12, <2>7, <2>8, <2>9 DEF Changes
  <2> QED
    BY <2>1, <2>10
<1>13. CASE TakesOrder(x)
  <2> DEFINE d == Executed(p)
             k == x.id + 1
             o == d.orders[k]
             y == Taken(x, o)
             os == [d.orders EXCEPT ![k] = y]
             q == [d EXCEPT !.orders = os]
  <2>1. Effect(p, x) = q
    BY <1>13, EffectOfTaking
  <2>2. /\ d \in Pool /\ d.shares = p.shares /\ d.supply = p.supply /\ d.orders = p.orders
        /\ d.allowance = p.allowance
    BY <1>1, ExecutedOK
  <2> HIDE DEF d
  <2>3. k \in 1 .. Len(p.orders) /\ p.orders[k].mine
    BY <1>2, <1>3, <1>4, <1>13 DEF OrderAccepted, Order
  <2> HIDE DEF k
  <2>4. o \in OrderType /\ o = p.orders[k]
    BY <1>4, <2>2, <2>3, ElementOfSeq
  <2>5. y \in OrderType /\ y.mine = o.mine
    <3> HIDE DEF o
    <3>1. [o EXCEPT !.state = "closed"] \in OrderType /\ [o EXCEPT !.state = "closed"].mine = o.mine
      BY <2>4 DEF OrderType, OrderState
    <3> QED
      BY <2>4, <3>1 DEF Taken
  <2> HIDE DEF y, o
  <2>6. /\ os \in Seq(OrderType) /\ Len(os) = Len(p.orders)
        /\ \A j \in 1 .. Len(p.orders) : os[j] = IF j = k THEN y ELSE p.orders[j]
    BY <1>4, <2>2, <2>3, <2>5, ExceptSeq
  <2> HIDE DEF os
  <2>7. /\ q \in Pool /\ q.shares = d.shares /\ q.supply = d.supply /\ q.orders = os
        /\ q.allowance = d.allowance
    BY <2>2, <2>6 DEF Pool, OrderType
  <2> HIDE DEF q
  <2>8. Sound(q) /\ q.allowance = p.allowance
    BY <1>1, <2>2, <2>7 DEF Sound
  <2>9. KeepsOrders(p, q)
    BY <1>4, <2>3, <2>4, <2>5, <2>6, <2>7 DEF KeepsOrders
  <2>10. x.fn # "approve"
    BY <1>13 DEF TakesOrder, Fn
  <2>11. Changes(p, q, x)
    BY <2>8, <2>9, <2>10 DEF Changes
  <2> QED
    BY <2>1, <2>11
<1>14. CASE x.fn = "executeVirtualOrdersWrapper"
  <2> DEFINE q == Executed(p)
  <2>1. /\ q \in Pool /\ q.supply = p.supply /\ q.shares = p.shares
        /\ q.allowance = p.allowance /\ q.orders = p.orders
    BY <1>1, ExecutedOK
  <2>2. Effect(p, x) = q
    BY <1>14, EffectOf
  <2> HIDE DEF q
  <2>3. Sound(q)
    BY <1>1, <2>1 DEF Sound
  <2>4. Changes(p, q, x)
    BY <1>2, <1>14, <2>1, <2>3, SpendingChanges
  <2> QED
    BY <2>2, <2>4
<1> QED
  BY <1>2, <1>5, <1>6, <1>7, <1>8, <1>9, <1>10, <1>11, <1>12, <1>13, <1>14
  DEF Fns, TakesOrder, Fn

\* An approval is always accepted.
LEMMA ApproveAccepted ==
  ASSUME NEW p \in Pool, NEW x \in TxType, NEW now, x.fn = "approve", ~x.exact,
         NEW ok \in Outcomes(p, x, now)
  PROVE  ok
<1>1. \A t \in Token : Needs(x)[t] = 0 /\ p.allowance[t] \in Nat
  BY PoolFacts DEF Needs, Fn
<1>2. Covered(p, x)
  <2> SUFFICES ASSUME NEW t \in Token PROVE Needs(x)[t] <= p.allowance[t]
    BY DEF Covered
  <2> DEFINE a == p.allowance[t]
             n == Needs(x)[t]
  <2>1. a \in Nat /\ n = 0
    BY <1>1
  <2> HIDE DEF a, n
  <2>2. n <= a
    BY <2>1
  <2> QED
    BY <2>2 DEF n, a
<1>3. ~HasDeadline(x) /\ ~IsInitial(x) /\ ~Executes(x) /\ ~TakesOrder(x)
  BY DEF HasDeadline, IsInitial, Executes, TakesOrder, Fn
<1>4. /\ ~Fn(x, {"createPairWrapper"}) /\ ~Fn(x, {"withdrawLiquidity"})
      /\ ~Fn(x, {"executeVirtualOrdersWrapper"})
  BY DEF Fn
<1>5. Accepts(p, x, now)
  BY <1>2, <1>3, <1>4 DEF Accepts, AcceptsIf
<1>6. ~MayRevert(p, x)
  BY <1>3 DEF MayRevert
<1> QED
  BY <1>5, <1>6, Zenon DEF Outcomes

\* What succeeds has been accepted.
LEMMA OutcomeOK ==
  ASSUME NEW p, NEW x, NEW now, NEW ok \in Outcomes(p, x, now)
  PROVE  ok \in BOOLEAN /\ (ok => Accepts(p, x, now))
BY Zenon DEF Outcomes

\* What a transaction may change, whether it is accepted or not.
LEMMA ApplyOK ==
  ASSUME NEW p, Sound(p), NEW x \in TxType, NEW now, x.exact => x.fn = "addLiquidity",
         NEW ok \in Outcomes(p, x, now)
  PROVE  Changes(p, Apply(p, x, ok), x)
<1>1. CASE ok
  <2>1. Accepts(p, x, now)
    BY <1>1, OutcomeOK
  <2>2. Apply(p, x, ok) = Effect(p, x)
    BY <1>1 DEF Apply
  <2> QED
    BY <2>1, <2>2, EffectOK
<1>2. CASE ~ok
  <2>1. x.fn # "approve"
    <3>1. SUFFICES ASSUME x.fn = "approve" PROVE FALSE
      OBVIOUS
    <3>2. ok
      BY <3>1, ApproveAccepted DEF Sound
    <3> QED
      BY <1>2, <3>2
  <2>2. Apply(p, x, ok) = p
    BY <1>2 DEF Apply
  <2> QED
    BY <2>1, <2>2, NothingChanges
<1> QED
  BY <1>1, <1>2
-----------------------------------------------------------------------------
\* An instruction that is done leads on in the program, or to its end.
LEMMA DoneProc ==
  ASSUME InProgram, Running, NEW p \in ProcType, p.script = proc.script, p.pc = proc.pc,
         proc' = Done(p)
  PROVE  proc' \in ProcType /\ InProgram' /\ proc'.tx = p.tx
<1>1. /\ proc.script \in Script /\ proc.pc \in 1 .. Len(Program[proc.script])
      /\ I \in Instr /\ I.next \in Nat \ {0}
      /\ proc.pc + I.next <= Len(Program[proc.script]) + 1
      /\ Len(Program[proc.script]) \in Nat
  BY InstructionOK
<1>2. GoesTo(p, proc', I.next)
  BY <1>1, DoneOK
<1> DEFINE n == I.next
           len == Len(Program[proc.script])
<1>3. /\ n \in Nat \ {0} /\ len \in Nat /\ proc.pc \in 1 .. len /\ proc.pc + n <= len + 1
      /\ GoesTo(p, proc', n) /\ len = Len(Program[p.script])
  BY <1>1, <1>2
<1> HIDE DEF n
<1>4. /\ proc' \in ProcType /\ proc'.tx = p.tx /\ proc'.script = proc.script
      /\ proc'.pc = proc.pc + n
      /\ proc'.exit = IF proc.pc + n > len THEN "0" ELSE p.exit
  BY <1>3 DEF GoesTo
<1>5. len = Len(Program[proc.script])
  OBVIOUS
<1> HIDE DEF len
<1>6. proc'.exit = "running" =>
        proc'.script \in Script /\ proc'.pc \in 1 .. Len(Program[proc'.script])
  BY <1>1, <1>3, <1>4, <1>5
<1> QED
  BY <1>4, <1>6 DEF InProgram, Running

\* An instruction that throws leads to its handler, or ends the script.
LEMMA ThrowProc ==
  ASSUME InProgram, Running, proc \in ProcType, proc' = Throw(proc)
  PROVE  proc' \in ProcType /\ InProgram' /\ proc'.tx = proc.tx
<1>1. /\ proc.script \in Script /\ proc.pc \in 1 .. Len(Program[proc.script])
      /\ I \in Instr /\ I.catch \in Nat
      /\ I.catch # 0 => proc.pc + I.catch <= Len(Program[proc.script]) + 1
      /\ Len(Program[proc.script]) \in Nat
  BY InstructionOK
<1>2. CASE I.catch = 0
  <2>1. proc' \in ProcType /\ proc'.exit = "1" /\ proc'.tx = proc.tx
    BY <1>1, <1>2, ThrowOK
  <2> QED
    BY <2>1 DEF InProgram, Running
<1>3. CASE I.catch # 0
  <2> DEFINE n == I.catch
             len == Len(Program[proc.script])
  <2>1. GoesTo(proc, proc', n)
    BY <1>1, <1>3, ThrowOK
  <2>2. /\ n \in Nat \ {0} /\ len \in Nat /\ proc.pc \in 1 .. len /\ proc.pc + n <= len + 1
        /\ len = Len(Program[proc.script])
    BY <1>1, <1>3
  <2> HIDE DEF n
  <2>3. /\ proc' \in ProcType /\ proc'.tx = proc.tx /\ proc'.script = proc.script
        /\ proc'.pc = proc.pc + n
        /\ proc'.exit = IF proc.pc + n > len THEN "0" ELSE proc.exit
    BY <2>1 DEF GoesTo
  <2> HIDE DEF len
  <2>4. proc'.exit = "running" =>
          proc'.script \in Script /\ proc'.pc \in 1 .. Len(Program[proc'.script])
    BY <1>1, <2>2, <2>3
  <2> QED
    BY <2>3, <2>4 DEF InProgram, Running
<1> QED
  BY <1>2, <1>3

\* The pool of the script is sound.
LEMMA HomePool ==
  ASSUME TypeInv
  PROVE  /\ Home(proc) \in 0 .. MaxRuns /\ Sound(ScriptPool)
         /\ ScriptPool.price \in Nat /\ ScriptPool.executions \in Nat
<1>1. Home(proc) \in 0 .. MaxRuns
  BY HomeOK DEF TypeInv, ProcOK
<1>2. Sound(ScriptPool)
  BY <1>1 DEF TypeInv, PoolsOK, ScriptPool
<1> QED
  BY <1>1, <1>2, PoolFacts DEF Sound

\* The account has a number of orders.
LEMMA OwnCount ==
  ASSUME NEW p \in Pool
  PROVE  Cardinality(Own(p)) \in Nat
<1>1. p.orders \in Seq(OrderType) /\ Len(p.orders) \in Nat
  BY PoolFacts
<1>2. Own(p) \subseteq 1 .. Len(p.orders)
  BY <1>1 DEF Own
<1>3. IsFiniteSet(1 .. Len(p.orders))
  BY <1>1, FS_Interval
<1> QED
  BY <1>2, <1>3, FS_Subset, FS_CardinalityType

\* A step of the script that sends nothing.
LEMMA OnlyProcType ==
  ASSUME TypeInv, OnlyScript, proc' \in ProcType, InProgram', proc'.tx = proc.tx
  PROVE  TypeInv'
<1>1. /\ time' = time /\ pools' = pools /\ sent' = sent /\ mined' = mined
  BY DEF OnlyScript
<1>2. (time \in 0 .. MaxTime)' /\ PoolsOK' /\ SentOK'
  BY <1>1 DEF TypeInv, PoolsOK, SentOK
<1>3. ProcOK'
  BY <1>1 DEF TypeInv, ProcOK
<1> QED
  BY <1>2, <1>3 DEF TypeInv

\* As far as the program is concerned, what is read does not matter.
LEMMA ReadsGoOn ==
  ASSUME TypeInv, Running,
         DoReadClock \/ DoReadPair \/ DoReadRatio \/ DoReadIds \/ DoLookUp
  PROVE  /\ OnlyScript /\ I.op # "submit"
         /\ \/ proc' = Throw(proc)
            \/ \E p \in ProcType :
                 /\ proc' = Done(p) /\ p.script = proc.script /\ p.pc = proc.pc
                 /\ p.tx = proc.tx /\ p.run = proc.run /\ p.said = proc.said
                 /\ p.exit = proc.exit
<1>1. proc \in ProcType
  BY DEF TypeInv, ProcOK
<1>2. ScriptPool.price \in Nat /\ ScriptPool.executions \in Nat /\ ScriptPool \in Pool
  BY HomePool DEF Sound
<1>3. I.back \in Nat
  BY InstructionOK DEF TypeInv, ProcOK
<1>4. CASE DoReadClock
  <2> DEFINE a == time
             e == ScriptPool.executions
             p == [proc EXCEPT !.stamp = a, !.executions = e]
  <2>1. OnlyScript /\ I.op # "submit" /\ proc' = Done(p)
    BY <1>4 DEF DoReadClock
  <2>2. a \in Nat /\ e \in Nat
    BY <1>2, BoundsAssumption DEF TypeInv
  <2> HIDE DEF a, e
  <2>3. /\ p \in ProcType /\ p.script = proc.script /\ p.pc = proc.pc
        /\ p.tx = proc.tx /\ p.run = proc.run /\ p.said = proc.said /\ p.exit = proc.exit
    BY <1>1, <2>2 DEF ProcType
  <2> HIDE DEF p
  <2> QED
    BY <2>1, <2>3
<1>5. CASE DoReadPair
  <2>1. OnlyScript /\ I.op # "submit" /\ (proc' = Done(proc) \/ proc' = Throw(proc))
    BY <1>5 DEF DoReadPair
  <2> QED
    BY <1>1, <2>1
<1>6. CASE DoReadRatio
  <2> DEFINE e == ScriptPool.price
             p == [proc EXCEPT !.price = e]
  <2>1. OnlyScript /\ I.op # "submit" /\ (proc' = Done(p) \/ proc' = Throw(proc))
    BY <1>6 DEF DoReadRatio
  <2>2. e \in Nat
    BY <1>2
  <2> HIDE DEF e
  <2>3. /\ p \in ProcType /\ p.script = proc.script /\ p.pc = proc.pc
        /\ p.tx = proc.tx /\ p.run = proc.run /\ p.said = proc.said /\ p.exit = proc.exit
    BY <1>1, <2>2 DEF ProcType
  <2> HIDE DEF p
  <2> QED
    BY <2>1, <2>3
<1>7. CASE DoReadIds
  <2> DEFINE e == Cardinality(Own(ScriptPool))
             p == [proc EXCEPT !.ids = e]
  <2>1. OnlyScript /\ I.op # "submit" /\ (proc' = Done(p) \/ proc' = Throw(proc))
    BY <1>7 DEF DoReadIds
  <2>2. e \in Nat
    BY <1>2, OwnCount
  <2> HIDE DEF e
  <2>3. /\ p \in ProcType /\ p.script = proc.script /\ p.pc = proc.pc
        /\ p.tx = proc.tx /\ p.run = proc.run /\ p.said = proc.said /\ p.exit = proc.exit
    BY <1>1, <2>2 DEF ProcType
  <2> HIDE DEF p
  <2> QED
    BY <2>1, <2>3
<1>8. CASE DoLookUp
  <2> DEFINE e == proc.shown \cup {proc.ids - I.back}
             p == [proc EXCEPT !.shown = e]
  <2>1. /\ OnlyScript /\ I.op # "submit"
        /\ (I.back <= proc.ids /\ proc' = Done(p)) \/ proc' = Throw(proc)
    BY <1>8 DEF DoLookUp
  <2>2. I.back <= proc.ids => e \in SUBSET Nat
    BY <1>1, <1>3 DEF ProcType
  <2> HIDE DEF e
  <2>3. I.back <= proc.ids =>
        /\ p \in ProcType /\ p.script = proc.script /\ p.pc = proc.pc
        /\ p.tx = proc.tx /\ p.run = proc.run /\ p.said = proc.said /\ p.exit = proc.exit
    BY <1>1, <2>2 DEF ProcType
  <2> HIDE DEF p
  <2> QED
    BY <2>1, <2>3
<1> QED
  BY <1>4, <1>5, <1>6, <1>7, <1>8

\* Waiting for a transaction sends none.
LEMMA WaitGoesOn ==
  ASSUME DoWait
  PROVE  /\ OnlyScript /\ I.op # "submit"
         /\ proc' = Throw(proc) \/ proc' = Done(proc)
BY DEF DoWait

\* Steps that send nothing keep the types.
LEMMA ReadsType ==
  ASSUME TypeInv, Running,
         \/ DoReadClock \/ DoReadPair \/ DoReadRatio \/ DoReadIds \/ DoLookUp
         \/ FailToSubmit \/ DoWait
  PROVE  TypeInv'
<1>1. proc \in ProcType /\ InProgram
  BY DEF TypeInv, ProcOK
<1>2. /\ OnlyScript
      /\ \/ proc' = Throw(proc)
         \/ \E p \in ProcType : /\ proc' = Done(p) /\ p.script = proc.script /\ p.pc = proc.pc
                                /\ p.tx = proc.tx
  <2>1. CASE DoReadClock \/ DoReadPair \/ DoReadRatio \/ DoReadIds \/ DoLookUp
    BY <2>1, ReadsGoOn
  <2>2. CASE FailToSubmit
    BY <2>2 DEF FailToSubmit
  <2>3. CASE DoWait
    BY <1>1, <2>3, WaitGoesOn
  <2> QED
    BY <2>1, <2>2, <2>3
<1>3. proc' \in ProcType /\ InProgram' /\ proc'.tx = proc.tx
  BY <1>1, <1>2, ThrowProc, DoneProc
<1> QED
  BY <1>2, <1>3, OnlyProcType

\* A transaction is well formed when it is sent.
LEMMA TransactionOK ==
  ASSUME TypeInv, Running, HasArguments
  PROVE  LET x == Transaction(I.call) IN
           /\ x \in TxType /\ x.status = "pending" /\ x.pool = Home(proc)
           /\ x.fn = I.call.fn /\ x.token = I.call.token /\ x.amount = I.call.amount
           /\ x.exact => x.fn = "addLiquidity"
<1> DEFINE call == I.call
           d == proc.stamp + call.by
           id == IF TakesOrder(call) THEN proc.ids - 1 ELSE 0
           h == Home(proc)
           x == Transaction(call)
<1>1. /\ call.fn \in Fns /\ call.token \in Token /\ call.amount \in Nat /\ call.by \in Nat
      /\ call.exact \in BOOLEAN
      /\ call.exact => call.fn = "addLiquidity"
  <2>1. call \in CallType
    BY InstructionOK DEF TypeInv, ProcOK
  <2> HIDE DEF call
  <2> QED
    BY <2>1 DEF CallType
<1>2. /\ proc.stamp \in Nat /\ proc.price \in Nat /\ proc.executions \in Nat /\ proc.ids \in Nat
      /\ proc.run \in 0 .. MaxRuns
  BY DEF TypeInv, ProcOK, ProcType
<1>3. h \in 0 .. MaxRuns
  BY HomePool
<1>4. x = [fn |-> call.fn, token |-> call.token, amount |-> call.amount,
           exact |-> call.exact, deadline |-> d,
           price |-> proc.price, executions |-> proc.executions,
           id |-> id, pool |-> h, run |-> proc.run, status |-> "pending"]
  BY DEF Transaction
<1>5. TakesOrder(call) => proc.ids > 0
  BY DEF HasArguments
<1> HIDE DEF call
<1>6. d \in Nat /\ id \in Nat
  BY <1>1, <1>2, <1>5
<1> DEFINE fn == call.fn
           tk == call.token
           am == call.amount
           ex == call.exact
           pr == proc.price
           vs == proc.executions
           rn == proc.run
<1> HIDE DEF d, id, h, x
<1>7. /\ fn \in Fns /\ tk \in Token /\ am \in Nat /\ d \in Nat /\ pr \in Nat
      /\ vs \in Nat /\ id \in Nat /\ h \in 0 .. MaxRuns /\ rn \in 0 .. MaxRuns
  BY <1>1, <1>2, <1>3, <1>6
<1>10. ex \in BOOLEAN
  BY <1>1, Zenon
<1>11. x = [fn |-> fn, token |-> tk, amount |-> am, exact |-> ex, deadline |-> d,
           price |-> pr, executions |-> vs, id |-> id, pool |-> h, run |-> rn,
           status |-> "pending"]
  BY <1>4, Zenon
<1> HIDE DEF fn, tk, am, ex, pr, vs, rn
<1>12. x \in TxType
  BY <1>7, <1>10, <1>11, Zenon DEF TxType
<1>13. /\ x.status = "pending" /\ x.pool = h /\ x.fn = fn /\ x.token = tk
       /\ x.amount = am /\ x.exact = ex
  BY <1>11
<1>8. /\ x \in TxType
      /\ x.status = "pending" /\ x.pool = h /\ x.fn = call.fn /\ x.token = call.token
      /\ x.amount = call.amount /\ x.exact = call.exact
  BY <1>12, <1>13, Zenon DEF fn, tk, am, ex
<1>9. x.exact => x.fn = "addLiquidity"
  BY <1>1, <1>8
<1> QED
  BY <1>8, <1>9 DEF x, h, call

\* What is sent comes last, and a handle of the script names it.
LEMMA SubmitGoesOn ==
  ASSUME TypeInv, Running, DoSubmit
  PROVE  LET x == Transaction(I.call) IN
           /\ x \in TxType /\ x.status = "pending" /\ x.pool = Home(proc)
           /\ x.fn = I.call.fn /\ x.token = I.call.token /\ x.amount = I.call.amount
           /\ x.exact => x.fn = "addLiquidity"
           /\ sent' = Append(sent, x)
           /\ sent' \in Seq(TxType) /\ Len(sent') = Len(sent) + 1 /\ Len(sent) \in Nat
           /\ sent'[Len(sent) + 1] = x
           /\ \A k \in 1 .. Len(sent) : sent'[k] = sent[k]
           /\ I.op = "submit"
           /\ time' = time /\ pools' = pools /\ mined' = mined /\ before' = before
           /\ \E p \in ProcType :
                /\ proc' = Done(p) /\ p.script = proc.script /\ p.pc = proc.pc
                /\ p.run = proc.run /\ p.said = proc.said /\ p.exit = proc.exit
                /\ p.tx = [proc.tx EXCEPT ![I.tx] = Len(sent) + 1]
<1> DEFINE x == Transaction(I.call)
           tx == [proc.tx EXCEPT ![I.tx] = Len(sent) + 1]
           p == [proc EXCEPT !.tx = tx]
<1>1. /\ x \in TxType /\ x.status = "pending" /\ x.pool = Home(proc)
      /\ x.fn = I.call.fn /\ x.token = I.call.token /\ x.amount = I.call.amount
      /\ x.exact => x.fn = "addLiquidity"
  BY TransactionOK DEF DoSubmit
<1>2. /\ sent' = Append(sent, x) /\ I.op = "submit"
      /\ time' = time /\ pools' = pools /\ mined' = mined /\ before' = before
  BY DEF DoSubmit
<1>3. proc' = Done(p)
  BY DEF DoSubmit
<1>4. sent \in Seq(TxType) /\ Len(sent) \in Nat /\ proc \in ProcType /\ I.tx \in Handle
  BY InstructionOK DEF TypeInv, SentOK, ProcOK
<1>5. /\ sent' \in Seq(TxType) /\ Len(sent') = Len(sent) + 1
      /\ sent'[Len(sent) + 1] = x
      /\ \A k \in 1 .. Len(sent) : sent'[k] = sent[k]
  <2> HIDE DEF x
  <2> QED
    BY <1>1, <1>2, <1>4, AppendProperties
<1>6. proc.tx \in [Handle -> Nat]
  BY <1>4 DEF ProcType
<1>7. tx \in [Handle -> Nat] /\ tx = [proc.tx EXCEPT ![I.tx] = Len(sent) + 1]
  BY <1>4, <1>6
<1> HIDE DEF tx
<1>8. /\ p \in ProcType /\ p.script = proc.script /\ p.pc = proc.pc
      /\ p.run = proc.run /\ p.said = proc.said /\ p.exit = proc.exit /\ p.tx = tx
  BY <1>4, <1>7 DEF ProcType
<1> HIDE DEF p, x
<1>9. \E r \in ProcType :
        /\ proc' = Done(r) /\ r.script = proc.script /\ r.pc = proc.pc
        /\ r.run = proc.run /\ r.said = proc.said /\ r.exit = proc.exit
        /\ r.tx = [proc.tx EXCEPT ![I.tx] = Len(sent) + 1]
  BY <1>3, <1>7, <1>8
<1> QED
  BY <1>1, <1>2, <1>4, <1>5, <1>9 DEF x

\* Sending keeps the types.
LEMMA SubmitType ==
  ASSUME TypeInv, Running, DoSubmit
  PROVE  TypeInv'
<1> DEFINE x == Transaction(I.call)
<1>1. /\ x \in TxType /\ x.status = "pending"
      /\ x.exact => x.fn = "addLiquidity"
      /\ sent' \in Seq(TxType) /\ Len(sent') = Len(sent) + 1 /\ Len(sent) \in Nat
      /\ sent'[Len(sent) + 1] = x
      /\ \A k \in 1 .. Len(sent) : sent'[k] = sent[k]
      /\ time' = time /\ pools' = pools /\ mined' = mined
  BY SubmitGoesOn
<1> HIDE DEF x
<1>2. PICK p \in ProcType :
         /\ proc' = Done(p) /\ p.script = proc.script /\ p.pc = proc.pc
         /\ p.tx = [proc.tx EXCEPT ![I.tx] = Len(sent) + 1]
  BY SubmitGoesOn
<1>3. /\ InProgram /\ I.tx \in Handle /\ proc.tx \in [Handle -> Nat]
      /\ \A h \in Handle : proc.tx[h] <= Len(sent)
  BY InstructionOK DEF TypeInv, ProcOK, ProcType
<1>4. proc' \in ProcType /\ InProgram' /\ proc'.tx = p.tx
  BY <1>2, <1>3, DoneProc
<1>5. \A h \in Handle : p.tx[h] <= Len(sent) + 1
  BY <1>1, <1>2, <1>3
<1>6. ProcOK'
  BY <1>1, <1>4, <1>5 DEF ProcOK
<1>7. SentOK'
  <2>1. mined' \in 0 .. Len(sent')
    BY <1>1 DEF TypeInv, SentOK
  <2>2. \A k \in 1 .. Len(sent') : /\ sent'[k].status = "pending" <=> k > mined'
                                   /\ sent'[k].exact => sent'[k].fn = "addLiquidity"
    <3> SUFFICES ASSUME NEW k \in 1 .. Len(sent) + 1
                 PROVE  /\ sent'[k].status = "pending" <=> k > mined
                        /\ sent'[k].exact => sent'[k].fn = "addLiquidity"
      BY <1>1
    <3>1. CASE k \in 1 .. Len(sent)
      BY <1>1, <3>1 DEF TypeInv, SentOK
    <3>2. CASE k = Len(sent) + 1
      BY <1>1, <3>2 DEF TypeInv, SentOK
    <3> QED
      BY <1>1, <3>1, <3>2
  <2> QED
    BY <1>1, <2>1, <2>2 DEF SentOK
<1>8. PoolsOK' /\ (time \in 0 .. MaxTime)'
  BY <1>1 DEF TypeInv, PoolsOK
<1> QED
  BY <1>6, <1>7, <1>8 DEF TypeInv
-----------------------------------------------------------------------------
\* A script starts at its first instruction, with nothing read.
LEMMA StartsAt ==
  ASSUME TypeInv, NEW script \in Script, Start(script)
  PROVE  /\ proc' \in ProcType /\ proc'.script = script /\ proc'.pc = 1
         /\ proc'.run = proc.run + 1 /\ proc'.exit = "running" /\ proc'.said = {}
         /\ proc'.ids = 0 /\ \A h \in Handle : proc'.tx[h] = 0
         /\ time' = time /\ pools' = pools /\ sent' = sent /\ mined' = mined
<1> DEFINE n == proc.run + 1
           tx == [h \in Handle |-> 0]
           p == [script |-> script, run |-> n, pc |-> 1, stamp |-> 0, price |-> 0,
                 executions |-> 0, ids |-> 0, shown |-> {}, tx |-> tx,
                 said |-> {}, exit |-> "running"]
<1>1. /\ proc' = [NoRun EXCEPT !.script = script, !.run = n, !.exit = "running"]
      /\ time' = time /\ pools' = pools /\ sent' = sent /\ mined' = mined
  BY DEF Start
<1>2. n \in 0 .. MaxRuns
  BY BoundsAssumption DEF Start, TypeInv, ProcOK, ProcType
<1>3. tx \in [Handle -> Nat] /\ \A h \in Handle : tx[h] = 0
  OBVIOUS
<1>4. proc' = p
  BY <1>1 DEF NoRun
<1>5. n = proc.run + 1
  OBVIOUS
<1> HIDE DEF n, tx
<1>6. p \in ProcType
  BY <1>2, <1>3 DEF ProcType
<1>7. /\ p.script = script /\ p.pc = 1 /\ p.run = n /\ p.exit = "running"
      /\ p.said = {} /\ p.ids = 0 /\ p.tx = tx
  OBVIOUS
<1> HIDE DEF p
<1> QED
  BY <1>1, <1>3, <1>4, <1>5, <1>6, <1>7

\* Starting a script keeps the types.
LEMMA StartType ==
  ASSUME TypeInv, NEW script \in Script, Start(script)
  PROVE  TypeInv'
<1>1. /\ proc' \in ProcType /\ proc'.script = script /\ proc'.pc = 1
      /\ \A h \in Handle : proc'.tx[h] = 0
      /\ time' = time /\ pools' = pools /\ sent' = sent /\ mined' = mined
  BY StartsAt
<1>2. Len(Program[script]) \in Nat \ {0}
  BY ProgramsOK
<1>3. 1 \in 1 .. Len(Program[script])
  BY <1>2
<1>4. InProgram'
  BY <1>1, <1>3 DEF InProgram
<1>5. Len(sent) \in Nat
  BY DEF TypeInv, SentOK
<1>6. ProcOK'
  BY <1>1, <1>4, <1>5 DEF ProcOK
<1>7. (time \in 0 .. MaxTime)' /\ PoolsOK' /\ SentOK'
  BY <1>1 DEF TypeInv, PoolsOK, SentOK
<1> QED
  BY <1>6, <1>7 DEF TypeInv

\* Killing a script keeps the types.
LEMMA KillType ==
  ASSUME TypeInv, Kill
  PROVE  TypeInv'
<1> DEFINE p == [proc EXCEPT !.exit = "killed"]
<1>1. proc' = p /\ OnlyScript /\ proc \in ProcType
  BY DEF Kill, TypeInv, ProcOK
<1>2. p \in ProcType /\ p.exit = "killed" /\ p.tx = proc.tx
  BY <1>1 DEF ProcType
<1> HIDE DEF p
<1>3. proc'.exit # "running"
  BY <1>1, <1>2
<1>4. InProgram'
  BY <1>3 DEF InProgram, Running
<1> QED
  BY <1>1, <1>2, <1>4, OnlyProcType

\* A block with the next transaction, as the properties see it.
LEMMA IncludeOK ==
  ASSUME TypeInv, NEW delay \in Delays, Include(delay)
  PROVE  LET k == mined + 1
             x == sent[mined + 1] IN
           /\ k \in 1 .. Len(sent) /\ Len(sent) \in Nat /\ x \in TxType
           /\ x.pool \in 0 .. MaxRuns /\ Sound(pools[x.pool])
           /\ Changes(pools[x.pool], pools'[x.pool], x)
           /\ DOMAIN pools' = 0 .. MaxRuns
           /\ \A r \in 0 .. MaxRuns : r # x.pool => pools'[r] = pools[r]
           /\ sent' \in Seq(TxType) /\ Len(sent') = Len(sent)
           /\ \A j \in 1 .. Len(sent) : j # k => sent'[j] = sent[j]
           /\ sent'[k].fn = x.fn /\ sent'[k].token = x.token /\ sent'[k].amount = x.amount
           /\ sent'[k].pool = x.pool /\ sent'[k].run = x.run /\ sent'[k].exact = x.exact
           /\ sent'[k].status \in {"ok", "reverted"}
           /\ mined' = k /\ time' \in 0 .. MaxTime
           /\ proc' = proc /\ before' = before
<1> DEFINE k == mined + 1
           x == sent[k]
           h == x.pool
           p == pools[h]
           now == time + delay
<1>0. PICK ok \in Outcomes(p, x, now) :
        /\ pools' = [pools EXCEPT ![h] = Apply(p, x, ok)]
        /\ sent' = [sent EXCEPT ![k] =
             [x EXCEPT !.status = IF ok THEN "ok" ELSE "reverted",
                       !.id = IF Fn(x, {"longTermSwapTokenToToken"})
                              THEN Len(p.orders) ELSE @]]
  BY DEF Include
<1> DEFINE st == IF ok THEN "ok" ELSE "reverted"
           id == IF Fn(x, {"longTermSwapTokenToToken"}) THEN Len(p.orders) ELSE x.id
           y == [x EXCEPT !.status = st, !.id = id]
           q == Apply(p, x, ok)
<1>1. /\ mined < Len(sent) /\ now <= MaxTime /\ time' = now /\ mined' = k
      /\ pools' = [pools EXCEPT ![h] = q]
      /\ sent' = [sent EXCEPT ![k] = y]
      /\ proc' = proc /\ before' = before
  BY <1>0 DEF Include
<1>2. /\ sent \in Seq(TxType) /\ Len(sent) \in Nat /\ mined \in 0 .. Len(sent)
      /\ time \in 0 .. MaxTime /\ delay \in Nat
  BY DelaysAssumption DEF TypeInv, SentOK
<1>3. k \in 1 .. Len(sent) /\ now \in 0 .. MaxTime
  BY <1>1, <1>2, BoundsAssumption
<1>4. x \in TxType /\ (x.exact => x.fn = "addLiquidity")
  BY <1>2, <1>3, ElementOfSeq DEF TypeInv, SentOK
<1>5. k = mined + 1
  OBVIOUS
<1> HIDE DEF k
<1> DEFINE xx == x
<1>6. xx = sent[k] /\ xx = x
  OBVIOUS
<1> HIDE DEF xx
<1>7. h \in 0 .. MaxRuns
  BY <1>4, TxFacts
<1>8. Sound(p)
  BY <1>7 DEF TypeInv, PoolsOK
<1> HIDE DEF now
<1>9. Changes(p, q, x)
  <2>1. ok \in Outcomes(p, x, now)
    BY <1>0
  <2> HIDE DEF p, x
  <2> QED
    BY <1>4, <1>8, <2>1, ApplyOK
<1> HIDE DEF q
<1>10. /\ DOMAIN pools' = 0 .. MaxRuns /\ pools'[h] = q
       /\ \A r \in 0 .. MaxRuns : r # h => pools'[r] = pools[r]
  <2> HIDE DEF h
  <2> QED
    BY <1>1, <1>7 DEF TypeInv, PoolsOK
<1>11. st \in {"ok", "reverted"} /\ id \in Nat
  <2>1. Len(p.orders) \in Nat
    BY <1>8, PoolFacts DEF Sound
  <2>2. x.id \in Nat
    BY <1>4, TxFacts
  <2> HIDE DEF p, x
  <2> QED
    BY <2>1, <2>2
<1> HIDE DEF st, id
<1>12. /\ y \in TxType /\ y.fn = x.fn /\ y.token = x.token /\ y.amount = x.amount
       /\ y.pool = x.pool /\ y.run = x.run /\ y.status = st
  <2> HIDE DEF x
  <2> QED
    BY <1>4, <1>11 DEF TxType
<1>13. y.exact = x.exact
  <2> HIDE DEF x
  <2> QED
    BY <1>4 DEF TxType
<1> HIDE DEF y
<1>14. /\ sent' \in Seq(TxType) /\ Len(sent') = Len(sent) /\ sent'[k] = y
       /\ \A j \in 1 .. Len(sent) : j # k => sent'[j] = sent[j]
  <2> HIDE DEF x
  <2> QED
    BY <1>1, <1>2, <1>3, <1>12, ExceptSeq
<1>15. /\ sent'[k].fn = x.fn /\ sent'[k].token = x.token /\ sent'[k].amount = x.amount
       /\ sent'[k].pool = x.pool /\ sent'[k].run = x.run
       /\ sent'[k].status \in {"ok", "reverted"}
  <2> HIDE DEF x
  <2> QED
    BY <1>11, <1>12, <1>14
<1>16. sent'[k].exact = x.exact
  <2> HIDE DEF x
  <2> QED
    BY <1>13, <1>14
<1>17. /\ k \in 1 .. Len(sent) /\ Len(sent) \in Nat /\ x \in TxType
       /\ x.pool \in 0 .. MaxRuns /\ Sound(pools[x.pool])
       /\ Changes(pools[x.pool], pools'[x.pool], x)
       /\ DOMAIN pools' = 0 .. MaxRuns
       /\ \A r \in 0 .. MaxRuns : r # x.pool => pools'[r] = pools[r]
       /\ mined' = k /\ time' \in 0 .. MaxTime
       /\ proc' = proc /\ before' = before
  BY <1>1, <1>2, <1>3, <1>4, <1>7, <1>8, <1>9, <1>10
<1> QED
  BY <1>5, <1>14, <1>15, <1>16, <1>17

\* A block with a transaction keeps the types.
LEMMA IncludeType ==
  ASSUME TypeInv, NEW delay \in Delays, Include(delay)
  PROVE  TypeInv'
<1> DEFINE k == mined + 1
           x == sent[mined + 1]
<1>1. /\ k \in 1 .. Len(sent) /\ Len(sent) \in Nat
      /\ x.pool \in 0 .. MaxRuns
      /\ Sound(pools'[x.pool])
      /\ DOMAIN pools' = 0 .. MaxRuns
      /\ \A r \in 0 .. MaxRuns : r # x.pool => pools'[r] = pools[r]
      /\ sent' \in Seq(TxType) /\ Len(sent') = Len(sent)
      /\ \A j \in 1 .. Len(sent) : j # k => sent'[j] = sent[j]
      /\ sent'[k].fn = x.fn
      /\ sent'[k].status \in {"ok", "reverted"}
      /\ mined' = k /\ time' \in 0 .. MaxTime /\ proc' = proc
  BY IncludeOK DEF Changes
<1>2. sent'[k].exact = x.exact
  BY IncludeOK
<1>3. k = mined + 1 /\ x = sent[k]
  OBVIOUS
<1> HIDE DEF k, x
<1>4. /\ mined \in 0 .. Len(sent)
      /\ \A j \in 1 .. Len(sent) : sent[j].status = "pending" <=> j > mined
      /\ \A j \in 1 .. Len(sent) : sent[j].exact => sent[j].fn = "addLiquidity"
  BY DEF TypeInv, SentOK
<1>5. PoolsOK'
  <2>1. \A r \in 0 .. MaxRuns : Sound(pools'[r])
    BY <1>1 DEF TypeInv, PoolsOK
  <2> QED
    BY <1>1, <2>1 DEF PoolsOK
<1>6. \A j \in 1 .. Len(sent) : sent'[j].status = "pending" <=> j > mined'
  <2> SUFFICES ASSUME NEW j \in 1 .. Len(sent)
               PROVE  sent'[j].status = "pending" <=> j > mined'
    OBVIOUS
  <2>1. CASE j = k
    BY <1>1, <2>1
  <2>2. CASE j # k
    <3>1. sent'[j] = sent[j]
      BY <1>1, <2>2
    <3>2. j > mined <=> j > k
      BY <1>1, <1>3, <1>4, <2>2
    <3> QED
      BY <1>1, <1>4, <3>1, <3>2
  <2> QED
    BY <2>1, <2>2
<1>7. \A j \in 1 .. Len(sent) : sent'[j].exact => sent'[j].fn = "addLiquidity"
  <2> SUFFICES ASSUME NEW j \in 1 .. Len(sent), sent'[j].exact
               PROVE  sent'[j].fn = "addLiquidity"
    OBVIOUS
  <2>1. CASE j = k
    BY <1>1, <1>2, <1>3, <1>4, <2>1
  <2>2. CASE j # k
    <3>1. sent'[j] = sent[j]
      BY <1>1, <2>2
    <3> QED
      BY <1>4, <3>1
  <2> QED
    BY <2>1, <2>2
<1>8. SentOK'
  <2>1. mined' \in 0 .. Len(sent')
    BY <1>1
  <2>2. \A j \in 1 .. Len(sent') : /\ sent'[j].status = "pending" <=> j > mined'
                                   /\ sent'[j].exact => sent'[j].fn = "addLiquidity"
    BY <1>1, <1>6, <1>7
  <2> QED
    BY <1>1, <2>1, <2>2 DEF SentOK
<1>9. ProcOK'
  BY <1>1 DEF TypeInv, ProcOK, InProgram, Running
<1> QED
  BY <1>1, <1>5, <1>8, <1>9 DEF TypeInv

\* A block without one keeps the types.
LEMMA PassType ==
  ASSUME TypeInv, NEW delay \in Delays, Pass(delay)
  PROVE  TypeInv'
<1>1. /\ time' = time + delay /\ time + delay <= MaxTime
      /\ pools' = pools /\ sent' = sent /\ mined' = mined /\ proc' = proc
  BY DEF Pass
<1>2. time' \in 0 .. MaxTime
  BY <1>1, DelaysAssumption, BoundsAssumption DEF TypeInv
<1> QED
  BY <1>1, <1>2 DEF TypeInv, PoolsOK, SentOK, ProcOK, InProgram, Running
-----------------------------------------------------------------------------
\* What others do leaves the account its allowances, shares and orders.
ByOthers(p, q) ==
  /\ Sound(q)
  /\ q.allowance = p.allowance /\ q.shares = p.shares
  /\ Len(p.orders) <= Len(q.orders)
  /\ \A i \in 1 .. Len(p.orders) : q.orders[i].mine = p.orders[i].mine

\* What others do, one by one.
LEMMA OthersOK ==
  ASSUME TypeInv, Others
  PROVE  /\ ByOthers(pools[0], pools'[0])
         /\ DOMAIN pools' = 0 .. MaxRuns
         /\ \A r \in 0 .. MaxRuns : r # 0 => pools'[r] = pools[r]
         /\ time' = time /\ sent' = sent /\ mined' = mined
         /\ proc' = proc /\ before' = before
<1> DEFINE p == pools[0]
<1>1. 0 \in 0 .. MaxRuns
  BY BoundsAssumption
<1>2. Sound(p)
  BY <1>1 DEF TypeInv, PoolsOK
<1>3. /\ p \in Pool /\ p.supply \in Nat /\ p.shares \in Nat /\ p.shares <= p.supply
      /\ p.orders \in Seq(OrderType) /\ Len(p.orders) \in Nat
  BY <1>2, PoolFacts DEF Sound
<1>4. p = pools[0]
  OBVIOUS
<1> HIDE DEF p
<1>5. SUFFICES \E event, q : OthersDo(event, q) /\ ByOthers(p, q)
  <2>1. PICK event, q : OthersDo(event, q) /\ ByOthers(p, q)
    BY <1>5
  <2>2. /\ pools' = [pools EXCEPT ![0] = q]
        /\ time' = time /\ sent' = sent /\ mined' = mined
        /\ proc' = proc /\ before' = before
    BY <2>1 DEF OthersDo
  <2>3. DOMAIN pools = 0 .. MaxRuns
    BY DEF TypeInv, PoolsOK
  <2>4. /\ pools'[0] = q /\ DOMAIN pools' = 0 .. MaxRuns
        /\ \A r \in 0 .. MaxRuns : r # 0 => pools'[r] = pools[r]
    BY <1>1, <2>2, <2>3
  <2> QED
    BY <1>4, <2>1, <2>2, <2>4
<1>6. CASE OthersCreate
  <2> DEFINE q == Created(p)
  <2>1. OthersDo("create", q)
    BY <1>4, <1>6 DEF OthersCreate
  <2>2. /\ q \in Pool /\ q.supply = p.supply /\ q.shares = p.shares
        /\ q.allowance = p.allowance /\ q.orders = p.orders
    BY <1>3, CreatedOK
  <2> HIDE DEF q
  <2>3. ByOthers(p, q)
    BY <1>3, <2>2 DEF ByOthers, Sound
  <2> QED
    BY <2>1, <2>3
<1>7. CASE OthersFund
  <2> DEFINE c == Created(p)
             q == [c EXCEPT !.supply = 10]
  <2>1. OthersDo("fund", q) /\ p.supply = 0
    BY <1>4, <1>7 DEF OthersFund
  <2>2. /\ c \in Pool /\ c.shares = p.shares
        /\ c.allowance = p.allowance /\ c.orders = p.orders
    BY <1>3, CreatedOK
  <2> HIDE DEF c
  <2>3. /\ q \in Pool /\ q.supply = 10 /\ q.shares = c.shares
        /\ q.allowance = c.allowance /\ q.orders = c.orders
    BY <2>2 DEF Pool
  <2> HIDE DEF q
  <2>4. ByOthers(p, q)
    BY <1>3, <2>1, <2>2, <2>3 DEF ByOthers, Sound
  <2> QED
    BY <2>1, <2>4
<1>8. CASE OthersTrade
  <2> DEFINE c == Executed(p)
             n == c.price + 1
             q == [c EXCEPT !.price = n]
  <2>1. OthersDo("trade", q)
    BY <1>4, <1>8 DEF OthersTrade
  <2>2. /\ c \in Pool /\ c.supply = p.supply /\ c.shares = p.shares
        /\ c.allowance = p.allowance /\ c.orders = p.orders
    BY <1>3, ExecutedOK
  <2> HIDE DEF c
  <2>3. n \in Nat
    BY <2>2, PoolFacts
  <2> HIDE DEF n
  <2>4. /\ q \in Pool /\ q.supply = c.supply /\ q.shares = c.shares
        /\ q.allowance = c.allowance /\ q.orders = c.orders
    BY <2>2, <2>3 DEF Pool
  <2> HIDE DEF q
  <2>5. ByOthers(p, q)
    BY <1>3, <2>2, <2>4 DEF ByOthers, Sound
  <2> QED
    BY <2>1, <2>5
<1>9. ASSUME NEW token \in Token, OthersOrder(token)
      PROVE  \E event, q : OthersDo(event, q) /\ ByOthers(p, q)
  <2> DEFINE c == Executed(p)
             o == [mine |-> FALSE, sells |-> token, state |-> "open"]
             os == Append(c.orders, o)
             q == [c EXCEPT !.orders = os]
  <2>1. OthersDo("order", q)
    BY <1>4, <1>9 DEF OthersOrder
  <2>2. /\ c \in Pool /\ c.supply = p.supply /\ c.shares = p.shares
        /\ c.allowance = p.allowance /\ c.orders = p.orders
    BY <1>3, ExecutedOK
  <2> HIDE DEF c
  <2>3. o \in OrderType
    BY DEF OrderType, OrderState
  <2> HIDE DEF o
  <2>4. /\ os \in Seq(OrderType) /\ Len(os) = Len(p.orders) + 1
        /\ \A i \in 1 .. Len(p.orders) : os[i] = p.orders[i]
    BY <1>3, <2>2, <2>3, AppendProperties
  <2> HIDE DEF os
  <2>5. /\ q \in Pool /\ q.shares = c.shares /\ q.supply = c.supply /\ q.orders = os
        /\ q.allowance = c.allowance
    BY <2>2, <2>4 DEF Pool, OrderType
  <2> HIDE DEF q
  <2>6. ByOthers(p, q)
    BY <1>3, <2>2, <2>4, <2>5 DEF ByOthers, Sound
  <2> QED
    BY <2>1, <2>6
<1>10. ASSUME NEW i \in DOMAIN pools[0].orders, OrderEnds(i)
       PROVE  \E event, q : OthersDo(event, q) /\ ByOthers(p, q)
  <2> DEFINE o == p.orders[i]
             y == [o EXCEPT !.state = "ended"]
             os == [p.orders EXCEPT ![i] = y]
             q == [p EXCEPT !.orders = os]
  <2>1. OthersDo("end", q)
    BY <1>4, <1>10 DEF OrderEnds
  <2>2. i \in 1 .. Len(p.orders)
    BY <1>3, <1>4, <1>10
  <2>3. o \in OrderType /\ o = p.orders[i]
    BY <1>3, <2>2, ElementOfSeq
  <2>4. y \in OrderType /\ y.mine = o.mine
    <3> HIDE DEF o
    <3> QED
      BY <2>3 DEF OrderType, OrderState
  <2> HIDE DEF y, o
  <2>5. /\ os \in Seq(OrderType) /\ Len(os) = Len(p.orders)
        /\ \A j \in 1 .. Len(p.orders) : os[j] = IF j = i THEN y ELSE p.orders[j]
    BY <1>3, <2>2, <2>4, ExceptSeq
  <2> HIDE DEF os
  <2>6. /\ q \in Pool /\ q.shares = p.shares /\ q.supply = p.supply /\ q.orders = os
        /\ q.allowance = p.allowance
    BY <1>3, <2>5 DEF Pool, OrderType
  <2> HIDE DEF q
  <2>7. \A j \in 1 .. Len(p.orders) : os[j].mine = p.orders[j].mine
    BY <2>3, <2>4, <2>5
  <2>8. ByOthers(p, q)
    BY <1>3, <2>5, <2>6, <2>7 DEF ByOthers, Sound
  <2> QED
    BY <2>1, <2>8
<1> QED
  BY <1>6, <1>7, <1>8, <1>9, <1>10 DEF Others

\* What others do keeps the types.
LEMMA OthersType ==
  ASSUME TypeInv, Others
  PROVE  TypeInv'
<1>1. /\ Sound(pools'[0])
      /\ DOMAIN pools' = 0 .. MaxRuns
      /\ \A r \in 0 .. MaxRuns : r # 0 => pools'[r] = pools[r]
      /\ time' = time /\ sent' = sent /\ mined' = mined /\ proc' = proc
  BY OthersOK DEF ByOthers
<1>2. \A r \in 0 .. MaxRuns : Sound(pools'[r])
  BY <1>1 DEF TypeInv, PoolsOK
<1>3. PoolsOK'
  BY <1>1, <1>2 DEF PoolsOK
<1> QED
  BY <1>1, <1>3 DEF TypeInv, SentOK, ProcOK, InProgram, Running

\* The types hold at first.
LEMMA TypeInit ==
  ASSUME Init
  PROVE  TypeInv
<1>1. PICK p \in FirstPools : pools = [r \in 0 .. MaxRuns |-> IF r = 0 THEN p ELSE NoPool]
  BY DEF Init
<1>2. Sound(p)
  BY PoolsAssumption DEF Sound
<1>3. Sound(NoPool)
  <2> DEFINE a == [t \in Token |-> 0]
  <2>1. a \in [Token -> Nat]
    OBVIOUS
  <2>2. <<>> \in Seq([mine : BOOLEAN, sells : Token, state : OrderState])
    BY EmptySeq
  <2>3. NoPool = [created |-> FALSE, supply |-> 0, shares |-> 0, allowance |-> a,
                  price |-> 0, executions |-> 0, orders |-> <<>>]
    BY DEF NoPool
  <2> HIDE DEF a
  <2>4. NoPool \in Pool
    BY <2>1, <2>2, <2>3 DEF Pool
  <2>5. NoPool.shares <= NoPool.supply
    BY <2>3
  <2> QED
    BY <2>4, <2>5 DEF Sound
<1>4. PoolsOK
  BY <1>1, <1>2, <1>3 DEF PoolsOK
<1>5. SentOK
  <2>1. sent = <<>> /\ mined = 0
    BY DEF Init
  <2>2. sent \in Seq(TxType) /\ Len(sent) = 0
    BY <2>1, EmptySeq
  <2> QED
    BY <2>1, <2>2 DEF SentOK
<1>6. ProcOK
  <2> DEFINE tx == [h \in Handle |-> 0]
  <2>1. tx \in [Handle -> Nat] /\ \A h \in Handle : tx[h] = 0
    OBVIOUS
  <2>2. proc = [script |-> "none", run |-> 0, pc |-> 1, stamp |-> 0, price |-> 0,
                executions |-> 0, ids |-> 0, shown |-> {}, tx |-> tx,
                said |-> {}, exit |-> "0"]
    BY DEF Init, NoRun
  <2> HIDE DEF tx
  <2>3. 0 \in 0 .. MaxRuns
    BY BoundsAssumption
  <2>4. proc \in ProcType /\ proc.tx = tx /\ proc.exit = "0"
    BY <2>1, <2>2, <2>3 DEF ProcType
  <2>5. InProgram
    BY <2>4 DEF InProgram, Running
  <2>6. \A h \in Handle : proc.tx[h] <= Len(sent)
    <3>1. Len(sent) = 0
      BY DEF Init
    <3> QED
      BY <2>1, <2>4, <3>1
  <2> QED
    BY <2>4, <2>5, <2>6 DEF ProcOK
<1>7. time \in 0 .. MaxTime
  BY BoundsAssumption DEF Init
<1> QED
  BY <1>4, <1>5, <1>6, <1>7 DEF TypeInv

\* Every step keeps the types.
LEMMA TypeStep ==
  ASSUME TypeInv, [Next]_vars
  PROVE  TypeInv'
<1>1. ASSUME NEW script \in Script, Start(script) PROVE TypeInv'
  BY <1>1, StartType
<1>2. CASE ScriptStep
  <2>1. Running
    BY <1>2 DEF ScriptStep
  <2>2. CASE DoSubmit
    BY <2>1, <2>2, SubmitType
  <2>3. CASE \/ DoReadClock \/ DoReadPair \/ DoReadRatio \/ DoReadIds \/ DoLookUp
             \/ FailToSubmit \/ DoWait
    BY <2>1, <2>3, ReadsType
  <2> QED
    BY <1>2, <2>2, <2>3 DEF ScriptStep
<1>3. CASE Kill
  BY <1>3, KillType
<1>4. ASSUME NEW delay \in Delays, Include(delay) PROVE TypeInv'
  BY <1>4, IncludeType
<1>5. ASSUME NEW delay \in Delays, Pass(delay) PROVE TypeInv'
  BY <1>5, PassType
<1>6. CASE Others
  BY <1>6, OthersType
<1>7. CASE UNCHANGED vars
  BY <1>7 DEF vars, TypeInv, PoolsOK, SentOK, ProcOK, InProgram, Running
<1> QED
  BY <1>1, <1>2, <1>3, <1>4, <1>5, <1>6, <1>7 DEF Next, SomeBlock

\* Whatever is run and whenever, every script is at an instruction of its
\* program, every pool is sound, and what is sent is mined in its order.
THEOREM TypesKept == Spec => []TypeInv
<1>1. Init => TypeInv
  BY TypeInit
<1>2. TypeInv /\ [Next]_vars => TypeInv'
  BY TypeStep
<1> QED
  BY <1>1, <1>2, PTL DEF Spec

\* The type invariant that the runs check: it says in particular that the
\* account has no more shares than there are, and that a script waits for
\* nothing that it has not sent.
THEOREM ScriptsTypeCorrect == Spec => []ScriptsTypeOK
<1>1. TypeInv => ScriptsTypeOK
  <2> SUFFICES ASSUME TypeInv PROVE ScriptsTypeOK
    OBVIOUS
  <2>1. \A r \in 0 .. MaxRuns :
          /\ pools[r].supply \in Nat /\ pools[r].shares \in 0 .. pools[r].supply
          /\ pools[r].allowance \in [Token -> Nat]
          /\ \A i \in DOMAIN pools[r].orders : pools[r].orders[i].state \in OrderState
    <3> SUFFICES ASSUME NEW r \in 0 .. MaxRuns
                 PROVE  /\ pools[r].supply \in Nat /\ pools[r].shares \in 0 .. pools[r].supply
                        /\ pools[r].allowance \in [Token -> Nat]
                        /\ \A i \in DOMAIN pools[r].orders :
                             pools[r].orders[i].state \in OrderState
      OBVIOUS
    <3> DEFINE p == pools[r]
    <3>1. Sound(p)
      BY DEF TypeInv, PoolsOK
    <3> HIDE DEF p
    <3>2. /\ p.supply \in Nat /\ p.shares \in Nat /\ p.shares <= p.supply
          /\ p.allowance \in [Token -> Nat]
          /\ p.orders \in Seq(OrderType) /\ Len(p.orders) \in Nat
          /\ \A i \in 1 .. Len(p.orders) : p.orders[i] \in OrderType
      BY <3>1, PoolFacts DEF Sound
    <3>3. \A i \in DOMAIN p.orders : p.orders[i].state \in OrderState
      BY <3>2 DEF OrderType
    <3>4. p.shares \in 0 .. p.supply
      BY <3>2
    <3> QED
      BY <3>2, <3>3, <3>4 DEF p
  <2>2. /\ mined \in 0 .. Len(sent)
        /\ \A k \in DOMAIN sent : sent[k].status = "pending" <=> k > mined
    BY DEF TypeInv, SentOK
  <2>3. /\ proc.run \in 0 .. MaxRuns
        /\ proc.exit \in {"running", "0", "1", "killed"}
        /\ proc.tx \in [Handle -> Nat]
    BY DEF TypeInv, ProcOK, ProcType
  <2>4. \A h \in Handle : proc.tx[h] \in 0 .. Len(sent)
    BY <2>3 DEF TypeInv, ProcOK, SentOK
  <2> QED
    BY <2>1, <2>2, <2>3, <2>4 DEF TypeInv, PoolsOK, ScriptsTypeOK
<1> QED
  BY <1>1, TypesKept, PTL
-----------------------------------------------------------------------------
(***************************************************************************)
(* Orders of others.                                                       *)
(***************************************************************************)
\* Only a block of the account's own transactions counts one as mined.
LEMMA OnlyIncludeMines ==
  ASSUME TypeInv, [Next]_vars, mined' # mined
  PROVE  \E delay \in Delays : Include(delay)
<1>1. ASSUME NEW script \in Script, Start(script) PROVE FALSE
  BY <1>1 DEF Start
<1>2. CASE ScriptStep
  BY <1>2 DEF ScriptStep, OnlyScript, DoReadClock, DoReadPair, DoReadRatio, DoReadIds,
              DoLookUp, DoSubmit, FailToSubmit, DoWait
<1>3. CASE Kill
  BY <1>3 DEF Kill, OnlyScript
<1>4. ASSUME NEW delay \in Delays, Pass(delay) PROVE FALSE
  BY <1>4 DEF Pass
<1>5. CASE Others
  BY <1>5, OthersOK
<1>6. CASE UNCHANGED vars
  BY <1>6 DEF vars
<1>7. CASE SomeBlock
  BY <1>7 DEF SomeBlock
<1> QED
  BY <1>1, <1>2, <1>3, <1>4, <1>5, <1>6, <1>7 DEF Next

\* The orders of others in the common pool stay as they are when a
\* transaction of the account is mined, for cancelling and withdrawing are
\* accepted from the owner only.
THEOREM OthersAreUntouched == Spec => OthersOrdersUntouched
<1>1. TypeInv /\ [Next]_vars =>
        [\A i \in DOMAIN pools[0].orders :
           mined' # mined /\ ~pools[0].orders[i].mine =>
             pools'[0].orders[i] = pools[0].orders[i]]_vars
  <2> SUFFICES ASSUME TypeInv, [Next]_vars, mined' # mined,
                      NEW i \in DOMAIN pools[0].orders, ~pools[0].orders[i].mine
               PROVE  pools'[0].orders[i] = pools[0].orders[i]
    OBVIOUS
  <2>1. PICK delay \in Delays : Include(delay)
    BY OnlyIncludeMines
  <2> DEFINE x == sent[mined + 1]
  <2>2. /\ Changes(pools[x.pool], pools'[x.pool], x)
        /\ \A r \in 0 .. MaxRuns : r # x.pool => pools'[r] = pools[r]
    BY <2>1, IncludeOK
  <2> HIDE DEF x
  <2>3. 0 \in 0 .. MaxRuns
    BY BoundsAssumption
  <2>4. CASE x.pool # 0
    BY <2>2, <2>3, <2>4
  <2>5. CASE x.pool = 0
    <3>1. KeepsOrders(pools[0], pools'[0])
      BY <2>2, <2>5 DEF Changes
    <3>2. Sound(pools[0])
      BY <2>3 DEF TypeInv, PoolsOK
    <3>3. i \in 1 .. Len(pools[0].orders)
      BY <3>2, PoolFacts DEF Sound
    <3> QED
      BY <3>1, <3>3 DEF KeepsOrders
  <2> QED
    BY <2>4, <2>5
<1> QED
  BY <1>1, TypesKept, PTL DEF Spec, OthersOrdersUntouched
-----------------------------------------------------------------------------
(***************************************************************************)
(* Allowances.  What a transaction of the account will need is promised by *)
(* an earlier one: it approves at least as much to the same pool, and none *)
(* between the two uses or replaces what it approves.                      *)
(***************************************************************************)
Approves(x, t, a) == x.fn = "approve" /\ x.token = t /\ a <= x.amount

UpheldBy(j, ps, s, m, h, t, a, n) ==
  /\ s[j].pool = h /\ Approves(s[j], t, a)
  /\ \A i \in j + 1 .. n : s[i].pool = h => ~Touches(s[i], t)
  /\ j <= m /\ m <= n => a <= ps[h].allowance[t]

\* Once the first n of the transactions s are mined, a of t is allowed at h.
Promise(ps, s, m, h, t, a, n) ==
  a = 0 \/ \E j \in 1 .. n : UpheldBy(j, ps, s, m, h, t, a, n)

\* The allowances that a program has at each of its instructions.
Labels(script) ==
  CHOOSE lab : /\ Labelled(Allowance, AllowD, AllowT, Program[script], lab)
               /\ lab[1] = Allowing(0, 0)

SentCovered ==
  \A k \in 1 .. Len(sent), t \in Token :
    Promise(pools, sent, mined, sent[k].pool, t, Needs(sent[k])[t], k - 1)

RunCovered ==
  Running =>
    \A t \in Token :
      Promise(pools, sent, mined, Home(proc), t, Labels(proc.script)[proc.pc][t], Len(sent))

AllowInv == TypeInv /\ SentCovered /\ RunCovered

\* Every program has allowances at each of its instructions.
LEMMA LabelsOK ==
  ASSUME NEW script \in Script
  PROVE  /\ Labelled(Allowance, AllowD, AllowT, Program[script], Labels(script))
         /\ Labels(script)[1] = Allowing(0, 0)
<1> DEFINE P(lab) == /\ Labelled(Allowance, AllowD, AllowT, Program[script], lab)
                     /\ lab[1] = Allowing(0, 0)
<1>1. PICK q : AFlow(Allowing(0, 0), Program[script], q)
  BY ScriptsApprove
<1>2. \E lab : P(lab)
  BY <1>1 DEF AFlow, Flow
<1>3. Labels(script) = CHOOSE lab : P(lab)
  BY DEF Labels
<1> HIDE DEF P
<1>4. P(Labels(script))
  BY <1>2, <1>3
<1> QED
  BY <1>4 DEF P

\* What an instruction leaves of the allowances, when done or thrown.
LEMMA PlaceOK ==
  ASSUME InProgram, Running
  PROVE  LET lab == Labels(proc.script)
             at == proc.pc IN
           /\ \A t \in Token : lab[at][t] \in Nat
           /\ \A t \in Token : lab[at + I.next][t] \in Nat
           /\ AllowDone(lab[at], I, lab[at + I.next])
           /\ I.catch # 0 => \A t \in Token : /\ lab[at + I.catch][t] \in Nat
                                              /\ lab[at + I.catch][t] <= lab[at][t]
<1> DEFINE lab == Labels(proc.script)
           at == proc.pc
           s == Program[proc.script]
           n == I.next
           m == I.catch
<1>1. /\ proc.script \in Script /\ at \in 1 .. Len(s) /\ Len(s) \in Nat
      /\ I \in Instr /\ n \in Nat \ {0} /\ m \in Nat
      /\ at + n <= Len(s) + 1
      /\ m # 0 => at + m <= Len(s) + 1
  BY InstructionOK
<1>2. Labelled(Allowance, AllowD, AllowT, s, lab)
  BY <1>1, LabelsOK
<1>3. I = s[at]
  BY DEF I
<1> HIDE DEF lab, s
<1>4. lab \in [1 .. Len(s) + 1 -> Allowance] /\ GoesOn(AllowD, AllowT, lab, I, at, Len(s) + 1)
  BY <1>1, <1>2, <1>3 DEF Labelled
<1>5. /\ <<lab[at], Bare(I), lab[at + n]>> \in AllowD
      /\ m # 0 => <<lab[at], Bare(I), lab[at + m]>> \in AllowT
  BY <1>4 DEF GoesOn
<1>6. Bare(I).op = I.op /\ Bare(I).call = I.call
  BY <1>1 DEF Bare, Instr
<1> HIDE DEF at, n, m
<1>7. /\ at \in 1 .. Len(s) + 1 /\ at + n \in 1 .. Len(s) + 1
      /\ m # 0 => at + m \in 1 .. Len(s) + 1
  BY <1>1
<1>8. /\ \A t \in Token : lab[at][t] \in Nat /\ lab[at + n][t] \in Nat
      /\ m # 0 => \A t \in Token : lab[at + m][t] \in Nat
  BY <1>4, <1>7 DEF Allowance
<1>9. AllowDone(lab[at], Bare(I), lab[at + n])
  BY <1>5 DEF AllowD
<1>10. AllowDone(lab[at], I, lab[at + n])
  BY <1>6, <1>9 DEF AllowDone
<1>11. m # 0 => \A t \in Token : lab[at + m][t] <= lab[at][t]
  BY <1>5 DEF AllowT
<1> QED
  BY <1>8, <1>10, <1>11 DEF lab, at, n, m

\* Less is promised with more.
LEMMA PromiseLess ==
  ASSUME NEW ps, NEW s \in Seq(TxType), NEW m \in Nat, NEW h, NEW t \in Token,
         NEW a \in Nat, NEW b \in Nat, NEW n \in Nat, n <= Len(s), b <= a,
         ps[h].allowance[t] \in Nat, Promise(ps, s, m, h, t, a, n)
  PROVE  Promise(ps, s, m, h, t, b, n)
<1>1. CASE a = 0
  BY <1>1 DEF Promise
<1>2. CASE a # 0
  <2>1. PICK j \in 1 .. n : UpheldBy(j, ps, s, m, h, t, a, n)
    BY <1>2 DEF Promise
  <2>2. j \in 1 .. Len(s)
    BY <2>1
  <2>3. s[j].amount \in Nat
    BY <2>2, ElementOfSeq, TxFacts
  <2> DEFINE w == s[j].amount
             v == ps[h].allowance[t]
  <2>4. /\ s[j].pool = h /\ s[j].fn = "approve" /\ s[j].token = t /\ a <= w
        /\ \A i \in j + 1 .. n : s[i].pool = h => ~Touches(s[i], t)
        /\ j <= m /\ m <= n => a <= v
    BY <2>1 DEF UpheldBy, Approves
  <2>5. w \in Nat /\ v \in Nat
    BY <2>3
  <2> HIDE DEF w, v
  <2>6. b <= w /\ (j <= m /\ m <= n => b <= v)
    BY <2>4, <2>5
  <2>7. UpheldBy(j, ps, s, m, h, t, b, n)
    BY <2>4, <2>6 DEF UpheldBy, Approves, w, v
  <2> QED
    BY <2>1, <2>7 DEF Promise
<1> QED
  BY <1>1, <1>2

\* What is promised stays so as long as nothing is mined.
LEMMA PromiseStays ==
  ASSUME NEW ps, NEW ps2, NEW s, NEW s2, NEW m \in Nat, NEW h, NEW t \in Token, NEW a,
         NEW n \in Nat, \A j \in 1 .. n : s2[j] = s[j],
         ps2[h].allowance = ps[h].allowance, Promise(ps, s, m, h, t, a, n)
  PROVE  Promise(ps2, s2, m, h, t, a, n)
<1>1. CASE a = 0
  BY <1>1 DEF Promise
<1>2. CASE a # 0
  <2>1. PICK j \in 1 .. n : UpheldBy(j, ps, s, m, h, t, a, n)
    BY <1>2 DEF Promise
  <2>2. s2[j] = s[j] /\ \A i \in j + 1 .. n : s2[i] = s[i]
    BY <2>1
  <2>3. UpheldBy(j, ps2, s2, m, h, t, a, n)
    BY <2>1, <2>2 DEF UpheldBy
  <2> QED
    BY <2>1, <2>3 DEF Promise
<1> QED
  BY <1>1, <1>2

SameCall(x, y) ==
  x.fn = y.fn /\ x.token = y.token /\ x.amount = y.amount /\ x.pool = y.pool

\* The same call needs, uses and approves the same.
LEMMA SameNeeds ==
  ASSUME NEW x, NEW y, SameCall(x, y)
  PROVE  /\ Needs(x) = Needs(y)
         /\ \A t, a : (Touches(x, t) <=> Touches(y, t)) /\ (Approves(x, t, a) <=> Approves(y, t, a))
<1>1. Needs(x) = Needs(y)
  BY DEF Needs, Fn, SameCall
<1> QED
  BY <1>1 DEF SameCall, Touches, Approves

\* The next transaction is mined: it keeps the promise if it is the one that
\* approves, and none of those that come after it breaks it.
LEMMA PromiseMined ==
  ASSUME NEW ps, NEW ps2, NEW s, NEW s2, NEW m \in Nat, NEW h, NEW t \in Token, NEW a,
         NEW n \in Nat,
         \A j \in 1 .. n : SameCall(s2[j], s[j]),
         s[m + 1].pool # h => ps2[h].allowance[t] = ps[h].allowance[t],
         s[m + 1].pool = h =>
           /\ s[m + 1].fn = "approve" /\ s[m + 1].token = t =>
                ps2[h].allowance[t] = s[m + 1].amount
           /\ ~Touches(s[m + 1], t) => ps2[h].allowance[t] = ps[h].allowance[t],
         Promise(ps, s, m, h, t, a, n)
  PROVE  Promise(ps2, s2, m + 1, h, t, a, n)
<1>1. CASE a = 0
  BY <1>1 DEF Promise
<1>2. CASE a # 0
  <2>1. PICK j \in 1 .. n : UpheldBy(j, ps, s, m, h, t, a, n)
    BY <1>2 DEF Promise
  <2> DEFINE v == ps[h].allowance[t]
             v2 == ps2[h].allowance[t]
             k == m + 1
  <2>2. /\ s[j].pool = h /\ Approves(s[j], t, a)
        /\ \A i \in j + 1 .. n : s[i].pool = h => ~Touches(s[i], t)
        /\ j <= m /\ m <= n => a <= v
    BY <2>1 DEF UpheldBy
  <2>3. SameCall(s2[j], s[j]) /\ \A i \in j + 1 .. n : SameCall(s2[i], s[i])
    BY <2>1
  <2>4. s2[j].pool = h /\ Approves(s2[j], t, a)
    BY <2>2, <2>3, SameNeeds DEF SameCall
  <2>5. \A i \in j + 1 .. n : s2[i].pool = h => ~Touches(s2[i], t)
    BY <2>2, <2>3, SameNeeds DEF SameCall
  <2>6. ASSUME j <= k, k <= n PROVE a <= v2
    <3>1. CASE j = k
      <4>1. v2 = s[k].amount
        BY <2>2, <3>1 DEF Approves
      <4> QED
        BY <2>2, <3>1, <4>1 DEF Approves
    <3>2. CASE j # k
      <4>1. j <= m /\ m <= n /\ k \in j + 1 .. n
        BY <2>1, <2>6, <3>2
      <4>2. a <= v
        BY <2>2, <4>1
      <4>3. v2 = v
        BY <2>2, <4>1
      <4> QED
        BY <4>2, <4>3
    <3> QED
      BY <3>1, <3>2
  <2>7. UpheldBy(j, ps2, s2, k, h, t, a, n)
    BY <2>4, <2>5, <2>6 DEF UpheldBy
  <2> QED
    BY <2>1, <2>7 DEF Promise
<1> QED
  BY <1>1, <1>2

\* The next transaction is sent: it may be the one that approves.
LEMMA PromiseSent ==
  ASSUME NEW ps, NEW s, NEW s2, NEW m \in Nat, NEW h, NEW t \in Token, NEW l \in Nat,
         NEW b \in Nat, NEW n \in Nat, m <= n,
         \A j \in 1 .. n : s2[j] = s[j], s2[n + 1].pool = h, s2[n + 1].amount \in Nat,
         s \in Seq(TxType), n <= Len(s), ps[h].allowance[t] \in Nat,
         b <= IF s2[n + 1].fn = "approve" /\ s2[n + 1].token = t THEN s2[n + 1].amount
              ELSE IF Needs(s2[n + 1])[t] > 0 THEN 0 ELSE l,
         Promise(ps, s, m, h, t, l, n)
  PROVE  Promise(ps, s2, m, h, t, b, n + 1)
<1> DEFINE x == s2[n + 1]
           w == x.amount
           need == Needs(x)[t]
<1>1. need \in Nat
  BY NeedsType
<1>2. b <= IF x.fn = "approve" /\ x.token = t THEN w ELSE IF need > 0 THEN 0 ELSE l
  OBVIOUS
<1>3. w \in Nat /\ x.pool = h
  OBVIOUS
<1>4. CASE x.fn = "approve" /\ x.token = t
  <2>1. b <= w
    BY <1>2, <1>4
  <2>2. Approves(x, t, b)
    BY <1>4, <2>1 DEF Approves
  <2>3. UpheldBy(n + 1, ps, s2, m, h, t, b, n + 1)
    BY <1>3, <2>2 DEF UpheldBy
  <2> QED
    BY <2>3 DEF Promise
<1>5. CASE ~(x.fn = "approve" /\ x.token = t) /\ need > 0
  <2> HIDE DEF x, need, w
  <2>1. b = 0
    BY <1>2, <1>5
  <2> QED
    BY <2>1 DEF Promise
<1>6. CASE ~(x.fn = "approve" /\ x.token = t) /\ ~(need > 0)
  <2>1. b <= l
    <3> HIDE DEF x, need, w
    <3> QED
      BY <1>2, <1>6
  <2>2. Promise(ps, s, m, h, t, b, n)
    <3> HIDE DEF x, need, w
    <3> QED
      BY <2>1, PromiseLess
  <2>4. CASE b = 0
    BY <2>4 DEF Promise
  <2>5. CASE b # 0
    <3>1. PICK j \in 1 .. n : UpheldBy(j, ps, s, m, h, t, b, n)
      BY <2>2, <2>5 DEF Promise
    <3>2. ~Touches(x, t)
      BY <1>6 DEF Touches
    <3>3. \A i \in j + 1 .. n + 1 : i = n + 1 \/ i \in j + 1 .. n
      <4> HIDE DEF x, need, w
      <4> QED
        BY <3>1
    <3>5. s2[j] = s[j] /\ \A i \in j + 1 .. n : s2[i] = s[i]
      BY <3>1
    <3>6. \A i \in j + 1 .. n : s2[i].pool = h => ~Touches(s2[i], t)
      BY <3>1, <3>5 DEF UpheldBy
    <3>7. \A i \in j + 1 .. n + 1 : s2[i].pool = h => ~Touches(s2[i], t)
      BY <3>2, <3>3, <3>6
    <3>4. UpheldBy(j, ps, s2, m, h, t, b, n + 1)
      <4>1. s2[j].pool = h /\ Approves(s2[j], t, b) /\ (j <= m => b <= ps[h].allowance[t])
        BY <3>1, <3>5 DEF UpheldBy
      <4> QED
        BY <3>7, <4>1 DEF UpheldBy
    <3> QED
      BY <3>4 DEF Promise
  <2> QED
    BY <2>4, <2>5
<1> QED
  BY <1>4, <1>5, <1>6
-----------------------------------------------------------------------------
\* Where a script is when an instruction is done.
LEMMA DoneWhere ==
  ASSUME InProgram, Running, NEW p \in ProcType, p.script = proc.script, p.pc = proc.pc,
         p.run = proc.run, proc' = Done(p)
  PROVE  /\ proc'.script = proc.script /\ Home(proc') = Home(proc)
         /\ proc'.pc = proc.pc + I.next
<1>1. I \in Instr
  BY InstructionOK
<1>2. GoesTo(p, proc', I.next)
  BY <1>1, DoneOK
<1> QED
  BY <1>2 DEF GoesTo, Home

\* Where a script is when an instruction throws.
LEMMA ThrowWhere ==
  ASSUME InProgram, Running, proc \in ProcType, proc' = Throw(proc), Running'
  PROVE  /\ proc'.script = proc.script /\ Home(proc') = Home(proc)
         /\ I.catch # 0 /\ proc'.pc = proc.pc + I.catch
<1>1. I \in Instr
  BY InstructionOK
<1>2. I.catch # 0
  BY <1>1, ThrowOK DEF Running
<1>3. GoesTo(proc, proc', I.catch)
  BY <1>1, <1>2, ThrowOK
<1> QED
  BY <1>2, <1>3 DEF GoesTo, Home

\* What the account may be asked for is a number, and so is what it allows.
LEMMA CoverTypes ==
  ASSUME TypeInv
  PROVE  /\ sent \in Seq(TxType) /\ Len(sent) \in Nat /\ mined \in Nat /\ mined <= Len(sent)
         /\ \A t \in Token : pools[Home(proc)].allowance[t] \in Nat
         /\ \A k \in 1 .. Len(sent) : /\ sent[k] \in TxType
                                      /\ \A t \in Token : Needs(sent[k])[t] \in Nat
<1>1. /\ sent \in Seq(TxType) /\ Len(sent) \in Nat /\ mined \in Nat /\ mined <= Len(sent)
  BY DEF TypeInv, SentOK
<1>2. Sound(ScriptPool)
  BY HomePool
<1>3. \A t \in Token : ScriptPool.allowance[t] \in Nat
  BY <1>2, PoolFacts DEF Sound
<1>4. \A k \in 1 .. Len(sent) : sent[k] \in TxType
  BY <1>1, ElementOfSeq
<1>5. \A k \in 1 .. Len(sent) : \A t \in Token : Needs(sent[k])[t] \in Nat
  <2> SUFFICES ASSUME NEW k \in 1 .. Len(sent), NEW t \in Token
               PROVE  Needs(sent[k])[t] \in Nat
    OBVIOUS
  <2> QED
    BY <1>4, TxFacts, NeedsType
<1> QED
  BY <1>1, <1>3, <1>4, <1>5 DEF ScriptPool

\* A step that sends nothing goes on with no more allowances than before.
LEMMA QuietAllows ==
  ASSUME AllowInv, Running, OnlyScript,
         \/ proc' = Throw(proc)
         \/ I.op # "submit" /\ \E p \in ProcType :
              /\ proc' = Done(p) /\ p.script = proc.script /\ p.pc = proc.pc
              /\ p.run = proc.run
  PROVE  SentCovered' /\ RunCovered'
<1>1. TypeInv /\ InProgram /\ proc \in ProcType
  BY DEF AllowInv, TypeInv, ProcOK
<1>2. /\ time' = time /\ pools' = pools /\ sent' = sent /\ mined' = mined
  BY DEF OnlyScript
<1>3. SentCovered'
  BY <1>2 DEF AllowInv, SentCovered
<1>4. ASSUME Running', NEW t \in Token
      PROVE  Promise(pools, sent, mined, Home(proc), t, Labels(proc'.script)[proc'.pc][t],
                     Len(sent))
  <2> DEFINE lab == Labels(proc.script)
             l == lab[proc.pc][t]
             b == Labels(proc'.script)[proc'.pc][t]
             h == Home(proc)
  <2>1. Promise(pools, sent, mined, h, t, l, Len(sent))
    BY DEF AllowInv, RunCovered
  <2>2. l \in Nat /\ b \in Nat /\ b <= l
    <3>1. CASE proc' = Throw(proc)
      <4>1. /\ proc'.script = proc.script /\ I.catch # 0 /\ proc'.pc = proc.pc + I.catch
        BY <1>1, <1>4, <3>1, ThrowWhere
      <4>2. b = lab[proc.pc + I.catch][t]
        BY <4>1
      <4>3. /\ l \in Nat /\ lab[proc.pc + I.catch][t] \in Nat
            /\ lab[proc.pc + I.catch][t] <= l
        BY <1>1, <4>1, PlaceOK
      <4> HIDE DEF b, l
      <4> QED
        BY <4>2, <4>3
    <3>2. CASE ~(proc' = Throw(proc))
      <4>1. I.op # "submit" /\ proc'.script = proc.script /\ proc'.pc = proc.pc + I.next
        BY <1>1, <3>2, DoneWhere
      <4>2. b = lab[proc.pc + I.next][t]
        BY <4>1
      <4>3. /\ l \in Nat /\ lab[proc.pc + I.next][t] \in Nat
            /\ AllowDone(lab[proc.pc], I, lab[proc.pc + I.next])
        BY <1>1, PlaceOK
      <4>4. lab[proc.pc + I.next][t] <= l
        BY <4>1, <4>3 DEF AllowDone
      <4> HIDE DEF b, l
      <4> QED
        BY <4>2, <4>3, <4>4
    <3> QED
      BY <3>1, <3>2
  <2>3. /\ sent \in Seq(TxType) /\ Len(sent) \in Nat /\ mined \in Nat
        /\ pools[h].allowance[t] \in Nat
    BY <1>1, CoverTypes
  <2> HIDE DEF l, h
  <2>4. Promise(pools, sent, mined, h, t, b, Len(sent))
    <3> HIDE DEF b
    <3>1. Len(sent) <= Len(sent)
      BY <2>3
    <3> QED
      BY <2>1, <2>2, <2>3, <3>1, PromiseLess
  <2> QED
    BY <2>4 DEF h
<1>5. Running' => Home(proc') = Home(proc)
  BY <1>1, ThrowWhere, DoneWhere
<1>6. RunCovered'
  <2> SUFFICES ASSUME Running', NEW t \in Token
               PROVE  Promise(pools', sent', mined', Home(proc'), t,
                              Labels(proc'.script)[proc'.pc][t], Len(sent'))
    BY DEF RunCovered
  <2> QED
    BY <1>2, <1>4, <1>5
<1> QED
  BY <1>3, <1>6

\* What is sent is allowed by the program at this place.
LEMMA SubmitAllows ==
  ASSUME AllowInv, Running, DoSubmit
  PROVE  SentCovered' /\ RunCovered'
<1> DEFINE x == Transaction(I.call)
           n == Len(sent)
           h == Home(proc)
           lab == Labels(proc.script)
           at == proc.pc
<1>1. /\ x \in TxType /\ x.pool = h
      /\ x.fn = I.call.fn /\ x.token = I.call.token /\ x.amount = I.call.amount
      /\ sent' \in Seq(TxType) /\ Len(sent') = n + 1 /\ n \in Nat
      /\ sent'[n + 1] = x
      /\ \A k \in 1 .. n : sent'[k] = sent[k]
      /\ I.op = "submit"
      /\ pools' = pools /\ mined' = mined
      /\ \E p \in ProcType :
           /\ proc' = Done(p) /\ p.script = proc.script /\ p.pc = proc.pc
           /\ p.run = proc.run
  BY SubmitGoesOn DEF AllowInv
<1>2. TypeInv /\ InProgram
  BY DEF AllowInv, TypeInv, ProcOK
<1>3. /\ proc'.script = proc.script /\ Home(proc') = h
      /\ proc'.pc = at + I.next
  BY <1>1, <1>2, DoneWhere
<1>4. /\ sent \in Seq(TxType) /\ mined \in Nat /\ mined <= n
      /\ \A t \in Token : pools[h].allowance[t] \in Nat
      /\ \A k \in 1 .. n : \A t \in Token : Needs(sent[k])[t] \in Nat
  BY <1>2, CoverTypes
<1>5. /\ \A t \in Token : lab[at][t] \in Nat
      /\ \A t \in Token : lab[at + I.next][t] \in Nat
      /\ AllowDone(lab[at], I, lab[at + I.next])
  BY <1>2, PlaceOK
<1>6. \A t \in Token : Promise(pools, sent, mined, h, t, lab[at][t], n)
  BY DEF AllowInv, RunCovered
<1>7. x.amount \in Nat
  BY <1>1, TxFacts
<1>8. n = Len(sent) /\ lab = Labels(proc.script)
  OBVIOUS
<1> HIDE DEF x, n, h, lab
<1>9. Needs(x) = Needs(I.call)
  BY <1>1 DEF Needs, Fn
<1>10. ASSUME NEW t \in Token
       PROVE  Promise(pools, sent', mined, h, t, Needs(x)[t], n)
  <2> DEFINE l == lab[at][t]
             b == Needs(x)[t]
  <2>1. Promise(pools, sent, mined, h, t, l, n) /\ l \in Nat
    BY <1>5, <1>6
  <2>2. b <= l
    BY <1>1, <1>5, <1>9 DEF AllowDone
  <2>3. b \in Nat
    BY <1>7, NeedsType
  <2>4. n <= Len(sent) /\ pools[h].allowance[t] \in Nat
    BY <1>1, <1>4, <1>8
  <2> HIDE DEF l, b
  <2>5. Promise(pools, sent, mined, h, t, b, n)
    BY <1>1, <1>4, <2>1, <2>2, <2>3, <2>4, PromiseLess
  <2>6. CASE b = 0
    BY <2>6 DEF Promise, b
  <2>7. CASE b # 0
    <3>1. PICK j \in 1 .. n : UpheldBy(j, pools, sent, mined, h, t, b, n)
      BY <2>5, <2>7 DEF Promise
    <3>2. sent'[j] = sent[j] /\ \A i \in j + 1 .. n : sent'[i] = sent[i]
      BY <1>1, <3>1
    <3>3. UpheldBy(j, pools, sent', mined, h, t, b, n)
      BY <3>1, <3>2 DEF UpheldBy
    <3> QED
      BY <3>3 DEF Promise, b
  <2> QED
    BY <2>6, <2>7
<1>11. ASSUME NEW k \in 1 .. n, NEW t \in Token
       PROVE  Promise(pools, sent', mined, sent[k].pool, t, Needs(sent[k])[t], k - 1)
  <2> DEFINE g == sent[k].pool
             b == Needs(sent[k])[t]
             i == k - 1
  <2>1. Promise(pools, sent, mined, g, t, b, i)
    BY <1>8 DEF AllowInv, SentCovered
  <2>2. i \in Nat /\ \A j \in 1 .. i : sent'[j] = sent[j]
    BY <1>1
  <2> HIDE DEF g, b, i
  <2>3. CASE b = 0
    BY <2>3 DEF Promise, b, i, g
  <2>4. CASE b # 0
    <3>1. PICK j \in 1 .. i : UpheldBy(j, pools, sent, mined, g, t, b, i)
      BY <2>1, <2>4 DEF Promise
    <3>2. sent'[j] = sent[j] /\ \A e \in j + 1 .. i : sent'[e] = sent[e]
      BY <2>2, <3>1
    <3>3. UpheldBy(j, pools, sent', mined, g, t, b, i)
      BY <3>1, <3>2 DEF UpheldBy
    <3> QED
      BY <3>3 DEF Promise, b, i, g
  <2> QED
    BY <2>3, <2>4
<1>12. SentCovered'
  <2> SUFFICES ASSUME NEW k \in 1 .. n + 1, NEW t \in Token
               PROVE  Promise(pools', sent', mined', sent'[k].pool, t, Needs(sent'[k])[t], k - 1)
    BY <1>1 DEF SentCovered
  <2>1. CASE k \in 1 .. n
    BY <1>1, <1>11, <2>1
  <2>2. CASE k = n + 1
    <3>1. k - 1 = n /\ sent'[k] = x /\ sent'[k].pool = h
      BY <1>1, <2>2
    <3> QED
      BY <1>1, <1>10, <3>1
  <2> QED
    BY <1>1, <2>1, <2>2
<1>13. ASSUME NEW t \in Token
       PROVE  Promise(pools, sent', mined, h, t, lab[at + I.next][t], n + 1)
  <2> DEFINE l == lab[at][t]
             b == lab[at + I.next][t]
  <2>1. Promise(pools, sent, mined, h, t, l, n) /\ l \in Nat /\ b \in Nat
    BY <1>5, <1>6
  <2>2. b <= IF x.fn = "approve" /\ x.token = t THEN x.amount
             ELSE IF Needs(x)[t] > 0 THEN 0 ELSE l
    BY <1>1, <1>5, <1>9 DEF AllowDone
  <2>3. n <= Len(sent) /\ pools[h].allowance[t] \in Nat
    BY <1>1, <1>4, <1>8
  <2> HIDE DEF l, b
  <2> DEFINE s2 == sent'
             ps == pools
             s == sent
             m == mined
  <2>4. /\ \A j \in 1 .. n : s2[j] = s[j]
        /\ s2[n + 1].pool = h /\ s2[n + 1].amount \in Nat
        /\ m \in Nat /\ n \in Nat /\ m <= n /\ s \in Seq(TxType) /\ n <= Len(s)
        /\ ps[h].allowance[t] \in Nat
        /\ b <= IF s2[n + 1].fn = "approve" /\ s2[n + 1].token = t THEN s2[n + 1].amount
                ELSE IF Needs(s2[n + 1])[t] > 0 THEN 0 ELSE l
        /\ Promise(ps, s, m, h, t, l, n)
    BY <1>1, <1>4, <1>7, <2>1, <2>2, <2>3
  <2> HIDE DEF s2, ps, s, m
  <2>5. Promise(ps, s2, m, h, t, b, n + 1)
    BY <2>1, <2>4, PromiseSent
  <2> QED
    BY <2>5 DEF s2, ps, m, b
<1>14. RunCovered'
  <2> SUFFICES ASSUME NEW t \in Token
               PROVE  Promise(pools', sent', mined', Home(proc'), t,
                              Labels(proc'.script)[proc'.pc][t], Len(sent'))
    BY DEF RunCovered
  <2> QED
    BY <1>1, <1>3, <1>8, <1>13
<1> QED
  BY <1>12, <1>14
-----------------------------------------------------------------------------
\* A program that starts counts on no allowance.
LEMMA StartAllows ==
  ASSUME AllowInv, NEW script \in Script, Start(script)
  PROVE  SentCovered' /\ RunCovered'
<1>1. /\ proc'.script = script /\ proc'.pc = 1
      /\ pools' = pools /\ sent' = sent /\ mined' = mined
  BY StartsAt DEF AllowInv
<1>2. SentCovered'
  BY <1>1 DEF AllowInv, SentCovered
<1>3. \A t \in Token : Labels(script)[1][t] = 0
  BY LabelsOK DEF Allowing
<1>4. RunCovered'
  <2> SUFFICES ASSUME NEW t \in Token
               PROVE  Promise(pools', sent', mined', Home(proc'), t,
                              Labels(proc'.script)[proc'.pc][t], Len(sent'))
    BY DEF RunCovered
  <2>1. Labels(proc'.script)[proc'.pc][t] = 0
    BY <1>1, <1>3
  <2> QED
    BY <2>1 DEF Promise
<1> QED
  BY <1>2, <1>4

\* A script that is killed counts on nothing any more.
LEMMA KillAllows ==
  ASSUME AllowInv, Kill
  PROVE  SentCovered' /\ RunCovered'
<1>1. OnlyScript /\ proc' = [proc EXCEPT !.exit = "killed"] /\ proc \in ProcType
  BY DEF Kill, AllowInv, TypeInv, ProcOK
<1>2. proc'.exit = "killed"
  BY <1>1 DEF ProcType
<1>3. SentCovered'
  BY <1>1 DEF AllowInv, SentCovered, OnlyScript
<1>4. RunCovered'
  BY <1>2 DEF RunCovered, Running
<1> QED
  BY <1>3, <1>4

\* A block with the next transaction keeps every promise.
LEMMA IncludeAllows ==
  ASSUME AllowInv, NEW delay \in Delays, Include(delay)
  PROVE  SentCovered' /\ RunCovered'
<1> DEFINE x == sent[mined + 1]
           n == Len(sent)
           k == mined + 1
<1>1. /\ k \in 1 .. n /\ n \in Nat /\ x \in TxType
      /\ x.pool \in 0 .. MaxRuns
      /\ Changes(pools[x.pool], pools'[x.pool], x)
      /\ \A r \in 0 .. MaxRuns : r # x.pool => pools'[r] = pools[r]
      /\ Len(sent') = n
      /\ \A j \in 1 .. n : j # k => sent'[j] = sent[j]
      /\ sent'[k].fn = x.fn /\ sent'[k].token = x.token /\ sent'[k].amount = x.amount
      /\ sent'[k].pool = x.pool
      /\ mined' = k /\ proc' = proc
  BY IncludeOK DEF AllowInv
<1>2. TypeInv
  BY DEF AllowInv
<1>3. /\ mined \in Nat /\ \A j \in 1 .. n : sent[j] \in TxType
  BY <1>2, CoverTypes
<1>4. x = sent[k] /\ n = Len(sent) /\ x = sent[mined + 1] /\ k = mined + 1
  OBVIOUS
<1> HIDE DEF x, n, k
<1>5. \A j \in 1 .. n : SameCall(sent'[j], sent[j])
  <2> SUFFICES ASSUME NEW j \in 1 .. n PROVE SameCall(sent'[j], sent[j])
    OBVIOUS
  <2>1. CASE j = k
    BY <1>1, <1>4, <2>1 DEF SameCall
  <2>2. CASE j # k
    BY <1>1, <2>2 DEF SameCall
  <2> QED
    BY <2>1, <2>2
<1>6. ASSUME NEW h \in 0 .. MaxRuns, NEW t \in Token, NEW a, NEW i \in 0 .. n,
             Promise(pools, sent, mined, h, t, a, i)
      PROVE  Promise(pools', sent', mined', h, t, a, i)
  <2> DEFINE ps == pools
             ps2 == pools'
             s == sent
             s2 == sent'
             m == mined
  <2>1. x.pool # h => ps2[h].allowance[t] = ps[h].allowance[t]
    BY <1>1
  <2>2. x.pool = h =>
          /\ x.fn = "approve" /\ x.token = t => ps2[h].allowance[t] = x.amount
          /\ ~Touches(x, t) => ps2[h].allowance[t] = ps[h].allowance[t]
    BY <1>1 DEF Changes
  <2>3. /\ \A j \in 1 .. i : SameCall(s2[j], s[j])
        /\ i \in Nat /\ m \in Nat /\ x = s[m + 1] /\ mined' = m + 1
        /\ Promise(ps, s, m, h, t, a, i)
    BY <1>1, <1>3, <1>4, <1>5, <1>6
  <2> HIDE DEF ps, ps2, s, s2, m
  <2>4. /\ s[m + 1].pool # h => ps2[h].allowance[t] = ps[h].allowance[t]
        /\ s[m + 1].pool = h =>
             /\ s[m + 1].fn = "approve" /\ s[m + 1].token = t =>
                  ps2[h].allowance[t] = s[m + 1].amount
             /\ ~Touches(s[m + 1], t) => ps2[h].allowance[t] = ps[h].allowance[t]
    BY <2>1, <2>2, <2>3
  <2>5. Promise(ps2, s2, m + 1, h, t, a, i)
    BY <2>3, <2>4, PromiseMined
  <2>6. Promise(ps2, s2, mined', h, t, a, i)
    BY <2>3, <2>5
  <2> QED
    BY <2>6 DEF ps2, s2
<1>7. SentCovered'
  <2> SUFFICES ASSUME NEW j \in 1 .. n, NEW t \in Token
               PROVE  Promise(pools', sent', mined', sent'[j].pool, t, Needs(sent'[j])[t], j - 1)
    BY <1>1 DEF SentCovered
  <2>1. sent'[j].pool = sent[j].pool /\ Needs(sent'[j]) = Needs(sent[j])
    BY <1>5, SameNeeds DEF SameCall
  <2> DEFINE h == sent[j].pool
             a == Needs(sent[j])[t]
             i == j - 1
  <2>2. Promise(pools, sent, mined, h, t, a, i)
    BY <1>4 DEF AllowInv, SentCovered
  <2>3. h \in 0 .. MaxRuns /\ i \in 0 .. n
    BY <1>1, <1>3, TxFacts
  <2> HIDE DEF h, a, i
  <2>4. Promise(pools', sent', mined', h, t, a, i)
    BY <1>6, <2>2, <2>3
  <2> QED
    BY <2>1, <2>4 DEF h, a, i
<1>8. RunCovered'
  <2> SUFFICES ASSUME Running', NEW t \in Token
               PROVE  Promise(pools', sent', mined', Home(proc'), t,
                              Labels(proc'.script)[proc'.pc][t], Len(sent'))
    BY DEF RunCovered
  <2> DEFINE h == Home(proc)
             a == Labels(proc.script)[proc.pc][t]
  <2>1. Promise(pools, sent, mined, h, t, a, n)
    BY <1>1, <1>4 DEF AllowInv, RunCovered, Running
  <2>2. h \in 0 .. MaxRuns /\ n \in 0 .. n
    BY <1>1, <1>2, HomePool
  <2> HIDE DEF h, a
  <2>3. Promise(pools', sent', mined', h, t, a, n)
    BY <1>6, <2>1, <2>2
  <2> QED
    BY <1>1, <2>3 DEF h, a
<1> QED
  BY <1>7, <1>8

\* Others do not touch the account's allowances.
LEMMA OthersAllow ==
  ASSUME AllowInv, Others
  PROVE  SentCovered' /\ RunCovered'
<1>1. /\ pools'[0].allowance = pools[0].allowance
      /\ \A r \in 0 .. MaxRuns : r # 0 => pools'[r] = pools[r]
      /\ sent' = sent /\ mined' = mined /\ proc' = proc
  BY OthersOK DEF AllowInv, ByOthers
<1>2. \A r \in 0 .. MaxRuns : pools'[r].allowance = pools[r].allowance
  BY <1>1
<1>3. /\ mined \in Nat /\ Len(sent) \in Nat /\ Home(proc) \in 0 .. MaxRuns
      /\ \A k \in 1 .. Len(sent) : sent[k].pool \in 0 .. MaxRuns
  <2>1. TypeInv
    BY DEF AllowInv
  <2>2. \A k \in 1 .. Len(sent) : sent[k] \in TxType
    BY <2>1, CoverTypes
  <2> QED
    BY <2>1, <2>2, CoverTypes, HomePool, TxFacts
<1>4. ASSUME NEW h \in 0 .. MaxRuns, NEW t, NEW a, NEW i,
             Promise(pools, sent, mined, h, t, a, i)
      PROVE  Promise(pools', sent, mined, h, t, a, i)
  BY <1>2, <1>4 DEF Promise, UpheldBy
<1>5. SentCovered'
  <2> SUFFICES ASSUME NEW k \in 1 .. Len(sent), NEW t \in Token
               PROVE  Promise(pools', sent', mined', sent'[k].pool, t, Needs(sent'[k])[t], k - 1)
    BY <1>1 DEF SentCovered
  <2>1. Promise(pools, sent, mined, sent[k].pool, t, Needs(sent[k])[t], k - 1)
    BY DEF AllowInv, SentCovered
  <2>2. Promise(pools', sent, mined, sent[k].pool, t, Needs(sent[k])[t], k - 1)
    BY <1>3, <1>4, <2>1
  <2> QED
    BY <1>1, <2>2
<1>6. RunCovered'
  <2> SUFFICES ASSUME Running', NEW t \in Token
               PROVE  Promise(pools', sent', mined', Home(proc'), t,
                              Labels(proc'.script)[proc'.pc][t], Len(sent'))
    BY DEF RunCovered
  <2> DEFINE a == Labels(proc.script)[proc.pc][t]
  <2>1. Promise(pools, sent, mined, Home(proc), t, a, Len(sent))
    BY <1>1 DEF AllowInv, RunCovered, Running
  <2> HIDE DEF a
  <2>2. Promise(pools', sent, mined, Home(proc), t, a, Len(sent))
    BY <1>3, <1>4, <2>1
  <2> QED
    BY <1>1, <2>2 DEF a
<1> QED
  BY <1>5, <1>6

\* Every step keeps the promises.
LEMMA AllowStep ==
  ASSUME AllowInv, [Next]_vars
  PROVE  AllowInv'
<1>1. TypeInv' /\ TypeInv
  BY TypeStep DEF AllowInv
<1> SUFFICES SentCovered' /\ RunCovered'
  BY <1>1 DEF AllowInv
<1>2. ASSUME NEW script \in Script, Start(script) PROVE SentCovered' /\ RunCovered'
  BY <1>2, StartAllows
<1>3. CASE ScriptStep
  <2>1. Running
    BY <1>3 DEF ScriptStep
  <2>2. CASE DoReadClock \/ DoReadPair \/ DoReadRatio \/ DoReadIds \/ DoLookUp
    BY <1>1, <2>1, <2>2, ReadsGoOn, QuietAllows
  <2>3. CASE FailToSubmit
    BY <2>1, <2>3, QuietAllows DEF FailToSubmit
  <2>4. CASE DoWait
    BY <1>1, <2>1, <2>4, WaitGoesOn, QuietAllows DEF TypeInv, ProcOK
  <2>5. CASE DoSubmit
    BY <2>1, <2>5, SubmitAllows
  <2> QED
    BY <1>3, <2>2, <2>3, <2>4, <2>5 DEF ScriptStep
<1>4. CASE Kill
  BY <1>4, KillAllows
<1>5. ASSUME NEW delay \in Delays, Include(delay) PROVE SentCovered' /\ RunCovered'
  BY <1>5, IncludeAllows
<1>6. ASSUME NEW delay \in Delays, Pass(delay) PROVE SentCovered' /\ RunCovered'
  <2>1. pools' = pools /\ sent' = sent /\ mined' = mined /\ proc' = proc
    BY <1>6 DEF Pass
  <2> QED
    BY <2>1 DEF AllowInv, SentCovered, RunCovered, Running
<1>7. CASE Others
  BY <1>7, OthersAllow
<1>8. CASE UNCHANGED vars
  <2>1. pools' = pools /\ sent' = sent /\ mined' = mined /\ proc' = proc
    BY <1>8 DEF vars
  <2> QED
    BY <2>1 DEF AllowInv, SentCovered, RunCovered, Running
<1> QED
  BY <1>2, <1>3, <1>4, <1>5, <1>6, <1>7, <1>8 DEF Next, SomeBlock

\* Nothing is promised at first.
LEMMA AllowInit ==
  ASSUME Init
  PROVE  AllowInv
<1>1. sent = <<>> /\ proc.exit = "0"
  BY DEF Init, NoRun
<1>2. SentCovered
  <2>1. Len(sent) = 0
    BY <1>1
  <2>2. 1 .. Len(sent) = {}
    BY <2>1
  <2> QED
    BY <2>2 DEF SentCovered
<1>3. RunCovered
  BY <1>1 DEF RunCovered, Running
<1> QED
  BY <1>2, <1>3, TypeInit DEF AllowInv

\* Whatever was killed or still pends, and whatever runs after it, the next
\* transaction of the account does not fail for want of an allowance.
THEOREM AllowancesSuffice == Spec => []AllowanceCoversNext
<1>1. AllowInv => AllowanceCoversNext
  <2> SUFFICES ASSUME AllowInv, mined < Len(sent)
               PROVE  Covered(pools[sent[mined + 1].pool], sent[mined + 1])
    BY DEF AllowanceCoversNext
  <2> DEFINE x == sent[mined + 1]
             p == pools[x.pool]
             k == mined + 1
  <2>1. /\ mined \in Nat /\ Len(sent) \in Nat /\ mined <= Len(sent)
    BY CoverTypes DEF AllowInv
  <2>2. k \in 1 .. Len(sent) /\ k - 1 = mined
    BY <2>1
  <2>3. x = sent[k] /\ x \in TxType
    BY <2>2, CoverTypes DEF AllowInv
  <2>4. p \in Pool
    BY <2>3, TxFacts DEF AllowInv, TypeInv, PoolsOK, Sound
  <2>5. ASSUME NEW t \in Token PROVE Needs(x)[t] <= p.allowance[t]
    <3> DEFINE a == Needs(x)[t]
               v == p.allowance[t]
    <3>1. Promise(pools, sent, mined, x.pool, t, a, k - 1)
      BY <2>2, <2>3 DEF AllowInv, SentCovered
    <3>2. v \in Nat
      BY <2>4, PoolFacts
    <3> HIDE DEF a, v
    <3>3. CASE a = 0
      <4>1. a <= v
        BY <3>2, <3>3
      <4> QED
        BY <4>1 DEF a, v
    <3>4. CASE a # 0
      <4>1. PICK j \in 1 .. k - 1 : UpheldBy(j, pools, sent, mined, x.pool, t, a, k - 1)
        BY <3>1, <3>4 DEF Promise
      <4>2. j <= mined /\ mined <= k - 1
        BY <2>1, <2>2, <4>1
      <4>3. a <= v
        BY <4>1, <4>2 DEF UpheldBy, v
      <4> QED
        BY <4>3 DEF a, v
    <3> QED
      BY <3>3, <3>4
  <2> QED
    BY <2>5 DEF Covered
<1>2. Init => AllowInv
  BY AllowInit
<1>3. AllowInv /\ [Next]_vars => AllowInv'
  BY AllowStep
<1> QED
  BY <1>1, <1>2, <1>3, PTL DEF Spec
-----------------------------------------------------------------------------
(***************************************************************************)
(* What a script has done when it exits with 0.  The label of a place says *)
(* of how many orders, or of how many additions of ten shares or more, the *)
(* script knows that they have succeeded, and whether the transaction with *)
(* the handle "tx" is one more, of which it does not know yet.             *)
(***************************************************************************)
Kind == {"orders", "shares"}

Counts(c, x) ==
  IF c = "orders" THEN x.fn = "longTermSwapTokenToToken"
                  ELSE x.fn = "addLiquidity" /\ x.amount >= 10

Count == [done : Nat, last : {"none", "sent"}]

Counted(n) == [done |-> n, last |-> "none"]

CountDone(c, l, i, m) ==
  /\ m.last = "sent" => i.op = "submit" /\ i.tx = "tx" /\ Counts(c, i.call)
  /\ \/ m.done <= l.done
     \/ l.last = "sent" /\ i.op = "wait" /\ i.tx = "tx" /\ m.done <= l.done + 1

CountD(c) == {x \in Count \X Instr \X Count : CountDone(c, x[1], x[2], x[3])}

CountT == {x \in Count \X Instr \X Count : x[3].last = "none" /\ x[3].done <= x[1].done}

CFlow(c, a, s, b) == Flow(Count, CountD(c), CountT, Counted(a), s, Counted(b))

\* A program of which the jumps stay within it.
Shaped(s) == \E p, q : AFlow(p, s, q)

\* The label with the given count, of which nothing is sent.
LEMMA CountedOK ==
  ASSUME NEW n \in Nat
  PROVE  Counted(n) \in Count /\ Counted(n).done = n /\ Counted(n).last = "none"
BY DEF Counted, Count

\* Programs one after the other, as to successes.
LEMMA JoinCFlows ==
  ASSUME NEW c, NEW a, NEW b, NEW d, NEW s, NEW t, CFlow(c, a, s, b), CFlow(c, b, t, d)
  PROVE  CFlow(c, a, s \o t, d)
BY JoinFlows DEF CFlow

\* Whatever a program does, no success is forgotten.
LEMMA KeepsCount ==
  ASSUME NEW c, NEW n \in Nat, NEW s, Shaped(s)
  PROVE  CFlow(c, n, s, n)
<1> DEFINE len == Len(s)
           l == Counted(n)
           lab == [i \in 1 .. len + 1 |-> l]
<1>1. PICK p, q : AFlow(p, s, q)
  BY DEF Shaped
<1>2. s \in Seq(Instr) /\ len \in Nat /\ \A i \in 1 .. len : s[i] \in Instr
  BY <1>1 DEF AFlow, Flow
<1>3. PICK old : Labelled(Allowance, AllowD, AllowT, s, old)
  BY <1>1 DEF AFlow, Flow
<1>4. l \in Count /\ l.done = n /\ l.last = "none" /\ l = Counted(n)
  BY CountedOK
<1> HIDE DEF l
<1>5. \A i \in Instr : <<l, i, l>> \in CountD(c) /\ <<l, i, l>> \in CountT
  BY <1>4 DEF CountD, CountT, CountDone
<1>6. ASSUME NEW i \in 1 .. len
      PROVE  GoesOn(CountD(c), CountT, lab, s[i], i, len + 1)
  <2> DEFINE e == s[i]
             b == Bare(e)
             x == e.next
             y == e.catch
  <2>1. e \in Instr /\ x \in Nat \ {0} /\ y \in Nat
    BY <1>2 DEF Instr
  <2>2. i + x <= len + 1 /\ (y # 0 => i + y <= len + 1)
    BY <1>3 DEF Labelled, GoesOn
  <2>3. b \in Instr
    <3> HIDE DEF e
    <3>1. Redirected(e, 0, 1) \in Instr
      BY <2>1, Redirect
    <3> QED
      BY <3>1 DEF Redirected, Bare
  <2> HIDE DEF e, b, x, y
  <2>4. /\ i \in 1 .. len + 1 /\ i + x \in 1 .. len + 1
        /\ y # 0 => i + y \in 1 .. len + 1
    BY <1>2, <2>1, <2>2
  <2>5. lab[i] = l /\ lab[i + x] = l /\ (y # 0 => lab[i + y] = l)
    BY <2>4
  <2> HIDE DEF lab
  <2>6. <<lab[i], b, lab[i + x]>> \in CountD(c) /\ (y # 0 => <<lab[i], b, lab[i + y]>> \in CountT)
    BY <1>5, <2>3, <2>5
  <2> QED
    BY <2>2, <2>6 DEF GoesOn, b, x, y, e
<1>7. lab \in [1 .. len + 1 -> Count] /\ lab[1] = l /\ lab[len + 1] = l
  BY <1>2, <1>4
<1> HIDE DEF lab
<1>8. Labelled(Count, CountD(c), CountT, s, lab)
  BY <1>6, <1>7 DEF Labelled
<1> QED
  BY <1>2, <1>4, <1>7, <1>8 DEF CFlow, Flow

\* A transaction that is waited for is one success more.
LEMMA CountsOneMore ==
  ASSUME NEW c \in Kind, NEW n \in Nat, NEW call \in CallType, Counts(c, call)
  PROVE  /\ CFlow(c, n, SubmitAndWait(call), n + 1)
         /\ CFlow(c, n, SubmitWithGasAndWait(call), n + 1)
<1> DEFINE x == Counted(n)
           y == [done |-> n, last |-> "sent"]
           z == Counted(n + 1)
           w == Wait("tx")
<1>0. "tx" \in Handle /\ 0 \in Nat
  BY DEF Handle
<1>1. Reads(w) /\ w.op = "wait" /\ w.tx = "tx"
  BY <1>0, OthersRead
<1>2. /\ x \in Count /\ x.done = n /\ x.last = "none"
      /\ y \in Count /\ y.done = n /\ y.last = "sent"
      /\ z \in Count /\ z.done = n + 1 /\ z.last = "none"
      /\ x = Counted(n) /\ z = Counted(n + 1)
  BY CountedOK DEF Count
<1> HIDE DEF w, x, y, z
<1>3. ASSUME NEW i, Sends(i, call), i.tx = "tx"
      PROVE  CFlow(c, n, <<i, w>>, n + 1)
  <2>1. /\ i \in Instr /\ i.op = "submit" /\ i.call = call
        /\ i.next = 1 /\ i.catch = 0
        /\ w \in Instr /\ w.next = 1 /\ w.catch = 0
    BY <1>1, <1>3 DEF Sends, Reads
  <2>2. Bare(i) = i /\ Bare(w) = w
    BY <2>1, StraightIsBare
  <2>3. <<x, i, y>> \in CountD(c) /\ <<x, i, x>> \in CountT
    BY <1>2, <1>3, <2>1 DEF CountD, CountT, CountDone
  <2>4. <<y, w, z>> \in CountD(c) /\ <<y, w, x>> \in CountT
    BY <1>1, <1>2, <2>1 DEF CountD, CountT, CountDone
  <2>5. Line(Count, CountD(c), CountT, x, <<i>>, y, x)
    BY <1>2, <2>1, <2>2, <2>3, OneLine
  <2>6. Line(Count, CountD(c), CountT, y, <<w>>, z, x)
    BY <1>2, <2>1, <2>2, <2>4, OneLine
  <2>7. Line(Count, CountD(c), CountT, x, <<i>> \o <<w>>, z, x)
    BY <2>5, <2>6, JoinLines
  <2>8. <<i, w>> = <<i>> \o <<w>>
    BY <2>1, Split
  <2>9. Flow(Count, CountD(c), CountT, x, <<i, w>>, z)
    BY <2>7, <2>8, LineIsFlow
  <2> QED
    BY <1>2, <2>9 DEF CFlow
<1>4. /\ Sends(SubmitAs("tx", call), call) /\ SubmitAs("tx", call).tx = "tx"
      /\ Sends(WithGas(SubmitAs("tx", call)), call)
      /\ WithGas(SubmitAs("tx", call)).tx = "tx"
  BY <1>0, SubmitSends
<1> QED
  BY <1>3, <1>4 DEF SubmitAndWait, SubmitWithGasAndWait, w
-----------------------------------------------------------------------------
\* The jumps of a line stay within it.
LEMMA LineShaped ==
  ASSUME NEW p, NEW q, NEW s, ALine(p, s, q)
  PROVE  Shaped(s)
BY ALineIsAFlow DEF Shaped

\* The jumps of a call that is waited for stay within it.
LEMMA WaitsShaped ==
  ASSUME NEW t \in Token, NEW n \in Nat, NEW by \in Nat
  PROVE  /\ Shaped(SubmitAndWait(Approve(t, n)))
         /\ Shaped(SubmitAndWait(WithdrawProceeds(t, by)))
<1>1. "tx" \in Handle /\ 0 \in Nat
  BY DEF Handle
<1>2. ALine(Allowing(0, 0), SubmitAndWait(WithdrawProceeds(t, by)), Allowing(0, 0))
  <2>1. ACall(Allowing(0, 0), WithdrawProceeds(t, by), Allowing(0, 0))
    BY <1>1, AFrees
  <2> QED
    BY <1>1, <2>1, ASubmit
<1>3. CASE t = 0
  <2>1. ACall(Allowing(0, 0), Approve(0, n), Allowing(n, 0))
    BY <1>1, AApproves
  <2>2. ALine(Allowing(0, 0), SubmitAndWait(Approve(0, n)), Allowing(n, 0))
    BY <1>1, <2>1, ASubmit
  <2> QED
    BY <1>2, <1>3, <2>2, LineShaped
<1>4. CASE t = 1
  <2>1. ACall(Allowing(0, 0), Approve(1, n), Allowing(0, n))
    BY <1>1, AApproves
  <2>2. ALine(Allowing(0, 0), SubmitAndWait(Approve(1, n)), Allowing(0, n))
    BY <1>1, <2>1, ASubmit
  <2> QED
    BY <1>2, <1>4, <2>2, LineShaped
<1> QED
  BY <1>3, <1>4 DEF Token

\* The jumps of what only reads stay within it.
LEMMA ReadsShaped ==
  /\ Shaped(<<ReadClock>>) /\ Shaped(<<ReadIds>>) /\ Shaped(<<ReadPair>>)
  /\ Shaped(<<ReadIds, LookUp(1), LookUp(2)>>)
<1>1. /\ ALine(Allowing(0, 0), <<ReadClock>>, Allowing(0, 0))
      /\ ALine(Allowing(0, 0), <<ReadIds>>, Allowing(0, 0))
      /\ ALine(Allowing(0, 0), <<ReadPair>>, Allowing(0, 0))
      /\ ALine(Allowing(0, 0), <<LookUp(1)>>, Allowing(0, 0))
      /\ ALine(Allowing(0, 0), <<LookUp(2)>>, Allowing(0, 0))
  BY AReads, ALookUps
<1>2. ALine(Allowing(0, 0), <<ReadIds, LookUp(1)>>, Allowing(0, 0))
  BY <1>1, ATwo
<1>3. ALine(Allowing(0, 0), <<ReadIds, LookUp(1), LookUp(2)>>, Allowing(0, 0))
  BY <1>1, <1>2, AThree
<1> QED
  BY <1>1, <1>3, LineShaped

\* The two approvals of sample-run-goerli.js, of which none waits for the other.
LEMMA ApprovalsShaped ==
  Shaped(<<SubmitAs("tx", Approve(0, 1)), SubmitAs("tx2", Approve(1, 1)),
           Wait("tx"), Wait("tx2")>>)
<1>0. "tx" \in Handle /\ "tx2" \in Handle /\ 0 \in Nat /\ 1 \in Nat
  BY DEF Handle
<1>1. ALine(Allowing(0, 0), <<SubmitAs("tx", Approve(0, 1))>>, Allowing(1, 0))
  <2>1. ACall(Allowing(0, 0), Approve(0, 1), Allowing(1, 0))
    BY <1>0, AApproves
  <2> QED
    BY <1>0, <2>1, ASubmit
<1>2. ALine(Allowing(1, 0), <<SubmitAs("tx2", Approve(1, 1))>>, Allowing(1, 1))
  <2>1. ACall(Allowing(1, 0), Approve(1, 1), Allowing(1, 1))
    BY <1>0, AApproves
  <2> QED
    BY <1>0, <2>1, ASubmit
<1>3. /\ ALine(Allowing(1, 1), <<Wait("tx")>>, Allowing(1, 1))
      /\ ALine(Allowing(1, 1), <<Wait("tx2")>>, Allowing(1, 1))
  BY <1>0, AWaits
<1>4. ALine(Allowing(0, 0), <<SubmitAs("tx", Approve(0, 1)), SubmitAs("tx2", Approve(1, 1))>>,
            Allowing(1, 1))
  BY <1>1, <1>2, ATwo
<1>5. ALine(Allowing(0, 0), <<SubmitAs("tx", Approve(0, 1)), SubmitAs("tx2", Approve(1, 1)),
            Wait("tx")>>, Allowing(1, 1))
  BY <1>3, <1>4, AThree
<1>6. ALine(Allowing(0, 0), <<SubmitAs("tx", Approve(0, 1)), SubmitAs("tx2", Approve(1, 1)),
            Wait("tx"), Wait("tx2")>>, Allowing(1, 1))
  BY <1>3, <1>5, AFour
<1> QED
  BY <1>6, LineShaped

\* termSwap.js: two orders.
LEMMA TermSwapCounts == CFlow("orders", 0, TermSwap, 2)
<1>0. 0 \in Token /\ 1 \in Token /\ 0 \in Nat /\ 1 \in Nat /\ 10 \in Nat /\ 60 \in Nat
      /\ "orders" \in Kind
  BY DEF Token, Kind
<1> DEFINE x == LongTermSwap(0, 10, 60)
           y == LongTermSwap(1, 10, 60)
<1>1. /\ x \in CallType /\ Counts("orders", x)
      /\ y \in CallType /\ Counts("orders", y)
  BY <1>0, Calls DEF LongTermSwap, Call, Counts
<1> HIDE DEF x, y
<1> DEFINE z1 == <<ReadClock>>
           z2 == SubmitAndWait(Approve(0, 10))
           z3 == SubmitWithGasAndWait(x)
           z4 == SubmitAndWait(Approve(1, 10))
           z5 == SubmitWithGasAndWait(y)
           z6 == <<ReadIds, LookUp(1), LookUp(2)>>
<1>2. Shaped(z1) /\ Shaped(z2) /\ Shaped(z4) /\ Shaped(z6)
  BY <1>0, ReadsShaped, WaitsShaped
<1>3. CFlow("orders", 0, z3, 1)
  <2>1. CFlow("orders", 0, z3, 0 + 1)
    BY <1>0, <1>1, CountsOneMore
  <2> QED
    BY <2>1
<1>4. CFlow("orders", 1, z5, 2)
  <2>1. CFlow("orders", 1, z5, 1 + 1)
    BY <1>0, <1>1, CountsOneMore
  <2> QED
    BY <2>1
<1>5. TermSwap = z1 \o z2 \o z3 \o z4 \o z5 \o z6
  BY DEF TermSwap, x, y
<1> HIDE DEF z1, z2, z3, z4, z5, z6
<1>6. /\ CFlow("orders", 0, z1, 0) /\ CFlow("orders", 0, z2, 0)
      /\ CFlow("orders", 1, z4, 1) /\ CFlow("orders", 2, z6, 2)
  BY <1>0, <1>2, KeepsCount
<1>7. CFlow("orders", 0, z1 \o z2, 0)
  BY <1>6, JoinCFlows
<1>8. CFlow("orders", 0, z1 \o z2 \o z3, 1)
  BY <1>3, <1>7, JoinCFlows
<1>9. CFlow("orders", 0, z1 \o z2 \o z3 \o z4, 1)
  BY <1>6, <1>8, JoinCFlows
<1>10. CFlow("orders", 0, z1 \o z2 \o z3 \o z4 \o z5, 2)
  BY <1>4, <1>9, JoinCFlows
<1> QED
  BY <1>5, <1>6, <1>10, JoinCFlows

\* sample-run-goerli.js: one order, whichever way liquidity is provided.
LEMMA GoerliCounts == CFlow("orders", 0, SampleRunGoerli, 1)
<1>0. 0 \in Token /\ 0 \in Nat /\ 1 \in Nat /\ 11 \in Nat /\ "orders" \in Kind
  BY DEF Token, Kind
<1> DEFINE x == LongTermSwap(0, 1, 11)
<1>1. x \in CallType /\ Counts("orders", x)
  BY <1>0, Calls DEF LongTermSwap, Call, Counts
<1> HIDE DEF x
<1> DEFINE z1 == ProvideInSteps
           z2 == InstantSwapOf(0)
           z3 == <<SubmitAs("tx", Approve(0, 1)), SubmitAs("tx2", Approve(1, 1)),
                   Wait("tx"), Wait("tx2")>>
           z4 == SubmitWithGasAndWait(x)
           z5 == WithdrawLast(5)
<1>2. Shaped(z1) /\ Shaped(z2) /\ Shaped(z3) /\ Shaped(z5)
  BY AProvideInSteps, AInstantSwapOf, ApprovalsShaped, AWithdrawLast, LineShaped DEF Shaped
<1>3. CFlow("orders", 0, z4, 1)
  <2>1. CFlow("orders", 0, z4, 0 + 1)
    BY <1>0, <1>1, CountsOneMore
  <2> QED
    BY <2>1
<1>4. SampleRunGoerli = z1 \o z2 \o z3 \o z4 \o z5
  BY DEF SampleRunGoerli, x
<1> HIDE DEF z1, z2, z3, z4, z5
<1>5. /\ CFlow("orders", 0, z1, 0) /\ CFlow("orders", 0, z2, 0)
      /\ CFlow("orders", 0, z3, 0) /\ CFlow("orders", 1, z5, 1)
  BY <1>0, <1>2, KeepsCount
<1>6. CFlow("orders", 0, z1 \o z2, 0)
  BY <1>5, JoinCFlows
<1>7. CFlow("orders", 0, z1 \o z2 \o z3, 0)
  BY <1>5, <1>6, JoinCFlows
<1>8. CFlow("orders", 0, z1 \o z2 \o z3 \o z4, 1)
  BY <1>3, <1>7, JoinCFlows
<1> QED
  BY <1>4, <1>5, <1>8, JoinCFlows

\* sample-run-rinkeby.js: one order.
LEMMA RinkebyCounts == CFlow("orders", 0, SampleRunRinkeby, 1)
<1>0. 0 \in Token /\ 0 \in Nat /\ 1 \in Nat /\ 3 \in Nat /\ 5 \in Nat /\ "orders" \in Kind
  BY DEF Token, Kind
<1> DEFINE x == LongTermSwap(0, 1, 3)
<1>1. x \in CallType /\ Counts("orders", x)
  BY <1>0, Calls DEF LongTermSwap, Call, Counts
<1> HIDE DEF x
<1> DEFINE z1 == ProvideInSteps
           z2 == SubmitAndWait(Approve(0, 1))
           z3 == SubmitAndWait(x)
           z4 == <<ReadIds>>
           z5 == SubmitAndWait(WithdrawProceeds(0, 5))
           z6 == <<ReadPair>>
<1>2. Shaped(z1) /\ Shaped(z2) /\ Shaped(z4) /\ Shaped(z5) /\ Shaped(z6)
  BY <1>0, AProvideInSteps, WaitsShaped, ReadsShaped DEF Shaped
<1>3. CFlow("orders", 0, z3, 1)
  <2>1. CFlow("orders", 0, z3, 0 + 1)
    BY <1>0, <1>1, CountsOneMore
  <2> QED
    BY <2>1
<1>4. SampleRunRinkeby = z1 \o z2 \o z3 \o z4 \o z5 \o z6
  BY DEF SampleRunRinkeby, x
<1> HIDE DEF z1, z2, z3, z4, z5, z6
<1>5. /\ CFlow("orders", 0, z1, 0) /\ CFlow("orders", 0, z2, 0)
      /\ CFlow("orders", 1, z4, 1) /\ CFlow("orders", 1, z5, 1)
      /\ CFlow("orders", 1, z6, 1)
  BY <1>0, <1>2, KeepsCount
<1>6. CFlow("orders", 0, z1 \o z2, 0)
  BY <1>5, JoinCFlows
<1>7. CFlow("orders", 0, z1 \o z2 \o z3, 1)
  BY <1>3, <1>6, JoinCFlows
<1>8. CFlow("orders", 0, z1 \o z2 \o z3 \o z4, 1)
  BY <1>5, <1>7, JoinCFlows
<1>9. CFlow("orders", 0, z1 \o z2 \o z3 \o z4 \o z5, 1)
  BY <1>5, <1>8, JoinCFlows
<1> QED
  BY <1>4, <1>5, <1>9, JoinCFlows

\* addLiquidity.js: the shares of its last transaction.
LEMMA AddLiquidityCounts == CFlow("shares", 0, AddLiquidityScript, 1)
<1>0. 0 \in Token /\ 0 \in Nat /\ 1 \in Nat /\ 10 \in Nat /\ 100 \in Nat /\ 500 \in Nat
      /\ "shares" \in Kind
  BY DEF Token, Kind
<1> DEFINE x == AddLiquidity(10, 100)
<1>1. x \in CallType /\ Counts("shares", x)
  BY <1>0, Calls DEF AddLiquidity, Call, Counts
<1> HIDE DEF x
<1> DEFINE z1 == <<ReadClock>>
           z2 == TryCreatePair(500)
           z3 == TryInitialLiquidity(AddInitialLiquidity(10, 100))
           z4 == ApproveBoth(100)
           z5 == SubmitWithGasAndWait(x)
<1>2. Shaped(z1) /\ Shaped(z2) /\ Shaped(z3) /\ Shaped(z4)
  <2>1. AFlow(Allowing(0, 0), z2, Allowing(0, 0)) /\ AFlow(Allowing(0, 0), z3, Allowing(0, 0))
    BY <1>0, ATryCreatePair, ATryInitialLiquidity
  <2>2. ALine(Allowing(0, 0), z4, Allowing(100, 100))
    BY <1>0, AApproveBoth
  <2> QED
    BY <2>1, <2>2, ReadsShaped, LineShaped DEF Shaped
<1>3. CFlow("shares", 0, z5, 1)
  <2>1. CFlow("shares", 0, z5, 0 + 1)
    BY <1>0, <1>1, CountsOneMore
  <2> QED
    BY <2>1
<1>4. AddLiquidityScript = z1 \o z2 \o z3 \o z4 \o z5
  BY DEF AddLiquidityScript, x
<1> HIDE DEF z1, z2, z3, z4, z5
<1>5. /\ CFlow("shares", 0, z1, 0) /\ CFlow("shares", 0, z2, 0)
      /\ CFlow("shares", 0, z3, 0) /\ CFlow("shares", 0, z4, 0)
  BY <1>0, <1>2, KeepsCount
<1>6. CFlow("shares", 0, z1 \o z2, 0)
  BY <1>5, JoinCFlows
<1>7. CFlow("shares", 0, z1 \o z2 \o z3, 0)
  BY <1>5, <1>6, JoinCFlows
<1>8. CFlow("shares", 0, z1 \o z2 \o z3 \o z4, 0)
  BY <1>5, <1>7, JoinCFlows
<1> QED
  BY <1>3, <1>4, <1>8, JoinCFlows

\* How much of each kind a script has done at its end.
Due(c, script) ==
  IF c = "orders"
  THEN IF script = "TermSwap" THEN 2
       ELSE IF script \in {"SampleRunGoerli", "SampleRunRinkeby"} THEN 1 ELSE 0
  ELSE IF script = "AddLiquidity" THEN 1 ELSE 0

\* The count of each script at its end.
LEMMA ScriptsCount ==
  ASSUME NEW c \in Kind, NEW script \in Script
  PROVE  CFlow(c, 0, Program[script], Due(c, script))
<1>1. Shaped(Program[script])
  BY ScriptsApprove DEF Shaped
<1>2. CFlow(c, 0, Program[script], 0)
  BY <1>1, KeepsCount
<1>3. /\ Program["TermSwap"] = TermSwap /\ Program["SampleRunGoerli"] = SampleRunGoerli
      /\ Program["SampleRunRinkeby"] = SampleRunRinkeby
      /\ Program["AddLiquidity"] = AddLiquidityScript
  BY DEF Program
<1>4. CASE c = "orders" /\ script = "TermSwap"
  BY <1>3, <1>4, TermSwapCounts DEF Due
<1>5. CASE c = "orders" /\ script = "SampleRunGoerli"
  BY <1>3, <1>5, GoerliCounts DEF Due
<1>6. CASE c = "orders" /\ script = "SampleRunRinkeby"
  BY <1>3, <1>6, RinkebyCounts DEF Due
<1>7. CASE c = "shares" /\ script = "AddLiquidity"
  BY <1>3, <1>7, AddLiquidityCounts DEF Due
<1>8. CASE Due(c, script) = 0
  BY <1>2, <1>8
<1> QED
  BY <1>4, <1>5, <1>6, <1>7, <1>8 DEF Kind, Due
-----------------------------------------------------------------------------
\* What the account has in a pool, and what each success adds to it.
Worth(c, p) == IF c = "orders" THEN Cardinality(Own(p)) ELSE p.shares

Unit(c) == IF c = "orders" THEN 1 ELSE 10

\* Orders of the account stay its orders.
SameOwners(p, q) ==
  /\ Len(p.orders) <= Len(q.orders)
  /\ \A i \in 1 .. Len(p.orders) : q.orders[i].mine = p.orders[i].mine

\* The account's orders are finitely many.
LEMMA OwnFinite ==
  ASSUME NEW p \in Pool
  PROVE  /\ IsFiniteSet(Own(p)) /\ Cardinality(Own(p)) \in Nat
         /\ Own(p) = {i \in 1 .. Len(p.orders) : p.orders[i].mine}
<1>1. p.orders \in Seq(OrderType) /\ Len(p.orders) \in Nat
  BY PoolFacts
<1>2. Own(p) = {i \in 1 .. Len(p.orders) : p.orders[i].mine}
  BY <1>1 DEF Own
<1>3. IsFiniteSet(1 .. Len(p.orders)) /\ Own(p) \subseteq 1 .. Len(p.orders)
  BY <1>1, <1>2, FS_Interval
<1>4. IsFiniteSet(Own(p))
  BY <1>3, FS_Subset
<1> QED
  BY <1>2, <1>4, FS_CardinalityType

\* Orders that are kept or added do not get fewer.
LEMMA OwnGrows ==
  ASSUME NEW p \in Pool, NEW q \in Pool, SameOwners(p, q)
  PROVE  /\ Cardinality(Own(q)) >= Cardinality(Own(p))
         /\ Len(q.orders) = Len(p.orders) + 1 /\ q.orders[Len(p.orders) + 1].mine =>
              Cardinality(Own(q)) >= Cardinality(Own(p)) + 1
<1> DEFINE a == Own(p)
           b == Own(q)
           n == Len(p.orders)
           m == Len(q.orders)
<1>1. /\ IsFiniteSet(a) /\ Cardinality(a) \in Nat /\ IsFiniteSet(b) /\ Cardinality(b) \in Nat
      /\ a = {i \in 1 .. n : p.orders[i].mine}
      /\ b = {i \in 1 .. m : q.orders[i].mine}
      /\ n \in Nat /\ m \in Nat
  BY OwnFinite, PoolFacts
<1>2. n <= m /\ \A i \in 1 .. n : q.orders[i].mine = p.orders[i].mine
  BY DEF SameOwners
<1> HIDE DEF a, b, n, m
<1>3. a \subseteq b
  <2> SUFFICES ASSUME NEW i \in a PROVE i \in b
    OBVIOUS
  <2>1. i \in 1 .. n /\ p.orders[i].mine
    BY <1>1
  <2>2. i \in 1 .. m
    BY <1>1, <1>2, <2>1
  <2>3. q.orders[i].mine = p.orders[i].mine
    BY <1>2, <2>1
  <2>4. q.orders[i].mine
    BY <2>1, <2>3, Zenon
  <2> QED
    BY <1>1, <2>2, <2>4, Zenon
<1>4. Cardinality(a) <= Cardinality(b)
  BY <1>1, <1>3, FS_Subset
<1>5. ASSUME m = n + 1, q.orders[n + 1].mine
      PROVE  Cardinality(b) >= Cardinality(a) + 1
  <2>1. n + 1 \in 1 .. m /\ n + 1 \notin 1 .. n
    BY <1>1, <1>5
  <2>2. n + 1 \in b
    BY <1>1, <1>5, <2>1, Zenon
  <2>3. n + 1 \notin a
    BY <1>1, <2>1, Zenon
  <2>4. IsFiniteSet(a \cup {n + 1}) /\ Cardinality(a \cup {n + 1}) = Cardinality(a) + 1
    BY <1>1, <2>3, FS_AddElement
  <2>5. a \cup {n + 1} \subseteq b
    BY <1>3, <2>2
  <2>6. Cardinality(a \cup {n + 1}) <= Cardinality(b)
    BY <1>1, <2>5, FS_Subset
  <2> QED
    BY <1>1, <2>4, <2>6
<1> QED
  BY <1>1, <1>4, <1>5 DEF a, b, n, m

\* Only a withdrawal of liquidity takes shares.
LEMMA SharesAfter ==
  ASSUME NEW p, Sound(p), NEW x \in TxType, NEW now, Accepts(p, x, now)
  PROVE  /\ x.fn # "withdrawLiquidity" => Effect(p, x).shares >= p.shares
         /\ x.fn = "addLiquidity" => Effect(p, x).shares = p.shares + x.amount
<1>1. p \in Pool /\ p.shares \in Nat /\ p.supply \in Nat
  BY PoolFacts DEF Sound
<1>2. x.fn \in Fns /\ x.amount \in Nat
  BY TxFacts
<1>3. Covered(p, x)
  BY DEF Accepts, AcceptsIf
<1>4. CASE x.fn = "deploy"
  <2>1. Effect(p, x) = p
    BY <1>4, EffectOf
  <2> QED
    BY <1>1, <1>4, <2>1
<1>5. CASE x.fn = "approve"
  <2> DEFINE a == [p.allowance EXCEPT ![x.token] = x.amount]
             q == [p EXCEPT !.allowance = a]
  <2>1. Effect(p, x) = q
    BY <1>5, EffectOfApprove
  <2> HIDE DEF a
  <2>2. q.shares = p.shares
    BY <1>1 DEF Pool
  <2> HIDE DEF q
  <2> QED
    BY <1>1, <1>5, <2>1, <2>2
<1>6. CASE x.fn = "createPairWrapper"
  <2>1. Effect(p, x) = Created(p) /\ Created(p).shares = p.shares
    BY <1>1, <1>6, EffectOf, CreatedOK
  <2> QED
    BY <1>1, <1>6, <2>1
<1>7. CASE x.fn \in {"addInitialLiquidity", "addInitialLiquidityETH"}
  <2> DEFINE c == Created(p)
             d == Spent(c, x)
             n == x.amount
             m == d.shares + x.amount
             q == WithShares(d, n, m)
  <2>1. Effect(p, x) = q
    BY <1>7, EffectOf DEF WithShares
  <2>2. c \in Pool /\ c.shares = p.shares /\ c.allowance = p.allowance
    BY <1>1, CreatedOK
  <2> HIDE DEF c
  <2>3. Covered(c, x)
    BY <1>3, <2>2 DEF Covered
  <2>4. d \in Pool /\ d.shares = c.shares
    BY <1>2, <2>2, <2>3, SpentOK
  <2> HIDE DEF d
  <2>5. m >= p.shares
    BY <1>1, <1>2, <2>2, <2>4
  <2> HIDE DEF n, m
  <2>6. q.shares = m
    BY <2>4 DEF WithShares, Pool
  <2> QED
    BY <1>7, <2>1, <2>5, <2>6
<1>8. CASE x.fn = "addLiquidity"
  <2> DEFINE c == Spent(p, x)
             d == Executed(c)
             n == d.supply + x.amount
             m == d.shares + x.amount
             q == WithShares(d, n, m)
  <2>1. Effect(p, x) = q
    BY <1>8, EffectOf DEF WithShares
  <2>2. c \in Pool /\ c.shares = p.shares
    BY <1>1, <1>2, <1>3, SpentOK
  <2> HIDE DEF c
  <2>3. d \in Pool /\ d.shares = c.shares
    BY <2>2, ExecutedOK
  <2> HIDE DEF d
  <2>4. m = p.shares + x.amount /\ m >= p.shares
    BY <1>1, <1>2, <2>2, <2>3
  <2> HIDE DEF n, m
  <2>5. q.shares = m
    BY <2>3 DEF WithShares, Pool
  <2> QED
    BY <2>1, <2>4, <2>5
<1>9. CASE x.fn = "instantSwapTokenToToken"
  <2> DEFINE c == Spent(p, x)
             d == Executed(c)
             n == d.price + 1
             q == [d EXCEPT !.price = n]
  <2>1. Effect(p, x) = q
    BY <1>9, EffectOf
  <2>2. c \in Pool /\ c.shares = p.shares
    BY <1>1, <1>2, <1>3, SpentOK
  <2> HIDE DEF c
  <2>3. d \in Pool /\ d.shares = c.shares
    BY <2>2, ExecutedOK
  <2> HIDE DEF d, n
  <2>4. q.shares = d.shares
    BY <2>3 DEF Pool
  <2> QED
    BY <1>1, <1>9, <2>1, <2>2, <2>3, <2>4
<1>10. CASE x.fn = "longTermSwapTokenToToken"
  <2> DEFINE c == Spent(p, x)
             d == Executed(c)
             os == Append(Executed(Spent(p, x)).orders,
                          [mine |-> TRUE, sells |-> x.token, state |-> "open"])
             q == [d EXCEPT !.orders = os]
  <2>1. os = Append(Executed(Spent(p, x)).orders,
                    [mine |-> TRUE, sells |-> x.token, state |-> "open"])
    OBVIOUS
  <2> HIDE DEF os
  <2>2. Effect(p, x) = q
    BY <1>10, <2>1, EffectOfOrder
  <2>3. c \in Pool /\ c.shares = p.shares
    BY <1>1, <1>2, <1>3, SpentOK
  <2> HIDE DEF c
  <2>4. d \in Pool /\ d.shares = c.shares
    BY <2>3, ExecutedOK
  <2> HIDE DEF d
  <2>5. q.shares = d.shares
    BY <2>4 DEF Pool
  <2> QED
    BY <1>1, <1>10, <2>2, <2>3, <2>4, <2>5
<1>11. CASE TakesOrder(x)
  <2> DEFINE d == Executed(p)
             os == [Executed(p).orders EXCEPT
                     ![x.id + 1] = Taken(x, Executed(p).orders[x.id + 1])]
             q == [d EXCEPT !.orders = os]
  <2>1. Effect(p, x) = q
    BY <1>11, EffectOfTaking
  <2>2. d \in Pool /\ d.shares = p.shares
    BY <1>1, ExecutedOK
  <2> HIDE DEF d, os
  <2>3. q.shares = d.shares
    BY <2>2 DEF Pool
  <2>4. x.fn # "addLiquidity"
    BY <1>11 DEF TakesOrder, Fn
  <2> QED
    BY <1>1, <2>1, <2>2, <2>3, <2>4
<1>12. CASE x.fn = "executeVirtualOrdersWrapper"
  <2>1. Effect(p, x) = Executed(p) /\ Executed(p).shares = p.shares
    BY <1>1, <1>12, EffectOf, ExecutedOK
  <2> QED
    BY <1>1, <1>12, <2>1
<1>13. CASE x.fn = "withdrawLiquidity"
  BY <1>13
<1> QED
  BY <1>2, <1>4, <1>5, <1>6, <1>7, <1>8, <1>9, <1>10, <1>11, <1>12, <1>13
  DEF Fns, TakesOrder, Fn

\* An order that is placed is one of the account.
LEMMA OrdersAfter ==
  ASSUME NEW p, Sound(p), NEW x \in TxType, NEW now, Accepts(p, x, now),
         x.fn = "longTermSwapTokenToToken"
  PROVE  /\ Len(Effect(p, x).orders) = Len(p.orders) + 1
         /\ Effect(p, x).orders[Len(p.orders) + 1].mine
<1> DEFINE c == Spent(p, x)
           d == Executed(c)
           o == [mine |-> TRUE, sells |-> x.token, state |-> "open"]
           os == Append(d.orders, o)
           q == [d EXCEPT !.orders = os]
<1>1. /\ p \in Pool /\ p.orders \in Seq(OrderType) /\ Len(p.orders) \in Nat
      /\ x.amount \in Nat /\ x.token \in Token /\ Covered(p, x)
  BY PoolFacts, TxFacts DEF Sound, Accepts, AcceptsIf
<1>2. os = Append(Executed(Spent(p, x)).orders,
                  [mine |-> TRUE, sells |-> x.token, state |-> "open"])
  OBVIOUS
<1>3. Effect(p, x) = q
  <2> HIDE DEF os
  <2>1. Effect(p, x) = [Executed(Spent(p, x)) EXCEPT !.orders = os]
    BY <1>2, EffectOfOrder
  <2> QED
    BY <2>1
<1>4. c \in Pool /\ c.orders = p.orders
  BY <1>1, SpentOK
<1> HIDE DEF c
<1>5. d \in Pool /\ d.orders = c.orders
  BY <1>4, ExecutedOK
<1> HIDE DEF d
<1>6. o \in OrderType /\ o.mine
  BY <1>1 DEF OrderType, OrderState
<1> HIDE DEF o
<1>7. Len(os) = Len(p.orders) + 1 /\ os[Len(p.orders) + 1] = o
  BY <1>1, <1>4, <1>5, <1>6, AppendProperties
<1> HIDE DEF os
<1>8. q.orders = os
  BY <1>5 DEF Pool
<1> HIDE DEF q
<1>9. Len(Effect(p, x).orders) = Len(p.orders) + 1 /\ Effect(p, x).orders[Len(p.orders) + 1] = o
  BY <1>3, <1>7, <1>8
<1> QED
  BY <1>6, <1>9, Zenon

\* What a transaction does to what the account has.
LEMMA WorthAfter ==
  ASSUME NEW c \in Kind, NEW p, Sound(p), NEW x \in TxType, NEW now,
         NEW ok \in Outcomes(p, x, now),
         x.exact => x.fn = "addLiquidity", c = "shares" => x.fn # "withdrawLiquidity"
  PROVE  /\ Worth(c, Apply(p, x, ok)) >= Worth(c, p)
         /\ ok /\ Counts(c, x) =>
              Worth(c, Apply(p, x, ok)) >= Worth(c, p) + Unit(c)
<1> DEFINE q == Apply(p, x, ok)
<1>1. Changes(p, q, x)
  BY ApplyOK
<1>2. p \in Pool /\ q \in Pool /\ SameOwners(p, q)
  <2> HIDE DEF q
  <2> QED
    BY <1>1 DEF Changes, Sound, KeepsOrders, SameOwners
<1>3. p.shares \in Nat /\ x.amount \in Nat
  BY <1>2, PoolFacts, TxFacts
<1>4. /\ ok => Accepts(p, x, now) /\ q = Effect(p, x)
      /\ ~ok => q = p
  BY OutcomeOK DEF Apply
<1> HIDE DEF q
<1>5. CASE c = "orders"
  <2>1. Cardinality(Own(q)) >= Cardinality(Own(p))
    BY <1>2, OwnGrows
  <2>2. ASSUME ok, Counts(c, x)
        PROVE  Cardinality(Own(q)) >= Cardinality(Own(p)) + 1
    <3>1. x.fn = "longTermSwapTokenToToken"
      BY <1>5, <2>2 DEF Counts
    <3>2. Len(q.orders) = Len(p.orders) + 1 /\ q.orders[Len(p.orders) + 1].mine
      BY <1>4, <2>2, <3>1, OrdersAfter
    <3> QED
      BY <1>2, <3>2, OwnGrows
  <2> QED
    BY <1>5, <2>1, <2>2 DEF Worth, Unit, q
<1>6. CASE c = "shares"
  <2>1. q.shares >= p.shares
    BY <1>3, <1>4, <1>6, SharesAfter
  <2>2. ASSUME ok, Counts(c, x)
        PROVE  q.shares >= p.shares + 10
    <3>1. x.fn = "addLiquidity" /\ x.amount >= 10
      BY <1>6, <2>2 DEF Counts
    <3>2. q.shares = p.shares + x.amount
      BY <1>4, <2>2, <3>1, SharesAfter
    <3> QED
      BY <1>3, <3>1, <3>2
  <2> QED
    BY <1>6, <2>1, <2>2 DEF Worth, Unit, q
<1> QED
  BY <1>5, <1>6 DEF Kind
-----------------------------------------------------------------------------
\* A script that takes no liquidity out of the pool.
NeverWithdraws(script) ==
  \A i \in 1 .. Len(Program[script]) : Program[script][i].call.fn # "withdrawLiquidity"

\* Scripts that are started over pending transactions take out no liquidity.
KeepsLiquidity ==
  "hurry" \in Events =>
    \A p \in Pool : \A script \in Runnable(p) \cap Script : NeverWithdraws(script)

\* In a run of this script, nothing that is still to be mined takes liquidity out.
Keeps(script) == "hurry" \in Events \/ NeverWithdraws(script)

CountLabels(c, script) ==
  CHOOSE lab : /\ Labelled(Count, CountD(c), CountT, Program[script], lab)
               /\ lab[1] = Counted(0)
               /\ lab[Len(Program[script]) + 1] = Counted(Due(c, script))

\* The successes of run r among the first m of the transactions s.
Oks(s, m, r, c) == {k \in 1 .. m : s[k].run = r /\ s[k].status = "ok" /\ Counts(c, s[k])}

\* What the script knows at its place is so.
Known(s, m, p, c) ==
  LET l == CountLabels(c, p.script)[p.pc]
      ok == Oks(s, m, p.run, c)
      t == p.tx["tx"] IN
    /\ l.last = "none" => Cardinality(ok) >= l.done
    /\ l.last = "sent" => /\ t \in 1 .. Len(s) /\ s[t].run = p.run /\ Counts(c, s[t])
                          /\ Cardinality(ok \ {t}) >= l.done

ByItsRun(s, p) ==
  \A k \in 1 .. Len(s) : s[k].run <= p.run /\ (s[k].run = p.run => s[k].pool = Home(p))

AtEnd(p) ==
  p.exit = "0" /\ p.script # "none" =>
    p.script \in Script /\ p.pc = Len(Program[p.script]) + 1

OnItsWay(p) == p.exit = "running" \/ (p.exit = "0" /\ p.script # "none")

\* What the account has, it had or it is from a success of the run.
Earned(p, q, s, m, pr) ==
  \A c \in Kind : (c = "shares" => Keeps(pr.script)) =>
    Worth(c, q) >= Worth(c, p) + Unit(c) * Cardinality(Oks(s, m, pr.run, c))

NoneWithdrawn(s, m, p) ==
  /\ Keeps(p.script) => \A k \in m + 1 .. Len(s) : s[k].fn # "withdrawLiquidity"
  /\ p.exit = "running" /\ "hurry" \in Events => NeverWithdraws(p.script)

DoneInv ==
  /\ TypeInv
  /\ before \in Pool
  /\ ByItsRun(sent, proc)
  /\ NoneWithdrawn(sent, mined, proc)
  /\ AtEnd(proc)
  /\ Earned(before, ScriptPool, sent, mined, proc)
  /\ OnItsWay(proc) => \A c \in Kind : Known(sent, mined, proc, c)

\* The labels of a script exist.
LEMMA CountLabelsOK ==
  ASSUME NEW c \in Kind, NEW script \in Script
  PROVE  /\ Labelled(Count, CountD(c), CountT, Program[script], CountLabels(c, script))
         /\ CountLabels(c, script)[1] = Counted(0)
         /\ CountLabels(c, script)[Len(Program[script]) + 1] = Counted(Due(c, script))
<1> DEFINE P(lab) == /\ Labelled(Count, CountD(c), CountT, Program[script], lab)
                     /\ lab[1] = Counted(0)
                     /\ lab[Len(Program[script]) + 1] = Counted(Due(c, script))
<1>1. \E lab : P(lab)
  BY ScriptsCount DEF CFlow, Flow
<1>2. CountLabels(c, script) = CHOOSE lab : P(lab)
  BY DEF CountLabels
<1> HIDE DEF P
<1>3. P(CountLabels(c, script))
  BY <1>1, <1>2
<1> QED
  BY <1>3 DEF P

\* What an instruction leaves of the count, when done or thrown.
LEMMA CountPlace ==
  ASSUME InProgram, Running, NEW c \in Kind
  PROVE  LET lab == CountLabels(c, proc.script)
             at == proc.pc IN
           /\ lab[at] \in Count /\ lab[at + I.next] \in Count
           /\ CountDone(c, lab[at], I, lab[at + I.next])
           /\ I.catch # 0 => /\ lab[at + I.catch] \in Count
                             /\ lab[at + I.catch].last = "none"
                             /\ lab[at + I.catch].done <= lab[at].done
<1> DEFINE lab == CountLabels(c, proc.script)
           at == proc.pc
           s == Program[proc.script]
           n == I.next
           m == I.catch
<1>1. /\ proc.script \in Script /\ at \in 1 .. Len(s) /\ Len(s) \in Nat
      /\ I \in Instr /\ n \in Nat \ {0} /\ m \in Nat
      /\ at + n <= Len(s) + 1
      /\ m # 0 => at + m <= Len(s) + 1
  BY InstructionOK
<1>2. Labelled(Count, CountD(c), CountT, s, lab)
  BY <1>1, CountLabelsOK
<1>3. I = s[at]
  BY DEF I
<1> HIDE DEF lab, s
<1>4. lab \in [1 .. Len(s) + 1 -> Count] /\ GoesOn(CountD(c), CountT, lab, I, at, Len(s) + 1)
  BY <1>1, <1>2, <1>3 DEF Labelled
<1>5. /\ <<lab[at], Bare(I), lab[at + n]>> \in CountD(c)
      /\ m # 0 => <<lab[at], Bare(I), lab[at + m]>> \in CountT
  BY <1>4 DEF GoesOn
<1>6. Bare(I).op = I.op /\ Bare(I).call = I.call /\ Bare(I).tx = I.tx
  BY <1>1 DEF Bare, Instr
<1> HIDE DEF at, n, m
<1>7. /\ at \in 1 .. Len(s) + 1 /\ at + n \in 1 .. Len(s) + 1
      /\ m # 0 => at + m \in 1 .. Len(s) + 1
  BY <1>1
<1>8. /\ lab[at] \in Count /\ lab[at + n] \in Count
      /\ m # 0 => lab[at + m] \in Count
  BY <1>4, <1>7
<1>9. CountDone(c, lab[at], Bare(I), lab[at + n])
  BY <1>5 DEF CountD
<1>10. CountDone(c, lab[at], I, lab[at + n])
  BY <1>6, <1>9 DEF CountDone
<1>11. m # 0 => lab[at + m].last = "none" /\ lab[at + m].done <= lab[at].done
  BY <1>5 DEF CountT
<1> QED
  BY <1>8, <1>10, <1>11 DEF lab, at, n, m

\* The successes of a run are finitely many.
LEMMA OksFinite ==
  ASSUME NEW s, NEW m \in Nat, NEW r, NEW c, NEW t
  PROVE  /\ Cardinality(Oks(s, m, r, c)) \in Nat
         /\ Cardinality(Oks(s, m, r, c) \ {t}) \in Nat
         /\ Cardinality(Oks(s, m, r, c) \ {t}) <= Cardinality(Oks(s, m, r, c))
         /\ t \in Oks(s, m, r, c) =>
              Cardinality(Oks(s, m, r, c) \ {t}) < Cardinality(Oks(s, m, r, c))
<1> DEFINE o == Oks(s, m, r, c)
<1>1. o \subseteq 1 .. m
  BY DEF Oks
<1> HIDE DEF o
<1>2. IsFiniteSet(1 .. m)
  BY FS_Interval
<1>3. IsFiniteSet(o)
  BY <1>1, <1>2, FS_Subset
<1>4. Cardinality(o) \in Nat
  BY <1>3, FS_CardinalityType
<1>5. /\ Cardinality(o \ {t}) \in Nat
      /\ Cardinality(o \ {t}) <= Cardinality(o)
      /\ t \in o => Cardinality(o \ {t}) < Cardinality(o)
  <2>1. IsFiniteSet(o \ {t})
    BY <1>3, FS_Subset
  <2>2. Cardinality(o \ {t}) \in Nat
    BY <2>1, FS_CardinalityType
  <2>3. CASE t \in o
    <3>1. Cardinality(o \ {t}) = Cardinality(o) - 1
      BY <1>3, <2>3, FS_RemoveElement
    <3> QED
      BY <1>4, <2>1, <2>2, <3>1
  <2>4. CASE t \notin o
    <3>1. o \ {t} = o
      BY <2>4
    <3> QED
      BY <1>4, <2>1, <2>2, <2>4, <3>1
  <2> QED
    BY <2>3, <2>4
<1> QED
  BY <1>4, <1>5 DEF o

\* An instruction that is done: the script goes on or exits with 0.
LEMMA DoneOnWay ==
  ASSUME TypeInv, Running, NEW p \in ProcType, p.script = proc.script, p.pc = proc.pc,
         p.run = proc.run, p.exit = proc.exit, proc' = Done(p)
  PROVE  /\ proc'.script = proc.script /\ proc'.run = proc.run /\ Home(proc') = Home(proc)
         /\ proc'.tx = p.tx /\ proc'.pc = proc.pc + I.next /\ AtEnd(proc')
         /\ proc'.script \in Script
<1>1. /\ proc.script \in Script /\ proc.pc \in 1 .. Len(Program[proc.script])
      /\ I \in Instr /\ I.next \in Nat \ {0}
      /\ proc.pc + I.next <= Len(Program[proc.script]) + 1
      /\ Len(Program[proc.script]) \in Nat
  BY InstructionOK DEF TypeInv, ProcOK
<1>2. GoesTo(p, proc', I.next)
  BY <1>1, DoneOK
<1> DEFINE n == I.next
           len == Len(Program[proc.script])
<1>3. /\ n \in Nat \ {0} /\ len \in Nat /\ proc.pc \in 1 .. len /\ proc.pc + n <= len + 1
      /\ GoesTo(p, proc', n) /\ len = Len(Program[p.script])
  BY <1>1, <1>2
<1>4. n = I.next /\ len = Len(Program[proc.script])
  OBVIOUS
<1> HIDE DEF n, len
<1>5. /\ proc'.tx = p.tx /\ proc'.script = proc.script /\ proc'.run = proc.run
      /\ proc'.pc = proc.pc + n
      /\ proc'.exit = IF proc.pc + n > len THEN "0" ELSE "running"
  BY <1>3 DEF GoesTo, Running
<1>6. proc'.exit = "0" => proc'.pc = len + 1
  BY <1>3, <1>5
<1> QED
  BY <1>1, <1>4, <1>5, <1>6 DEF AtEnd, Home

\* An error: the script ends with it, or goes on in the handler.
LEMMA ThrowOnWay ==
  ASSUME TypeInv, Running, proc' = Throw(proc)
  PROVE  /\ proc'.script = proc.script /\ proc'.run = proc.run /\ Home(proc') = Home(proc)
         /\ proc'.tx = proc.tx /\ AtEnd(proc')
         /\ OnItsWay(proc') => /\ I.catch # 0 /\ proc'.pc = proc.pc + I.catch
<1>1. /\ proc.script \in Script /\ proc.pc \in 1 .. Len(Program[proc.script])
      /\ I \in Instr /\ I.catch \in Nat
      /\ I.catch # 0 => proc.pc + I.catch <= Len(Program[proc.script]) + 1
      /\ Len(Program[proc.script]) \in Nat
      /\ proc \in ProcType
  BY InstructionOK DEF TypeInv, ProcOK
<1>2. CASE I.catch = 0
  <2>1. /\ proc'.exit = "1" /\ proc'.script = proc.script /\ proc'.run = proc.run
        /\ proc'.tx = proc.tx
    BY <1>1, <1>2, ThrowOK
  <2> QED
    BY <2>1 DEF AtEnd, OnItsWay, Home
<1>3. CASE I.catch # 0
  <2> DEFINE n == I.catch
             len == Len(Program[proc.script])
  <2>1. GoesTo(proc, proc', I.catch)
    BY <1>1, <1>3, ThrowOK
  <2>2. /\ n \in Nat /\ len \in Nat /\ proc.pc \in 1 .. len /\ proc.pc + n <= len + 1
        /\ GoesTo(proc, proc', n) /\ len = Len(Program[proc.script]) /\ n = I.catch
    BY <1>1, <1>3, <2>1
  <2> HIDE DEF n, len
  <2>3. /\ proc'.tx = proc.tx /\ proc'.script = proc.script /\ proc'.run = proc.run
        /\ proc'.pc = proc.pc + n
        /\ proc'.exit = IF proc.pc + n > len THEN "0" ELSE "running"
    BY <2>2 DEF GoesTo, Running
  <2>4. proc'.exit = "0" => proc'.pc = len + 1
    BY <2>2, <2>3
  <2> QED
    BY <1>1, <1>3, <2>2, <2>3, <2>4 DEF AtEnd, Home
<1> QED
  BY <1>2, <1>3
-----------------------------------------------------------------------------
\* There are at least as many successes as the script counts at its place.
LEMMA AtLeast ==
  ASSUME NEW c, NEW s, NEW m \in Nat, NEW p, Known(s, m, p, c),
         CountLabels(c, p.script)[p.pc] \in Count
  PROVE  Cardinality(Oks(s, m, p.run, c)) >= CountLabels(c, p.script)[p.pc].done
<1> DEFINE l == CountLabels(c, p.script)[p.pc]
           ok == Oks(s, m, p.run, c)
           t == p.tx["tx"]
<1>1. /\ l.last = "none" => Cardinality(ok) >= l.done
      /\ l.last = "sent" => Cardinality(ok \ {t}) >= l.done
  BY DEF Known
<1>2. l.done \in Nat /\ l.last \in {"none", "sent"}
  BY DEF Count
<1>3. /\ Cardinality(ok) \in Nat /\ Cardinality(ok \ {t}) \in Nat
      /\ Cardinality(ok \ {t}) <= Cardinality(ok)
  BY OksFinite
<1> HIDE DEF l, ok, t
<1>4. Cardinality(ok) >= l.done
  BY <1>1, <1>2, <1>3
<1> QED
  BY <1>4 DEF l, ok

\* What the script knows after an instruction that sends nothing.
LEMMA QuietKnows ==
  ASSUME DoneInv, Running, NEW c \in Kind, NEW q,
         q.script = proc.script, q.run = proc.run, q.tx = proc.tx,
         \/ I.catch # 0 /\ q.pc = proc.pc + I.catch
         \/ /\ q.pc = proc.pc + I.next /\ I.op # "submit"
            /\ I.op = "wait" => /\ proc.tx[I.tx] <= mined
                                /\ sent[proc.tx[I.tx]].status = "ok"
  PROVE  Known(sent, mined, q, c)
<1> DEFINE lab == CountLabels(c, proc.script)
           l == lab[proc.pc]
           k == lab[q.pc]
           ok == Oks(sent, mined, proc.run, c)
           t == proc.tx["tx"]
<1>1. TypeInv /\ InProgram /\ mined \in Nat /\ Len(sent) \in Nat
  BY CoverTypes DEF DoneInv, TypeInv, ProcOK
<1>2. Known(sent, mined, proc, c)
  BY DEF DoneInv, OnItsWay, Running
<1>3. /\ l \in Count
      /\ lab[proc.pc + I.next] \in Count
      /\ CountDone(c, l, I, lab[proc.pc + I.next])
      /\ I.catch # 0 => /\ lab[proc.pc + I.catch] \in Count
                        /\ lab[proc.pc + I.catch].last = "none"
                        /\ lab[proc.pc + I.catch].done <= l.done
  BY <1>1, CountPlace
<1>4. Cardinality(ok) >= l.done
  BY <1>1, <1>2, <1>3, AtLeast
<1>5. l.last = "sent" => /\ t \in 1 .. Len(sent) /\ sent[t].run = proc.run /\ Counts(c, sent[t])
                         /\ Cardinality(ok \ {t}) >= l.done
  BY <1>2 DEF Known
<1>6. l.done \in Nat
  BY <1>3 DEF Count
<1>7. /\ Cardinality(ok) \in Nat /\ Cardinality(ok \ {t}) \in Nat
      /\ t \in ok => Cardinality(ok \ {t}) < Cardinality(ok)
  BY <1>1, OksFinite
<1>8. k.last = "none" /\ k.done \in Nat /\ Cardinality(ok) >= k.done
  <2>1. CASE I.catch # 0 /\ q.pc = proc.pc + I.catch
    <3>1. k \in Count /\ k.last = "none" /\ k.done <= l.done
      BY <1>3, <2>1
    <3>2. k.done \in Nat
      BY <3>1 DEF Count
    <3> HIDE DEF l, k, ok
    <3> QED
      BY <1>4, <1>6, <1>7, <3>1, <3>2
  <2>2. CASE /\ q.pc = proc.pc + I.next /\ I.op # "submit"
             /\ I.op = "wait" => /\ proc.tx[I.tx] <= mined
                                 /\ sent[proc.tx[I.tx]].status = "ok"
    <3>1. k \in Count /\ CountDone(c, l, I, k)
      BY <1>3, <2>2
    <3>2. k.done \in Nat /\ k.last \in {"none", "sent"}
      BY <3>1 DEF Count
    <3>3. k.last = "none"
      BY <2>2, <3>1, <3>2 DEF CountDone
    <3>4. CASE k.done <= l.done
      <4> HIDE DEF l, k, ok
      <4> QED
        BY <1>4, <1>6, <1>7, <3>2, <3>3, <3>4
    <3>5. CASE l.last = "sent" /\ I.op = "wait" /\ I.tx = "tx" /\ k.done <= l.done + 1
      <4>1. t \in 1 .. mined /\ sent[t].status = "ok"
        BY <1>1, <1>5, <2>2, <3>5
      <4>2. t \in ok
        BY <1>5, <3>5, <4>1 DEF Oks
      <4> HIDE DEF l, k, ok
      <4> QED
        BY <1>5, <1>6, <1>7, <3>2, <3>3, <3>5, <4>2
    <3> QED
      BY <3>1, <3>4, <3>5 DEF CountDone
  <2> QED
    BY <2>1, <2>2
<1>9. CountLabels(c, q.script)[q.pc] = k /\ Oks(sent, mined, q.run, c) = ok
  OBVIOUS
<1> HIDE DEF k, ok
<1> QED
  BY <1>8, <1>9 DEF Known

\* A step of the script that sends nothing, but for what the script knows.
LEMMA SameRun ==
  ASSUME DoneInv, TypeInv', Running, OnlyScript, proc'.script = proc.script,
         proc'.run = proc.run, Home(proc') = Home(proc), AtEnd(proc'),
         OnItsWay(proc') => \A c \in Kind : Known(sent, mined, proc', c)
  PROVE  DoneInv'
<1>1. sent' = sent /\ mined' = mined /\ before' = before /\ ScriptPool' = ScriptPool
  BY DEF OnlyScript, ScriptPool
<1>2. (before \in Pool)'
  BY <1>1 DEF DoneInv
<1>3. ByItsRun(sent, proc')
  BY DEF DoneInv, ByItsRun
<1>4. NoneWithdrawn(sent, mined, proc')
  BY DEF DoneInv, NoneWithdrawn, Running
<1>5. Earned(before, ScriptPool, sent, mined, proc')
  BY DEF DoneInv, Earned
<1> QED
  BY <1>1, <1>2, <1>3, <1>4, <1>5 DEF DoneInv

\* A step of the script that sends nothing, as to what is done.
LEMMA QuietDone ==
  ASSUME DoneInv, TypeInv', Running, OnlyScript,
         \/ proc' = Throw(proc)
         \/ /\ I.op # "submit"
            /\ I.op = "wait" => /\ proc.tx[I.tx] <= mined
                                /\ sent[proc.tx[I.tx]].status = "ok"
            /\ \E p \in ProcType :
                 /\ proc' = Done(p) /\ p.script = proc.script /\ p.pc = proc.pc
                 /\ p.tx = proc.tx /\ p.run = proc.run /\ p.exit = proc.exit
  PROVE  DoneInv'
<1>1. TypeInv
  BY DEF DoneInv
<1>2. CASE proc' = Throw(proc)
  <2>1. /\ proc'.script = proc.script /\ proc'.run = proc.run /\ Home(proc') = Home(proc)
        /\ proc'.tx = proc.tx /\ AtEnd(proc')
        /\ OnItsWay(proc') => /\ I.catch # 0 /\ proc'.pc = proc.pc + I.catch
    BY <1>1, <1>2, ThrowOnWay
  <2>2. OnItsWay(proc') => \A c \in Kind : Known(sent, mined, proc', c)
    <3> SUFFICES ASSUME OnItsWay(proc'), NEW c \in Kind PROVE Known(sent, mined, proc', c)
      OBVIOUS
    <3> QED
      BY <2>1, QuietKnows
  <2> QED
    BY <2>1, <2>2, SameRun
<1>3. CASE /\ I.op # "submit"
           /\ I.op = "wait" => /\ proc.tx[I.tx] <= mined
                               /\ sent[proc.tx[I.tx]].status = "ok"
           /\ \E p \in ProcType :
                /\ proc' = Done(p) /\ p.script = proc.script /\ p.pc = proc.pc
                /\ p.tx = proc.tx /\ p.run = proc.run /\ p.exit = proc.exit
  <2>1. PICK p \in ProcType :
          /\ proc' = Done(p) /\ p.script = proc.script /\ p.pc = proc.pc
          /\ p.tx = proc.tx /\ p.run = proc.run /\ p.exit = proc.exit
    BY <1>3
  <2>2. /\ proc'.script = proc.script /\ proc'.run = proc.run /\ Home(proc') = Home(proc)
        /\ proc'.tx = proc.tx /\ proc'.pc = proc.pc + I.next /\ AtEnd(proc')
    BY <1>1, <2>1, DoneOnWay
  <2>3. \A c \in Kind : Known(sent, mined, proc', c)
    BY <1>3, <2>2, QuietKnows
  <2> QED
    BY <2>2, <2>3, SameRun
<1> QED
  BY <1>2, <1>3
-----------------------------------------------------------------------------
(***************************************************************************)
(* Programs of which all instructions are of a kind.                       *)
(***************************************************************************)
Within(S, s) == s \in Seq(Instr) /\ \A i \in 1 .. Len(s) : s[i] \in S

\* A kind that says nothing of where an instruction goes on.
Wayless(S) ==
  /\ S \subseteq Instr
  /\ \A i \in S, k \in Nat, v \in Nat \ {0} : Redirected(i, k, v) \in S

\* All instructions with this call and without a message.
Takes(S, call) ==
  call \in CallType /\ \A i \in Instr : i.call = call /\ i.says = "none" => i \in S

\* Programs one after the other are of a kind if each is.
LEMMA JoinWithin ==
  ASSUME NEW S, NEW s, NEW t, Within(S, s), Within(S, t)
  PROVE  Within(S, s \o t)
<1> DEFINE st == s \o t
<1>1. /\ s \in Seq(Instr) /\ t \in Seq(Instr)
      /\ \A i \in 1 .. Len(s) : s[i] \in S
      /\ \A i \in 1 .. Len(t) : t[i] \in S
  BY DEF Within
<1>2. /\ st \in Seq(Instr) /\ Len(st) = Len(s) + Len(t)
      /\ Len(s) \in Nat /\ Len(t) \in Nat
      /\ \A i \in 1 .. Len(s) : st[i] = s[i]
      /\ \A i \in 1 .. Len(t) : st[i + Len(s)] = t[i]
  BY <1>1
<1> HIDE DEF st
<1>3. ASSUME NEW j \in 1 .. Len(st) PROVE st[j] \in S
  <2>1. CASE j <= Len(s)
    <3>1. j \in 1 .. Len(s)
      BY <1>2, <2>1
    <3> QED
      BY <1>1, <1>2, <3>1
  <2>2. CASE ~(j <= Len(s))
    <3> DEFINE i == j - Len(s)
    <3>1. i \in 1 .. Len(t) /\ i + Len(s) = j
      BY <1>2, <2>2
    <3> HIDE DEF i
    <3>2. st[j] = t[i] /\ t[i] \in S
      BY <1>1, <1>2, <3>1
    <3> QED
      BY <3>2
  <2> QED
    BY <2>1, <2>2
<1>4. Within(S, st)
  BY <1>2, <1>3 DEF Within
<1> QED
  BY <1>4 DEF st

\* Lists of up to four instructions.
LEMMA ListWithin ==
  ASSUME NEW S, S \subseteq Instr, NEW a \in S, NEW b \in S, NEW c \in S, NEW d \in S
  PROVE  /\ Within(S, <<>>) /\ Within(S, <<a>>) /\ Within(S, <<a, b>>)
         /\ Within(S, <<a, b, c>>) /\ Within(S, <<a, b, c, d>>)
<1>0. a \in Instr /\ b \in Instr /\ c \in Instr /\ d \in Instr
  OBVIOUS
<1>1. Within(S, <<>>)
  <2>1. <<>> \in Seq(Instr) /\ Len(<<>>) = 0
    OBVIOUS
  <2> QED
    BY <2>1 DEF Within
<1>2. Within(S, <<a>>)
  <2> DEFINE s == <<a>>
  <2>1. s \in Seq(Instr) /\ Len(s) = 1 /\ s[1] = a
    BY <1>0
  <2> HIDE DEF s
  <2>2. Within(S, s)
    BY <2>1 DEF Within
  <2> QED
    BY <2>2 DEF s
<1>3. Within(S, <<a, b>>)
  <2> DEFINE s == <<a, b>>
  <2>1. s \in Seq(Instr) /\ Len(s) = 2 /\ s[1] = a /\ s[2] = b
    BY <1>0
  <2> HIDE DEF s
  <2>2. 1 .. Len(s) = {1, 2}
    BY <2>1
  <2>3. Within(S, s)
    BY <2>1, <2>2 DEF Within
  <2> QED
    BY <2>3 DEF s
<1>4. Within(S, <<a, b, c>>)
  <2> DEFINE s == <<a, b, c>>
  <2>1. s \in Seq(Instr) /\ Len(s) = 3 /\ s[1] = a /\ s[2] = b /\ s[3] = c
    BY <1>0
  <2> HIDE DEF s
  <2>2. 1 .. Len(s) = {1, 2, 3}
    BY <2>1
  <2>3. Within(S, s)
    BY <2>1, <2>2 DEF Within
  <2> QED
    BY <2>3 DEF s
<1>5. Within(S, <<a, b, c, d>>)
  <2> DEFINE s == <<a, b, c, d>>
  <2>1. s \in Seq(Instr) /\ Len(s) = 4 /\ s[1] = a /\ s[2] = b /\ s[3] = c /\ s[4] = d
    BY <1>0
  <2> HIDE DEF s
  <2>2. 1 .. Len(s) = {1, 2, 3, 4}
    BY <2>1
  <2>3. Within(S, s)
    BY <2>1, <2>2 DEF Within
  <2> QED
    BY <2>3 DEF s
<1> QED
  BY <1>1, <1>2, <1>3, <1>4, <1>5

\* A handler changes only where instructions go on.
LEMMA TryWithin ==
  ASSUME NEW S, Wayless(S), NEW body, NEW handler, Within(S, body), Within(S, handler)
  PROVE  Within(S, Try(body, handler))
<1> DEFINE n == Len(body)
           m == Len(handler)
           tried == [i \in 1 .. n |->
                       Redirected(body[i], n + 1 - i, IF i = n THEN 1 + m ELSE body[i].next)]
<1>1. /\ body \in Seq(Instr) /\ handler \in Seq(Instr) /\ n \in Nat /\ m \in Nat
      /\ \A i \in 1 .. n : body[i] \in Instr /\ body[i] \in S
  BY DEF Within
<1>2. ASSUME NEW i \in 1 .. n PROVE tried[i] \in Instr /\ tried[i] \in S
  <2> DEFINE instr == body[i]
             k == n + 1 - i
             v == IF i = n THEN 1 + m ELSE instr.next
             w == Redirected(instr, k, v)
  <2>1. tried[i] = w
    OBVIOUS
  <2>2. instr \in Instr /\ instr \in S
    BY <1>1
  <2>3. instr.next \in Nat \ {0}
    BY <2>2 DEF Instr
  <2>4. k \in Nat /\ v \in Nat \ {0}
    <3> HIDE DEF n, m
    <3> QED
      BY <1>1, <2>3
  <2> HIDE DEF instr, k, v
  <2>5. w \in Instr
    BY <2>2, <2>4, Redirect
  <2>6. w \in S
    BY <2>2, <2>4 DEF Wayless
  <2> HIDE DEF w, tried
  <2> QED
    BY <2>1, <2>5, <2>6
<1>3. Try(body, handler) = tried \o handler
  <2>1. tried = [i \in 1 .. n |-> [body[i] EXCEPT !.catch = n + 1 - i,
                         !.next = IF i = n THEN 1 + m ELSE @]]
    <3>1. \A i \in 1 .. n :
            Redirected(body[i], n + 1 - i, IF i = n THEN 1 + m ELSE body[i].next)
            = [body[i] EXCEPT !.catch = n + 1 - i, !.next = IF i = n THEN 1 + m ELSE @]
      BY <1>1 DEF Redirected
    <3> QED
      BY <3>1
  <2> HIDE DEF tried
  <2> QED
    BY <2>1 DEF Try
<1>4. tried \in [1 .. n -> Instr]
  BY <1>2
<1> HIDE DEF n, m
<1>0. n \in Nat
  BY <1>1
<1>5. tried \in Seq(Instr) /\ Len(tried) = n
  <2> HIDE DEF tried
  <2> QED
    BY <1>0, <1>4
<1> HIDE DEF tried
<1>6. Within(S, tried)
  BY <1>2, <1>5 DEF Within
<1>7. Within(S, tried \o handler)
  BY <1>6, JoinWithin
<1> QED
  BY <1>3, <1>7
-----------------------------------------------------------------------------
\* What only reads carries no call of its own.
LEMMA ReadsWithin ==
  ASSUME NEW S, Takes(S, Deploy), NEW tx \in Handle, NEW n \in Nat
  PROVE  /\ ReadClock \in S /\ ReadPair \in S /\ ReadRatio \in S /\ ReadIds \in S
         /\ LookUp(n) \in S /\ Wait(tx) \in S
<1>1. ASSUME NEW op \in {"clock", "pair", "ratio", "ids", "lookup", "submit", "wait"}
      PROVE  /\ Instruction(op) \in Instr /\ Instruction(op).call = Deploy
             /\ Instruction(op).says = "none"
  BY InstructionType DEF Instruction
<1>2. ReadClock \in S /\ ReadPair \in S /\ ReadRatio \in S /\ ReadIds \in S
  BY <1>1 DEF Takes, ReadClock, ReadPair, ReadRatio, ReadIds
<1>3. LookUp(n) \in S
  <2> DEFINE i == Instruction("lookup")
             j == [i EXCEPT !.back = n]
  <2>1. i \in Instr /\ i.call = Deploy /\ i.says = "none"
    BY <1>1
  <2> HIDE DEF i
  <2>2. j \in Instr /\ j.call = Deploy /\ j.says = "none"
    BY <2>1 DEF Instr
  <2>3. LookUp(n) = j
    BY DEF LookUp, i
  <2> HIDE DEF j
  <2> QED
    BY <2>2, <2>3 DEF Takes
<1>4. Wait(tx) \in S
  <2> DEFINE i == Instruction("wait")
             j == [i EXCEPT !.tx = tx]
  <2>1. i \in Instr /\ i.call = Deploy /\ i.says = "none"
    BY <1>1
  <2> HIDE DEF i
  <2>2. j \in Instr /\ j.call = Deploy /\ j.says = "none"
    BY <2>1 DEF Instr
  <2>3. Wait(tx) = j
    BY DEF Wait, i
  <2> HIDE DEF j
  <2> QED
    BY <2>2, <2>3 DEF Takes
<1> QED
  BY <1>2, <1>3, <1>4

\* A call, in every way in which it is sent.
LEMMA SubmitsWithin ==
  ASSUME NEW S, S \subseteq Instr, Takes(S, Deploy), NEW call, Takes(S, call)
  PROVE  /\ Submit(call) \in S /\ WithGas(Submit(call)) \in S
         /\ \A tx \in Handle : SubmitAs(tx, call) \in S
         /\ Within(S, SubmitAndWait(call)) /\ Within(S, SubmitWithGasAndWait(call))
<1>1. call \in CallType /\ "tx" \in Handle /\ 0 \in Nat
  BY DEF Takes, Handle
<1>2. ASSUME NEW i, Sends(i, call), i.says = "none" PROVE i \in S
  BY <1>2 DEF Sends, Takes
<1>3. /\ Submit(call) \in S /\ WithGas(Submit(call)) \in S
      /\ \A tx \in Handle : SubmitAs(tx, call) \in S
      /\ WithGas(SubmitAs("tx", call)) \in S
  BY <1>1, <1>2, SubmitSends
<1>4. Wait("tx") \in S
  BY <1>1, ReadsWithin
<1>5. Within(S, SubmitAndWait(call)) /\ Within(S, SubmitWithGasAndWait(call))
  BY <1>1, <1>3, <1>4, ListWithin DEF SubmitAndWait, SubmitWithGasAndWait
<1> QED
  BY <1>3, <1>5
-----------------------------------------------------------------------------
\* A kind with all calls but those that provide or withdraw liquidity.
Plain(S) ==
  /\ Wayless(S) /\ Takes(S, Deploy) /\ Takes(S, ExecuteVirtualOrders)
  /\ \A t \in Token, n \in Nat, by \in Nat :
       /\ Takes(S, Approve(t, n)) /\ Takes(S, CreatePairWrapper(by))
       /\ Takes(S, InstantSwap(t, n, by)) /\ Takes(S, LongTermSwap(t, n, by))
       /\ Takes(S, WithdrawProceeds(t, by))

\* The parts of which the scripts are made.
LEMMA PartsWithin ==
  ASSUME NEW S, Plain(S)
  PROVE  /\ Within(S, <<>>) /\ Within(S, <<ReadClock>>) /\ Within(S, <<ReadPair>>)
         /\ Within(S, <<ReadIds>>) /\ Within(S, <<ReadIds, LookUp(1), LookUp(2)>>)
         /\ \A n \in Nat : Within(S, ApproveBoth(n))
         /\ \A by \in Nat : Within(S, TryCreatePair(by))
         /\ Within(S, Try(SubmitAndWait(CreatePairWrapper(1)), <<>>))
         /\ Within(S, InstantSwapOf(0)) /\ Within(S, WithdrawLast(5))
         /\ Within(S, <<SubmitAs("tx", Approve(0, 1)), SubmitAs("tx2", Approve(1, 1)),
                        Wait("tx"), Wait("tx2")>>)
<1>0. /\ "tx" \in Handle /\ "tx2" \in Handle /\ 0 \in Token /\ 1 \in Token
      /\ 0 \in Nat /\ 1 \in Nat /\ 2 \in Nat /\ 5 \in Nat /\ 7 \in Nat
  BY DEF Handle, Token
<1>1. S \subseteq Instr /\ Wayless(S) /\ Takes(S, Deploy)
  BY DEF Plain, Wayless
<1>2. /\ ReadClock \in S /\ ReadPair \in S /\ ReadIds \in S /\ LookUp(1) \in S
      /\ LookUp(2) \in S /\ Wait("tx") \in S /\ Wait("tx2") \in S
  BY <1>0, <1>1, ReadsWithin
<1>3. /\ Within(S, <<>>) /\ Within(S, <<ReadClock>>) /\ Within(S, <<ReadPair>>)
      /\ Within(S, <<ReadIds>>) /\ Within(S, <<ReadIds, LookUp(1), LookUp(2)>>)
  BY <1>1, <1>2, ListWithin
<1>4. \A n \in Nat : Within(S, ApproveBoth(n))
  <2> SUFFICES ASSUME NEW n \in Nat PROVE Within(S, ApproveBoth(n))
    OBVIOUS
  <2>1. Takes(S, Approve(0, n)) /\ Takes(S, Approve(1, n))
    BY <1>0 DEF Plain
  <2>2. Within(S, SubmitAndWait(Approve(0, n))) /\ Within(S, SubmitAndWait(Approve(1, n)))
    BY <1>1, <2>1, SubmitsWithin
  <2> QED
    BY <2>2, JoinWithin DEF ApproveBoth
<1>5. \A by \in Nat : Within(S, TryCreatePair(by))
  <2> SUFFICES ASSUME NEW by \in Nat PROVE Within(S, TryCreatePair(by))
    OBVIOUS
  <2>1. Takes(S, CreatePairWrapper(by))
    BY <1>0 DEF Plain
  <2> DEFINE i == Submit(CreatePairWrapper(by))
             body == <<i>>
             handler == <<>>
  <2>2. i \in S
    BY <1>1, <2>1, SubmitsWithin
  <2>3. TryCreatePair(by) = Try(body, handler)
    BY DEF TryCreatePair
  <2> HIDE DEF i
  <2>4. Within(S, body) /\ Within(S, handler)
    BY <1>1, <2>2, ListWithin
  <2> HIDE DEF body, handler
  <2> QED
    BY <1>1, <2>3, <2>4, TryWithin
<1>6. Within(S, Try(SubmitAndWait(CreatePairWrapper(1)), <<>>))
  <2> DEFINE body == SubmitAndWait(CreatePairWrapper(1))
             handler == <<>>
  <2>1. Takes(S, CreatePairWrapper(1))
    BY <1>0 DEF Plain
  <2>2. Within(S, body) /\ Within(S, handler)
    BY <1>1, <1>3, <2>1, SubmitsWithin
  <2> HIDE DEF body, handler
  <2>3. Within(S, Try(body, handler))
    BY <1>1, <2>2, TryWithin
  <2> QED
    BY <2>3 DEF body, handler
<1>7. Within(S, InstantSwapOf(0))
  <2>1. Takes(S, Approve(0, 1)) /\ Takes(S, InstantSwap(0, 1, 7))
    BY <1>0 DEF Plain
  <2>2. Submit(Approve(0, 1)) \in S /\ Submit(InstantSwap(0, 1, 7)) \in S
    BY <1>1, <2>1, SubmitsWithin
  <2> QED
    BY <1>1, <2>2, ListWithin DEF InstantSwapOf
<1>8. Within(S, WithdrawLast(5))
  <2>1. Takes(S, WithdrawProceeds(0, 5))
    BY <1>0 DEF Plain
  <2>2. Within(S, SubmitWithGasAndWait(WithdrawProceeds(0, 5)))
    BY <1>1, <2>1, SubmitsWithin
  <2> QED
    BY <1>3, <2>2, JoinWithin DEF WithdrawLast
<1>9. Within(S, <<SubmitAs("tx", Approve(0, 1)), SubmitAs("tx2", Approve(1, 1)),
                  Wait("tx"), Wait("tx2")>>)
  <2>1. Takes(S, Approve(0, 1)) /\ Takes(S, Approve(1, 1))
    BY <1>0 DEF Plain
  <2>2. SubmitAs("tx", Approve(0, 1)) \in S /\ SubmitAs("tx2", Approve(1, 1)) \in S
    BY <1>0, <1>1, <2>1, SubmitsWithin
  <2> QED
    BY <1>1, <1>2, <2>2, ListWithin
<1> QED
  BY <1>3, <1>4, <1>5, <1>6, <1>7, <1>8, <1>9

\* termSwap.js, and what the sample runs do once liquidity is provided.
LEMMA OrdersWithin ==
  ASSUME NEW S, Plain(S)
  PROVE  /\ Within(S, TermSwap)
         /\ Within(S, SubmitWithGasAndWait(LongTermSwap(0, 1, 11)))
         /\ Within(S, SubmitAndWait(Approve(0, 1)))
         /\ Within(S, SubmitAndWait(LongTermSwap(0, 1, 3)))
         /\ Within(S, SubmitAndWait(WithdrawProceeds(0, 5)))
<1>0. /\ 0 \in Token /\ 1 \in Token /\ 1 \in Nat /\ 3 \in Nat /\ 5 \in Nat /\ 10 \in Nat
      /\ 11 \in Nat /\ 60 \in Nat
  BY DEF Token
<1>1. S \subseteq Instr /\ Takes(S, Deploy)
  BY DEF Plain, Wayless
<1>2. /\ Takes(S, LongTermSwap(0, 1, 11)) /\ Takes(S, LongTermSwap(0, 1, 3))
      /\ Takes(S, LongTermSwap(0, 10, 60)) /\ Takes(S, LongTermSwap(1, 10, 60))
      /\ Takes(S, Approve(0, 1)) /\ Takes(S, Approve(0, 10)) /\ Takes(S, Approve(1, 10))
      /\ Takes(S, WithdrawProceeds(0, 5))
  BY <1>0 DEF Plain
<1>3. /\ Within(S, SubmitWithGasAndWait(LongTermSwap(0, 1, 11)))
      /\ Within(S, SubmitAndWait(Approve(0, 1)))
      /\ Within(S, SubmitAndWait(LongTermSwap(0, 1, 3)))
      /\ Within(S, SubmitAndWait(WithdrawProceeds(0, 5)))
  BY <1>1, <1>2, SubmitsWithin
<1>4. Within(S, TermSwap)
  <2> DEFINE z1 == <<ReadClock>>
             z2 == SubmitAndWait(Approve(0, 10))
             z3 == SubmitWithGasAndWait(LongTermSwap(0, 10, 60))
             z4 == SubmitAndWait(Approve(1, 10))
             z5 == SubmitWithGasAndWait(LongTermSwap(1, 10, 60))
             z6 == <<ReadIds, LookUp(1), LookUp(2)>>
  <2>1. Within(S, z2) /\ Within(S, z3) /\ Within(S, z4) /\ Within(S, z5)
    BY <1>1, <1>2, SubmitsWithin
  <2>2. Within(S, z1) /\ Within(S, z6)
    BY PartsWithin
  <2>3. TermSwap = z1 \o z2 \o z3 \o z4 \o z5 \o z6
    BY DEF TermSwap
  <2> HIDE DEF z1, z2, z3, z4, z5, z6
  <2> QED
    BY <2>1, <2>2, <2>3, JoinWithin
<1> QED
  BY <1>3, <1>4
-----------------------------------------------------------------------------
\* Programs that take no liquidity out of the pool.
CalmInstr == {i \in Instr : i.call.fn # "withdrawLiquidity"}

Calm(s) == Within(CalmInstr, s)

\* All calls but one are calm.
LEMMA CalmIsPlain ==
  /\ Plain(CalmInstr)
  /\ \A n \in Nat, by \in Nat : /\ Takes(CalmInstr, AddInitialLiquidity(n, by))
                                /\ Takes(CalmInstr, AddLiquidity(n, by))
<1>1. ASSUME NEW call \in CallType, call.fn # "withdrawLiquidity"
      PROVE  Takes(CalmInstr, call)
  BY <1>1 DEF Takes, CalmInstr
<1>2. Wayless(CalmInstr)
  <2> SUFFICES ASSUME NEW i \in CalmInstr, NEW k \in Nat, NEW v \in Nat \ {0}
               PROVE  Redirected(i, k, v) \in CalmInstr
    BY DEF Wayless, CalmInstr
  <2>1. i \in Instr /\ i.call.fn # "withdrawLiquidity"
    BY DEF CalmInstr
  <2>2. Redirected(i, k, v) \in Instr
    BY <2>1, Redirect
  <2>3. Redirected(i, k, v).call = i.call
    BY <2>1 DEF Redirected, Instr
  <2> QED
    BY <2>1, <2>2, <2>3 DEF CalmInstr
<1>3. Takes(CalmInstr, Deploy) /\ Takes(CalmInstr, ExecuteVirtualOrders)
  <2>1. Deploy \in CallType /\ ExecuteVirtualOrders \in CallType
    BY Calls DEF Token
  <2>2. Deploy.fn # "withdrawLiquidity" /\ ExecuteVirtualOrders.fn # "withdrawLiquidity"
    BY DEF Deploy, ExecuteVirtualOrders, Call
  <2> QED
    BY <1>1, <2>1, <2>2
<1>4. ASSUME NEW t \in Token, NEW n \in Nat, NEW by \in Nat
      PROVE  /\ Takes(CalmInstr, Approve(t, n)) /\ Takes(CalmInstr, CreatePairWrapper(by))
             /\ Takes(CalmInstr, InstantSwap(t, n, by))
             /\ Takes(CalmInstr, LongTermSwap(t, n, by))
             /\ Takes(CalmInstr, WithdrawProceeds(t, by))
             /\ Takes(CalmInstr, AddInitialLiquidity(n, by))
             /\ Takes(CalmInstr, AddLiquidity(n, by))
  <2>1. /\ Approve(t, n).fn # "withdrawLiquidity"
        /\ CreatePairWrapper(by).fn # "withdrawLiquidity"
        /\ InstantSwap(t, n, by).fn # "withdrawLiquidity"
        /\ LongTermSwap(t, n, by).fn # "withdrawLiquidity"
        /\ WithdrawProceeds(t, by).fn # "withdrawLiquidity"
        /\ AddInitialLiquidity(n, by).fn # "withdrawLiquidity"
        /\ AddLiquidity(n, by).fn # "withdrawLiquidity"
    BY DEF Approve, CreatePairWrapper, InstantSwap, LongTermSwap, WithdrawProceeds,
           AddInitialLiquidity, AddLiquidity, Call
  <2> QED
    BY <1>1, <2>1, Calls
<1>5. 0 \in Token
  BY DEF Token
<1> QED
  BY <1>2, <1>3, <1>4, <1>5 DEF Plain

\* A message changes nothing.
LEMMA CalmSaying ==
  ASSUME NEW s, NEW i \in CalmInstr, Calm(s)
  PROVE  Calm(Saying("initial", s \o <<i>>))
<1> DEFINE j == [i EXCEPT !.says = "initial"]
<1>1. i \in Instr /\ i.call.fn # "withdrawLiquidity" /\ s \in Seq(Instr)
  BY DEF Calm, Within, CalmInstr
<1>2. Saying("initial", s \o <<i>>) = s \o <<j>>
  BY <1>1, SayingLast
<1>3. j \in CalmInstr
  BY <1>1 DEF CalmInstr, Instr
<1> HIDE DEF j
<1>4. Calm(<<j>>)
  BY <1>3, ListWithin DEF Calm, CalmInstr
<1> QED
  BY <1>2, <1>4, JoinWithin DEF Calm

\* Liquidity is provided, in whichever way, and not taken out.
LEMMA CalmProvisions ==
  /\ Calm(TryInitialLiquidity(AddInitialLiquidity(10, 100)))
  /\ Calm(Try(Saying("initial", <<ReadPair>> \o ApproveBoth(10)
                                \o SubmitAndWait(AddInitialLiquidity(10, 3))),
              ApproveBoth(100) \o <<Submit(AddLiquidity(1, 5))>>))
  /\ Calm(SubmitWithGasAndWait(AddLiquidity(10, 100)))
<1>0. /\ "tx" \in Handle /\ 0 \in Nat /\ 1 \in Nat /\ 3 \in Nat /\ 5 \in Nat /\ 10 \in Nat
      /\ 100 \in Nat
  BY DEF Handle
<1>1. CalmInstr \subseteq Instr /\ Wayless(CalmInstr) /\ Takes(CalmInstr, Deploy)
  BY CalmIsPlain DEF Plain, Wayless
<1>2. /\ Takes(CalmInstr, AddInitialLiquidity(10, 100))
      /\ Takes(CalmInstr, AddInitialLiquidity(10, 3))
      /\ Takes(CalmInstr, AddLiquidity(1, 5)) /\ Takes(CalmInstr, AddLiquidity(10, 100))
  BY <1>0, CalmIsPlain
<1>3. Calm(ApproveBoth(10)) /\ Calm(ApproveBoth(100)) /\ Calm(<<ReadPair>>) /\ Calm(<<>>)
  BY <1>0, CalmIsPlain, PartsWithin DEF Calm
<1>4. Calm(TryInitialLiquidity(AddInitialLiquidity(10, 100)))
  <2> DEFINE i == Submit(AddInitialLiquidity(10, 100))
             body == Saying("initial", ApproveBoth(10) \o <<i>>)
             handler == <<>>
  <2>1. i \in CalmInstr
    BY <1>1, <1>2, SubmitsWithin
  <2>2. TryInitialLiquidity(AddInitialLiquidity(10, 100)) = Try(body, handler)
    BY DEF TryInitialLiquidity
  <2> HIDE DEF i
  <2>3. Calm(body) /\ Calm(handler)
    BY <1>3, <2>1, CalmSaying
  <2> HIDE DEF body, handler
  <2> QED
    BY <1>1, <2>2, <2>3, TryWithin DEF Calm
<1>5. Calm(Saying("initial", <<ReadPair>> \o ApproveBoth(10)
                             \o SubmitAndWait(AddInitialLiquidity(10, 3))))
  <2> DEFINE i == SubmitAs("tx", AddInitialLiquidity(10, 3))
             w == Wait("tx")
             a == <<ReadPair>> \o ApproveBoth(10)
  <2>1. i \in CalmInstr /\ w \in CalmInstr
    BY <1>0, <1>1, <1>2, SubmitsWithin, ReadsWithin
  <2>2. Calm(a)
    BY <1>3, JoinWithin DEF Calm
  <2>3. SubmitAndWait(AddInitialLiquidity(10, 3)) = <<i, w>>
    BY DEF SubmitAndWait
  <2> HIDE DEF i, w, a
  <2>4. i \in Instr /\ w \in Instr
    BY <1>1, <2>1
  <2>5. <<i, w>> = <<i>> \o <<w>>
    BY <2>4, Split
  <2>6. a \o (<<i>> \o <<w>>) = (a \o <<i>>) \o <<w>>
    <3>1. a \in Seq(Instr)
      BY <2>2 DEF Calm, Within
    <3> QED
      BY <2>4, <3>1, ConcatAssociative
  <2>7. Calm(a \o <<i>>)
    <3>1. Calm(<<i>>)
      BY <1>1, <2>1, ListWithin DEF Calm
    <3> QED
      BY <2>2, <3>1, JoinWithin DEF Calm
  <2>8. Calm(Saying("initial", (a \o <<i>>) \o <<w>>))
    BY <2>1, <2>7, CalmSaying
  <2>9. Calm(Saying("initial", a \o SubmitAndWait(AddInitialLiquidity(10, 3))))
    BY <2>3, <2>5, <2>6, <2>8
  <2> QED
    BY <2>9 DEF a
<1>6. Calm(ApproveBoth(100) \o <<Submit(AddLiquidity(1, 5))>>)
  <2>1. Submit(AddLiquidity(1, 5)) \in CalmInstr
    BY <1>1, <1>2, SubmitsWithin
  <2>2. Calm(<<Submit(AddLiquidity(1, 5))>>)
    BY <1>1, <2>1, ListWithin DEF Calm
  <2> QED
    BY <1>3, <2>2, JoinWithin DEF Calm
<1>7. Calm(Try(Saying("initial", <<ReadPair>> \o ApproveBoth(10)
                                 \o SubmitAndWait(AddInitialLiquidity(10, 3))),
               ApproveBoth(100) \o <<Submit(AddLiquidity(1, 5))>>))
  <2> DEFINE body == Saying("initial", <<ReadPair>> \o ApproveBoth(10)
                                     \o SubmitAndWait(AddInitialLiquidity(10, 3)))
             handler == ApproveBoth(100) \o <<Submit(AddLiquidity(1, 5))>>
  <2>1. Calm(body) /\ Calm(handler)
    BY <1>5, <1>6
  <2> HIDE DEF body, handler
  <2>2. Calm(Try(body, handler))
    BY <1>1, <2>1, TryWithin DEF Calm
  <2> QED
    BY <2>2 DEF body, handler
<1>8. Calm(SubmitWithGasAndWait(AddLiquidity(10, 100)))
  BY <1>1, <1>2, SubmitsWithin DEF Calm
<1> QED
  BY <1>4, <1>7, <1>8

\* The scripts of which an effect is expected take no liquidity out.
LEMMA GainersKeep ==
  ASSUME NEW script \in DOMAIN Gain
  PROVE  script \in Script /\ NeverWithdraws(script)
<1>0. 500 \in Nat /\ 100 \in Nat
  OBVIOUS
<1>1. script \in {"SampleRunGoerli", "SampleRunRinkeby", "TermSwap", "AddLiquidity"}
  BY DEF Gain
<1>2. /\ Program["TermSwap"] = TermSwap /\ Program["SampleRunGoerli"] = SampleRunGoerli
      /\ Program["SampleRunRinkeby"] = SampleRunRinkeby
      /\ Program["AddLiquidity"] = AddLiquidityScript
  BY DEF Program
<1>3. ASSUME NEW s, Program[script] = s, Calm(s) PROVE NeverWithdraws(script)
  BY <1>3 DEF NeverWithdraws, Calm, Within, CalmInstr
<1>4. /\ Calm(<<ReadClock>>) /\ Calm(<<ReadIds>>) /\ Calm(<<ReadPair>>) /\ Calm(TermSwap)
      /\ Calm(InstantSwapOf(0)) /\ Calm(WithdrawLast(5))
      /\ Calm(TryCreatePair(500)) /\ Calm(ApproveBoth(100))
  BY <1>0, CalmIsPlain, PartsWithin, OrdersWithin DEF Calm
<1>5. Calm(ProvideInSteps)
  <2> DEFINE z1 == <<ReadClock>>
             z2 == Try(SubmitAndWait(CreatePairWrapper(1)), <<>>)
             z3 == Try(Saying("initial", <<ReadPair>> \o ApproveBoth(10)
                                         \o SubmitAndWait(AddInitialLiquidity(10, 3))),
                       ApproveBoth(100) \o <<Submit(AddLiquidity(1, 5))>>)
             z4 == <<ReadPair>>
  <2>1. ProvideInSteps = z1 \o z2 \o z3 \o z4
    BY DEF ProvideInSteps
  <2>2. Calm(z1) /\ Calm(z3) /\ Calm(z4)
    BY <1>4, CalmProvisions
  <2>3. Calm(z2)
    BY CalmIsPlain, PartsWithin DEF Calm
  <2> HIDE DEF z1, z2, z3, z4
  <2> QED
    BY <2>1, <2>2, <2>3, JoinWithin DEF Calm
<1>6. Calm(SampleRunGoerli)
  <2> DEFINE z3 == <<SubmitAs("tx", Approve(0, 1)), SubmitAs("tx2", Approve(1, 1)),
                     Wait("tx"), Wait("tx2")>>
             z4 == SubmitWithGasAndWait(LongTermSwap(0, 1, 11))
  <2>1. SampleRunGoerli = ProvideInSteps \o InstantSwapOf(0) \o z3 \o z4 \o WithdrawLast(5)
    BY DEF SampleRunGoerli
  <2>2. Calm(z3) /\ Calm(z4)
    BY CalmIsPlain, PartsWithin, OrdersWithin DEF Calm
  <2> HIDE DEF z3, z4
  <2> QED
    BY <1>4, <1>5, <2>1, <2>2, JoinWithin DEF Calm
<1>7. Calm(SampleRunRinkeby)
  <2> DEFINE z2 == SubmitAndWait(Approve(0, 1))
             z3 == SubmitAndWait(LongTermSwap(0, 1, 3))
             z4 == <<ReadIds>>
             z5 == SubmitAndWait(WithdrawProceeds(0, 5))
             z6 == <<ReadPair>>
  <2>1. SampleRunRinkeby = ProvideInSteps \o z2 \o z3 \o z4 \o z5 \o z6
    BY DEF SampleRunRinkeby
  <2>2. Calm(z2) /\ Calm(z3) /\ Calm(z4) /\ Calm(z5) /\ Calm(z6)
    BY <1>4, CalmIsPlain, OrdersWithin DEF Calm
  <2> HIDE DEF z2, z3, z4, z5, z6
  <2> QED
    BY <1>5, <2>1, <2>2, JoinWithin DEF Calm
<1>8. Calm(AddLiquidityScript)
  <2> DEFINE z1 == <<ReadClock>>
             z2 == TryCreatePair(500)
             z3 == TryInitialLiquidity(AddInitialLiquidity(10, 100))
             z4 == ApproveBoth(100)
             z5 == SubmitWithGasAndWait(AddLiquidity(10, 100))
  <2>1. AddLiquidityScript = z1 \o z2 \o z3 \o z4 \o z5
    BY DEF AddLiquidityScript
  <2>2. Calm(z1) /\ Calm(z2) /\ Calm(z3) /\ Calm(z4) /\ Calm(z5)
    BY <1>4, CalmProvisions
  <2> HIDE DEF z1, z2, z3, z4, z5
  <2> QED
    BY <2>1, <2>2, JoinWithin DEF Calm
<1>9. NeverWithdraws(script)
  BY <1>1, <1>2, <1>3, <1>4, <1>5, <1>6, <1>7, <1>8
<1> QED
  BY <1>1, <1>9 DEF Script, Program
-----------------------------------------------------------------------------
\* What the account has is counted.
LEMMA WorthOK ==
  ASSUME NEW c, NEW p \in Pool
  PROVE  Worth(c, p) \in Nat
BY OwnFinite, PoolFacts DEF Worth

\* Nothing that was sent before a run starts is of that run.
LEMMA NoneOfNewRun ==
  ASSUME TypeInv, ByItsRun(sent, proc), NEW r, r = proc.run + 1, NEW c
  PROVE  /\ Oks(sent, mined, r, c) = {} /\ Cardinality(Oks(sent, mined, r, c)) = 0
         /\ \A k \in 1 .. Len(sent) : sent[k].run < r
<1>1. /\ mined \in Nat /\ Len(sent) \in Nat /\ mined <= Len(sent)
      /\ sent \in Seq(TxType) /\ proc.run \in Nat
  BY CoverTypes DEF TypeInv, ProcOK, ProcType
<1>2. \A k \in 1 .. Len(sent) : sent[k].run \in Nat
  <2>1. \A k \in 1 .. Len(sent) : sent[k] \in TxType
    BY <1>1
  <2> QED
    BY <2>1 DEF TxType
<1>3. \A k \in 1 .. Len(sent) : sent[k].run <= proc.run
  BY DEF ByItsRun
<1>4. \A k \in 1 .. Len(sent) : sent[k].run < r
  BY <1>1, <1>2, <1>3
<1>5. Oks(sent, mined, r, c) = {}
  <2> SUFFICES ASSUME NEW k \in Oks(sent, mined, r, c) PROVE FALSE
    OBVIOUS
  <2>1. k \in 1 .. mined /\ sent[k].run = r
    BY DEF Oks
  <2>2. k \in 1 .. Len(sent)
    BY <1>1, <2>1
  <2>3. sent[k].run < r /\ sent[k].run \in Nat
    BY <1>2, <1>4, <2>2
  <2> QED
    BY <2>1, <2>3
<1> QED
  BY <1>4, <1>5, FS_EmptySet

\* A run starts with nothing done and all it finds in the pool.
LEMMA StartDone ==
  ASSUME KeepsLiquidity, DoneInv, TypeInv', NEW script \in Script, Start(script)
  PROVE  DoneInv'
<1>1. /\ proc' \in ProcType /\ proc'.script = script /\ proc'.pc = 1
      /\ proc'.run = proc.run + 1 /\ proc'.exit = "running"
      /\ pools' = pools /\ sent' = sent /\ mined' = mined
  BY StartsAt DEF DoneInv
<1>2. /\ before' = pools[Home(proc')] /\ script \in Runnable(pools[0])
      /\ "hurry" \in Events \/ mined = Len(sent)
  BY DEF Start
<1>3. TypeInv /\ ByItsRun(sent, proc) /\ NoneWithdrawn(sent, mined, proc)
  BY DEF DoneInv
<1>4. Home(proc') \in 0 .. MaxRuns
  BY <1>1, HomeOK
<1>5. before' \in Pool
  BY <1>2, <1>3, <1>4 DEF TypeInv, PoolsOK, Sound
<1>6. ScriptPool' = before'
  BY <1>1, <1>2 DEF ScriptPool
<1>7. \A c : /\ Oks(sent, mined, proc'.run, c) = {}
             /\ Cardinality(Oks(sent, mined, proc'.run, c)) = 0
  BY <1>1, <1>3, NoneOfNewRun
<1>8. \A k \in 1 .. Len(sent) : sent[k].run < proc'.run
  BY <1>1, <1>3, NoneOfNewRun
<1>9. ByItsRun(sent, proc')
  <2>1. \A k \in 1 .. Len(sent) : sent[k].run \in Nat
    <3>1. \A k \in 1 .. Len(sent) : sent[k] \in TxType
      BY <1>3, CoverTypes
    <3> QED
      BY <3>1 DEF TxType
  <2>2. proc'.run \in Nat
    BY <1>1 DEF ProcType
  <2>3. \A k \in 1 .. Len(sent) : sent[k].run <= proc'.run /\ sent[k].run # proc'.run
    BY <1>8, <2>1, <2>2
  <2> QED
    BY <2>3 DEF ByItsRun
<1>10. NoneWithdrawn(sent, mined, proc')
  <2>1. "hurry" \in Events => NeverWithdraws(script)
    <3>1. 0 \in 0 .. MaxRuns
      BY BoundsAssumption
    <3>2. pools[0] \in Pool
      BY <1>3, <3>1 DEF TypeInv, PoolsOK, Sound
    <3> QED
      BY <1>2, <3>2 DEF KeepsLiquidity
  <2>2. \A k \in mined + 1 .. Len(sent) : sent[k].fn # "withdrawLiquidity"
    <3>1. CASE "hurry" \in Events
      BY <1>3, <3>1 DEF NoneWithdrawn, Keeps
    <3>2. CASE mined = Len(sent)
      <4>1. mined + 1 .. Len(sent) = {}
        BY <1>3, <3>2, CoverTypes
      <4> QED
        BY <4>1
    <3> QED
      BY <1>2, <3>1, <3>2
  <2> QED
    BY <1>1, <2>1, <2>2 DEF NoneWithdrawn
<1>11. AtEnd(proc')
  BY <1>1 DEF AtEnd
<1>12. Earned(before', ScriptPool', sent, mined, proc')
  <2> SUFFICES ASSUME NEW c \in Kind
               PROVE  Worth(c, before')
                        >= Worth(c, before') + Unit(c) * Cardinality(Oks(sent, mined, proc'.run, c))
    BY <1>6 DEF Earned
  <2> DEFINE w == Worth(c, before')
             u == Unit(c)
  <2>1. w \in Nat /\ u \in Nat
    BY <1>5, WorthOK DEF Unit
  <2> HIDE DEF w, u
  <2>2. w >= w + u * 0
    BY <2>1
  <2> QED
    BY <1>7, <2>2 DEF w, u
<1>13. \A c \in Kind : Known(sent, mined, proc', c)
  <2> SUFFICES ASSUME NEW c \in Kind PROVE Known(sent, mined, proc', c)
    OBVIOUS
  <2> DEFINE l == CountLabels(c, proc'.script)[proc'.pc]
  <2>1. l = Counted(0)
    BY <1>1, CountLabelsOK
  <2>2. l.done = 0 /\ l.last = "none"
    BY <2>1, CountedOK
  <2> HIDE DEF l
  <2>3. Cardinality(Oks(sent, mined, proc'.run, c)) >= l.done
    BY <1>7, <2>2
  <2> QED
    BY <2>2, <2>3 DEF Known, l
<1> QED
  BY <1>1, <1>5, <1>9, <1>10, <1>11, <1>12, <1>13 DEF DoneInv

\* What is sent has not succeeded yet, and is known to be sent.
LEMMA SubmitDone ==
  ASSUME DoneInv, TypeInv', Running, DoSubmit
  PROVE  DoneInv'
<1> DEFINE x == Transaction(I.call)
           n == Len(sent)
<1>1. /\ x \in TxType /\ x.pool = Home(proc)
      /\ x.fn = I.call.fn /\ x.amount = I.call.amount
      /\ n \in Nat /\ sent'[n + 1] = x /\ Len(sent') = n + 1
      /\ \A k \in 1 .. n : sent'[k] = sent[k]
      /\ I.op = "submit"
      /\ pools' = pools /\ mined' = mined /\ before' = before
  BY SubmitGoesOn DEF DoneInv
<1>2. PICK p \in ProcType :
        /\ proc' = Done(p) /\ p.script = proc.script /\ p.pc = proc.pc
        /\ p.run = proc.run /\ p.exit = proc.exit
        /\ p.tx = [proc.tx EXCEPT ![I.tx] = Len(sent) + 1]
  BY SubmitGoesOn DEF DoneInv
<1>3. x.run = proc.run
  BY DEF Transaction
<1>4. TypeInv /\ InProgram
  BY DEF DoneInv, TypeInv, ProcOK
<1>5. /\ proc'.script = proc.script /\ proc'.run = proc.run /\ Home(proc') = Home(proc)
      /\ proc'.tx = p.tx /\ proc'.pc = proc.pc + I.next /\ AtEnd(proc')
  BY <1>2, <1>4, DoneOnWay
<1>6. mined \in Nat /\ mined <= n /\ n = Len(sent)
  BY <1>4, CoverTypes
<1>7. ScriptPool' = ScriptPool
  BY <1>1, <1>5 DEF ScriptPool
<1> HIDE DEF x, n
<1>8. \A c : Oks(sent', mined, proc.run, c) = Oks(sent, mined, proc.run, c)
  <2> SUFFICES ASSUME NEW c
               PROVE  Oks(sent', mined, proc.run, c) = Oks(sent, mined, proc.run, c)
    OBVIOUS
  <2>1. \A k \in 1 .. mined : sent'[k] = sent[k]
    BY <1>1, <1>6
  <2> QED
    BY <2>1 DEF Oks
<1>9. \A k \in 1 .. Len(sent') : (k \in 1 .. n /\ sent'[k] = sent[k]) \/ (k = n + 1 /\ sent'[k] = x)
  BY <1>1
<1>10. ByItsRun(sent', proc')
  <2> SUFFICES ASSUME NEW k \in 1 .. Len(sent')
               PROVE  /\ sent'[k].run <= proc'.run
                      /\ sent'[k].run = proc'.run => sent'[k].pool = Home(proc')
    BY DEF ByItsRun
  <2>1. CASE k \in 1 .. n /\ sent'[k] = sent[k]
    <3>1. /\ sent[k].run <= proc.run
          /\ sent[k].run = proc.run => sent[k].pool = Home(proc)
      BY <1>6, <2>1 DEF DoneInv, ByItsRun
    <3> QED
      BY <1>5, <2>1, <3>1
  <2>2. CASE k = n + 1 /\ sent'[k] = x
    <3>1. proc.run \in Nat
      BY <1>4 DEF TypeInv, ProcOK, ProcType
    <3>2. proc.run <= proc.run
      BY <3>1
    <3> QED
      BY <1>1, <1>3, <1>5, <2>2, <3>2
  <2> QED
    BY <1>9, <2>1, <2>2
<1>11. NoneWithdrawn(sent', mined, proc')
  <2>1. "hurry" \in Events => NeverWithdraws(proc.script)
    BY DEF DoneInv, NoneWithdrawn, Running
  <2>2. ASSUME Keeps(proc.script), NEW k \in mined + 1 .. Len(sent')
        PROVE  sent'[k].fn # "withdrawLiquidity"
    <3>1. k \in 1 .. Len(sent')
      BY <1>1, <1>6, <2>2
    <3>2. CASE k \in 1 .. n /\ sent'[k] = sent[k]
      <4>1. k \in mined + 1 .. Len(sent)
        BY <1>6, <2>2, <3>2
      <4> QED
        BY <2>2, <3>2, <4>1 DEF DoneInv, NoneWithdrawn
    <3>3. CASE k = n + 1 /\ sent'[k] = x
      <4>1. NeverWithdraws(proc.script)
        BY <2>1, <2>2 DEF Keeps
      <4>2. proc.pc \in 1 .. Len(Program[proc.script])
        BY <1>4, InstructionOK
      <4>3. I.call.fn # "withdrawLiquidity"
        BY <4>1, <4>2 DEF NeverWithdraws, I
      <4> QED
        BY <1>1, <3>3, <4>3
    <3> QED
      BY <1>9, <3>1, <3>2, <3>3
  <2>3. proc'.exit = "running" /\ "hurry" \in Events => NeverWithdraws(proc'.script)
    BY <1>5, <2>1
  <2> QED
    BY <1>5, <2>2, <2>3 DEF NoneWithdrawn
<1>12. Earned(before, ScriptPool, sent', mined, proc')
  BY <1>5, <1>8 DEF DoneInv, Earned
<1>13. ASSUME NEW c \in Kind PROVE Known(sent', mined, proc', c)
  <2> DEFINE lab == CountLabels(c, proc.script)
             l == lab[proc.pc]
             k == lab[proc.pc + I.next]
             ok == Oks(sent, mined, proc.run, c)
             t == n + 1
  <2>1. Known(sent, mined, proc, c)
    BY DEF DoneInv, OnItsWay, Running
  <2>2. l \in Count /\ k \in Count /\ CountDone(c, l, I, k)
    BY <1>4, CountPlace
  <2>3. Cardinality(ok) >= l.done
    BY <1>6, <2>1, <2>2, AtLeast
  <2>4. Cardinality(ok) \in Nat /\ l.done \in Nat /\ k.done \in Nat
    BY <1>6, <2>2, OksFinite DEF Count
  <2>5. k.done <= l.done
    BY <1>1, <2>2 DEF CountDone
  <2>6. Cardinality(ok) >= k.done
    <3> HIDE DEF ok, l, k
    <3> QED
      BY <2>3, <2>4, <2>5
  <2>7. k.last = "sent" => proc'.tx["tx"] = t /\ Counts(c, x)
    <3> SUFFICES ASSUME k.last = "sent" PROVE proc'.tx["tx"] = t /\ Counts(c, x)
      OBVIOUS
    <3>1. I.tx = "tx" /\ Counts(c, I.call)
      BY <2>2 DEF CountDone
    <3>2. Counts(c, x)
      BY <1>1, <3>1 DEF Counts
    <3>3. proc.tx \in [Handle -> Nat] /\ "tx" \in Handle
      BY <1>4 DEF TypeInv, ProcOK, ProcType, Handle
    <3>4. p.tx["tx"] = t
      BY <1>2, <1>6, <3>1, <3>3
    <3> QED
      BY <1>5, <3>2, <3>4
  <2>8. ok \ {t} = ok
    <3>1. t \notin ok
      BY <1>6 DEF Oks
    <3> HIDE DEF ok, t
    <3> QED
      BY <3>1
  <2>9. /\ CountLabels(c, proc'.script)[proc'.pc] = k
        /\ Oks(sent', mined, proc'.run, c) = ok
    BY <1>5, <1>8
  <2>10. t \in 1 .. Len(sent') /\ sent'[t].run = proc'.run /\ (Counts(c, x) => Counts(c, sent'[t]))
    BY <1>1, <1>3, <1>5
  <2> HIDE DEF k, ok, t
  <2> QED
    BY <2>6, <2>7, <2>8, <2>9, <2>10 DEF Known
<1> QED
  BY <1>1, <1>5, <1>7, <1>10, <1>11, <1>12, <1>13 DEF DoneInv
-----------------------------------------------------------------------------
\* A transaction is applied to its pool, as it turns out.
LEMMA IncludeApplies ==
  ASSUME TypeInv, NEW delay \in Delays, Include(delay)
  PROVE  LET x == sent[mined + 1]
             p == pools[x.pool] IN
           \E ok \in Outcomes(p, x, time + delay) :
             /\ pools'[x.pool] = Apply(p, x, ok)
             /\ sent'[mined + 1].status = "ok" => ok
<1> DEFINE k == mined + 1
           x == sent[k]
           h == x.pool
           p == pools[h]
           now == time + delay
<1>0. PICK ok \in Outcomes(p, x, now) :
        /\ pools' = [pools EXCEPT ![h] = Apply(p, x, ok)]
        /\ sent' = [sent EXCEPT ![k] =
             [x EXCEPT !.status = IF ok THEN "ok" ELSE "reverted",
                       !.id = IF Fn(x, {"longTermSwapTokenToToken"})
                              THEN Len(p.orders) ELSE @]]
  BY DEF Include
<1> DEFINE st == IF ok THEN "ok" ELSE "reverted"
           id == IF Fn(x, {"longTermSwapTokenToToken"}) THEN Len(p.orders) ELSE x.id
           y == [x EXCEPT !.status = st, !.id = id]
           q == Apply(p, x, ok)
<1>1. /\ pools' = [pools EXCEPT ![h] = q]
      /\ sent' = [sent EXCEPT ![k] = y]
  BY <1>0
<1>2. /\ k \in 1 .. Len(sent) /\ x \in TxType /\ h \in 0 .. MaxRuns
      /\ sent \in Seq(TxType)
  BY IncludeOK, CoverTypes
<1>3. k = mined + 1
  OBVIOUS
<1> HIDE DEF k, now
<1>4. pools'[h] = q
  <2> HIDE DEF h, q
  <2> QED
    BY <1>1, <1>2 DEF TypeInv, PoolsOK
<1>5. sent'[k] = y
  <2> HIDE DEF y
  <2> QED
    BY <1>1, <1>2
<1>6. y.status = st
  <2> HIDE DEF x, st, id
  <2> QED
    BY <1>2 DEF TxType
<1>7. st = "ok" => ok
  BY OutcomeOK
<1>8. ok \in Outcomes(p, x, now)
  BY <1>0
<1> HIDE DEF y, st, q
<1>9. sent'[k].status = "ok" => ok
  BY <1>5, <1>6, <1>7
<1> QED
  BY <1>3, <1>4, <1>8, <1>9 DEF now, q

\* A block adds at most the transaction it includes to the successes of a run.
LEMMA OksMined ==
  ASSUME NEW s, NEW s2, NEW m \in Nat, NEW r, NEW c, \A j \in 1 .. m : s2[j] = s[j]
  PROVE  /\ \A t : Cardinality(Oks(s, m, r, c) \ {t}) <= Cardinality(Oks(s2, m + 1, r, c) \ {t})
         /\ Cardinality(Oks(s, m, r, c)) <= Cardinality(Oks(s2, m + 1, r, c))
         /\ Cardinality(Oks(s2, m + 1, r, c)) <= Cardinality(Oks(s, m, r, c)) + 1
         /\ m + 1 \notin Oks(s2, m + 1, r, c) =>
              Cardinality(Oks(s2, m + 1, r, c)) <= Cardinality(Oks(s, m, r, c))
<1> DEFINE a == Oks(s, m, r, c)
           b == Oks(s2, m + 1, r, c)
           k == m + 1
<1>1. a \subseteq b
  <2> SUFFICES ASSUME NEW j \in a PROVE j \in b
    OBVIOUS
  <2>1. j \in 1 .. m /\ s[j].run = r /\ s[j].status = "ok" /\ Counts(c, s[j])
    BY DEF Oks
  <2>2. j \in 1 .. m + 1 /\ s2[j] = s[j]
    BY <2>1
  <2> QED
    BY <2>1, <2>2 DEF Oks
<1>2. b \subseteq a \cup {k}
  <2> SUFFICES ASSUME NEW j \in b, j # k PROVE j \in a
    OBVIOUS
  <2>1. j \in 1 .. m + 1 /\ s2[j].run = r /\ s2[j].status = "ok" /\ Counts(c, s2[j])
    BY DEF Oks
  <2>2. j \in 1 .. m
    BY <2>1
  <2>3. s2[j] = s[j]
    BY <2>2
  <2> QED
    BY <2>1, <2>2, <2>3 DEF Oks
<1>3. a \subseteq 1 .. m /\ b \subseteq 1 .. m + 1 /\ k \notin a
  BY DEF Oks
<1> HIDE DEF a, b, k
<1>4. IsFiniteSet(a) /\ IsFiniteSet(b)
  <2>1. IsFiniteSet(1 .. m) /\ IsFiniteSet(1 .. m + 1)
    BY FS_Interval
  <2> QED
    BY <1>3, <2>1, FS_Subset
<1>5. Cardinality(a) \in Nat /\ Cardinality(b) \in Nat
  BY <1>4, FS_CardinalityType
<1>6. Cardinality(a) <= Cardinality(b)
  BY <1>1, <1>4, FS_Subset
<1>7. IsFiniteSet(a \cup {k}) /\ Cardinality(a \cup {k}) = Cardinality(a) + 1
  BY <1>3, <1>4, FS_AddElement
<1>8. Cardinality(b) <= Cardinality(a) + 1
  <2>1. Cardinality(b) <= Cardinality(a \cup {k})
    BY <1>2, <1>7, FS_Subset
  <2> QED
    BY <1>7, <2>1
<1>9. k \notin b => Cardinality(b) <= Cardinality(a)
  <2>1. k \notin b => b = a
    BY <1>1, <1>2
  <2> QED
    BY <1>5, <2>1
<1>10. ASSUME NEW t PROVE Cardinality(a \ {t}) <= Cardinality(b \ {t})
  <2>1. a \ {t} \subseteq b \ {t} /\ b \ {t} \subseteq b
    BY <1>1
  <2>2. IsFiniteSet(b \ {t})
    BY <1>4, <2>1, FS_Subset
  <2> QED
    BY <2>1, <2>2, FS_Subset
<1> QED
  BY <1>6, <1>8, <1>9, <1>10 DEF a, b, k

\* A block: a success more is an order or ten shares more.
LEMMA IncludeDone ==
  ASSUME DoneInv, TypeInv', NEW delay \in Delays, Include(delay)
  PROVE  DoneInv'
<1> DEFINE k == mined + 1
           x == sent[mined + 1]
           n == Len(sent)
           h == Home(proc)
           now == time + delay
<1>1. /\ k \in 1 .. n /\ n \in Nat /\ x \in TxType
      /\ x.pool \in 0 .. MaxRuns /\ Sound(pools[x.pool])
      /\ \A r \in 0 .. MaxRuns : r # x.pool => pools'[r] = pools[r]
      /\ Len(sent') = n
      /\ \A j \in 1 .. n : j # k => sent'[j] = sent[j]
      /\ sent'[k].fn = x.fn /\ sent'[k].amount = x.amount
      /\ sent'[k].pool = x.pool /\ sent'[k].run = x.run
      /\ mined' = k /\ proc' = proc /\ before' = before
  BY IncludeOK DEF DoneInv
<1>2. PICK ok \in Outcomes(pools[x.pool], x, now) :
        /\ pools'[x.pool] = Apply(pools[x.pool], x, ok)
        /\ sent'[k].status = "ok" => ok
  BY IncludeApplies DEF DoneInv
<1>3. TypeInv /\ mined \in Nat /\ k = mined + 1 /\ x = sent[k] /\ n = Len(sent)
  BY CoverTypes DEF DoneInv
<1>4. x.exact => x.fn = "addLiquidity"
  BY <1>1, <1>3 DEF TypeInv, SentOK
<1>5. h \in 0 .. MaxRuns /\ ScriptPool = pools[h] /\ ScriptPool' = pools'[h]
  BY <1>1, <1>3, HomePool DEF ScriptPool
<1>6. before \in Pool /\ ScriptPool \in Pool /\ ScriptPool' \in Pool
  <2>1. TypeInv' /\ before \in Pool
    BY DEF DoneInv
  <2> QED
    BY <1>3, <1>5, <2>1 DEF TypeInv, PoolsOK, Sound
<1>7. \A j \in 1 .. mined : sent'[j] = sent[j]
  BY <1>1, <1>3
<1>8. \A j \in 1 .. n : /\ sent'[j].fn = sent[j].fn /\ sent'[j].amount = sent[j].amount
                        /\ sent'[j].pool = sent[j].pool /\ sent'[j].run = sent[j].run
  BY <1>1, <1>3
<1> HIDE DEF k, x, n, h, now
<1>0. k \in Nat
  BY <1>3
<1>9. ByItsRun(sent', proc)
  BY <1>1, <1>3, <1>8 DEF DoneInv, ByItsRun
<1>10. NoneWithdrawn(sent', k, proc)
  <2>1. ASSUME Keeps(proc.script), NEW j \in k + 1 .. Len(sent')
        PROVE  sent'[j].fn # "withdrawLiquidity"
    <3>1. j \in mined + 1 .. Len(sent) /\ j \in 1 .. n
      BY <1>1, <1>3, <2>1
    <3>2. sent[j].fn # "withdrawLiquidity"
      BY <2>1, <3>1 DEF DoneInv, NoneWithdrawn
    <3> QED
      BY <1>8, <3>1, <3>2
  <2> QED
    BY <2>1 DEF DoneInv, NoneWithdrawn
<1>11. Earned(before, ScriptPool', sent', k, proc)
  <2> SUFFICES ASSUME NEW c \in Kind, c = "shares" => Keeps(proc.script)
               PROVE  Worth(c, ScriptPool') >= Worth(c, before)
                        + Unit(c) * Cardinality(Oks(sent', k, proc.run, c))
    BY DEF Earned
  <2> DEFINE w == Worth(c, before)
             v == Worth(c, ScriptPool)
             z == Worth(c, ScriptPool')
             u == Unit(c)
             a == Cardinality(Oks(sent, mined, proc.run, c))
             b == Cardinality(Oks(sent', k, proc.run, c))
  <2>1. w \in Nat /\ v \in Nat /\ z \in Nat /\ u \in {1, 10} /\ a \in Nat /\ b \in Nat
    BY <1>0, <1>3, <1>6, WorthOK, OksFinite DEF Unit
  <2>2. v >= w + u * a
    BY DEF DoneInv, Earned
  <2>3. b <= a + 1 /\ (k \notin Oks(sent', k, proc.run, c) => b <= a)
    <3> DEFINE r == proc.run
    <3>1. /\ Cardinality(Oks(sent', mined + 1, r, c)) <= Cardinality(Oks(sent, mined, r, c)) + 1
          /\ mined + 1 \notin Oks(sent', mined + 1, r, c) =>
               Cardinality(Oks(sent', mined + 1, r, c)) <= Cardinality(Oks(sent, mined, r, c))
      <4> HIDE DEF r
      <4> QED
        BY <1>3, <1>7, OksMined
    <3> QED
      BY <1>3, <3>1
  <2>4. CASE x.pool # h
    <3>1. z = v
      BY <1>1, <1>5, <2>4
    <3>2. sent'[k].run # proc.run
      <4>1. sent[k].run = proc.run => sent[k].pool = h
        BY <1>1, <1>3 DEF DoneInv, ByItsRun, h
      <4> QED
        BY <1>1, <1>3, <2>4, <4>1
    <3>3. k \notin Oks(sent', k, proc.run, c)
      BY <3>2 DEF Oks
    <3> HIDE DEF w, v, z, u, a, b
    <3> QED
      BY <2>1, <2>2, <2>3, <3>1, <3>3 DEF w, z, u, b
  <2>5. CASE x.pool = h
    <3> DEFINE p == pools[x.pool]
    <3>1. Sound(p) /\ v = Worth(c, p) /\ z = Worth(c, Apply(p, x, ok))
      BY <1>1, <1>2, <1>5, <2>5
    <3>2. c = "shares" => x.fn # "withdrawLiquidity"
      <4>1. k \in mined + 1 .. Len(sent)
        BY <1>1, <1>3
      <4> QED
        BY <1>3, <4>1 DEF DoneInv, NoneWithdrawn
    <3>3. k \in Oks(sent', k, proc.run, c) => ok /\ Counts(c, x)
      <4> SUFFICES ASSUME k \in Oks(sent', k, proc.run, c)
                   PROVE  ok /\ Counts(c, x)
        OBVIOUS
      <4>1. sent'[k].status = "ok" /\ Counts(c, sent'[k])
        BY DEF Oks
      <4>2. Counts(c, x)
        BY <1>1, <4>1 DEF Counts
      <4> QED
        BY <1>2, <4>1, <4>2
    <3>0. ok \in Outcomes(p, x, now)
      BY <1>2
    <3> HIDE DEF p
    <3>4. /\ Worth(c, Apply(p, x, ok)) >= Worth(c, p)
          /\ ok /\ Counts(c, x) =>
               Worth(c, Apply(p, x, ok)) >= Worth(c, p) + Unit(c)
      BY <1>1, <1>4, <3>0, <3>1, <3>2, WorthAfter
    <3>5. z >= v /\ (k \in Oks(sent', k, proc.run, c) => z >= v + u)
      BY <3>1, <3>3, <3>4
    <3>6. z >= w + u * b
      <4> HIDE DEF w, v, z, u, a, b
      <4>1. CASE k \in Oks(sent', k, proc.run, c)
        <5>1. CASE u = 1
          BY <2>1, <2>2, <2>3, <3>5, <4>1, <5>1
        <5>2. CASE u = 10
          BY <2>1, <2>2, <2>3, <3>5, <4>1, <5>2
        <5> QED
          BY <2>1, <5>1, <5>2
      <4>2. CASE k \notin Oks(sent', k, proc.run, c)
        <5>1. CASE u = 1
          BY <2>1, <2>2, <2>3, <3>5, <4>2, <5>1
        <5>2. CASE u = 10
          BY <2>1, <2>2, <2>3, <3>5, <4>2, <5>2
        <5> QED
          BY <2>1, <5>1, <5>2
      <4> QED
        BY <4>1, <4>2
    <3> QED
      BY <3>6
  <2> QED
    BY <2>4, <2>5
<1>12. ASSUME OnItsWay(proc), NEW c \in Kind PROVE Known(sent', k, proc, c)
  <2> DEFINE l == CountLabels(c, proc.script)[proc.pc]
             a == Oks(sent, mined, proc.run, c)
             b == Oks(sent', k, proc.run, c)
             t == proc.tx["tx"]
  <2>1. Known(sent, mined, proc, c)
    BY <1>12 DEF DoneInv
  <2>2. /\ l.last = "none" => Cardinality(a) >= l.done
        /\ l.last = "sent" => /\ t \in 1 .. n /\ sent[t].run = proc.run /\ Counts(c, sent[t])
                              /\ Cardinality(a \ {t}) >= l.done
    BY <1>3, <2>1 DEF Known
  <2>3. proc.script \in Script /\ l \in Count
    <3>1. proc.script \in Script /\ proc.pc \in 1 .. Len(Program[proc.script]) + 1
      <4>1. CASE Running
        <5>1. /\ proc.script \in Script /\ proc.pc \in 1 .. Len(Program[proc.script])
              /\ Len(Program[proc.script]) \in Nat
          BY <1>3, <4>1, InstructionOK DEF TypeInv, ProcOK
        <5> QED
          BY <5>1
      <4>2. CASE proc.exit = "0" /\ proc.script # "none"
        <5>1. proc.script \in Script /\ proc.pc = Len(Program[proc.script]) + 1
          BY <4>2 DEF DoneInv, AtEnd
        <5> QED
          BY <5>1, ProgramsOK
      <4> QED
        BY <1>12, <4>1, <4>2 DEF OnItsWay, Running
    <3>2. CountLabels(c, proc.script) \in [1 .. Len(Program[proc.script]) + 1 -> Count]
      BY <3>1, CountLabelsOK DEF Labelled
    <3> QED
      BY <3>1, <3>2
  <2>4. l.done \in Nat
    BY <2>3 DEF Count
  <2>5. /\ Cardinality(a) <= Cardinality(b) /\ Cardinality(a \ {t}) <= Cardinality(b \ {t})
    BY <1>3, <1>7, OksMined
  <2>6. /\ Cardinality(a) \in Nat /\ Cardinality(b) \in Nat
        /\ Cardinality(a \ {t}) \in Nat /\ Cardinality(b \ {t}) \in Nat
    BY <1>0, <1>3, OksFinite
  <2>7. /\ l.last = "none" => Cardinality(b) >= l.done
        /\ l.last = "sent" => Cardinality(b \ {t}) >= l.done
    <3> HIDE DEF l, a, b, t
    <3> QED
      BY <2>2, <2>4, <2>5, <2>6
  <2>8. l.last = "sent" => /\ t \in 1 .. Len(sent') /\ sent'[t].run = proc.run
                           /\ Counts(c, sent'[t])
    <3> SUFFICES ASSUME l.last = "sent"
                 PROVE  /\ t \in 1 .. Len(sent') /\ sent'[t].run = proc.run
                        /\ Counts(c, sent'[t])
      OBVIOUS
    <3> HIDE DEF l, t
    <3>1. t \in 1 .. n /\ sent[t].run = proc.run /\ Counts(c, sent[t])
      BY <2>2
    <3> QED
      BY <1>1, <1>8, <3>1 DEF Counts
  <2> QED
    BY <2>7, <2>8 DEF Known
<1>13. TypeInv' /\ before' \in Pool /\ AtEnd(proc)
  BY <1>1, <1>6 DEF DoneInv
<1> QED
  BY <1>1, <1>9, <1>10, <1>11, <1>12, <1>13 DEF DoneInv
-----------------------------------------------------------------------------
\* A run that is killed has nothing to show.
LEMMA KillDone ==
  ASSUME DoneInv, TypeInv', Kill
  PROVE  DoneInv'
<1> DEFINE p == [proc EXCEPT !.exit = "killed"]
<1>1. proc' = p /\ OnlyScript /\ proc \in ProcType /\ Running
  BY DEF Kill, DoneInv, TypeInv, ProcOK
<1>2. p.exit = "killed" /\ p.script = proc.script /\ p.run = proc.run
  BY <1>1 DEF ProcType
<1> HIDE DEF p
<1>3. Home(proc') = Home(proc)
  BY <1>1, <1>2 DEF Home
<1>4. AtEnd(proc') /\ ~OnItsWay(proc')
  BY <1>1, <1>2 DEF AtEnd, OnItsWay
<1> QED
  BY <1>1, <1>2, <1>3, <1>4, SameRun

\* Others take nothing from the account.
LEMMA OthersDone ==
  ASSUME DoneInv, TypeInv', Others
  PROVE  DoneInv'
<1>1. /\ ByOthers(pools[0], pools'[0])
      /\ \A r \in 0 .. MaxRuns : r # 0 => pools'[r] = pools[r]
      /\ sent' = sent /\ mined' = mined /\ proc' = proc /\ before' = before
  BY OthersOK DEF DoneInv
<1>2. Home(proc) \in 0 .. MaxRuns /\ TypeInv /\ mined \in Nat
  BY HomePool, CoverTypes DEF DoneInv
<1>3. ScriptPool = pools[Home(proc)] /\ ScriptPool' = pools'[Home(proc)]
  BY <1>1 DEF ScriptPool
<1>4. ScriptPool \in Pool /\ ScriptPool' \in Pool /\ before \in Pool
  <2>1. TypeInv' /\ before \in Pool
    BY DEF DoneInv
  <2> QED
    BY <1>2, <1>3, <2>1 DEF TypeInv, PoolsOK, Sound
<1>5. ASSUME NEW c \in Kind PROVE Worth(c, ScriptPool') >= Worth(c, ScriptPool)
  <2>1. CASE Home(proc) # 0
    <3>1. ScriptPool' = ScriptPool
      BY <1>1, <1>2, <1>3, <2>1
    <3>2. Worth(c, ScriptPool) \in Nat
      BY <1>4, WorthOK
    <3> QED
      BY <3>1, <3>2
  <2>2. CASE Home(proc) = 0
    <3>1. SameOwners(ScriptPool, ScriptPool') /\ ScriptPool'.shares = ScriptPool.shares
      BY <1>1, <1>3, <2>2 DEF ByOthers, SameOwners
    <3>2. ScriptPool.shares \in Nat
      BY <1>4, PoolFacts
    <3>3. Cardinality(Own(ScriptPool')) >= Cardinality(Own(ScriptPool))
      BY <1>4, <3>1, OwnGrows
    <3> QED
      BY <3>1, <3>2, <3>3 DEF Worth
  <2> QED
    BY <2>1, <2>2
<1>6. Earned(before, ScriptPool', sent, mined, proc)
  <2> SUFFICES ASSUME NEW c \in Kind, c = "shares" => Keeps(proc.script)
               PROVE  Worth(c, ScriptPool') >= Worth(c, before)
                        + Unit(c) * Cardinality(Oks(sent, mined, proc.run, c))
    BY DEF Earned
  <2> DEFINE w == Worth(c, before)
             v == Worth(c, ScriptPool)
             z == Worth(c, ScriptPool')
             g == Unit(c) * Cardinality(Oks(sent, mined, proc.run, c))
  <2>1. Cardinality(Oks(sent, mined, proc.run, c)) \in Nat
    BY <1>2, OksFinite
  <2>2. Unit(c) \in {1, 10}
    BY DEF Unit
  <2>3. w \in Nat /\ v \in Nat /\ z \in Nat /\ g \in Nat
    <3>1. w \in Nat /\ v \in Nat /\ z \in Nat
      BY <1>4, WorthOK
    <3> QED
      BY <2>1, <2>2, <3>1
  <2>4. v >= w + g
    BY DEF DoneInv, Earned
  <2>5. z >= v
    BY <1>5
  <2> HIDE DEF w, v, z, g
  <2>6. z >= w + g
    BY <2>3, <2>4, <2>5
  <2> QED
    BY <2>6 DEF z, w, g
<1> QED
  BY <1>1, <1>6 DEF DoneInv

\* At first nothing is done.
LEMMA DoneInit ==
  ASSUME Init
  PROVE  DoneInv
<1>1. TypeInv
  BY TypeInit
<1>2. /\ sent = <<>> /\ mined = 0 /\ before = NoPool
      /\ proc.script = "none" /\ proc.run = 0 /\ proc.exit = "0"
  BY DEF Init, NoRun
<1>3. Len(sent) = 0 /\ 1 .. Len(sent) = {} /\ mined + 1 .. Len(sent) = {}
  BY <1>2
<1>4. NoPool \in Pool
  <2> DEFINE a == [t \in Token |-> 0]
  <2>1. a \in [Token -> Nat]
    OBVIOUS
  <2>2. <<>> \in Seq([mine : BOOLEAN, sells : Token, state : OrderState])
    BY EmptySeq
  <2>3. NoPool = [created |-> FALSE, supply |-> 0, shares |-> 0, allowance |-> a,
                  price |-> 0, executions |-> 0, orders |-> <<>>]
    BY DEF NoPool
  <2> HIDE DEF a
  <2> QED
    BY <2>1, <2>2, <2>3 DEF Pool
<1>5. ScriptPool \in Pool
  BY <1>1, HomePool DEF Sound
<1>6. \A c \in Kind : Worth(c, NoPool) = 0
  <2>1. NoPool.shares = 0 /\ NoPool.orders = <<>>
    BY DEF NoPool
  <2>2. Own(NoPool) = {}
    <3>1. Len(NoPool.orders) = 0
      BY <2>1
    <3>2. Own(NoPool) = {i \in 1 .. Len(NoPool.orders) : NoPool.orders[i].mine}
      BY <1>4, OwnFinite
    <3> QED
      BY <3>1, <3>2
  <2>3. Cardinality(Own(NoPool)) = 0
    BY <2>2, FS_EmptySet
  <2> QED
    BY <2>1, <2>3 DEF Worth
<1>7. ASSUME NEW c \in Kind
      PROVE  Worth(c, ScriptPool) >= Worth(c, before)
               + Unit(c) * Cardinality(Oks(sent, mined, proc.run, c))
  <2>1. Oks(sent, mined, proc.run, c) = {}
    BY <1>2 DEF Oks
  <2>2. Cardinality(Oks(sent, mined, proc.run, c)) = 0
    BY <2>1, FS_EmptySet
  <2>3. Worth(c, ScriptPool) \in Nat /\ Worth(c, before) = 0 /\ Unit(c) \in {1, 10}
    BY <1>2, <1>5, <1>6, WorthOK DEF Unit
  <2> QED
    BY <2>2, <2>3
<1>8. Earned(before, ScriptPool, sent, mined, proc)
  BY <1>7 DEF Earned
<1>9. ByItsRun(sent, proc) /\ NoneWithdrawn(sent, mined, proc)
  BY <1>2, <1>3 DEF ByItsRun, NoneWithdrawn
<1>10. AtEnd(proc) /\ ~OnItsWay(proc)
  BY <1>2 DEF AtEnd, OnItsWay
<1> QED
  BY <1>1, <1>2, <1>4, <1>8, <1>9, <1>10 DEF DoneInv

\* Every step keeps what is counted behind what the account has.
LEMMA DoneStep ==
  ASSUME KeepsLiquidity, DoneInv, [Next]_vars
  PROVE  DoneInv'
<1>1. TypeInv' /\ TypeInv
  BY TypeStep DEF DoneInv
<1>2. ASSUME NEW script \in Script, Start(script) PROVE DoneInv'
  BY <1>1, <1>2, StartDone
<1>3. CASE ScriptStep
  <2>1. Running
    BY <1>3 DEF ScriptStep
  <2>2. CASE DoReadClock \/ DoReadPair \/ DoReadRatio \/ DoReadIds \/ DoLookUp
    <3>1. I.op # "wait"
      BY <2>2 DEF DoReadClock, DoReadPair, DoReadRatio, DoReadIds, DoLookUp
    <3> QED
      BY <1>1, <2>1, <2>2, <3>1, ReadsGoOn, QuietDone
  <2>3. CASE FailToSubmit
    BY <1>1, <2>1, <2>3, QuietDone DEF FailToSubmit
  <2>4. CASE DoWait
    <3>1. OnlyScript /\ I.op # "submit" /\ proc.tx[I.tx] <= mined
      BY <2>4, WaitGoesOn DEF DoWait
    <3>2. CASE sent[proc.tx[I.tx]].status = "ok"
      <4>1. proc' = Done(proc)
        BY <2>4, <3>2 DEF DoWait
      <4>2. proc \in ProcType
        BY <1>1 DEF TypeInv, ProcOK
      <4> QED
        BY <1>1, <2>1, <3>1, <3>2, <4>1, <4>2, QuietDone
    <3>3. CASE sent[proc.tx[I.tx]].status # "ok"
      <4>1. proc' = Throw(proc)
        BY <2>4, <3>3 DEF DoWait
      <4> QED
        BY <1>1, <2>1, <3>1, <4>1, QuietDone
    <3> QED
      BY <3>2, <3>3
  <2>5. CASE DoSubmit
    BY <1>1, <2>1, <2>5, SubmitDone
  <2> QED
    BY <1>3, <2>2, <2>3, <2>4, <2>5 DEF ScriptStep
<1>4. CASE Kill
  BY <1>1, <1>4, KillDone
<1>5. ASSUME NEW delay \in Delays, Include(delay) PROVE DoneInv'
  BY <1>1, <1>5, IncludeDone
<1>6. CASE Others
  BY <1>1, <1>6, OthersDone
<1>7. CASE (\E delay \in Delays : Pass(delay)) \/ UNCHANGED vars
  <2>1. pools' = pools /\ sent' = sent /\ mined' = mined /\ proc' = proc /\ before' = before
    BY <1>7 DEF Pass, vars
  <2> QED
    BY <1>1, <2>1 DEF DoneInv, ScriptPool
<1> QED
  BY <1>2, <1>3, <1>4, <1>5, <1>6, <1>7 DEF Next, SomeBlock

\* What the script has counted at its end, the account has.
LEMMA DoneMeansEffect ==
  ASSUME DoneInv
  PROVE  SuccessMeansEffect
<1> SUFFICES ASSUME proc.script \in DOMAIN Gain, proc.exit = "0"
             PROVE  /\ Cardinality(Own(ScriptPool))
                         >= Cardinality(Own(before)) + Gain[proc.script].orders
                    /\ ScriptPool.shares >= before.shares + Gain[proc.script].shares
  BY DEF SuccessMeansEffect
<1> DEFINE sc == proc.script
<1>1. sc \in Script /\ NeverWithdraws(sc) /\ Keeps(sc)
  BY GainersKeep DEF Keeps
<1>2. sc \in {"SampleRunGoerli", "SampleRunRinkeby", "TermSwap", "AddLiquidity"}
  BY DEF Gain
<1>3. Gain[sc].orders = Due("orders", sc) /\ Gain[sc].shares = 10 * Due("shares", sc)
  BY <1>2 DEF Gain, Due
<1>4. proc.pc = Len(Program[sc]) + 1 /\ OnItsWay(proc)
  BY <1>2 DEF DoneInv, AtEnd, OnItsWay
<1>5. ASSUME NEW c \in Kind
      PROVE  Worth(c, ScriptPool) >= Worth(c, before) + Unit(c) * Due(c, sc)
  <2> DEFINE l == CountLabels(c, sc)[proc.pc]
             a == Cardinality(Oks(sent, mined, proc.run, c))
             d == Due(c, sc)
             w == Worth(c, before)
             v == Worth(c, ScriptPool)
             u == Unit(c)
  <2>1. d \in Nat /\ u \in {1, 10}
    BY DEF Due, Unit
  <2>2. l = Counted(d)
    BY <1>1, <1>4, CountLabelsOK
  <2>3. l.done = d /\ l.last = "none"
    BY <2>1, <2>2, CountedOK
  <2>4. Known(sent, mined, proc, c)
    BY <1>4 DEF DoneInv
  <2>5. a >= d
    BY <2>3, <2>4 DEF Known
  <2>6. v >= w + u * a
    BY <1>1 DEF DoneInv, Earned
  <2>7. mined \in Nat /\ ScriptPool \in Pool /\ before \in Pool
    BY HomePool, CoverTypes DEF DoneInv, Sound
  <2>8. a \in Nat /\ w \in Nat /\ v \in Nat
    BY <2>7, OksFinite, WorthOK
  <2> HIDE DEF l, a, d, w, v, u
  <2>9. v >= w + u * d
    <3>1. CASE u = 1
      BY <2>1, <2>5, <2>6, <2>8, <3>1
    <3>2. CASE u = 10
      BY <2>1, <2>5, <2>6, <2>8, <3>2
    <3> QED
      BY <2>1, <3>1, <3>2
  <2> QED
    BY <2>9 DEF v, w, u, d
<1>6. Cardinality(Own(ScriptPool)) >= Cardinality(Own(before)) + Gain[sc].orders
  <2>1. "orders" \in Kind
    BY DEF Kind
  <2>2. /\ Worth("orders", ScriptPool) = Cardinality(Own(ScriptPool))
        /\ Worth("orders", before) = Cardinality(Own(before))
        /\ Unit("orders") * Due("orders", sc) = Due("orders", sc)
    BY DEF Worth, Unit, Due
  <2> QED
    BY <1>3, <1>5, <2>1, <2>2
<1>7. ScriptPool.shares >= before.shares + Gain[sc].shares
  <2>1. "shares" \in Kind
    BY DEF Kind
  <2>2. /\ Worth("shares", ScriptPool) = ScriptPool.shares
        /\ Worth("shares", before) = before.shares
        /\ Unit("shares") * Due("shares", sc) = 10 * Due("shares", sc)
    BY DEF Worth, Unit, Due
  <2> QED
    BY <1>3, <1>5, <2>1, <2>2
<1> QED
  BY <1>6, <1>7

\* A script that waits for what it is for and exits with 0 has had its effect,
\* whatever was killed or sent before and whatever others do meanwhile, if no
\* withdrawal of liquidity can still pend when a script is started.
THEOREM SuccessCorrect ==
  ASSUME KeepsLiquidity
  PROVE  Spec => []SuccessMeansEffect
<1>1. Init => DoneInv
  BY DoneInit
<1>2. DoneInv /\ [Next]_vars => DoneInv'
  BY DoneStep
<1>3. DoneInv => SuccessMeansEffect
  BY DoneMeansEffect
<1> QED
  BY <1>1, <1>2, <1>3, PTL DEF Spec
-----------------------------------------------------------------------------
(***************************************************************************)
(* Providing liquidity once.  The label of a place says that the run has   *)
(* sent no provision of liquidity so far ("none"), that it has sent one,   *)
(* under the handle "tx", and not waited for it yet ("sent"), that every   *)
(* one it has sent has reverted ("failed"), or nothing ("any"); where it   *)
(* says nothing, no other may be sent.                                     *)
(***************************************************************************)
Provision == {"addInitialLiquidity", "addInitialLiquidityETH", "addLiquidity"}

Stage == {"none", "sent", "failed", "any"}

\* An instruction that neither provides liquidity nor says so.
DryInstr == {i \in Instr : i.call.fn \notin Provision /\ i.says = "none"}

Dry(s) == Within(DryInstr, s)

\* What else holds where the label says l.
Implied(l, m) == m = l \/ m = "any" \/ (l = "none" /\ m = "failed")

StageDone(l, i, m) ==
  \/ l # "sent" /\ i \in DryInstr /\ Implied(l, m)
  \/ /\ l = "none" /\ m = "sent"
     /\ i.op = "submit" /\ i.call.fn \in Provision /\ i.tx = "tx" /\ i.says = "none"
  \/ /\ l \in {"none", "failed"} /\ m = "any"
     /\ i.op = "submit" /\ i.call.fn \in Provision
  \/ l = "sent" /\ m = "any" /\ i.op = "wait" /\ i.tx = "tx"

StageThrown(l, i, m) ==
  \/ l # "sent" /\ Implied(l, m)
  \/ l = "sent" /\ m = "failed" /\ i.op = "wait" /\ i.tx = "tx"

StageD == {x \in Stage \X Instr \X Stage : StageDone(x[1], x[2], x[3])}

StageT == {x \in Stage \X Instr \X Stage : StageThrown(x[1], x[2], x[3])}

SFlow(l, s, m) == Flow(Stage, StageD, StageT, l, s, m)

SLine(l, s, m) == Line(Stage, StageD, StageT, l, s, m, "failed")

\* Programs one after the other, as to provisions.
LEMMA JoinSFlows ==
  ASSUME NEW l, NEW m, NEW n, NEW s, NEW t, SFlow(l, s, m), SFlow(m, t, n)
  PROVE  SFlow(l, s \o t, n)
BY JoinFlows DEF SFlow

\* Lines one after the other, as to provisions.
LEMMA JoinSLines ==
  ASSUME NEW l, NEW m, NEW n, NEW s, NEW t, SLine(l, s, m), SLine(m, t, n)
  PROVE  SLine(l, s \o t, n)
BY JoinLines DEF SLine

\* All calls but the provisions of liquidity are dry.
LEMMA DryIsPlain ==
  /\ Plain(DryInstr)
  /\ \A n \in Nat, by \in Nat : Takes(DryInstr, WithdrawLiquidity(n, by))
  /\ \A t \in Token, by \in Nat : Takes(DryInstr, CancelTermSwap(t, by))
<1>1. ASSUME NEW call \in CallType, call.fn \notin Provision
      PROVE  Takes(DryInstr, call)
  BY <1>1 DEF Takes, DryInstr
<1>2. Wayless(DryInstr)
  <2> SUFFICES ASSUME NEW i \in DryInstr, NEW k \in Nat, NEW v \in Nat \ {0}
               PROVE  Redirected(i, k, v) \in DryInstr
    BY DEF Wayless, DryInstr
  <2>1. i \in Instr /\ i.call.fn \notin Provision /\ i.says = "none"
    BY DEF DryInstr
  <2>2. Redirected(i, k, v) \in Instr
    BY <2>1, Redirect
  <2>3. Redirected(i, k, v).call = i.call /\ Redirected(i, k, v).says = i.says
    BY <2>1 DEF Redirected, Instr
  <2> QED
    BY <2>1, <2>2, <2>3 DEF DryInstr
<1>3. Takes(DryInstr, Deploy) /\ Takes(DryInstr, ExecuteVirtualOrders)
  <2>1. Deploy \in CallType /\ ExecuteVirtualOrders \in CallType
    BY Calls DEF Token
  <2>2. Deploy.fn \notin Provision /\ ExecuteVirtualOrders.fn \notin Provision
    BY DEF Deploy, ExecuteVirtualOrders, Call, Provision
  <2> QED
    BY <1>1, <2>1, <2>2
<1>4. ASSUME NEW t \in Token, NEW n \in Nat, NEW by \in Nat
      PROVE  /\ Takes(DryInstr, Approve(t, n)) /\ Takes(DryInstr, CreatePairWrapper(by))
             /\ Takes(DryInstr, InstantSwap(t, n, by))
             /\ Takes(DryInstr, LongTermSwap(t, n, by))
             /\ Takes(DryInstr, WithdrawProceeds(t, by))
             /\ Takes(DryInstr, WithdrawLiquidity(n, by))
             /\ Takes(DryInstr, CancelTermSwap(t, by))
  <2>1. /\ Approve(t, n).fn \notin Provision
        /\ CreatePairWrapper(by).fn \notin Provision
        /\ InstantSwap(t, n, by).fn \notin Provision
        /\ LongTermSwap(t, n, by).fn \notin Provision
        /\ WithdrawProceeds(t, by).fn \notin Provision
        /\ WithdrawLiquidity(n, by).fn \notin Provision
        /\ CancelTermSwap(t, by).fn \notin Provision
    BY DEF Approve, CreatePairWrapper, InstantSwap, LongTermSwap, WithdrawProceeds,
           WithdrawLiquidity, CancelTermSwap, Call, Provision
  <2> QED
    BY <1>1, <2>1, Calls
<1>5. 0 \in Token
  BY DEF Token
<1> QED
  BY <1>2, <1>3, <1>4, <1>5 DEF Plain

\* A program that provides nothing leaves every label but "sent" as it is.
LEMMA DryFlow ==
  ASSUME NEW l \in Stage, l # "sent", NEW s, Dry(s), Shaped(s)
  PROVE  SFlow(l, s, l)
<1> DEFINE len == Len(s)
           lab == [i \in 1 .. len + 1 |-> l]
<1>1. PICK p, q : AFlow(p, s, q)
  BY DEF Shaped
<1>2. /\ s \in Seq(Instr) /\ len \in Nat
      /\ \A i \in 1 .. len : s[i] \in Instr /\ s[i] \in DryInstr
  BY DEF Dry, Within
<1>3. PICK old : Labelled(Allowance, AllowD, AllowT, s, old)
  BY <1>1 DEF AFlow, Flow
<1>4. ASSUME NEW i \in DryInstr PROVE <<l, i, l>> \in StageD /\ <<l, i, l>> \in StageT
  BY DEF StageD, StageT, StageDone, StageThrown, Implied, DryInstr
<1>5. Wayless(DryInstr)
  BY DryIsPlain DEF Plain
<1>6. ASSUME NEW i \in 1 .. len
      PROVE  GoesOn(StageD, StageT, lab, s[i], i, len + 1)
  <2> DEFINE e == s[i]
             b == Bare(e)
             x == e.next
             y == e.catch
  <2>1. e \in Instr /\ e \in DryInstr /\ x \in Nat \ {0} /\ y \in Nat
    BY <1>2 DEF Instr
  <2>2. i + x <= len + 1 /\ (y # 0 => i + y <= len + 1)
    BY <1>3 DEF Labelled, GoesOn
  <2>3. b \in DryInstr
    <3> HIDE DEF e
    <3>1. Redirected(e, 0, 1) \in DryInstr
      BY <1>5, <2>1 DEF Wayless
    <3>2. Redirected(e, 0, 1) = b
      BY <2>1 DEF Redirected, Bare, Instr
    <3> QED
      BY <3>1, <3>2
  <2> HIDE DEF e, b, x, y
  <2>4. /\ i \in 1 .. len + 1 /\ i + x \in 1 .. len + 1
        /\ y # 0 => i + y \in 1 .. len + 1
    BY <1>2, <2>1, <2>2
  <2>5. lab[i] = l /\ lab[i + x] = l /\ (y # 0 => lab[i + y] = l)
    BY <2>4
  <2> HIDE DEF lab
  <2>6. <<lab[i], b, lab[i + x]>> \in StageD /\ (y # 0 => <<lab[i], b, lab[i + y]>> \in StageT)
    BY <1>4, <2>3, <2>5
  <2> QED
    BY <2>2, <2>6 DEF GoesOn, b, x, y, e
<1>7. lab \in [1 .. len + 1 -> Stage] /\ lab[1] = l /\ lab[len + 1] = l
  BY <1>2
<1> HIDE DEF lab
<1>8. Labelled(Stage, StageD, StageT, s, lab)
  BY <1>6, <1>7 DEF Labelled
<1> QED
  BY <1>2, <1>7, <1>8 DEF SFlow, Flow

\* If it has no jumps, an error in it may be handled where all have failed, or
\* where nothing is known.
LEMMA DryLine ==
  ASSUME NEW l \in {"none", "failed"}, NEW s, Dry(s), NEW p, NEW q, ALine(p, s, q)
  PROVE  SLine(l, s, l) /\ Line(Stage, StageD, StageT, l, s, l, "any")
<1>1. /\ s \in Seq(Instr) /\ \A i \in 1 .. Len(s) : s[i] \in Instr /\ s[i] \in DryInstr
  BY DEF Dry, Within
<1>2. \A i \in 1 .. Len(s) : s[i].next = 1 /\ s[i].catch = 0
  BY DEF ALine, Line
<1>3. ASSUME NEW i \in DryInstr
      PROVE  <<l, i, l>> \in StageD /\ <<l, i, "failed">> \in StageT
             /\ <<l, i, "any">> \in StageT
  BY DEF StageD, StageT, StageDone, StageThrown, Implied, DryInstr, Stage
<1>4. \A i \in 1 .. Len(s) : Bare(s[i]) = s[i]
  BY <1>1, <1>2, StraightIsBare
<1>5. \A i \in 1 .. Len(s) : /\ s[i].next = 1 /\ s[i].catch = 0
                             /\ <<l, Bare(s[i]), l>> \in StageD
                             /\ <<l, Bare(s[i]), "failed">> \in StageT
                             /\ <<l, Bare(s[i]), "any">> \in StageT
  BY <1>1, <1>2, <1>3, <1>4
<1>6. l \in Stage
  BY DEF Stage
<1> QED
  BY <1>1, <1>5, <1>6, IdleLine DEF SLine
-----------------------------------------------------------------------------
\* The initial provision, waited for, and the message that it is done.
LEMMA InitialStages ==
  /\ SLine("none", Saying("initial", <<ReadPair>> \o ApproveBoth(10)
                                     \o SubmitAndWait(AddInitialLiquidity(10, 3))), "any")
  /\ Saying("initial", <<ReadPair>> \o ApproveBoth(10)
                       \o SubmitAndWait(AddInitialLiquidity(10, 3))) # <<>>
<1> DEFINE call == AddInitialLiquidity(10, 3)
           i == SubmitAs("tx", call)
           w == Wait("tx")
           j == [w EXCEPT !.says = "initial"]
           s == <<ReadPair>> \o ApproveBoth(10)
<1>0. "tx" \in Handle /\ 0 \in Nat /\ 3 \in Nat /\ 10 \in Nat
  BY DEF Handle
<1>1. call \in CallType /\ call.fn \in Provision
  BY <1>0, Calls DEF Token, AddInitialLiquidity, Call, Provision
<1>2. SubmitAndWait(call) = <<i, w>>
  BY DEF SubmitAndWait
<1> HIDE DEF call
<1>3. /\ i \in Instr /\ i.op = "submit" /\ i.call.fn \in Provision /\ i.tx = "tx"
      /\ i.says = "none" /\ i.next = 1 /\ i.catch = 0
  BY <1>0, <1>1, SubmitSends DEF Sends
<1>4. w \in Instr /\ w.op = "wait" /\ w.tx = "tx" /\ w.next = 1 /\ w.catch = 0
  BY <1>0, OthersRead DEF Reads
<1> HIDE DEF i, w
<1>5. j \in Instr /\ j.op = "wait" /\ j.tx = "tx" /\ j.next = 1 /\ j.catch = 0
  BY <1>4 DEF Instr
<1> HIDE DEF j
<1>6. SLine("none", <<i>>, "sent")
  <2>1. Bare(i) = i
    BY <1>3, StraightIsBare
  <2>2. <<"none", i, "sent">> \in StageD /\ <<"none", i, "failed">> \in StageT
    BY <1>3 DEF StageD, StageT, StageDone, StageThrown, Implied, Stage
  <2>3. "none" \in Stage /\ "sent" \in Stage
    BY DEF Stage
  <2> QED
    BY <1>3, <2>1, <2>2, <2>3, OneLine DEF SLine
<1>7. SLine("sent", <<j>>, "any")
  <2>1. Bare(j) = j
    BY <1>5, StraightIsBare
  <2>2. <<"sent", j, "any">> \in StageD /\ <<"sent", j, "failed">> \in StageT
    BY <1>5 DEF StageD, StageT, StageDone, StageThrown, Implied, Stage
  <2>3. "any" \in Stage /\ "sent" \in Stage
    BY DEF Stage
  <2> QED
    BY <1>5, <2>1, <2>2, <2>3, OneLine DEF SLine
<1>8. SLine("none", s, "none") /\ s \in Seq(Instr)
  <2>1. ALine(Allowing(0, 0), <<ReadPair>>, Allowing(0, 0))
    BY <1>0, AReads
  <2>2. ALine(Allowing(0, 0), ApproveBoth(10), Allowing(10, 10))
    BY <1>0, AApproveBoth
  <2>3. ALine(Allowing(0, 0), s, Allowing(10, 10))
    BY <2>1, <2>2, JoinALines
  <2>4. Dry(s)
    <3>1. Dry(<<ReadPair>>) /\ Dry(ApproveBoth(10))
      BY <1>0, DryIsPlain, PartsWithin DEF Dry
    <3> QED
      BY <3>1, JoinWithin DEF Dry
  <2> HIDE DEF s
  <2> QED
    BY <2>3, <2>4, DryLine DEF Dry, Within
<1> HIDE DEF s
<1> DEFINE one == <<i>>
           two == <<w>>
           three == <<j>>
<1>9. /\ one \in Seq(Instr) /\ two \in Seq(Instr) /\ three \in Seq(Instr)
      /\ Len(three) = 1 /\ <<i, w>> = one \o two
  BY <1>3, <1>4, <1>5, Split
<1>10. Saying("initial", (s \o one) \o two) = (s \o one) \o three
  <2> DEFINE t == s \o one
  <2>1. t \in Seq(Instr)
    BY <1>8, <1>9
  <2> HIDE DEF t, one
  <2>2. Saying("initial", t \o <<w>>) = t \o <<[w EXCEPT !.says = "initial"]>>
    BY <1>4, <2>1, SayingLast
  <2> QED
    BY <2>2 DEF t, j
<1> HIDE DEF one, two, three
<1>11. (s \o one) \o two = s \o (one \o two)
  BY <1>8, <1>9, ConcatAssociative
<1>12. SLine("none", s \o one, "sent")
  BY <1>6, <1>8, JoinSLines DEF one
<1>13. SLine("none", (s \o one) \o three, "any")
  BY <1>7, <1>12, JoinSLines DEF three
<1>14. (s \o one) \o three # <<>>
  <2> DEFINE t == s \o one
             u == t \o three
  <2>1. t \in Seq(Instr)
    BY <1>8, <1>9
  <2> HIDE DEF t
  <2>2. Len(t) \in Nat /\ Len(u) = Len(t) + 1
    <3>1. three \in Seq(Instr) /\ Len(three) = 1
      BY <1>9
    <3>2. Len(u) = Len(t) + Len(three) /\ Len(t) \in Nat
      BY <2>1, <3>1, ConcatProperties, LenProperties
    <3> QED
      BY <3>1, <3>2
  <2> HIDE DEF u
  <2>3. Len(u) # 0 /\ Len(<<>>) = 0
    BY <2>2
  <2>4. u # <<>>
    BY <2>3, Zenon
  <2> QED
    BY <2>4 DEF u, t
<1>15. Saying("initial", s \o SubmitAndWait(call)) = (s \o one) \o three
  BY <1>2, <1>9, <1>10, <1>11
<1> QED
  BY <1>13, <1>14, <1>15 DEF s, call

\* The sample runs provide liquidity initially or else by addLiquidity.
LEMMA ProvisionStages == SFlow("none", ProvideInSteps, "any")
<1>0. 0 \in Nat /\ 1 \in Nat /\ 5 \in Nat /\ 100 \in Nat /\ "tx" \in Handle /\ 0 \in Token
      /\ "none" \in Stage /\ "failed" \in Stage /\ "any" \in Stage
  BY DEF Handle, Stage, Token
<1> DEFINE z1 == <<ReadClock>>
           z2 == Try(SubmitAndWait(CreatePairWrapper(1)), <<>>)
           body == Saying("initial", <<ReadPair>> \o ApproveBoth(10)
                                     \o SubmitAndWait(AddInitialLiquidity(10, 3)))
           i == Submit(AddLiquidity(1, 5))
           both == ApproveBoth(100)
           handler == both \o <<i>>
           z4 == <<ReadPair>>
<1>1. Dry(z1) /\ Dry(z2) /\ Dry(z4) /\ Dry(both)
  BY <1>0, DryIsPlain, PartsWithin DEF Dry
<1>2. ProvideInSteps = z1 \o z2 \o Try(body, handler) \o z4
  BY DEF ProvideInSteps
<1>3. Shaped(z1) /\ Shaped(z4)
  BY ReadsShaped
<1>4. Shaped(z2)
  <2>1. ACall(Allowing(0, 0), CreatePairWrapper(1), Allowing(0, 0))
    BY <1>0, AFrees
  <2>2. ALine(Allowing(0, 0), SubmitAndWait(CreatePairWrapper(1)), Allowing(0, 0))
    BY <1>0, <2>1, ASubmit
  <2>3. Flow(Allowance, AllowD, AllowT, Allowing(0, 0), <<>>, Allowing(0, 0))
    BY AllowingFacts, EmptyFlow
  <2> DEFINE create == SubmitAndWait(CreatePairWrapper(1))
             nothing == <<>>
  <2> HIDE DEF create, nothing
  <2>4. AFlow(Allowing(0, 0), Try(create, nothing), Allowing(0, 0))
    BY <2>2, <2>3, ATry DEF create, nothing
  <2> QED
    BY <2>4 DEF create, nothing, Shaped
<1>5. SFlow("failed", handler, "any")
  <2>1. ALine(Allowing(0, 0), both, Allowing(100, 100))
    BY <1>0, AApproveBoth
  <2> HIDE DEF both
  <2>2. SLine("failed", both, "failed")
    BY <1>1, <2>1, DryLine
  <2>3. AddLiquidity(1, 5) \in CallType /\ AddLiquidity(1, 5).fn \in Provision
    BY <1>0, Calls DEF Token, AddLiquidity, Call, Provision
  <2>4. /\ i \in Instr /\ i.op = "submit" /\ i.call.fn \in Provision
        /\ i.says = "none" /\ i.next = 1 /\ i.catch = 0
    BY <1>0, <2>3, SubmitSends DEF Sends
  <2> HIDE DEF i
  <2>5. Bare(i) = i
    BY <2>4, StraightIsBare
  <2>6. <<"failed", i, "any">> \in StageD /\ <<"failed", i, "failed">> \in StageT
    BY <2>4 DEF StageD, StageT, StageDone, StageThrown, Implied, Stage
  <2>7. SLine("failed", <<i>>, "any")
    BY <1>0, <2>4, <2>5, <2>6, OneLine DEF SLine
  <2>8. SLine("failed", handler, "any")
    BY <2>2, <2>7, JoinSLines
  <2> QED
    BY <2>8, LineIsFlow DEF SLine, SFlow
<1>6. SLine("none", body, "any") /\ body # <<>>
  BY InitialStages
<1> HIDE DEF z1, z2, body, i, both, handler, z4
<1>7. SFlow("none", Try(body, handler), "any")
  BY <1>5, <1>6, TryFlow DEF SLine, SFlow
<1> DEFINE z3 == Try(body, handler)
<1> HIDE DEF z3
<1>8. /\ SFlow("none", z1, "none") /\ SFlow("none", z2, "none")
      /\ SFlow("none", z3, "any") /\ SFlow("any", z4, "any")
  BY <1>0, <1>1, <1>3, <1>4, <1>7, DryFlow DEF z3
<1>9. SFlow("none", z1 \o z2, "none")
  BY <1>8, JoinSFlows
<1>10. SFlow("none", z1 \o z2 \o z3, "any")
  BY <1>8, <1>9, JoinSFlows
<1>11. SFlow("none", z1 \o z2 \o z3 \o z4, "any")
  BY <1>8, <1>10, JoinSFlows
<1> QED
  BY <1>2, <1>11 DEF z3
-----------------------------------------------------------------------------
\* The scripts that provide no liquidity.
LEMMA DryScripts ==
  /\ Dry(TermSwap) /\ Dry(PlaceAndList) /\ Dry(Orders) /\ Dry(OrderStatusCheck)
  /\ Dry(WithdrawLiquidityScript) /\ Dry(ExecuteVirtualOrdersScript)
<1>0. /\ 0 \in Token /\ 0 \in Nat /\ 1 \in Nat /\ 9 \in Nat /\ 11 \in Nat /\ 60 \in Nat
      /\ 100 \in Nat /\ "tx" \in Handle
  BY DEF Token, Handle
<1>1. DryInstr \subseteq Instr /\ Takes(DryInstr, Deploy)
  BY DryIsPlain DEF DryInstr, Plain
<1>2. ReadClock \in DryInstr /\ ReadIds \in DryInstr /\ \A n \in Nat : LookUp(n) \in DryInstr
  BY <1>0, <1>1, ReadsWithin
<1>3. Dry(TermSwap) /\ Dry(<<ReadClock>>)
  BY DryIsPlain, OrdersWithin, PartsWithin DEF Dry
<1>4. Dry(OrderStatusCheck)
  <2>1. Dry(<<ReadClock, ReadIds, LookUp(11)>>)
    BY <1>0, <1>1, <1>2, ListWithin DEF Dry
  <2> QED
    BY <2>1 DEF OrderStatusCheck
<1>5. Dry(WithdrawLiquidityScript)
  <2>1. Takes(DryInstr, WithdrawLiquidity(100, 60))
    BY <1>0, DryIsPlain
  <2>2. Dry(SubmitWithGasAndWait(WithdrawLiquidity(100, 60)))
    BY <1>1, <2>1, SubmitsWithin DEF Dry
  <2> QED
    BY <1>3, <2>2, JoinWithin DEF Dry, WithdrawLiquidityScript
<1>6. Dry(ExecuteVirtualOrdersScript)
  <2>1. Takes(DryInstr, ExecuteVirtualOrders)
    BY DryIsPlain DEF Plain
  <2>2. Dry(SubmitWithGasAndWait(ExecuteVirtualOrders))
    BY <1>1, <2>1, SubmitsWithin DEF Dry
  <2> QED
    BY <1>3, <2>2, JoinWithin DEF Dry, ExecuteVirtualOrdersScript
<1>7. Dry(PlaceAndList)
  <2> DEFINE i == Submit(Approve(0, 1))
             j == Submit(LongTermSwap(0, 1, 9))
             z1 == <<ReadClock>>
             z2 == TryCreatePair(1)
             z3 == <<ReadIds, i, j, ReadIds>>
  <2>1. Takes(DryInstr, Approve(0, 1)) /\ Takes(DryInstr, LongTermSwap(0, 1, 9))
    BY <1>0, DryIsPlain DEF Plain
  <2>2. i \in DryInstr /\ j \in DryInstr
    BY <1>1, <2>1, SubmitsWithin
  <2>3. PlaceAndList = z1 \o z2 \o z3
    BY DEF PlaceAndList
  <2> HIDE DEF i, j
  <2>4. Dry(z3)
    BY <1>1, <1>2, <2>2, ListWithin DEF Dry
  <2>5. Dry(z1) /\ Dry(z2)
    BY <1>0, <1>3, DryIsPlain, PartsWithin DEF Dry
  <2> HIDE DEF z1, z2, z3
  <2> QED
    BY <2>3, <2>4, <2>5, JoinWithin DEF Dry
<1>8. Dry(Orders)
  <2> DEFINE n == 12
             y == <<ReadClock, ReadIds>>
             z == [back \in 1 .. n |-> LookUp(back)]
  <2>1. Orders = y \o z
    BY DEF Orders
  <2>2. Dry(y)
    BY <1>1, <1>2, ListWithin DEF Dry
  <2>3. n \in Nat
    OBVIOUS
  <2> HIDE DEF n, y
  <2>4. z \in [1 .. n -> Instr] /\ \A k \in 1 .. n : z[k] \in DryInstr
    BY <1>1, <1>2, <2>3
  <2> HIDE DEF z
  <2>5. z \in Seq(Instr) /\ Len(z) = n
    BY <2>3, <2>4
  <2>6. Dry(z)
    BY <2>4, <2>5 DEF Dry, Within
  <2> QED
    BY <2>1, <2>2, <2>6, JoinWithin DEF Dry
<1> QED
  BY <1>3, <1>4, <1>5, <1>6, <1>7, <1>8

\* The jumps of an order that is waited for stay within it.
LEMMA OrdersShaped ==
  /\ Shaped(SubmitWithGasAndWait(LongTermSwap(0, 1, 11)))
  /\ Shaped(SubmitAndWait(LongTermSwap(0, 1, 3)))
<1>0. "tx" \in Handle /\ 0 \in Token /\ 0 \in Nat /\ 1 \in Nat /\ 3 \in Nat /\ 11 \in Nat
  BY DEF Handle, Token
<1>1. /\ ACall(Allowing(1, 0), LongTermSwap(0, 1, 11), Allowing(0, 0))
      /\ ACall(Allowing(1, 0), LongTermSwap(0, 1, 3), Allowing(0, 0))
  BY <1>0, ASpends
<1>2. /\ ALine(Allowing(1, 0), SubmitWithGasAndWait(LongTermSwap(0, 1, 11)), Allowing(0, 0))
      /\ ALine(Allowing(1, 0), SubmitAndWait(LongTermSwap(0, 1, 3)), Allowing(0, 0))
  BY <1>0, <1>1, ASubmit
<1> QED
  BY <1>2, LineShaped
-----------------------------------------------------------------------------
\* The initial provision with its message, not waited for.
LEMMA HastyLine ==
  ASSUME NEW s, Dry(s), NEW p, NEW q, ALine(p, s, q),
         NEW call \in CallType, call.fn \in Provision
  PROVE  LET body == Saying("initial", s \o <<Submit(call)>>) IN
           /\ SLine("none", body, "any")
           /\ Line(Stage, StageD, StageT, "none", body, "any", "any")
           /\ body # <<>>
<1> DEFINE i == Submit(call)
           j == [i EXCEPT !.says = "initial"]
           body == s \o <<j>>
<1>0. "tx" \in Handle /\ 0 \in Nat /\ "none" \in Stage /\ "any" \in Stage
  BY DEF Handle, Stage
<1>1. i \in Instr /\ i.op = "submit" /\ i.call.fn \in Provision /\ i.next = 1 /\ i.catch = 0
  BY <1>0, SubmitSends DEF Sends
<1> HIDE DEF i
<1>2. j \in Instr /\ j.op = "submit" /\ j.call.fn \in Provision /\ j.next = 1 /\ j.catch = 0
  BY <1>1 DEF Instr
<1>3. s \in Seq(Instr)
  BY DEF Dry, Within
<1>4. Saying("initial", s \o <<i>>) = body
  BY <1>1, <1>3, SayingLast
<1> HIDE DEF j
<1>5. Bare(j) = j
  BY <1>2, StraightIsBare
<1>6. /\ <<"none", j, "any">> \in StageD /\ <<"none", j, "failed">> \in StageT
      /\ <<"none", j, "any">> \in StageT
  BY <1>2 DEF StageD, StageT, StageDone, StageThrown, Implied, Stage
<1>7. /\ SLine("none", <<j>>, "any")
      /\ Line(Stage, StageD, StageT, "none", <<j>>, "any", "any")
  BY <1>0, <1>2, <1>5, <1>6, OneLine DEF SLine
<1>8. SLine("none", s, "none") /\ Line(Stage, StageD, StageT, "none", s, "none", "any")
  BY DryLine
<1> DEFINE one == <<j>>
<1>9. one \in Seq(Instr) /\ Len(one) = 1
  BY <1>2
<1> HIDE DEF one
<1>10. /\ SLine("none", s \o one, "any")
       /\ Line(Stage, StageD, StageT, "none", s \o one, "any", "any")
  BY <1>7, <1>8, JoinSLines, JoinLines DEF one
<1>11. s \o one # <<>>
  <2> DEFINE u == s \o one
  <2>1. Len(u) = Len(s) + Len(one) /\ Len(s) \in Nat
    BY <1>3, <1>9, ConcatProperties, LenProperties
  <2> HIDE DEF u
  <2>2. Len(u) # 0 /\ Len(<<>>) = 0
    BY <1>9, <2>1
  <2>3. u # <<>>
    BY <2>2, Zenon
  <2> QED
    BY <2>3 DEF u
<1> QED
  BY <1>4, <1>10, <1>11 DEF one, i

\* After which nothing more is tried.
LEMMA HastyTry ==
  ASSUME NEW s, Dry(s), NEW p, NEW q, ALine(p, s, q),
         NEW call \in CallType, call.fn \in Provision
  PROVE  SFlow("none", Try(Saying("initial", s \o <<Submit(call)>>), <<>>), "any")
<1> DEFINE body == Saying("initial", s \o <<Submit(call)>>)
           handler == <<>>
<1>1. Line(Stage, StageD, StageT, "none", body, "any", "any") /\ body # <<>>
  BY HastyLine
<1>2. Flow(Stage, StageD, StageT, "any", handler, "any")
  BY EmptyFlow DEF Stage
<1> HIDE DEF body, handler
<1>3. SFlow("none", Try(body, handler), "any")
  BY <1>1, <1>2, TryFlow DEF SFlow
<1> QED
  BY <1>3 DEF body, handler

\* sample-run.js: it adds liquidity if the initial provision is refused.
LEMMA HastySampleRun == SFlow("none", SampleRun, "any")
<1>0. /\ "tx" \in Handle /\ 0 \in Token /\ 1 \in Token /\ 0 \in Nat /\ 1 \in Nat /\ 3 \in Nat
      /\ 5 \in Nat /\ 9 \in Nat /\ 10 \in Nat /\ "none" \in Stage /\ "any" \in Stage
      /\ "failed" \in Stage
  BY DEF Handle, Stage, Token
<1>1. DryInstr \subseteq Instr /\ Takes(DryInstr, Deploy)
  BY DryIsPlain DEF DryInstr, Plain
<1>2. /\ Takes(DryInstr, Approve(0, 1)) /\ Takes(DryInstr, Approve(0, 3))
      /\ Takes(DryInstr, Approve(1, 3)) /\ Takes(DryInstr, LongTermSwap(0, 1, 9))
      /\ Takes(DryInstr, CancelTermSwap(0, 1))
  BY <1>0, DryIsPlain DEF Plain
<1>3. ReadClock \in DryInstr /\ ReadIds \in DryInstr /\ ReadRatio \in DryInstr
  BY <1>0, <1>1, ReadsWithin
<1> DEFINE a0 == Submit(Approve(0, 3))
           a1 == Submit(Approve(1, 3))
           i == Submit(AddLiquidityExactly(3, 5))
           handler == <<ReadRatio, a0, a1, i>>
           body == Saying("initial", ApproveBoth(10) \o <<Submit(AddInitialLiquidity(10, 3))>>)
           z1 == <<ReadClock>>
           z2 == TryCreatePair(1)
           z4 == InstantSwapOf(0)
           z5 == PlaceThenCancel(0)
<1>4. SampleRun = z1 \o (z2 \o Try(body, handler)) \o z4 \o z5
  BY DEF SampleRun, ProvideInHaste
<1>5. Dry(z1) /\ Dry(z2) /\ Dry(z4)
  BY <1>0, DryIsPlain, PartsWithin DEF Dry
<1>6. Dry(z5)
  <2> DEFINE o == WithGas(Submit(LongTermSwap(0, 1, 9)))
             c == WithGas(Submit(CancelTermSwap(0, 1)))
             a == Submit(Approve(0, 1))
             t == <<ReadIds, a, o, ReadIds, ReadClock, c>>
  <2>1. o \in DryInstr /\ c \in DryInstr /\ a \in DryInstr
    BY <1>1, <1>2, SubmitsWithin
  <2>2. z5 = t
    BY DEF PlaceThenCancel
  <2> HIDE DEF o, c, a, z5
  <2>3. /\ Len(t) = 6 /\ t[1] = ReadIds /\ t[2] = a /\ t[3] = o /\ t[4] = ReadIds
        /\ t[5] = ReadClock /\ t[6] = c /\ t \in Seq(Instr)
    BY <1>1, <1>3, <2>1
  <2> HIDE DEF t
  <2>4. 1 .. Len(t) = {1, 2, 3, 4, 5, 6}
    BY <2>3
  <2>5. Dry(t)
    BY <1>3, <2>1, <2>3, <2>4 DEF Dry, Within
  <2> QED
    BY <2>2, <2>5
<1>7. Shaped(z1) /\ Shaped(z2) /\ Shaped(z4) /\ Shaped(z5)
  BY <1>0, ReadsShaped, ATryCreatePair, AInstantSwapOf, APlaceThenCancel, LineShaped
     DEF Shaped
<1>8. SLine("none", body, "any") /\ body # <<>>
  <2>1. AddInitialLiquidity(10, 3) \in CallType /\ AddInitialLiquidity(10, 3).fn \in Provision
    BY <1>0, Calls DEF AddInitialLiquidity, Call, Provision
  <2>2. Dry(ApproveBoth(10)) /\ ALine(Allowing(0, 0), ApproveBoth(10), Allowing(10, 10))
    BY <1>0, DryIsPlain, PartsWithin, AApproveBoth DEF Dry
  <2> QED
    BY <2>1, <2>2, HastyLine
<1>9. Flow(Stage, StageD, StageT, "failed", handler, "any")
  <2> DEFINE three == <<ReadRatio, a0, a1>>
  <2>1. a0 \in DryInstr /\ a1 \in DryInstr
    BY <1>1, <1>2, SubmitsWithin
  <2>2. Dry(three)
    BY <1>1, <1>3, <2>1, ListWithin DEF Dry
  <2>3. ALine(Allowing(0, 0), three, Allowing(3, 3))
    <3>1. ALine(Allowing(0, 0), <<ReadRatio>>, Allowing(0, 0))
      BY <1>0, AReads
    <3>0. /\ ACall(Allowing(0, 0), Approve(0, 3), Allowing(3, 0))
          /\ ACall(Allowing(3, 0), Approve(1, 3), Allowing(3, 3))
      BY <1>0, AApproves
    <3>2. ALine(Allowing(0, 0), <<a0>>, Allowing(3, 0))
      BY <1>0, <3>0, ASubmit
    <3>3. ALine(Allowing(3, 0), <<a1>>, Allowing(3, 3))
      BY <1>0, <3>0, ASubmit
    <3> HIDE DEF a0, a1
    <3>4. ALine(Allowing(0, 0), <<ReadRatio, a0>>, Allowing(3, 0))
      BY <3>1, <3>2, ATwo
    <3> QED
      BY <3>3, <3>4, AThree
  <2>4. /\ AddLiquidityExactly(3, 5) \in CallType
        /\ AddLiquidityExactly(3, 5).fn \in Provision
    BY <1>0, Calls DEF AddLiquidityExactly, AddLiquidity, Call, Provision
  <2>5. i \in Instr /\ i.op = "submit" /\ i.call.fn \in Provision /\ i.next = 1 /\ i.catch = 0
    BY <1>0, <2>4, SubmitSends DEF Sends
  <2> HIDE DEF a0, a1, i
  <2>6. Bare(i) = i
    BY <2>5, StraightIsBare
  <2>7. <<"failed", i, "any">> \in StageD /\ <<"failed", i, "failed">> \in StageT
    BY <2>5 DEF StageD, StageT, StageDone, StageThrown, Implied, Stage
  <2>8. SLine("failed", <<i>>, "any")
    BY <1>0, <2>5, <2>6, <2>7, OneLine DEF SLine
  <2>9. SLine("failed", three, "failed")
    BY <2>2, <2>3, DryLine
  <2>10. handler = three \o <<i>>
    <3> DEFINE u == three \o <<i>>
    <3>1. ReadRatio \in Instr /\ a0 \in Instr /\ a1 \in Instr
      BY <1>1, <1>3, <2>1
    <3>2. /\ Len(u) = 4 /\ u[1] = ReadRatio /\ u[2] = a0 /\ u[3] = a1 /\ u[4] = i
          /\ u \in Seq(Instr)
      BY <2>5, <3>1
    <3>3. /\ Len(handler) = 4 /\ handler[1] = ReadRatio /\ handler[2] = a0
          /\ handler[3] = a1 /\ handler[4] = i /\ handler \in Seq(Instr)
      BY <2>5, <3>1
    <3> HIDE DEF u, handler
    <3>4. \A k \in 1 .. Len(u) : u[k] = handler[k]
      <4>1. 1 .. Len(u) = {1, 2, 3, 4}
        BY <3>2
      <4> QED
        BY <3>2, <3>3, <4>1
    <3>5. u = handler
      BY <3>2, <3>3, <3>4, SeqEqual
    <3> QED
      BY <3>5 DEF u
  <2> HIDE DEF three, handler
  <2>11. SLine("failed", handler, "any")
    BY <2>8, <2>9, <2>10, JoinSLines
  <2> QED
    BY <2>11, LineIsFlow DEF SLine
<1> HIDE DEF a0, a1, i, body, handler, z1, z2, z4, z5
<1> DEFINE z3 == Try(body, handler)
<1>10. SFlow("none", z3, "any")
  BY <1>8, <1>9, TryFlow DEF SLine, SFlow
<1> HIDE DEF z3
<1>11. /\ SFlow("none", z1, "none") /\ SFlow("none", z2, "none")
       /\ SFlow("any", z4, "any") /\ SFlow("any", z5, "any")
  BY <1>0, <1>5, <1>6, <1>7, DryFlow
<1>12. SFlow("none", z2 \o z3, "any")
  BY <1>10, <1>11, JoinSFlows
<1>13. SFlow("none", z1 \o (z2 \o z3), "any")
  BY <1>11, <1>12, JoinSFlows
<1>14. SFlow("none", z1 \o (z2 \o z3) \o z4, "any")
  BY <1>11, <1>13, JoinSFlows
<1>15. SFlow("none", z1 \o (z2 \o z3) \o z4 \o z5, "any")
  BY <1>11, <1>14, JoinSFlows
<1> QED
  BY <1>4, <1>15 DEF z3

\* The scripts that provide liquidity initially and nothing else.
LEMMA HastyInitials ==
  /\ SFlow("none", AddInitialLiquidityScript, "any")
  /\ SFlow("none", AddInitialLiquidityETHScript, "any")
<1>0. /\ "tx" \in Handle /\ "token0" \in Handle /\ "token1" \in Handle
      /\ 0 \in Token /\ 1 \in Token /\ 0 \in Nat
      /\ 10 \in Nat /\ 100 \in Nat /\ 500 \in Nat /\ "none" \in Stage
  BY DEF Handle, Stage, Token
<1>1. DryInstr \subseteq Instr /\ Takes(DryInstr, Deploy)
  BY DryIsPlain DEF DryInstr, Plain
<1> DEFINE d0 == SubmitAs("token0", Deploy)
           d1 == SubmitAs("token1", Deploy)
           w0 == Wait("token0")
           w1 == Wait("token1")
           s0 == SubmitAndWait(Approve(0, 10))
           s1 == SubmitAndWait(Approve(1, 10))
<1>2. /\ d0 \in DryInstr /\ d1 \in DryInstr /\ ReadClock \in DryInstr
      /\ w0 \in DryInstr /\ w1 \in DryInstr
  BY <1>0, <1>1, ReadsWithin, SubmitsWithin
<1>3. Dry(s0) /\ Dry(s1)
  <2>1. Takes(DryInstr, Approve(0, 10)) /\ Takes(DryInstr, Approve(1, 10))
    BY <1>0, DryIsPlain DEF Plain
  <2> QED
    BY <1>1, <2>1, SubmitsWithin DEF Dry
<1>4. Dry(ApproveBoth(10)) /\ Dry(TryCreatePair(500))
  BY <1>0, DryIsPlain, PartsWithin DEF Dry
<1>5. Shaped(TryCreatePair(500))
  BY <1>0, ATryCreatePair DEF Shaped
<1>6. SFlow("none", TryCreatePair(500), "none")
  BY <1>0, <1>4, <1>5, DryFlow
<1>7. /\ ALine(Allowing(0, 0), <<d0>>, Allowing(0, 0))
      /\ ALine(Allowing(0, 0), <<d1>>, Allowing(0, 0))
      /\ ALine(Allowing(0, 0), <<ReadClock>>, Allowing(0, 0))
  <2>1. ACall(Allowing(0, 0), Deploy, Allowing(0, 0))
    BY AFrees, <1>0
  <2> QED
    BY <1>0, <2>1, ASubmit, AReads
<1>8. /\ ALine(Allowing(0, 0), <<w0>>, Allowing(0, 0))
      /\ ALine(Allowing(10, 0), <<w1>>, Allowing(10, 0))
  BY <1>0, AWaits
<1>9. /\ ALine(Allowing(0, 0), s0, Allowing(10, 0))
      /\ ALine(Allowing(10, 0), s1, Allowing(10, 10))
  <2>1. /\ ACall(Allowing(0, 0), Approve(0, 10), Allowing(10, 0))
        /\ ACall(Allowing(10, 0), Approve(1, 10), Allowing(10, 10))
    BY <1>0, AApproves
  <2> QED
    BY <1>0, <2>1, ASubmit
<1>10. ALine(Allowing(0, 0), ApproveBoth(10), Allowing(10, 10))
  BY AApproveBoth
<1>11. /\ AddInitialLiquidity(10, 100) \in CallType
       /\ AddInitialLiquidity(10, 100).fn \in Provision
       /\ AddInitialLiquidityETH(10, 100) \in CallType
       /\ AddInitialLiquidityETH(10, 100).fn \in Provision
  BY <1>0, Calls DEF AddInitialLiquidity, AddInitialLiquidityETH, Call, Provision
<1> HIDE DEF d0, d1, w0, w1, s0, s1
<1> DEFINE z2 == TryCreatePair(500)
<1>12. SFlow("none", AddInitialLiquidityScript, "any")
  <2> DEFINE z1 == <<d0, d1, ReadClock>>
             s == <<w0>> \o s0 \o <<w1>> \o s1
             z3 == Try(Saying("initial", s \o <<Submit(AddInitialLiquidity(10, 100))>>), <<>>)
  <2>1. AddInitialLiquidityScript = z1 \o z2 \o z3
    BY DEF AddInitialLiquidityScript, d0, d1, w0, w1, s0, s1
  <2>2. Dry(z1) /\ Dry(<<w0>>) /\ Dry(<<w1>>)
    BY <1>1, <1>2, ListWithin DEF Dry
  <2>3. ALine(Allowing(0, 0), z1, Allowing(0, 0))
    <3>1. ALine(Allowing(0, 0), <<d0, d1>>, Allowing(0, 0))
      BY <1>7, ATwo
    <3> QED
      BY <1>7, <3>1, AThree
  <2>4. SFlow("none", z1, "none")
    BY <1>0, <2>2, <2>3, LineShaped, DryFlow
  <2>5. Dry(s)
    BY <1>3, <2>2, JoinWithin DEF Dry
  <2>6. ALine(Allowing(0, 0), s, Allowing(10, 10))
    <3>1. ALine(Allowing(0, 0), <<w0>> \o s0, Allowing(10, 0))
      BY <1>8, <1>9, JoinALines
    <3>2. ALine(Allowing(0, 0), <<w0>> \o s0 \o <<w1>>, Allowing(10, 0))
      BY <1>8, <3>1, JoinALines
    <3> QED
      BY <1>9, <3>2, JoinALines
  <2> HIDE DEF z1, z2, s
  <2>7. SFlow("none", z3, "any")
    BY <1>11, <2>5, <2>6, HastyTry
  <2> HIDE DEF z3
  <2>8. SFlow("none", z1 \o z2, "none")
    BY <1>6, <2>4, JoinSFlows DEF z2
  <2>9. SFlow("none", z1 \o z2 \o z3, "any")
    BY <2>7, <2>8, JoinSFlows
  <2> QED
    BY <2>1, <2>9
<1>13. SFlow("none", AddInitialLiquidityETHScript, "any")
  <2> DEFINE z1 == <<d0, ReadClock>>
             s == <<w0>> \o ApproveBoth(10)
             z3 == Try(Saying("initial",
                              s \o <<Submit(AddInitialLiquidityETH(10, 100))>>), <<>>)
  <2>1. AddInitialLiquidityETHScript = z1 \o z2 \o z3
    BY DEF AddInitialLiquidityETHScript, d0, w0
  <2>2. Dry(z1) /\ Dry(<<w0>>)
    BY <1>1, <1>2, ListWithin DEF Dry
  <2>3. ALine(Allowing(0, 0), z1, Allowing(0, 0))
    BY <1>7, ATwo
  <2>4. SFlow("none", z1, "none")
    BY <1>0, <2>2, <2>3, LineShaped, DryFlow
  <2>5. Dry(s)
    BY <1>4, <2>2, JoinWithin DEF Dry
  <2>6. ALine(Allowing(0, 0), s, Allowing(10, 10))
    BY <1>8, <1>10, JoinALines
  <2> HIDE DEF z1, z2, s
  <2>7. SFlow("none", z3, "any")
    BY <1>11, <2>5, <2>6, HastyTry
  <2> HIDE DEF z3
  <2>8. SFlow("none", z1 \o z2, "none")
    BY <1>6, <2>4, JoinSFlows DEF z2
  <2>9. SFlow("none", z1 \o z2 \o z3, "any")
    BY <2>7, <2>8, JoinSFlows
  <2> QED
    BY <2>1, <2>9
<1> QED
  BY <1>12, <1>13
-----------------------------------------------------------------------------
\* The scripts that print the message before the initial provision is mined.
Hasty == {"SampleRun", "AddLiquidity", "AddInitialLiquidity", "AddInitialLiquidityETH"}

\* All scripts but the one that adds liquidity whether or not it was provided
\* initially.
Prudent == Script \ {"AddLiquidity"}

\* Scripts that provide nothing.
LEMMA OthersDry ==
  ASSUME NEW script \in Script, script \notin Hasty \cup {"SampleRunGoerli", "SampleRunRinkeby"}
  PROVE  Dry(Program[script])
BY DryScripts DEF Hasty, Script, Program, TestId, SampleReserveDisplay

\* What is known of provisions at each place of the prudent scripts.
LEMMA ScriptsProvide ==
  ASSUME NEW script \in Prudent
  PROVE  \E m : SFlow("none", Program[script], m)
<1>0. "none" \in Stage /\ "any" \in Stage
  BY DEF Stage
<1>1. script \in Script
  BY DEF Prudent
<1>2. Shaped(Program[script])
  BY <1>1, ScriptsApprove DEF Shaped
<1>3. CASE script = "SampleRunGoerli"
  <2> DEFINE z1 == ProvideInSteps
             z2 == InstantSwapOf(0)
             z3 == <<SubmitAs("tx", Approve(0, 1)), SubmitAs("tx2", Approve(1, 1)),
                     Wait("tx"), Wait("tx2")>>
             z4 == SubmitWithGasAndWait(LongTermSwap(0, 1, 11))
             z5 == WithdrawLast(5)
  <2>1. Program["SampleRunGoerli"] = z1 \o z2 \o z3 \o z4 \o z5
    BY DEF Program, SampleRunGoerli
  <2>2. Dry(z2) /\ Dry(z3) /\ Dry(z4) /\ Dry(z5)
    BY DryIsPlain, PartsWithin, OrdersWithin DEF Dry
  <2>3. Shaped(z2) /\ Shaped(z3) /\ Shaped(z5)
    BY AInstantSwapOf, ApprovalsShaped, AWithdrawLast, LineShaped
  <2>4. Shaped(z4)
    BY OrdersShaped
  <2> HIDE DEF z1, z2, z3, z4, z5
  <2>5. SFlow("any", z2, "any") /\ SFlow("any", z3, "any") /\ SFlow("any", z4, "any")
        /\ SFlow("any", z5, "any")
    BY <1>0, <2>2, <2>3, <2>4, DryFlow
  <2>6. SFlow("none", z1 \o z2, "any")
    BY <2>5, ProvisionStages, JoinSFlows DEF z1
  <2>7. SFlow("none", z1 \o z2 \o z3, "any")
    BY <2>5, <2>6, JoinSFlows
  <2>8. SFlow("none", z1 \o z2 \o z3 \o z4, "any")
    BY <2>5, <2>7, JoinSFlows
  <2>9. SFlow("none", z1 \o z2 \o z3 \o z4 \o z5, "any")
    BY <2>5, <2>8, JoinSFlows
  <2> QED
    BY <1>3, <2>1, <2>9
<1>4. CASE script = "SampleRunRinkeby"
  <2> DEFINE z1 == ProvideInSteps
             z2 == SubmitAndWait(Approve(0, 1))
             z3 == SubmitAndWait(LongTermSwap(0, 1, 3))
             z4 == <<ReadIds>>
             z5 == SubmitAndWait(WithdrawProceeds(0, 5))
             z6 == <<ReadPair>>
  <2>1. Program["SampleRunRinkeby"] = z1 \o z2 \o z3 \o z4 \o z5 \o z6
    BY DEF Program, SampleRunRinkeby
  <2>2. Dry(z2) /\ Dry(z3) /\ Dry(z4) /\ Dry(z5) /\ Dry(z6)
    BY DryIsPlain, PartsWithin, OrdersWithin DEF Dry
  <2>3. Shaped(z2) /\ Shaped(z4) /\ Shaped(z5) /\ Shaped(z6)
    BY WaitsShaped, ReadsShaped DEF Token
  <2>4. Shaped(z3)
    BY OrdersShaped
  <2> HIDE DEF z1, z2, z3, z4, z5, z6
  <2>5. SFlow("any", z2, "any") /\ SFlow("any", z3, "any") /\ SFlow("any", z4, "any")
        /\ SFlow("any", z5, "any") /\ SFlow("any", z6, "any")
    BY <1>0, <2>2, <2>3, <2>4, DryFlow
  <2>6. SFlow("none", z1 \o z2, "any")
    BY <2>5, ProvisionStages, JoinSFlows DEF z1
  <2>7. SFlow("none", z1 \o z2 \o z3, "any")
    BY <2>5, <2>6, JoinSFlows
  <2>8. SFlow("none", z1 \o z2 \o z3 \o z4, "any")
    BY <2>5, <2>7, JoinSFlows
  <2>9. SFlow("none", z1 \o z2 \o z3 \o z4 \o z5, "any")
    BY <2>5, <2>8, JoinSFlows
  <2>10. SFlow("none", z1 \o z2 \o z3 \o z4 \o z5 \o z6, "any")
    BY <2>5, <2>9, JoinSFlows
  <2> QED
    BY <1>4, <2>1, <2>10
<1>5. CASE script \in Hasty
  <2>1. /\ Program["SampleRun"] = SampleRun
        /\ Program["AddInitialLiquidity"] = AddInitialLiquidityScript
        /\ Program["AddInitialLiquidityETH"] = AddInitialLiquidityETHScript
    BY DEF Program
  <2>2. script \in {"SampleRun", "AddInitialLiquidity", "AddInitialLiquidityETH"}
    BY <1>5 DEF Hasty, Prudent
  <2> QED
    BY <2>1, <2>2, HastySampleRun, HastyInitials
<1>6. CASE script \notin Hasty \cup {"SampleRunGoerli", "SampleRunRinkeby"}
  <2>1. Dry(Program[script])
    BY <1>1, <1>6, OthersDry
  <2> QED
    BY <1>0, <1>2, <2>1, DryFlow
<1> QED
  BY <1>3, <1>4, <1>5, <1>6
-----------------------------------------------------------------------------
\* An instruction that says nothing unless it has waited.
PatientInstr == {i \in Instr : i.op # "wait" => i.says = "none"}

Patient(s) == Within(PatientInstr, s)

\* What provides nothing says nothing.
LEMMA DryIsPatient ==
  ASSUME NEW s, Dry(s)
  PROVE  Patient(s)
BY DEF Dry, Patient, Within, DryInstr, PatientInstr

\* Nor is anything said in sending.
LEMMA PatientTakes ==
  /\ Wayless(PatientInstr)
  /\ \A call \in CallType : Takes(PatientInstr, call)
<1>1. Wayless(PatientInstr)
  <2> SUFFICES ASSUME NEW i \in PatientInstr, NEW k \in Nat, NEW v \in Nat \ {0}
               PROVE  Redirected(i, k, v) \in PatientInstr
    BY DEF Wayless, PatientInstr
  <2>1. i \in Instr /\ (i.op # "wait" => i.says = "none")
    BY DEF PatientInstr
  <2>2. Redirected(i, k, v) \in Instr
    BY <2>1, Redirect
  <2>3. Redirected(i, k, v).op = i.op /\ Redirected(i, k, v).says = i.says
    BY <2>1 DEF Redirected, Instr
  <2> QED
    BY <2>1, <2>2, <2>3 DEF PatientInstr
<1> QED
  BY <1>1 DEF Takes, PatientInstr

\* The sample runs that provide in steps wait before they say that it is done.
LEMMA PatientProvision == Patient(ProvideInSteps)
<1>0. /\ "tx" \in Handle /\ 0 \in Nat /\ 1 \in Nat /\ 3 \in Nat /\ 5 \in Nat /\ 10 \in Nat
      /\ 100 \in Nat /\ 0 \in Token
  BY DEF Handle, Token
<1>1. PatientInstr \subseteq Instr /\ Wayless(PatientInstr)
  BY PatientTakes DEF PatientInstr
<1>2. /\ Takes(PatientInstr, Deploy) /\ Takes(PatientInstr, AddInitialLiquidity(10, 3))
      /\ Takes(PatientInstr, AddLiquidity(1, 5))
  BY <1>0, PatientTakes, Calls
<1> DEFINE z1 == <<ReadClock>>
           z2 == Try(SubmitAndWait(CreatePairWrapper(1)), <<>>)
           a == <<ReadPair>> \o ApproveBoth(10)
           i == SubmitAs("tx", AddInitialLiquidity(10, 3))
           w == Wait("tx")
           j == [w EXCEPT !.says = "initial"]
           body == Saying("initial", a \o SubmitAndWait(AddInitialLiquidity(10, 3)))
           l == Submit(AddLiquidity(1, 5))
           handler == ApproveBoth(100) \o <<l>>
           z4 == <<ReadPair>>
<1>3. ProvideInSteps = z1 \o z2 \o Try(body, handler) \o z4
  BY DEF ProvideInSteps
<1>4. /\ Dry(z1) /\ Dry(z2) /\ Dry(z4) /\ Dry(a) /\ Dry(ApproveBoth(100))
  <2>1. /\ Dry(z1) /\ Dry(z2) /\ Dry(z4) /\ Dry(ApproveBoth(10)) /\ Dry(ApproveBoth(100))
    BY <1>0, DryIsPlain, PartsWithin DEF Dry
  <2> QED
    BY <2>1, JoinWithin DEF Dry
<1>5. i \in PatientInstr /\ l \in PatientInstr
  BY <1>0, <1>1, <1>2, SubmitsWithin
<1>6. w \in Instr /\ w.op = "wait"
  BY <1>0, OthersRead DEF Reads
<1>7. SubmitAndWait(AddInitialLiquidity(10, 3)) = <<i, w>>
  BY DEF SubmitAndWait
<1> HIDE DEF i, w, l
<1>8. j \in PatientInstr
  BY <1>6 DEF Instr, PatientInstr
<1> HIDE DEF j
<1>9. Patient(<<i>>) /\ Patient(<<j>>) /\ Patient(<<l>>)
  BY <1>1, <1>5, <1>8, ListWithin DEF Patient
<1>10. /\ Patient(z1) /\ Patient(z2) /\ Patient(z4) /\ Patient(a)
       /\ Patient(ApproveBoth(100))
  BY <1>4, DryIsPatient
<1>11. Patient(handler)
  BY <1>9, <1>10, JoinWithin DEF Patient
<1> HIDE DEF a
<1>12. Patient(body)
  <2> DEFINE t == a \o <<i>>
  <2>1. i \in Instr /\ a \in Seq(Instr)
    BY <1>1, <1>5, <1>10 DEF Patient, Within
  <2>2. a \o <<i, w>> = t \o <<w>>
    BY <1>6, <2>1, Split, ConcatAssociative
  <2>3. t \in Seq(Instr) /\ Patient(t)
    BY <1>9, <1>10, JoinWithin DEF Patient, Within
  <2> HIDE DEF t
  <2>4. Saying("initial", t \o <<w>>) = t \o <<j>>
    BY <1>6, <2>3, SayingLast DEF j
  <2>5. Patient(t \o <<j>>)
    BY <1>9, <2>3, JoinWithin DEF Patient
  <2> QED
    BY <1>7, <2>2, <2>4, <2>5
<1> HIDE DEF z1, z2, z4, body, handler
<1>13. Patient(Try(body, handler))
  BY <1>1, <1>11, <1>12, TryWithin DEF Patient
<1> DEFINE z3 == Try(body, handler)
<1> HIDE DEF z3
<1>14. Patient(z3)
  BY <1>13 DEF z3
<1> QED
  BY <1>3, <1>10, <1>14, JoinWithin DEF z3, Patient

\* So do all scripts that are not hasty.
LEMMA ScriptsPatient ==
  ASSUME NEW script \in Script \ Hasty
  PROVE  Patient(Program[script])
<1>1. CASE script = "SampleRunGoerli"
  <2> DEFINE z1 == ProvideInSteps
             z2 == InstantSwapOf(0)
             z3 == <<SubmitAs("tx", Approve(0, 1)), SubmitAs("tx2", Approve(1, 1)),
                     Wait("tx"), Wait("tx2")>>
             z4 == SubmitWithGasAndWait(LongTermSwap(0, 1, 11))
             z5 == WithdrawLast(5)
  <2>1. Program["SampleRunGoerli"] = z1 \o z2 \o z3 \o z4 \o z5
    BY DEF Program, SampleRunGoerli
  <2>2. Dry(z2) /\ Dry(z3) /\ Dry(z4) /\ Dry(z5)
    BY DryIsPlain, PartsWithin, OrdersWithin DEF Dry
  <2>3. Patient(z1)
    BY PatientProvision
  <2> HIDE DEF z1, z2, z3, z4, z5
  <2>4. Patient(z2) /\ Patient(z3) /\ Patient(z4) /\ Patient(z5)
    BY <2>2, DryIsPatient
  <2> QED
    BY <1>1, <2>1, <2>3, <2>4, JoinWithin DEF Patient
<1>2. CASE script = "SampleRunRinkeby"
  <2> DEFINE z1 == ProvideInSteps
             z2 == SubmitAndWait(Approve(0, 1))
             z3 == SubmitAndWait(LongTermSwap(0, 1, 3))
             z4 == <<ReadIds>>
             z5 == SubmitAndWait(WithdrawProceeds(0, 5))
             z6 == <<ReadPair>>
  <2>1. Program["SampleRunRinkeby"] = z1 \o z2 \o z3 \o z4 \o z5 \o z6
    BY DEF Program, SampleRunRinkeby
  <2>2. Dry(z2) /\ Dry(z3) /\ Dry(z4) /\ Dry(z5) /\ Dry(z6)
    BY DryIsPlain, PartsWithin, OrdersWithin DEF Dry
  <2>3. Patient(z1)
    BY PatientProvision
  <2> HIDE DEF z1, z2, z3, z4, z5, z6
  <2>4. Patient(z2) /\ Patient(z3) /\ Patient(z4) /\ Patient(z5) /\ Patient(z6)
    BY <2>2, DryIsPatient
  <2> QED
    BY <1>2, <2>1, <2>3, <2>4, JoinWithin DEF Patient
<1>3. CASE script \notin Hasty \cup {"SampleRunGoerli", "SampleRunRinkeby"}
  BY <1>3, OthersDry, DryIsPatient
<1> QED
  BY <1>1, <1>2, <1>3
-----------------------------------------------------------------------------
\* The script that provides liquidity twice is not run.
ProvidesInOneWay == \A p \in Pool : "AddLiquidity" \notin Runnable(p)

\* All scripts that are run wait for the initial provision, or make none.
WaitsToProvide == \A p \in Pool : Runnable(p) \cap Hasty = {}

StageLabels(script) ==
  CHOOSE lab : Labelled(Stage, StageD, StageT, Program[script], lab) /\ lab[1] = "none"

\* The provisions of liquidity that run r has sent.
Provided(s, r) == {k \in 1 .. Len(s) : s[k].run = r /\ s[k].fn \in Provision}

\* What a script knows of its provisions is so.
AtStage(s, p, l) ==
  /\ l \in Stage
  /\ l # "any" => "initial" \notin p.said
  /\ l = "none" => Provided(s, p.run) = {}
  /\ l = "failed" => \A k \in Provided(s, p.run) : s[k].status = "reverted"
  /\ l = "sent" => Provided(s, p.run) = {p.tx["tx"]}

\* Of two provisions of a run, one has reverted.
OneLeft(s) ==
  \A j, k \in 1 .. Len(s) :
    s[j].run = s[k].run /\ s[j].fn \in Provision /\ s[k].fn \in Provision /\ j # k =>
      s[j].status = "reverted" \/ s[k].status = "reverted"

SaidTrue(s, p) ==
  p.script \notin Hasty /\ "initial" \in p.said =>
    \A k \in Provided(s, p.run) : s[k].status = "ok"

\* A script that has been run may be run.
MayRun(script) == script \in Script => \E p \in Pool : script \in Runnable(p)

ProvideInv ==
  /\ TypeInv
  /\ \A k \in 1 .. Len(sent) : sent[k].run <= proc.run
  /\ OneLeft(sent)
  /\ SaidTrue(sent, proc)
  /\ MayRun(proc.script)
  /\ Running => /\ proc.script \in Prudent
                /\ AtStage(sent, proc, StageLabels(proc.script)[proc.pc])

\* There are such labels.
LEMMA StageLabelsOK ==
  ASSUME NEW script \in Prudent
  PROVE  /\ Labelled(Stage, StageD, StageT, Program[script], StageLabels(script))
         /\ StageLabels(script)[1] = "none"
<1> DEFINE P(lab) == Labelled(Stage, StageD, StageT, Program[script], lab) /\ lab[1] = "none"
<1>1. \E lab : P(lab)
  BY ScriptsProvide DEF SFlow, Flow
<1>2. StageLabels(script) = CHOOSE lab : P(lab)
  BY DEF StageLabels
<1> HIDE DEF P
<1>3. P(StageLabels(script))
  BY <1>1, <1>2
<1> QED
  BY <1>3 DEF P

\* What an instruction leaves of the label, when done or thrown.
LEMMA StagePlace ==
  ASSUME InProgram, Running, proc.script \in Prudent
  PROVE  LET lab == StageLabels(proc.script)
             at == proc.pc IN
           /\ lab[at] \in Stage /\ lab[at + I.next] \in Stage
           /\ StageDone(lab[at], I, lab[at + I.next])
           /\ I.catch # 0 => /\ lab[at + I.catch] \in Stage
                             /\ StageThrown(lab[at], I, lab[at + I.catch])
<1> DEFINE lab == StageLabels(proc.script)
           at == proc.pc
           s == Program[proc.script]
           n == I.next
           m == I.catch
<1>1. /\ proc.script \in Script /\ at \in 1 .. Len(s) /\ Len(s) \in Nat
      /\ I \in Instr /\ n \in Nat \ {0} /\ m \in Nat
      /\ at + n <= Len(s) + 1
      /\ m # 0 => at + m <= Len(s) + 1
  BY InstructionOK
<1>2. Labelled(Stage, StageD, StageT, s, lab)
  BY StageLabelsOK
<1>3. I = s[at]
  BY DEF I
<1> HIDE DEF lab, s
<1>4. lab \in [1 .. Len(s) + 1 -> Stage] /\ GoesOn(StageD, StageT, lab, I, at, Len(s) + 1)
  BY <1>1, <1>2, <1>3 DEF Labelled
<1>5. /\ <<lab[at], Bare(I), lab[at + n]>> \in StageD
      /\ m # 0 => <<lab[at], Bare(I), lab[at + m]>> \in StageT
  BY <1>4 DEF GoesOn
<1>6. /\ Bare(I).op = I.op /\ Bare(I).call = I.call /\ Bare(I).tx = I.tx
      /\ Bare(I).says = I.says
  BY <1>1 DEF Bare, Instr
<1> HIDE DEF at, n, m
<1>7. /\ at \in 1 .. Len(s) + 1 /\ at + n \in 1 .. Len(s) + 1
      /\ m # 0 => at + m \in 1 .. Len(s) + 1
  BY <1>1
<1>8. /\ lab[at] \in Stage /\ lab[at + n] \in Stage
      /\ m # 0 => lab[at + m] \in Stage
  BY <1>4, <1>7
<1>9. /\ StageDone(lab[at], Bare(I), lab[at + n])
      /\ m # 0 => StageThrown(lab[at], Bare(I), lab[at + m])
  BY <1>5 DEF StageD, StageT
<1>10. Bare(I) \in DryInstr => I \in DryInstr
  BY <1>1, <1>6 DEF DryInstr
<1>11. StageDone(lab[at], I, lab[at + n])
  BY <1>6, <1>9, <1>10 DEF StageDone
<1>12. m # 0 => StageThrown(lab[at], I, lab[at + m])
  BY <1>6, <1>9 DEF StageThrown
<1> QED
  BY <1>8, <1>11, <1>12 DEF lab, at, n, m

\* What also holds where a label holds.
LEMMA ImpliedStage ==
  ASSUME NEW s, NEW p, NEW q, NEW l, NEW m \in Stage, AtStage(s, p, l), l # "sent",
         Implied(l, m), q.run = p.run, q.said = p.said
  PROVE  AtStage(s, q, m)
BY DEF AtStage, Implied, Stage

\* After an instruction that sends nothing.
LEMMA QuietStage ==
  ASSUME ProvideInv, Running, NEW q,
         q.script = proc.script, q.run = proc.run, q.tx = proc.tx,
         \/ /\ I.catch # 0 /\ q.pc = proc.pc + I.catch /\ q.said = proc.said
            /\ I.op = "wait" => /\ proc.tx[I.tx] <= mined
                                /\ sent[proc.tx[I.tx]].status # "ok"
         \/ /\ q.pc = proc.pc + I.next /\ I.op # "submit"
            /\ q.said = proc.said \cup ({I.says} \ {"none"})
            /\ I.op = "wait" => sent[proc.tx[I.tx]].status = "ok"
  PROVE  SaidTrue(sent, q) /\ AtStage(sent, q, StageLabels(q.script)[q.pc])
<1> DEFINE lab == StageLabels(proc.script)
           l == lab[proc.pc]
           k == lab[q.pc]
           t == proc.tx["tx"]
<1>1. /\ TypeInv /\ InProgram /\ proc.script \in Prudent
      /\ AtStage(sent, proc, l) /\ SaidTrue(sent, proc)
  BY DEF ProvideInv, TypeInv, ProcOK
<1>2. /\ lab[proc.pc + I.next] \in Stage /\ StageDone(l, I, lab[proc.pc + I.next])
      /\ I.catch # 0 => /\ lab[proc.pc + I.catch] \in Stage
                        /\ StageThrown(l, I, lab[proc.pc + I.catch])
  BY <1>1, StagePlace
<1>3. k = StageLabels(q.script)[q.pc]
  OBVIOUS
<1>4. l = "sent" => Provided(sent, proc.run) = {t} /\ "initial" \notin proc.said
  BY <1>1 DEF AtStage
<1> HIDE DEF lab, l, k, t
<1>5. CASE /\ I.catch # 0 /\ q.pc = proc.pc + I.catch /\ q.said = proc.said
           /\ I.op = "wait" => /\ proc.tx[I.tx] <= mined
                               /\ sent[proc.tx[I.tx]].status # "ok"
  <2>1. k \in Stage /\ StageThrown(l, I, k)
    BY <1>2, <1>5 DEF k
  <2>2. SaidTrue(sent, q)
    BY <1>1, <1>5 DEF SaidTrue
  <2>3. CASE l # "sent" /\ Implied(l, k)
    BY <1>1, <1>3, <1>5, <2>1, <2>2, <2>3, ImpliedStage
  <2>4. CASE l = "sent" /\ k = "failed" /\ I.op = "wait" /\ I.tx = "tx"
    <3>1. t <= mined /\ sent[t].status # "ok"
      BY <1>5, <2>4 DEF t
    <3>2. t \in 1 .. Len(sent)
      BY <1>4, <2>4 DEF Provided
    <3>3. sent[t] \in TxType /\ (sent[t].status = "pending" <=> t > mined) /\ mined \in Nat
          /\ t \in Nat
      BY <1>1, <3>2, CoverTypes DEF TypeInv, SentOK
    <3>4. sent[t].status = "reverted"
      <4>1. sent[t].status \in {"pending", "ok", "reverted"}
        BY <3>3 DEF TxType
      <4>2. ~(t > mined)
        BY <3>1, <3>3
      <4> QED
        BY <3>1, <3>3, <4>1, <4>2
    <3>5. \A j \in Provided(sent, q.run) : sent[j].status = "reverted"
      BY <1>4, <2>4, <3>4
    <3> QED
      BY <1>3, <1>4, <1>5, <2>1, <2>2, <2>4, <3>5 DEF AtStage
  <2> QED
    BY <2>1, <2>3, <2>4 DEF StageThrown
<1>6. CASE /\ q.pc = proc.pc + I.next /\ I.op # "submit"
           /\ q.said = proc.said \cup ({I.says} \ {"none"})
           /\ I.op = "wait" => sent[proc.tx[I.tx]].status = "ok"
  <2>1. k \in Stage /\ StageDone(l, I, k)
    BY <1>2, <1>6 DEF k
  <2>2. CASE l # "sent" /\ I \in DryInstr /\ Implied(l, k)
    <3>1. q.said = proc.said
      BY <1>6, <2>2 DEF DryInstr
    <3>2. SaidTrue(sent, q)
      BY <1>1, <3>1 DEF SaidTrue
    <3> QED
      BY <1>1, <1>3, <2>1, <2>2, <3>1, <3>2, ImpliedStage
  <2>3. CASE l = "sent" /\ k = "any" /\ I.op = "wait" /\ I.tx = "tx"
    <3>1. sent[t].status = "ok"
      BY <1>6, <2>3 DEF t
    <3>2. SaidTrue(sent, q)
      BY <1>4, <2>3, <3>1 DEF SaidTrue
    <3> QED
      BY <1>3, <2>1, <2>3, <3>2 DEF AtStage
  <2> QED
    BY <1>6, <2>1, <2>2, <2>3 DEF StageDone
<1> QED
  BY <1>5, <1>6

\* A step of the script that sends nothing, as to provisions.
LEMMA QuietProvides ==
  ASSUME ProvideInv, TypeInv', Running, OnlyScript,
         \/ /\ proc' = Throw(proc)
            /\ I.op = "wait" => /\ proc.tx[I.tx] <= mined
                                /\ sent[proc.tx[I.tx]].status # "ok"
         \/ /\ I.op # "submit"
            /\ I.op = "wait" => sent[proc.tx[I.tx]].status = "ok"
            /\ \E p \in ProcType :
                 /\ proc' = Done(p) /\ p.script = proc.script /\ p.pc = proc.pc
                 /\ p.tx = proc.tx /\ p.run = proc.run /\ p.said = proc.said
                 /\ p.exit = proc.exit
  PROVE  ProvideInv'
<1>1. /\ TypeInv /\ proc \in ProcType /\ I \in Instr /\ proc.script \in Prudent
      /\ SaidTrue(sent, proc)
  BY InstructionOK DEF ProvideInv, TypeInv, ProcOK
<1>2. sent' = sent
  BY DEF OnlyScript
<1>3. /\ proc'.script = proc.script /\ proc'.run = proc.run
      /\ SaidTrue(sent, proc')
      /\ Running' => AtStage(sent, proc', StageLabels(proc'.script)[proc'.pc])
  <2>1. CASE /\ proc' = Throw(proc)
             /\ I.op = "wait" => /\ proc.tx[I.tx] <= mined
                                 /\ sent[proc.tx[I.tx]].status # "ok"
    <3>1. /\ proc'.script = proc.script /\ proc'.run = proc.run /\ proc'.tx = proc.tx
          /\ OnItsWay(proc') => I.catch # 0 /\ proc'.pc = proc.pc + I.catch
      BY <1>1, <2>1, ThrowOnWay
    <3>2. proc'.said = proc.said
      BY <1>1, <2>1, ThrowOK
    <3>3. SaidTrue(sent, proc')
      BY <1>1, <3>1, <3>2 DEF SaidTrue
    <3>4. ASSUME Running' PROVE AtStage(sent, proc', StageLabels(proc'.script)[proc'.pc])
      <4>1. I.catch # 0 /\ proc'.pc = proc.pc + I.catch
        BY <3>1, <3>4 DEF Running, OnItsWay
      <4> QED
        BY <2>1, <3>1, <3>2, <4>1, QuietStage
    <3> QED
      BY <3>1, <3>3, <3>4
  <2>2. CASE /\ I.op # "submit"
             /\ I.op = "wait" => sent[proc.tx[I.tx]].status = "ok"
             /\ \E p \in ProcType :
                  /\ proc' = Done(p) /\ p.script = proc.script /\ p.pc = proc.pc
                  /\ p.tx = proc.tx /\ p.run = proc.run /\ p.said = proc.said
                  /\ p.exit = proc.exit
    <3>1. PICK p \in ProcType :
            /\ proc' = Done(p) /\ p.script = proc.script /\ p.pc = proc.pc
            /\ p.tx = proc.tx /\ p.run = proc.run /\ p.said = proc.said
            /\ p.exit = proc.exit
      BY <2>2
    <3>2. /\ proc'.script = proc.script /\ proc'.run = proc.run
          /\ proc'.tx = proc.tx /\ proc'.pc = proc.pc + I.next
      BY <1>1, <3>1, DoneOnWay
    <3>3. proc'.said = proc.said \cup ({I.says} \ {"none"})
      BY <1>1, <3>1, DoneOK
    <3>4. SaidTrue(sent, proc') /\ AtStage(sent, proc', StageLabels(proc'.script)[proc'.pc])
      BY <2>2, <3>2, <3>3, QuietStage
    <3> QED
      BY <3>2, <3>4
  <2> QED
    BY <2>1, <2>2
<1>4. \A k \in 1 .. Len(sent') : sent'[k].run <= proc'.run
  BY <1>2, <1>3 DEF ProvideInv
<1>5. OneLeft(sent') /\ SaidTrue(sent', proc')
  BY <1>2, <1>3 DEF ProvideInv
<1>7. MayRun(proc'.script)
  BY <1>3 DEF ProvideInv
<1>6. Running' => /\ proc'.script \in Prudent
                  /\ AtStage(sent', proc', StageLabels(proc'.script)[proc'.pc])
  BY <1>1, <1>2, <1>3
<1> QED
  BY <1>4, <1>5, <1>6, <1>7 DEF ProvideInv
-----------------------------------------------------------------------------
\* A block leaves what is known of provisions.
LEMMA StatusesKept ==
  ASSUME NEW s, NEW u, NEW p, Len(u) = Len(s),
         \A j \in 1 .. Len(s) :
           /\ u[j].fn = s[j].fn /\ u[j].run = s[j].run
           /\ s[j].status # "pending" => u[j].status = s[j].status
  PROVE  /\ \A r : Provided(u, r) = Provided(s, r)
         /\ OneLeft(s) => OneLeft(u)
         /\ SaidTrue(s, p) => SaidTrue(u, p)
         /\ \A l : AtStage(s, p, l) => AtStage(u, p, l)
<1>1. \A r : Provided(u, r) = Provided(s, r)
  BY DEF Provided
<1>2. ASSUME NEW r, NEW j \in Provided(s, r) PROVE j \in 1 .. Len(s)
  BY <1>2 DEF Provided
<1>3. OneLeft(s) => OneLeft(u)
  BY DEF OneLeft
<1>4. SaidTrue(s, p) => SaidTrue(u, p)
  BY <1>1, <1>2 DEF SaidTrue
<1>5. \A l : AtStage(s, p, l) => AtStage(u, p, l)
  BY <1>1, <1>2 DEF AtStage
<1> QED
  BY <1>1, <1>3, <1>4, <1>5

\* Nothing is sent at first.
LEMMA ProvideInit ==
  ASSUME Init
  PROVE  ProvideInv
<1>1. TypeInv
  BY TypeInit
<1>2. sent = <<>> /\ proc.exit = "0" /\ proc.said = {} /\ proc.script = "none"
  BY DEF Init, NoRun
<1>3. 1 .. Len(sent) = {}
  BY <1>2
<1>4. ~Running
  BY <1>2 DEF Running
<1>5. "none" \notin Script
  BY DEF Script, Program
<1> QED
  BY <1>1, <1>2, <1>3, <1>4, <1>5 DEF ProvideInv, OneLeft, SaidTrue, MayRun

\* A run has provided nothing when it starts.
LEMMA StartProvides ==
  ASSUME ProvidesInOneWay, ProvideInv, TypeInv', NEW script \in Script, Start(script)
  PROVE  ProvideInv'
<1>1. /\ proc' \in ProcType /\ proc'.script = script /\ proc'.pc = 1
      /\ proc'.run = proc.run + 1 /\ proc'.said = {} /\ sent' = sent
  BY StartsAt DEF ProvideInv
<1>2. script \in Prudent /\ MayRun(script)
  <2>1. 0 \in 0 .. MaxRuns
    BY BoundsAssumption
  <2>2. pools[0] \in Pool
    BY <2>1 DEF ProvideInv, TypeInv, PoolsOK, Sound
  <2> QED
    BY <2>2 DEF ProvidesInOneWay, Start, Prudent, MayRun
<1>3. \A k \in 1 .. Len(sent) : sent[k].run <= proc'.run /\ sent[k].run # proc'.run
  <2>1. \A k \in 1 .. Len(sent) : sent[k] \in TxType
    BY CoverTypes DEF ProvideInv
  <2>2. \A k \in 1 .. Len(sent) : sent[k].run \in Nat
    BY <2>1 DEF TxType
  <2>3. proc.run \in Nat
    BY DEF ProvideInv, TypeInv, ProcOK, ProcType
  <2> QED
    BY <1>1, <2>2, <2>3 DEF ProvideInv
<1>4. Provided(sent, proc'.run) = {}
  BY <1>3 DEF Provided
<1>5. StageLabels(script)[1] = "none"
  BY <1>2, StageLabelsOK
<1>6. AtStage(sent, proc', "none")
  BY <1>1, <1>4 DEF AtStage, Stage
<1>7. SaidTrue(sent, proc')
  BY <1>1 DEF SaidTrue
<1> QED
  BY <1>1, <1>2, <1>3, <1>5, <1>6, <1>7 DEF ProvideInv

\* A run that is killed knows what it knew.
LEMMA KillProvides ==
  ASSUME ProvideInv, TypeInv', Kill
  PROVE  ProvideInv'
<1> DEFINE p == [proc EXCEPT !.exit = "killed"]
<1>1. proc' = p /\ sent' = sent /\ proc \in ProcType
  BY DEF Kill, OnlyScript, ProvideInv, TypeInv, ProcOK
<1>2. /\ p.exit = "killed" /\ p.run = proc.run /\ p.said = proc.said
      /\ p.script = proc.script
  BY <1>1 DEF ProcType
<1> HIDE DEF p
<1>3. ~Running'
  BY <1>1, <1>2 DEF Running
<1>4. SaidTrue(sent, proc')
  BY <1>1, <1>2 DEF ProvideInv, SaidTrue
<1> QED
  BY <1>1, <1>2, <1>3, <1>4 DEF ProvideInv

\* A block decides what pends, and only that.
LEMMA IncludeProvides ==
  ASSUME ProvideInv, TypeInv', NEW delay \in Delays, Include(delay)
  PROVE  ProvideInv'
<1> DEFINE k == mined + 1
           x == sent[mined + 1]
           n == Len(sent)
<1>1. /\ k \in 1 .. n /\ Len(sent') = n
      /\ \A j \in 1 .. n : j # k => sent'[j] = sent[j]
      /\ sent'[k].fn = x.fn /\ sent'[k].run = x.run /\ proc' = proc
  BY IncludeOK DEF ProvideInv
<1>2. mined \in Nat /\ k > mined /\ x = sent[k] /\ n = Len(sent)
  BY CoverTypes DEF ProvideInv
<1>3. x.status = "pending"
  BY <1>1, <1>2 DEF ProvideInv, TypeInv, SentOK
<1> HIDE DEF k, x, n
<1>4. \A j \in 1 .. Len(sent) :
        /\ sent'[j].fn = sent[j].fn /\ sent'[j].run = sent[j].run
        /\ sent[j].status # "pending" => sent'[j].status = sent[j].status
  BY <1>1, <1>2, <1>3
<1>5. Len(sent') = Len(sent)
  BY <1>1, <1>2
<1>6. /\ OneLeft(sent) => OneLeft(sent')
      /\ SaidTrue(sent, proc) => SaidTrue(sent', proc)
      /\ \A l : AtStage(sent, proc, l) => AtStage(sent', proc, l)
  BY <1>4, <1>5, StatusesKept
<1>7. OneLeft(sent') /\ SaidTrue(sent', proc)
  BY <1>6 DEF ProvideInv
<1>8. Running => /\ proc.script \in Prudent
                 /\ AtStage(sent', proc, StageLabels(proc.script)[proc.pc])
  BY <1>6 DEF ProvideInv
<1>9. \A j \in 1 .. Len(sent') : sent'[j].run <= proc.run
  BY <1>4, <1>5 DEF ProvideInv
<1>10. Running' = Running
  BY <1>1 DEF Running
<1> QED
  BY <1>1, <1>7, <1>8, <1>9, <1>10 DEF ProvideInv

\* A provision is sent where no other is left.
LEMMA SubmitProvides ==
  ASSUME ProvideInv, TypeInv', Running, DoSubmit
  PROVE  ProvideInv'
<1> DEFINE x == Transaction(I.call)
           n == Len(sent)
           r == proc.run
           l == StageLabels(proc.script)[proc.pc]
           m == StageLabels(proc.script)[proc.pc + I.next]
<1>1. /\ TypeInv /\ InProgram /\ proc \in ProcType /\ I \in Instr
      /\ proc.script \in Prudent /\ AtStage(sent, proc, l)
      /\ SaidTrue(sent, proc) /\ OneLeft(sent)
      /\ \A k \in 1 .. n : sent[k].run <= r
  BY InstructionOK DEF ProvideInv, TypeInv, ProcOK
<1>2. /\ x.fn = I.call.fn /\ Len(sent') = n + 1 /\ n \in Nat
      /\ sent'[n + 1] = x /\ I.op = "submit"
      /\ \A k \in 1 .. n : sent'[k] = sent[k]
  BY <1>1, SubmitGoesOn
<1>3. PICK p \in ProcType :
        /\ proc' = Done(p) /\ p.script = proc.script /\ p.pc = proc.pc
        /\ p.run = proc.run /\ p.said = proc.said /\ p.exit = proc.exit
        /\ p.tx = [proc.tx EXCEPT ![I.tx] = n + 1]
  BY <1>1, SubmitGoesOn
<1>4. /\ proc'.script = proc.script /\ proc'.run = r
      /\ proc'.tx = p.tx /\ proc'.pc = proc.pc + I.next
  BY <1>1, <1>3, DoneOnWay
<1>5. proc'.said = proc.said \cup ({I.says} \ {"none"})
  BY <1>1, <1>3, DoneOK
<1>6. x.run = r
  BY DEF Transaction
<1>7. m \in Stage /\ StageDone(l, I, m)
  BY <1>1, StagePlace
<1>8. m = StageLabels(proc'.script)[proc'.pc]
  BY <1>4
<1>9. r \in Nat
  BY <1>1 DEF ProcType
<1>15. proc.script \notin Hasty => I.says = "none"
  <2> DEFINE s == Program[proc.script]
  <2>1. proc.script \in Script /\ proc.pc \in 1 .. Len(s)
    BY <1>1, InstructionOK
  <2>2. proc.script \notin Hasty => Patient(s)
    BY <2>1, ScriptsPatient
  <2>3. I = s[proc.pc]
    BY DEF I
  <2> HIDE DEF s
  <2>4. proc.script \notin Hasty => I \in PatientInstr
    BY <2>1, <2>2, <2>3 DEF Patient, Within
  <2> QED
    BY <1>2, <2>4 DEF PatientInstr
<1>16. MayRun(proc'.script)
  BY <1>4 DEF ProvideInv
<1>10. I.tx = "tx" => proc'.tx["tx"] = n + 1
  BY <1>1, <1>3, <1>4 DEF ProcType, Handle
<1> HIDE DEF x, n, r, l, m
<1>11. 1 .. n + 1 = 1 .. n \cup {n + 1} /\ n + 1 \notin 1 .. n /\ Len(sent) = n
  BY <1>2 DEF n
<1>12. \A k \in 1 .. Len(sent') : sent'[k].run <= r
  BY <1>1, <1>2, <1>6, <1>9, <1>11
<1>13. CASE I \in DryInstr
  <2>1. I.call.fn \notin Provision /\ proc'.said = proc.said
    BY <1>5, <1>13 DEF DryInstr
  <2>2. \A q : Provided(sent', q) = Provided(sent, q)
    BY <1>2, <1>11, <2>1 DEF Provided
  <2>3. \A q : \A k \in Provided(sent, q) : sent'[k] = sent[k]
    BY <1>2, <1>11 DEF Provided
  <2>4. OneLeft(sent')
    BY <1>1, <1>2, <1>11, <2>1 DEF OneLeft
  <2>5. SaidTrue(sent', proc')
    BY <1>1, <1>4, <2>1, <2>2, <2>3 DEF SaidTrue, r
  <2>6. l # "sent" /\ Implied(l, m)
    BY <1>2, <1>7, <1>13 DEF StageDone, DryInstr
  <2>7. AtStage(sent, proc', m)
    BY <1>1, <1>4, <1>7, <2>1, <2>6, ImpliedStage DEF r
  <2>8. m # "sent"
    BY <2>6 DEF Implied
  <2>9. AtStage(sent', proc', m)
    BY <2>2, <2>3, <2>7, <2>8 DEF AtStage
  <2> QED
    BY <1>1, <1>4, <1>8, <1>12, <1>16, <2>4, <2>5, <2>9 DEF ProvideInv, r
<1>14. CASE I \notin DryInstr
  <2>1. /\ l \in {"none", "failed"} /\ I.call.fn \in Provision
        /\ \/ l = "none" /\ m = "sent" /\ I.tx = "tx" /\ I.says = "none"
           \/ m = "any"
    BY <1>2, <1>7, <1>14 DEF StageDone
  <2>2. I.says = "none" => proc'.said = proc.said /\ "initial" \notin proc'.said
    BY <1>1, <1>5, <2>1 DEF AtStage
  <2>3. \A j \in Provided(sent, r) : sent[j].status = "reverted"
    BY <1>1, <2>1 DEF AtStage, r
  <2>4. \A j \in 1 .. n : sent[j].run = r /\ sent[j].fn \in Provision
                            => sent[j].status = "reverted"
    BY <1>11, <2>3 DEF Provided
  <2>5. OneLeft(sent')
    <3> SUFFICES ASSUME NEW j \in 1 .. n + 1, NEW k \in 1 .. n + 1,
                        sent'[j].run = sent'[k].run, sent'[j].fn \in Provision,
                        sent'[k].fn \in Provision, j # k
                 PROVE  sent'[j].status = "reverted" \/ sent'[k].status = "reverted"
      BY <1>2 DEF OneLeft
    <3>1. CASE j = n + 1
      BY <1>2, <1>6, <1>11, <2>4, <3>1
    <3>2. CASE k = n + 1
      BY <1>2, <1>6, <1>11, <2>4, <3>2
    <3>3. CASE j \in 1 .. n /\ k \in 1 .. n
      BY <1>1, <1>2, <1>11, <3>3 DEF OneLeft
    <3> QED
      BY <1>11, <3>1, <3>2, <3>3
  <2>6. SaidTrue(sent', proc')
    BY <1>4, <1>15, <2>2 DEF SaidTrue
  <2>7. AtStage(sent', proc', m)
    <3>1. CASE m = "any"
      BY <1>7, <3>1 DEF AtStage
    <3>2. CASE l = "none" /\ m = "sent" /\ I.tx = "tx" /\ I.says = "none"
      <4>1. Provided(sent, r) = {}
        BY <1>1, <3>2 DEF AtStage, r
      <4>2. Provided(sent', r) = {n + 1}
        BY <1>2, <1>6, <1>11, <2>1, <4>1 DEF Provided
      <4> QED
        BY <1>4, <1>7, <1>10, <2>2, <3>2, <4>2 DEF AtStage
    <3> QED
      BY <2>1, <3>1, <3>2
  <2> QED
    BY <1>1, <1>4, <1>8, <1>12, <1>16, <2>5, <2>6, <2>7 DEF ProvideInv, r
<1> QED
  BY <1>13, <1>14

\* Every step keeps what is known of provisions.
LEMMA ProvideStep ==
  ASSUME ProvidesInOneWay, ProvideInv, [Next]_vars
  PROVE  ProvideInv'
<1>1. TypeInv' /\ TypeInv /\ proc \in ProcType
  BY TypeStep DEF ProvideInv, TypeInv, ProcOK
<1>2. ASSUME NEW script \in Script, Start(script) PROVE ProvideInv'
  BY <1>1, <1>2, StartProvides
<1>3. CASE ScriptStep
  <2>1. Running
    BY <1>3 DEF ScriptStep
  <2>2. CASE DoReadClock \/ DoReadPair \/ DoReadRatio \/ DoReadIds \/ DoLookUp
    <3>1. I.op # "wait"
      BY <2>2 DEF DoReadClock, DoReadPair, DoReadRatio, DoReadIds, DoLookUp
    <3> QED
      BY <1>1, <2>1, <2>2, <3>1, ReadsGoOn, QuietProvides
  <2>3. CASE FailToSubmit
    <3>1. OnlyScript /\ proc' = Throw(proc) /\ I.op # "wait"
      BY <2>3 DEF FailToSubmit
    <3> QED
      BY <1>1, <2>1, <3>1, QuietProvides
  <2>4. CASE DoWait
    <3>1. OnlyScript /\ I.op # "submit" /\ proc.tx[I.tx] <= mined
      BY <2>4, WaitGoesOn DEF DoWait
    <3>2. CASE sent[proc.tx[I.tx]].status = "ok"
      <4>1. proc' = Done(proc)
        BY <2>4, <3>2 DEF DoWait
      <4> QED
        BY <1>1, <2>1, <3>1, <3>2, <4>1, QuietProvides
    <3>3. CASE sent[proc.tx[I.tx]].status # "ok"
      <4>1. proc' = Throw(proc)
        BY <2>4, <3>3 DEF DoWait
      <4> QED
        BY <1>1, <2>1, <3>1, <3>3, <4>1, QuietProvides
    <3> QED
      BY <3>2, <3>3
  <2>5. CASE DoSubmit
    BY <1>1, <2>1, <2>5, SubmitProvides
  <2> QED
    BY <1>3, <2>2, <2>3, <2>4, <2>5 DEF ScriptStep
<1>4. CASE Kill
  BY <1>1, <1>4, KillProvides
<1>5. ASSUME NEW delay \in Delays, Include(delay) PROVE ProvideInv'
  BY <1>1, <1>5, IncludeProvides
<1>6. CASE Others \/ (\E delay \in Delays : Pass(delay)) \/ UNCHANGED vars
  <2>1. sent' = sent /\ proc' = proc
    <3>1. CASE Others
      BY <1>1, <3>1, OthersOK
    <3>2. CASE (\E delay \in Delays : Pass(delay)) \/ UNCHANGED vars
      BY <3>2 DEF Pass, vars
    <3> QED
      BY <1>6, <3>1, <3>2
  <2> QED
    BY <1>1, <2>1 DEF ProvideInv, Running
<1> QED
  BY <1>2, <1>3, <1>4, <1>5, <1>6 DEF Next, SomeBlock

\* A run of a script that waits for the initial provision has not printed that it
\* is completed when the transaction has reverted, whatever was killed or sent
\* before, refused or slow, and whatever others do.
THEOREM CompletedCorrect ==
  ASSUME WaitsToProvide
  PROVE  Spec => []CompletedMeansDone
<1>1. Init => ProvideInv
  BY ProvideInit
<1>2. ProvideInv /\ [Next]_vars => ProvideInv'
  <2>1. ProvidesInOneWay
    BY DEF WaitsToProvide, ProvidesInOneWay, Hasty
  <2> QED
    BY <2>1, ProvideStep
<1>3. ProvideInv => CompletedMeansDone
  <2> SUFFICES ASSUME ProvideInv, "initial" \in proc.said, NEW k \in Initials(proc.run)
               PROVE  sent[k].status # "reverted"
    BY DEF CompletedMeansDone
  <2>1. DOMAIN sent = 1 .. Len(sent)
    BY CoverTypes DEF ProvideInv
  <2>2. k \in Provided(sent, proc.run)
    BY <2>1 DEF Initials, OfRun, Fn, Provided, Provision
  <2>3. proc.script \notin Hasty
    <3>1. Hasty \subseteq Script
      BY DEF Hasty, Script, Program
    <3> QED
      BY <3>1 DEF ProvideInv, MayRun, WaitsToProvide
  <2>4. sent[k].status = "ok"
    BY <2>2, <2>3 DEF ProvideInv, SaidTrue
  <2> QED
    BY <2>4
<1> QED
  BY <1>1, <1>2, <1>3, PTL DEF Spec

\* Of the provisions of liquidity that a run sends, initially and again when that
\* is refused or has failed, at most one takes effect, whatever was killed or
\* still pends, for all scripts but addLiquidity.js, which adds liquidity even so.
THEOREM ProvidesOnceCorrect ==
  ASSUME ProvidesInOneWay
  PROVE  Spec => []ProvidesOnce
<1>1. Init => ProvideInv
  BY ProvideInit
<1>2. ProvideInv /\ [Next]_vars => ProvideInv'
  BY ProvideStep
<1>3. ProvideInv => ProvidesOnce
  <2> SUFFICES ASSUME ProvideInv, NEW r \in 1 .. proc.run
               PROVE  Cardinality({k \in Initials(r) \cup OfRun(r, {"addLiquidity"}) :
                                     sent[k].status = "ok"}) <= 1
    BY DEF ProvidesOnce
  <2> DEFINE kept == {k \in Initials(r) \cup OfRun(r, {"addLiquidity"}) :
                        sent[k].status = "ok"}
  <2>1. DOMAIN sent = 1 .. Len(sent)
    BY CoverTypes DEF ProvideInv
  <2>2. \A k \in kept : /\ k \in 1 .. Len(sent) /\ sent[k].status = "ok"
                        /\ sent[k].run = r /\ sent[k].fn \in Provision
    BY <2>1 DEF Initials, OfRun, Fn, Provision
  <2> HIDE DEF kept
  <2>3. \A j, k \in kept : j = k
    BY <2>2 DEF ProvideInv, OneLeft
  <2>4. CASE kept = {}
    <3>1. Cardinality(kept) = 0
      BY <2>4, FS_EmptySet
    <3> QED
      BY <3>1 DEF kept
  <2>5. CASE kept # {}
    <3>1. PICK k : k \in kept
      BY <2>5
    <3>2. kept = {k}
      BY <2>3, <3>1
    <3>3. Cardinality(kept) = 1
      BY <3>2, FS_Singleton
    <3> QED
      BY <3>3 DEF kept
  <2> QED
    BY <2>4, <2>5
<1> QED
  BY <1>1, <1>2, <1>3, PTL DEF Spec
=============================================================================
