-------------------------- MODULE Solvency_proofs ---------------------------
(***************************************************************************)
(* Proofs about LongTermOrders, concluded: as long as no block at which    *)
(* orders end is executed twice (OrderlySpec), the rate of a pool is that  *)
(* of its live orders, no execution reverts, and the pair holds what it    *)
(* owes.  The debt is counted in units of 1 / (RATE_PRECISION * SCALE)     *)
(* token, in which no rounding is lost: the proof is that every rounding   *)
(* of the code is in favour of the pair.                                   *)
(***************************************************************************)
EXTENDS LongTermOrders_proofs

-----------------------------------------------------------------------------
(***************************************************************************)
(* What the orders of a pool that is executed up to block b still sell and *)
(* have not been paid, as sums over the order ids.                         *)
(***************************************************************************)
AfterTerms(p, b) ==
  [i \in OrderId |-> IF p.orderExpiry[i] > b THEN p.salesRate[i] ELSE 0]

UnsoldTerms(p, b) ==
  [i \in OrderId |-> IF p.orderExpiry[i] > b
                     THEN (p.orderExpiry[i] - b) * p.salesRate[i] ELSE 0]

UnpaidTerms(p, b) ==
  [i \in OrderId |->
     (WithdrawFactor(p, i, b) - p.rewardFactorAtSubmission[i]) * p.salesRate[i]]

UnsoldBy(p, b) == SumUpTo(UnsoldTerms(p, b), MaxOrders)
UnpaidBy(p, b) == SumUpTo(UnpaidTerms(p, b), MaxOrders)

\* These are the sums of the properties.
LEMMA SumsOfProperties ==
  /\ \A p, b : RateEndingAfter(p, b) = SumUpTo(AfterTerms(p, b), MaxOrders)
  /\ \A p : Unsold(p) = UnsoldBy(p, lastVirtualOrderBlock)
  /\ \A p : Unpaid(p) = UnpaidBy(p, lastVirtualOrderBlock)
<1>1. \A p, b : RateEndingAfter(p, b) = SumUpTo(AfterTerms(p, b), MaxOrders)
  BY DEF RateEndingAfter, AfterTerms
<1>2. \A p : Unsold(p) = UnsoldBy(p, lastVirtualOrderBlock)
  BY DEF Unsold, UnsoldBy, UnsoldTerms
<1>3. \A p : Unpaid(p) = UnpaidBy(p, lastVirtualOrderBlock)
  BY DEF Unpaid, UnpaidBy, UnpaidTerms, ClaimFactor, WithdrawFactor
<1> QED
  BY <1>1, <1>2, <1>3

\* What a pool holds of an order.
LEMMA OrderTypes ==
  ASSUME NEW p \in Pool, NEW i \in OrderId
  PROVE  /\ p.orderExpiry[i] \in Nat /\ p.orderExpiry[i] \in Block
         /\ p.salesRate[i] \in Nat
         /\ p.rewardFactorAtSubmission[i] \in Nat
         /\ \A b \in Nat : WithdrawFactor(p, i, b) \in Nat
<1>1. /\ p.orderExpiry[i] \in Block
      /\ p.salesRate[i] \in Nat
      /\ p.rewardFactorAtSubmission[i] \in Nat
      /\ p.rewardFactor \in Nat /\ p.rewardFactorAtBlock \in [Block -> Nat]
  BY DEF Pool
<1>2. \A b \in Nat : WithdrawFactor(p, i, b) \in Nat
  BY <1>1 DEF WithdrawFactor
<1> QED
  BY <1>1, <1>2, BlockNat

\* The rates and the unsold amounts are natural numbers.
LEMMA SoldTypes ==
  ASSUME NEW p \in Pool, NEW b \in Nat
  PROVE  /\ AfterTerms(p, b) \in [0 .. MaxOrders - 1 -> Nat]
         /\ UnsoldTerms(p, b) \in [0 .. MaxOrders - 1 -> Nat]
         /\ RateEndingAfter(p, b) \in Nat
         /\ UnsoldBy(p, b) \in Nat
<1>1. AfterTerms(p, b) \in [0 .. MaxOrders - 1 -> Nat]
  BY OrderTypes DEF AfterTerms, OrderId
<1>2. UnsoldTerms(p, b) \in [0 .. MaxOrders - 1 -> Nat]
  <2>1. ASSUME NEW i \in OrderId, p.orderExpiry[i] > b
        PROVE  (p.orderExpiry[i] - b) * p.salesRate[i] \in Nat
    <3>1. p.orderExpiry[i] - b \in Nat /\ p.salesRate[i] \in Nat
      BY <2>1, OrderTypes
    <3> QED
      BY <3>1, MulNat
  <2>2. UnsoldTerms(p, b) \in [OrderId -> Nat]
    BY <2>1 DEF UnsoldTerms
  <2> QED
    BY <2>2 DEF OrderId
<1> QED
  BY <1>1, <1>2, SumType, SumsOfProperties, PoolAssumption DEF UnsoldBy

\* So are the unpaid proceeds, if the claims on the pool are in order.
LEMMA UnpaidType ==
  ASSUME NEW p \in Pool, NEW b \in Nat, PoolClaims(p, b)
  PROVE  /\ UnpaidTerms(p, b) \in [0 .. MaxOrders - 1 -> Nat]
         /\ UnpaidBy(p, b) \in Nat
<1>1. ASSUME NEW i \in OrderId
      PROVE  (WithdrawFactor(p, i, b) - p.rewardFactorAtSubmission[i]) * p.salesRate[i] \in Nat
  <2> DEFINE f == WithdrawFactor(p, i, b)
             s == p.rewardFactorAtSubmission[i]
             r == p.salesRate[i]
  <2>1. f \in Nat /\ s \in Nat /\ r \in Nat /\ (r > 0 => s <= f)
    BY OrderTypes DEF PoolClaims
  <2> HIDE DEF f, s, r
  <2>2. ASSUME r = 0 PROVE (f - s) * r \in Nat
    BY <2>1, <2>2
  <2>3. ASSUME r > 0 PROVE (f - s) * r \in Nat
    <3>1. f - s \in Nat
      BY <2>1, <2>3
    <3> QED
      BY <2>1, <3>1, MulNat
  <2>4. (f - s) * r \in Nat
    BY <2>1, <2>2, <2>3
  <2> QED
    BY <2>4 DEF f, s, r
<1>2. UnpaidTerms(p, b) \in [OrderId -> Nat]
  BY <1>1 DEF UnpaidTerms
<1>3. UnpaidTerms(p, b) \in [0 .. MaxOrders - 1 -> Nat]
  BY <1>2 DEF OrderId
<1> QED
  BY <1>3, SumType, PoolAssumption DEF UnpaidBy
-----------------------------------------------------------------------------
\* No order with a stake ends strictly between blocks l and b.
NoneEndsBetween(p, l, b) ==
  \A i \in OrderId : p.salesRate[i] > 0 /\ p.orderExpiry[i] > l => p.orderExpiry[i] >= b

\* The orders that end after l end at b or after it.
LEMMA RateSplit ==
  ASSUME NEW p \in Pool, NEW l \in Nat, NEW b \in Nat, l < b, NoneEndsBetween(p, l, b)
  PROVE  RateEndingAfter(p, l) = RateEndingAfter(p, b) + RateEndingAt(p, b)
<1>1. ASSUME NEW i \in OrderId
      PROVE  AfterTerms(p, l)[i] = AfterTerms(p, b)[i] + RateTerms(p, b)[i]
  <2>1. /\ p.orderExpiry[i] \in Nat /\ p.salesRate[i] \in Nat
        /\ p.salesRate[i] > 0 /\ p.orderExpiry[i] > l => p.orderExpiry[i] >= b
    BY OrderTypes DEF NoneEndsBetween
  <2> QED
    BY <2>1 DEF AfterTerms, RateTerms
<1>2. \A i \in 0 .. MaxOrders - 1 :
        AfterTerms(p, l)[i] = AfterTerms(p, b)[i] + RateTerms(p, b)[i]
  BY <1>1 DEF OrderId
<1>3. /\ AfterTerms(p, l) \in [0 .. MaxOrders - 1 -> Nat]
      /\ AfterTerms(p, b) \in [0 .. MaxOrders - 1 -> Nat]
      /\ RateTerms(p, b) \in [0 .. MaxOrders - 1 -> Nat]
      /\ RateEndingAt(p, b) = SumUpTo(RateTerms(p, b), MaxOrders)
  BY SoldTypes, RateTermsType
<1>4. SumUpTo(AfterTerms(p, l), MaxOrders)
        = SumUpTo(AfterTerms(p, b), MaxOrders) + SumUpTo(RateTerms(p, b), MaxOrders)
  BY <1>2, <1>3, SumAdd, PoolAssumption
<1> QED
  BY <1>3, <1>4, SumsOfProperties

\* From block l to block b the pool sells its rate at l.
LEMMA UnsoldSplit ==
  ASSUME NEW p \in Pool, NEW l \in Nat, NEW b \in Nat, l <= b, NoneEndsBetween(p, l, b)
  PROVE  UnsoldBy(p, l) = UnsoldBy(p, b) + (b - l) * RateEndingAfter(p, l)
<1> DEFINE g == [i \in 0 .. MaxOrders - 1 |-> (b - l) * AfterTerms(p, l)[i]]
<1>1. ASSUME NEW i \in OrderId
      PROVE  UnsoldTerms(p, l)[i] = UnsoldTerms(p, b)[i] + (b - l) * AfterTerms(p, l)[i]
  <2> DEFINE e == p.orderExpiry[i]
             r == p.salesRate[i]
  <2>1. e \in Nat /\ r \in Nat /\ (r > 0 /\ e > l => e >= b)
    BY OrderTypes DEF NoneEndsBetween
  <2>2. /\ UnsoldTerms(p, l)[i] = IF e > l THEN (e - l) * r ELSE 0
        /\ UnsoldTerms(p, b)[i] = IF e > b THEN (e - b) * r ELSE 0
        /\ AfterTerms(p, l)[i] = IF e > l THEN r ELSE 0
    BY DEF UnsoldTerms, AfterTerms
  <2> HIDE DEF e, r
  <2>3. CASE r = 0
    BY <2>1, <2>2, <2>3
  <2>4. CASE e <= l
    <3>1. ~(e > b) /\ ~(e > l)
      BY <2>1, <2>4
    <3> QED
      BY <2>2, <3>1
  <2>5. CASE r > 0 /\ e > l
    <3>1. (e - l) * r = (e - b) * r + (b - l) * r
      BY <2>1
    <3>2. e = b => (e - b) * r = 0
      BY <2>1
    <3>3. e > b \/ e = b
      BY <2>1, <2>5
    <3>4. (b - l) * r \in Int
      BY <2>1
    <3>5. CASE e > b
      BY <2>2, <2>5, <3>1, <3>5
    <3>6. CASE e = b
      <4>1. ~(e > b) /\ (e - b) * r = 0
        BY <2>1, <3>6
      <4> QED
        BY <2>2, <2>5, <3>1, <3>4, <4>1
    <3> QED
      BY <3>3, <3>5, <3>6
  <2> QED
    BY <2>1, <2>3, <2>4, <2>5
<1>2. b - l \in Nat
  OBVIOUS
<1>3. /\ AfterTerms(p, l) \in [0 .. MaxOrders - 1 -> Nat]
      /\ UnsoldTerms(p, l) \in [0 .. MaxOrders - 1 -> Nat]
      /\ UnsoldTerms(p, b) \in [0 .. MaxOrders - 1 -> Nat]
  BY SoldTypes
<1>4. g \in [0 .. MaxOrders - 1 -> Nat]
  <2>1. \A i \in 0 .. MaxOrders - 1 : AfterTerms(p, l)[i] \in Nat
    BY <1>3
  <2>2. \A i \in 0 .. MaxOrders - 1 : (b - l) * AfterTerms(p, l)[i] \in Nat
    BY <1>2, <2>1, MulNat
  <2> QED
    BY <2>2
<1>5. \A i \in 0 .. MaxOrders - 1 :
        /\ g[i] = (b - l) * AfterTerms(p, l)[i]
        /\ UnsoldTerms(p, l)[i] = UnsoldTerms(p, b)[i] + g[i]
  BY <1>1 DEF OrderId
<1> HIDE DEF g
<1>6. SumUpTo(UnsoldTerms(p, l), MaxOrders)
        = SumUpTo(UnsoldTerms(p, b), MaxOrders) + SumUpTo(g, MaxOrders)
  BY <1>3, <1>4, <1>5, SumAdd, PoolAssumption, ZenonT(60)
<1>7. SumUpTo(g, MaxOrders) = (b - l) * SumUpTo(AfterTerms(p, l), MaxOrders)
  BY <1>2, <1>3, <1>4, <1>5, SumScale, PoolAssumption, ZenonT(60)
<1> QED
  BY <1>6, <1>7, SumsOfProperties DEF UnsoldBy

\* Each payment on the way is owed to the orders that sell: to the rate at l.
LEMMA UnpaidGrows ==
  ASSUME NEW p \in Pool, NEW q \in Pool, NEW l \in Block, NEW b \in Block, l <= b,
         SameOrders(p, q), NoneEndsBetween(p, l, b),
         PoolClaims(p, l), PoolClaims(q, b),
         p.rewardFactor <= q.rewardFactor,
         l = b => q.rewardFactor = p.rewardFactor,
         q.rewardFactorAtBlock = [p.rewardFactorAtBlock EXCEPT ![b] = q.rewardFactor]
  PROVE  UnpaidBy(q, b)
           = UnpaidBy(p, l) + (q.rewardFactor - p.rewardFactor) * RateEndingAfter(p, l)
<1> DEFINE d == q.rewardFactor - p.rewardFactor
           g == [i \in 0 .. MaxOrders - 1 |-> d * AfterTerms(p, l)[i]]
<1>1. /\ p.rewardFactor \in Nat /\ q.rewardFactor \in Nat /\ l \in Nat /\ b \in Nat
      /\ p.rewardFactorAtBlock \in [Block -> Nat]
  BY BlockNat DEF Pool
<1>2. d \in Nat
  BY <1>1
<1>3. ASSUME NEW i \in OrderId
      PROVE  UnpaidTerms(q, b)[i] = UnpaidTerms(p, l)[i] + d * AfterTerms(p, l)[i]
  <2> DEFINE e == p.orderExpiry[i]
             r == p.salesRate[i]
             s == p.rewardFactorAtSubmission[i]
             f == WithdrawFactor(p, i, l)
             h == WithdrawFactor(q, i, b)
  <2>1. /\ e \in Nat /\ e \in Block /\ r \in Nat /\ s \in Nat /\ f \in Nat /\ h \in Nat
        /\ r > 0 /\ e > l => e >= b
    BY <1>1, OrderTypes DEF NoneEndsBetween
  <2>2. q.orderExpiry[i] = e /\ q.salesRate[i] = r /\ q.rewardFactorAtSubmission[i] = s
    BY DEF SameOrders
  <2>3. /\ UnpaidTerms(p, l)[i] = (f - s) * r
        /\ UnpaidTerms(q, b)[i] = (h - s) * r
        /\ AfterTerms(p, l)[i] = IF e > l THEN r ELSE 0
    BY <2>2 DEF UnpaidTerms, AfterTerms
  <2>4. /\ f = IF l >= e THEN p.rewardFactorAtBlock[e] ELSE p.rewardFactor
        /\ h = IF b >= e THEN q.rewardFactorAtBlock[e] ELSE q.rewardFactor
    BY <2>2 DEF WithdrawFactor
  <2>5. /\ q.rewardFactorAtBlock[b] = q.rewardFactor
        /\ e # b => q.rewardFactorAtBlock[e] = p.rewardFactorAtBlock[e]
        /\ p.rewardFactorAtBlock[l] = p.rewardFactor
    BY <1>1, <2>1 DEF PoolClaims
  <2> HIDE DEF e, r, s, f, h
  <2>6. ASSUME r > 0 PROVE h = f + IF e > l THEN d ELSE 0
    <3>1. CASE e > l
      <4>1. h = q.rewardFactor /\ f = p.rewardFactor
        BY <1>1, <2>1, <2>4, <2>5, <2>6, <3>1
      <4> QED
        BY <1>1, <3>1, <4>1
    <3>2. CASE e <= l
      <4>1. h = f
        <5>1. CASE e # b
          BY <1>1, <2>1, <2>4, <2>5, <3>2, <5>1
        <5>2. CASE e = b
          <6>1. l = b
            BY <1>1, <3>2, <5>2
          <6> QED
            BY <1>1, <2>4, <2>5, <5>2, <6>1
        <5> QED
          BY <5>1, <5>2
      <4>2. ~(e > l)
        BY <1>1, <2>1, <3>2
      <4> QED
        BY <2>1, <4>1, <4>2
    <3> QED
      BY <1>1, <2>1, <3>1, <3>2
  <2> HIDE DEF d
  <2>7. (h - s) * r = (f - s) * r + d * (IF e > l THEN r ELSE 0)
    <3>1. CASE r = 0
      BY <1>2, <2>1, <3>1
    <3>2. CASE r > 0 /\ e > l
      <4>1. h = f + d
        BY <2>6, <3>2
      <4>2. ((f + d) - s) * r = (f - s) * r + d * r
        BY <1>2, <2>1
      <4> QED
        BY <3>2, <4>1, <4>2
    <3>3. CASE r > 0 /\ ~(e > l)
      <4>1. h = f
        BY <2>1, <2>6, <3>3
      <4>2. (f - s) * r \in Int /\ d * 0 = 0
        BY <1>2, <2>1
      <4> QED
        BY <3>3, <4>1, <4>2
    <3> QED
      BY <2>1, <3>1, <3>2, <3>3
  <2> QED
    BY <2>3, <2>7
<1>4. /\ AfterTerms(p, l) \in [0 .. MaxOrders - 1 -> Nat]
      /\ UnpaidTerms(p, l) \in [0 .. MaxOrders - 1 -> Nat]
      /\ UnpaidTerms(q, b) \in [0 .. MaxOrders - 1 -> Nat]
  BY <1>1, SoldTypes, UnpaidType
<1> HIDE DEF d
<1>5. g \in [0 .. MaxOrders - 1 -> Nat]
  <2>1. \A i \in 0 .. MaxOrders - 1 : AfterTerms(p, l)[i] \in Nat
    BY <1>4
  <2>2. \A i \in 0 .. MaxOrders - 1 : d * AfterTerms(p, l)[i] \in Nat
    BY <1>2, <2>1, MulNat
  <2> QED
    BY <2>2
<1>6. \A i \in 0 .. MaxOrders - 1 : g[i] = d * AfterTerms(p, l)[i]
  OBVIOUS
<1>7. \A i \in 0 .. MaxOrders - 1 : UnpaidTerms(q, b)[i] = UnpaidTerms(p, l)[i] + g[i]
  BY <1>3 DEF OrderId
<1> HIDE DEF g
<1>8. MaxOrders \in Nat
  BY PoolAssumption
<1>9. SumUpTo(UnpaidTerms(q, b), MaxOrders)
        = SumUpTo(UnpaidTerms(p, l), MaxOrders) + SumUpTo(g, MaxOrders)
  BY <1>4, <1>5, <1>7, <1>8, SumAdd, ZenonT(60)
<1>10. SumUpTo(g, MaxOrders) = d * SumUpTo(AfterTerms(p, l), MaxOrders)
  BY <1>2, <1>4, <1>5, <1>6, <1>8, SumScale, Zenon
<1> QED
  BY <1>9, <1>10, SumsOfProperties DEF UnpaidBy, d
-----------------------------------------------------------------------------
\* Two pools that differ in one order: the sums differ by the terms of it.
LEMMA OneOrderSums ==
  ASSUME NEW p \in Pool, NEW q \in Pool, NEW id \in OrderId, NEW b \in Nat,
         PoolClaims(p, b), PoolClaims(q, b),
         \A i \in OrderId \ {id} :
           /\ q.orderExpiry[i] = p.orderExpiry[i]
           /\ q.salesRate[i] = p.salesRate[i]
           /\ q.rewardFactorAtSubmission[i] = p.rewardFactorAtSubmission[i]
           /\ WithdrawFactor(q, i, b) = WithdrawFactor(p, i, b)
  PROVE  /\ RateEndingAfter(q, b)
              = RateEndingAfter(p, b) + AfterTerms(q, b)[id] - AfterTerms(p, b)[id]
         /\ UnsoldBy(q, b)
              = UnsoldBy(p, b) + UnsoldTerms(q, b)[id] - UnsoldTerms(p, b)[id]
         /\ UnpaidBy(q, b)
              = UnpaidBy(p, b) + UnpaidTerms(q, b)[id] - UnpaidTerms(p, b)[id]
<1>1. id \in 0 .. MaxOrders - 1 /\ MaxOrders \in Nat
  BY PoolAssumption DEF OrderId
<1>2. /\ AfterTerms(p, b) \in [0 .. MaxOrders - 1 -> Nat]
      /\ AfterTerms(q, b) \in [0 .. MaxOrders - 1 -> Nat]
      /\ UnsoldTerms(p, b) \in [0 .. MaxOrders - 1 -> Nat]
      /\ UnsoldTerms(q, b) \in [0 .. MaxOrders - 1 -> Nat]
      /\ UnpaidTerms(p, b) \in [0 .. MaxOrders - 1 -> Nat]
      /\ UnpaidTerms(q, b) \in [0 .. MaxOrders - 1 -> Nat]
  BY SoldTypes, UnpaidType
<1>3. \A i \in 0 .. MaxOrders - 1 : i # id =>
        /\ AfterTerms(q, b)[i] = AfterTerms(p, b)[i]
        /\ UnsoldTerms(q, b)[i] = UnsoldTerms(p, b)[i]
        /\ UnpaidTerms(q, b)[i] = UnpaidTerms(p, b)[i]
  BY DEF AfterTerms, UnsoldTerms, UnpaidTerms, OrderId
<1>4. SumUpTo(AfterTerms(q, b), MaxOrders)
        = SumUpTo(AfterTerms(p, b), MaxOrders) + AfterTerms(q, b)[id] - AfterTerms(p, b)[id]
  BY <1>1, <1>2, <1>3, SumChange
<1>5. SumUpTo(UnsoldTerms(q, b), MaxOrders)
        = SumUpTo(UnsoldTerms(p, b), MaxOrders) + UnsoldTerms(q, b)[id] - UnsoldTerms(p, b)[id]
  BY <1>1, <1>2, <1>3, SumChange
<1>6. SumUpTo(UnpaidTerms(q, b), MaxOrders)
        = SumUpTo(UnpaidTerms(p, b), MaxOrders) + UnpaidTerms(q, b)[id] - UnpaidTerms(p, b)[id]
  BY <1>1, <1>2, <1>3, SumChange
<1> QED
  BY <1>4, <1>5, <1>6, SumsOfProperties DEF UnsoldBy, UnpaidBy

\* A new pair owes nothing.
LEMMA NoOrders ==
  ASSUME NEW b \in Nat
  PROVE  RateEndingAfter(EmptyPool, b) = 0 /\ UnsoldBy(EmptyPool, b) = 0
         /\ (b \in Block => UnpaidBy(EmptyPool, b) = 0)
<1>1. EmptyPool \in Pool /\ MaxOrders \in Nat
  BY EmptyPoolType, PoolAssumption
<1>2. /\ AfterTerms(EmptyPool, b) \in [0 .. MaxOrders - 1 -> Nat]
      /\ UnsoldTerms(EmptyPool, b) \in [0 .. MaxOrders - 1 -> Nat]
  BY <1>1, SoldTypes
<1>3. \A i \in 0 .. MaxOrders - 1 :
        AfterTerms(EmptyPool, b)[i] = 0 /\ UnsoldTerms(EmptyPool, b)[i] = 0
  BY DEF AfterTerms, UnsoldTerms, EmptyPool, OrderId
<1>4. ASSUME b \in Block PROVE UnpaidBy(EmptyPool, b) = 0
  <2>1. PoolClaims(EmptyPool, b)
    BY <1>4 DEF EmptyPool, PoolClaims
  <2>2. UnpaidTerms(EmptyPool, b) \in [0 .. MaxOrders - 1 -> Nat]
    BY <1>1, <2>1, UnpaidType
  <2>3. \A i \in OrderId : WithdrawFactor(EmptyPool, i, b) \in Nat
    BY <1>1, OrderTypes
  <2>4. \A i \in 0 .. MaxOrders - 1 : UnpaidTerms(EmptyPool, b)[i] = 0
    <3> SUFFICES ASSUME NEW i \in OrderId PROVE UnpaidTerms(EmptyPool, b)[i] = 0
      BY DEF OrderId
    <3> DEFINE f == WithdrawFactor(EmptyPool, i, b)
    <3>1. UnpaidTerms(EmptyPool, b)[i] = (f - 0) * 0
      BY DEF UnpaidTerms, EmptyPool
    <3>2. f \in Nat
      BY <2>3
    <3> HIDE DEF f
    <3> QED
      BY <3>1, <3>2
  <2> QED
    BY <1>1, <2>2, <2>4, SumZero DEF UnpaidBy
<1> QED
  BY <1>1, <1>2, <1>3, <1>4, SumZero, SumsOfProperties DEF UnsoldBy
-----------------------------------------------------------------------------
\* A quotient rounded down, times the divisor, is at most the dividend.
LEMMA DivFloor ==
  ASSUME NEW a \in Nat, NEW k \in Nat \ {0}
  PROVE  a \div k \in Nat /\ k * (a \div k) <= a
<1> DEFINE d == a \div k
<1>1. d \in Nat /\ d * k <= a
  OBVIOUS
<1> HIDE DEF d
<1>2. k * d = d * k
  BY <1>1
<1>3. d \in Nat /\ k * d <= a
  BY <1>1, <1>2
<1> QED
  BY <1>3 DEF d

\* The fee and the rest of an amount together are not more than the amount.
LEMMA FeeAndNet ==
  ASSUME NEW out \in Nat
  PROVE  Fee(out) \in Nat /\ Net(out) \in Nat /\ Fee(out) + Net(out) <= out
<1> DEFINE f == Fee(out)
           g == Net(out)
           a == out * LP_FEE
           c == out * (FEE_BASE - LP_FEE)
<1>1. FEE_BASE \in Nat \ {0} /\ LP_FEE \in Nat /\ FEE_BASE - LP_FEE \in Nat
  BY OrdersAssumption
<1>2. a \in Nat /\ c \in Nat
  BY <1>1, MulNat
<1>3. a + c = out * FEE_BASE
  BY <1>1
<1>4. f = a \div FEE_BASE /\ g = c \div FEE_BASE
  BY DEF Fee, Net
<1> HIDE DEF a, c
<1>5. f \in Nat /\ FEE_BASE * f <= a
  BY <1>1, <1>2, <1>4, DivFloor, Zenon
<1>6. g \in Nat /\ FEE_BASE * g <= c
  BY <1>1, <1>2, <1>4, DivFloor, Zenon
<1> HIDE DEF f, g
<1>7. (f + g) * FEE_BASE = FEE_BASE * f + FEE_BASE * g
  BY <1>1, <1>5, <1>6
<1>8. FEE_BASE * f \in Nat /\ FEE_BASE * g \in Nat /\ f + g \in Nat /\ out * FEE_BASE \in Nat
  BY <1>1, <1>5, <1>6, MulNat
<1>9. (f + g) * FEE_BASE <= out * FEE_BASE
  BY <1>2, <1>3, <1>5, <1>6, <1>7, <1>8
<1>10. f + g <= out
  BY <1>1, <1>8, <1>9, CancelFactor
<1> QED
  BY <1>5, <1>6, <1>10 DEF f, g
-----------------------------------------------------------------------------
(***************************************************************************)
(* The inductive invariant: of every pool, the rate is the rate of its     *)
(* orders that have not ended; of every token, the pair holds the reserve, *)
(* what the orders of pool p have not sold of it, and what the orders of   *)
(* the other pool o have not been paid of it.                              *)
(***************************************************************************)
RateLive(p, b) == p.currentSalesRate = RateEndingAfter(p, b)

Covered(held, reserve, p, o, b) ==
  RATE_PRECISION * SCALE * held
    >= RATE_PRECISION * SCALE * reserve + SCALE * UnsoldBy(p, b) + UnpaidBy(o, b)

Sound(x) ==
  \A t \in Token :
    /\ RateLive(x.pool[t], x.last)
    /\ Covered(balance[t], x.reserve[t], x.pool[t], x.pool[Other(t)], x.last)

Orderly ==
  /\ Claims
  /\ SalesRateIsOfLiveOrders
  /\ Solvent

\* The invariant, as a fact on the state that an execution starts from.
LEMMA OrderlySound == Orderly => Sound(CurrentExecState)
BY SumsOfProperties
DEF Orderly, Sound, RateLive, Covered, CurrentExecState, SalesRateIsOfLiveOrders, Solvent

\* The sums of a pool depend on the records of its orders.
LEMMA SameSums ==
  ASSUME NEW p, NEW q, SameOrders(p, q), NEW b
  PROVE  /\ RateEndingAfter(q, b) = RateEndingAfter(p, b)
         /\ UnsoldBy(q, b) = UnsoldBy(p, b)
BY DEF SameOrders, RateEndingAfter, UnsoldBy, UnsoldTerms

\* The balance of a trade: k and s count a token and a unit of rate in units of
\* debt, m is what the orders sold, in what the AMM was given for it, g the growth
\* of the claims, net what was paid for it.
LEMMA TradeBalance ==
  ASSUME NEW held \in Nat, NEW reserve \in Nat, NEW in \in Nat, NEW out \in Nat,
         NEW fee \in Nat, NEW net \in Nat, NEW left \in Nat, NEW m \in Nat,
         NEW owed \in Nat, NEW g \in Nat, NEW k \in Nat, NEW s \in Nat,
         k * held >= k * reserve + s * (left + m) + owed,
         k * in <= s * m, g <= k * net, fee + net <= out
  PROVE  k * held >= k * (((reserve + in) - out) + fee) + s * left + (owed + g)
<1>1. k * (((reserve + in) - out) + fee) = ((k * reserve + k * in) - k * out) + k * fee
  OBVIOUS
<1>2. s * (left + m) = s * left + s * m
  OBVIOUS
<1>3. /\ k * reserve \in Nat /\ k * in \in Nat /\ k * out \in Nat /\ k * fee \in Nat
      /\ k * net \in Nat /\ s * left \in Nat /\ s * m \in Nat /\ k * held \in Nat
  BY MulNat
<1>4. k * fee + k * net <= k * out
  <2>1. (fee + net) * k <= out * k /\ fee + net \in Nat
    BY MulMono
  <2>2. (fee + net) * k = k * fee + k * net /\ out * k = k * out
    OBVIOUS
  <2> QED
    BY <2>1, <2>2
<1> QED
  BY <1>1, <1>2, <1>3, <1>4

\* A trade leaves the pair covered in token t.
LEMMA TradeCovered ==
  ASSUME NEW n \in Block, NEW x \in ExecutedBy(n), NEW y \in ExecutedBy(n),
         NEW in \in [Token -> Nat], NEW out \in [Token -> Nat],
         \A t \in Token : Traded(x, y, in, out, t),
         x.last <= y.last,
         \A t \in Token : PoolClaims(x.pool[t], x.last),
         \A t \in Token : PoolClaims(y.pool[t], y.last),
         \A t \in Token : NoneEndsBetween(x.pool[t], x.last, y.last),
         \A t \in Token : RateLive(x.pool[t], x.last),
         NEW t \in Token, NEW held \in Nat,
         Covered(held, x.reserve[t], x.pool[t], x.pool[Other(t)], x.last)
  PROVE  Covered(held, y.reserve[t], y.pool[t], y.pool[Other(t)], y.last)
<1> DEFINE u == Other(t)
           p == x.pool[t]
           o == x.pool[u]
           l == x.last
           b == y.last
           m == (b - l) * p.currentSalesRate
           g == (y.pool[u].rewardFactor - o.rewardFactor) * o.currentSalesRate
           k == RATE_PRECISION * SCALE
<1>1. /\ u \in Token /\ Other(u) = t /\ l \in Block /\ b \in Block /\ l \in Nat /\ b \in Nat
      /\ p \in Pool /\ o \in Pool /\ y.pool[u] \in Pool /\ y.pool[t] \in Pool
      /\ p.currentSalesRate \in Nat /\ o.currentSalesRate \in Nat
      /\ in[t] \in Nat /\ out[t] \in Nat /\ x.reserve[t] \in Nat
      /\ RATE_PRECISION \in Nat \ {0} /\ SCALE \in Nat /\ k \in Nat
  <2>1. u \in Token /\ Other(u) = t
    BY DEF Token, Other
  <2>2. l \in Block /\ b \in Block /\ y.pool \in [Token -> Pool]
    BY DEF ExecutedBy, ExecState
  <2>3. k \in Nat
    BY PoolAssumption, MulNat
  <2> QED
    BY <2>1, <2>2, <2>3, TradeTypes, BlockNat, PoolAssumption
<1>2. Traded(x, y, in, out, t) /\ Traded(x, y, in, out, u)
  BY <1>1
<1>3. m \in Nat /\ RATE_PRECISION * in[t] <= m
  <2>1. in[t] = (p.currentSalesRate * (b - l)) \div RATE_PRECISION
    BY <1>2 DEF Traded
  <2>2. b - l \in Nat
    BY <1>1
  <2>3. p.currentSalesRate * (b - l) = m /\ m \in Nat
    BY <1>1, <2>2, MulNat
  <2> HIDE DEF m
  <2> QED
    BY <1>1, <2>1, <2>3, DivFloor
<1>4. UnsoldBy(p, l) = UnsoldBy(y.pool[t], b) + m
  <2>1. UnsoldBy(p, l) = UnsoldBy(p, b) + (b - l) * RateEndingAfter(p, l)
    BY <1>1, UnsoldSplit
  <2>2. SameOrders(p, y.pool[t])
    BY <1>2 DEF Traded
  <2>3. UnsoldBy(y.pool[t], b) = UnsoldBy(p, b)
    BY <2>2, SameSums
  <2>4. p.currentSalesRate = RateEndingAfter(p, l)
    BY DEF RateLive
  <2> QED
    BY <2>1, <2>3, <2>4
<1>5. /\ g \in Nat /\ g <= Net(out[t]) * SCALE * RATE_PRECISION
      /\ UnpaidBy(y.pool[u], b) = UnpaidBy(o, l) + g
  <2>1. /\ y.pool[u].rewardFactor = DistributePayment(o, Net(out[t])).rewardFactor
        /\ SameOrders(o, y.pool[u])
        /\ y.pool[u].rewardFactorAtBlock
             = [o.rewardFactorAtBlock EXCEPT ![b] = y.pool[u].rewardFactor]
    BY <1>1, <1>2 DEF Traded
  <2>2. Net(out[t]) \in Nat
    BY <1>1, FeeAndNet
  <2>3. /\ y.pool[u].rewardFactor \in Nat /\ o.rewardFactor \in Nat
        /\ o.rewardFactor <= y.pool[u].rewardFactor
        /\ g <= Net(out[t]) * SCALE * RATE_PRECISION
    BY <1>1, <2>1, <2>2, FactorGrows DEF Pool
  <2>4. g \in Nat
    <3>1. y.pool[u].rewardFactor - o.rewardFactor \in Nat
      BY <2>3
    <3> QED
      BY <1>1, <3>1, MulNat
  <2>5. l = b => y.pool[u].rewardFactor = o.rewardFactor
    BY <1>1, NoBlocksNoTrade
  <2>6. UnpaidBy(y.pool[u], b) = UnpaidBy(o, l)
           + (y.pool[u].rewardFactor - o.rewardFactor) * RateEndingAfter(o, l)
    BY <1>1, <2>1, <2>3, <2>5, UnpaidGrows
  <2>7. o.currentSalesRate = RateEndingAfter(o, l)
    BY <1>1 DEF RateLive
  <2> QED
    BY <2>3, <2>4, <2>6, <2>7
<1>6. y.reserve[t] = ((x.reserve[t] + in[t]) - out[t]) + Fee(out[t])
  BY <1>2 DEF Traded
<1>7. Fee(out[t]) \in Nat /\ Net(out[t]) \in Nat /\ Fee(out[t]) + Net(out[t]) <= out[t]
  BY <1>1, FeeAndNet
<1>8. UnsoldBy(y.pool[t], b) \in Nat /\ UnpaidBy(o, l) \in Nat
  BY <1>1, SoldTypes, UnpaidType
<1>9. k * held >= k * x.reserve[t] + SCALE * UnsoldBy(p, l) + UnpaidBy(o, l)
  BY DEF Covered
<1>10. Covered(held, y.reserve[t], y.pool[t], y.pool[u], b)
         = (k * held >= k * y.reserve[t] + SCALE * UnsoldBy(y.pool[t], b) + UnpaidBy(y.pool[u], b))
  BY DEF Covered
<1>11. Net(out[t]) * SCALE * RATE_PRECISION = k * Net(out[t])
  BY <1>1, <1>7
<1>12. k * in[t] <= SCALE * m
  <2> HIDE DEF m
  <2>1. (RATE_PRECISION * in[t]) * SCALE <= m * SCALE
    BY <1>1, <1>3, MulNat, MulMono
  <2>2. (RATE_PRECISION * in[t]) * SCALE = k * in[t] /\ m * SCALE = SCALE * m
    BY <1>1, <1>3
  <2> QED
    BY <2>1, <2>2
<1> HIDE DEF m, g, k, p, o
<1>13. k * held >= k * (((x.reserve[t] + in[t]) - out[t]) + Fee(out[t]))
                     + SCALE * UnsoldBy(y.pool[t], b) + (UnpaidBy(o, l) + g)
  <2>1. k * held >= k * x.reserve[t] + SCALE * (UnsoldBy(y.pool[t], b) + m) + UnpaidBy(o, l)
    BY <1>4, <1>9
  <2>2. g <= k * Net(out[t])
    BY <1>5, <1>11
  <2> QED
    BY <1>1, <1>3, <1>5, <1>7, <1>8, <1>12, <2>1, <2>2, TradeBalance
<1> QED
  BY <1>5, <1>6, <1>10, <1>13
-----------------------------------------------------------------------------
\* A step does not revert if what ends at its block is part of the rates.
LEMMA TradeOk ==
  ASSUME NEW n \in Block, NEW x \in ExecutedBy(n), x.ok,
         NEW b \in Block, x.last <= b, b <= n,
         \A t \in Token : x.pool[t].salesRateEndingPerBlock[b] <= x.pool[t].currentSalesRate
  PROVE  ExecuteVirtualTradesAndOrderExpiries(x, b).ok
<1> DEFINE in   == [t \in Token |-> (x.pool[t].currentSalesRate * (b - x.last))
                                       \div RATE_PRECISION]
           out  == [t \in Token |-> ComputeVirtualOut(x.reserve, in, t)]
           fee  == [t \in Token |-> (out[t] * LP_FEE) \div FEE_BASE]
           net  == [t \in Token |-> (out[t] * (FEE_BASE - LP_FEE)) \div FEE_BASE]
           paid == [t \in Token |-> DistributePayment(x.pool[t], net[Other(t)])]
           end  == [t \in Token |-> x.reserve[t] + in[t] - out[t] + fee[t]]
           left == [t \in Token |-> UpdateStateFromBlockExpiry(paid[t], b)]
           fine == /\ x.ok
                   /\ \A t \in Token : x.reserve[t] + in[t] > 0
                   /\ \A t \in Token : CanExpire(paid[t], b)
<1>1. ExecuteVirtualTradesAndOrderExpiries(x, b)
        = IF fine
          THEN [ok |-> TRUE, last |-> b, reserve |-> end, pool |-> left]
          ELSE [x EXCEPT !.ok = FALSE]
  BY DEF ExecuteVirtualTradesAndOrderExpiries
<1>2. /\ x.reserve \in [Token -> Nat] /\ x.pool \in [Token -> Pool]
      /\ x.last \in Nat /\ b \in Nat
      /\ \A t \in Token : x.reserve[t] > 0
  BY BlockNat DEF ExecutedBy, ExecState
<1>3. in \in [Token -> Nat]
  <2> SUFFICES ASSUME NEW t \in Token
               PROVE  (x.pool[t].currentSalesRate * (b - x.last)) \div RATE_PRECISION
                        \in Nat
    OBVIOUS
  <2>1. x.pool[t].currentSalesRate \in Nat /\ b - x.last \in Nat
    BY <1>2 DEF Pool
  <2>2. x.pool[t].currentSalesRate * (b - x.last) \in Nat
    BY <2>1, MulNat
  <2> QED
    BY <2>2, DivNat, PoolAssumption
<1> HIDE DEF in
<1>4. \A t \in Token : x.reserve[t] + in[t] > 0
  BY <1>2, <1>3
<1>5. \A t \in Token : out[t] \in Nat
  BY <1>2, <1>3, VirtualOutType
<1> HIDE DEF out
<1>6. \A t \in Token : net[Other(t)] \in Nat
  BY <1>5, FeeType, TokenOther
<1> HIDE DEF net
<1>7. \A t \in Token : CanExpire(paid[t], b)
  <2> SUFFICES ASSUME NEW t \in Token PROVE CanExpire(paid[t], b)
    OBVIOUS
  <2>1. paid[t] = DistributePayment(x.pool[t], net[Other(t)])
    OBVIOUS
  <2>2. x.pool[t] \in Pool /\ net[Other(t)] \in Nat
    BY <1>2, <1>6
  <2>3. /\ paid[t].currentSalesRate = x.pool[t].currentSalesRate
        /\ paid[t].salesRateEndingPerBlock = x.pool[t].salesRateEndingPerBlock
    BY <2>1, <2>2, DistributePaymentFrame
  <2> QED
    BY <2>3 DEF CanExpire
<1>8. fine
  BY <1>4, <1>7
<1> HIDE DEF fine
<1> QED
  BY <1>1, <1>8

\* No order with a stake ends between two stops of an execution.
LEMMA NoneBetween ==
  ASSUME Bookkeeping, NEW n \in Block, NEW x \in ExecutedBy(n), NEW b \in Block,
         lastVirtualOrderBlock <= x.last,
         \A c \in Block : lastVirtualOrderBlock < c /\ c < b /\ OrdersEndAt(c)
                            => c <= x.last,
         NEW t \in Token
  PROVE  NoneEndsBetween(x.pool[t], x.last, b)
<1> SUFFICES ASSUME NEW i \in OrderId, x.pool[t].salesRate[i] > 0,
                    x.pool[t].orderExpiry[i] > x.last
             PROVE  x.pool[t].orderExpiry[i] >= b
  BY DEF NoneEndsBetween
<1> DEFINE e == x.pool[t].orderExpiry[i]
<1>1. /\ x.pool[t] \in Pool /\ SameOrders(OrderPoolMap[t], x.pool[t])
      /\ x.last \in Nat /\ b \in Nat /\ lastVirtualOrderBlock \in Nat
  BY BlockNat DEF ExecutedBy, ExecState, Bookkeeping, TypeOK
<1>2. /\ OrderPoolMap[t].salesRate[i] > 0
      /\ OrderPoolMap[t].orderExpiry[i] = e
      /\ e \in Block /\ e \in Nat
  BY <1>1, OrderTypes DEF SameOrders
<1> HIDE DEF e
<1>3. e > x.last
  BY DEF e
<1>4. e > lastVirtualOrderBlock
  BY <1>1, <1>2, <1>3
<1>5. OrdersEndAt(e)
  BY <1>2, <1>4, StakeEnds
<1>6. ~(e < b)
  BY <1>1, <1>2, <1>3, <1>4, <1>5
<1> QED
  BY <1>1, <1>2, <1>6 DEF e

\* What ends at the block of a step is part of the rates, and the rest of the
\* rate is that of the orders that end later.
LEMMA EndingIsLive ==
  ASSUME Bookkeeping, NEW n \in Block, NEW x \in ExecutedBy(n), NEW b \in Block,
         lastVirtualOrderBlock <= x.last, x.last <= b,
         x.last = b => ~OrdersEndAt(b),
         NEW t \in Token, NoneEndsBetween(x.pool[t], x.last, b),
         RateLive(x.pool[t], x.last)
  PROVE  /\ x.pool[t].salesRateEndingPerBlock[b] <= x.pool[t].currentSalesRate
         /\ x.pool[t].currentSalesRate - x.pool[t].salesRateEndingPerBlock[b]
              = RateEndingAfter(x.pool[t], b)
<1> DEFINE p == x.pool[t]
<1>1. /\ p \in Pool /\ SameOrders(OrderPoolMap[t], p)
      /\ x.last \in Nat /\ b \in Nat /\ lastVirtualOrderBlock \in Nat
      /\ p.salesRateEndingPerBlock[b] \in Nat
  <2>1. /\ p \in Pool /\ SameOrders(OrderPoolMap[t], p) /\ x.last \in Block
    BY DEF ExecutedBy, ExecState
  <2>2. p.salesRateEndingPerBlock[b] \in Nat
    BY <2>1 DEF Pool
  <2>3. lastVirtualOrderBlock \in Nat
    BY BlockNat DEF Bookkeeping, TypeOK
  <2> QED
    BY <2>1, <2>2, <2>3, BlockNat
<1>2. p.currentSalesRate = RateEndingAfter(p, x.last)
  BY DEF RateLive
<1>3. RateEndingAfter(p, b) \in Nat /\ RateEndingAt(p, b) \in Nat
  BY <1>1, SoldTypes, RateTermsType
<1>4. p.salesRateEndingPerBlock[b] = OrderPoolMap[t].salesRateEndingPerBlock[b]
  BY <1>1 DEF SameOrders
<1>5. CASE x.last = b
  <2>1. p.salesRateEndingPerBlock[b] = 0
    BY <1>1, <1>4, <1>5 DEF OrdersEndAt
  <2> HIDE DEF p
  <2>2. /\ p.salesRateEndingPerBlock[b] <= p.currentSalesRate
        /\ p.currentSalesRate - p.salesRateEndingPerBlock[b] = RateEndingAfter(p, b)
    BY <1>2, <1>3, <1>5, <2>1
  <2> QED
    BY <2>2 DEF p
<1>6. CASE x.last < b
  <2>1. b > lastVirtualOrderBlock
    BY <1>1, <1>6
  <2>2. p.salesRateEndingPerBlock[b] = RateEndingAt(p, b)
    BY <1>1, <1>4, <2>1, SameOrdersRate DEF Bookkeeping, EndingRatesMatchOrders
  <2>3. RateEndingAfter(p, x.last) = RateEndingAfter(p, b) + RateEndingAt(p, b)
    BY <1>1, <1>6, RateSplit
  <2> HIDE DEF p
  <2>4. /\ p.salesRateEndingPerBlock[b] <= p.currentSalesRate
        /\ p.currentSalesRate - p.salesRateEndingPerBlock[b] = RateEndingAfter(p, b)
    BY <1>2, <1>3, <2>2, <2>3
  <2> QED
    BY <2>4 DEF p
<1> QED
  BY <1>1, <1>5, <1>6

\* One step of an execution from a sound state does not revert and ends in a
\* sound state.
LEMMA SoundStep ==
  ASSUME Claims, NEW n \in Block, NEW x \in ExecutedBy(n), x.ok, NEW b \in Block,
         x.last <= b, b <= n, lastVirtualOrderBlock <= x.last,
         \A c \in Block : lastVirtualOrderBlock < c /\ c < b /\ OrdersEndAt(c)
                            => c <= x.last,
         x.last = b => ~OrdersEndAt(b),
         reserveMap["A"] * reserveMap["B"] <= x.reserve["A"] * x.reserve["B"],
         \A t \in Token : Checkpointed(OrderPoolMap[t], x.pool[t], x.last),
         Sound(x)
  PROVE  LET y == ExecuteVirtualTradesAndOrderExpiries(x, b)
         IN  /\ y.ok /\ y \in ExecutedBy(n) /\ y.last = b
             /\ reserveMap["A"] * reserveMap["B"] <= y.reserve["A"] * y.reserve["B"]
             /\ \A t \in Token : Checkpointed(OrderPoolMap[t], y.pool[t], b)
             /\ Sound(y)
<1> DEFINE y == ExecuteVirtualTradesAndOrderExpiries(x, b)
<1>1. Bookkeeping /\ \A t \in Token : RateLive(x.pool[t], x.last)
  BY DEF Claims, Sound
<1>2. \A t \in Token : NoneEndsBetween(x.pool[t], x.last, b)
  BY <1>1, NoneBetween
<1>3. \A t \in Token :
        /\ x.pool[t].salesRateEndingPerBlock[b] <= x.pool[t].currentSalesRate
        /\ x.pool[t].currentSalesRate - x.pool[t].salesRateEndingPerBlock[b]
             = RateEndingAfter(x.pool[t], b)
  BY <1>1, <1>2, EndingIsLive
<1>4. y.ok
  BY <1>3, TradeOk
<1>5. /\ y \in ExecutedBy(n) /\ y.last = b
      /\ reserveMap["A"] * reserveMap["B"] <= y.reserve["A"] * y.reserve["B"]
      /\ \A t \in Token : Checkpointed(OrderPoolMap[t], y.pool[t], b)
  BY <1>4, ClaimsStep
<1>6. \E in, out \in [Token -> Nat] : \A t \in Token : Traded(x, y, in, out, t)
  BY <1>4, TradeFacts
<1>7. PICK in \in [Token -> Nat], out \in [Token -> Nat] :
        \A t \in Token : Traded(x, y, in, out, t)
  BY <1>6
<1> HIDE DEF y
<1>8. ASSUME NEW t \in Token PROVE RateLive(y.pool[t], y.last)
  <2>1. /\ SameOrders(x.pool[t], y.pool[t])
        /\ y.pool[t].currentSalesRate
             = x.pool[t].currentSalesRate - x.pool[t].salesRateEndingPerBlock[b]
    BY <1>5, <1>7 DEF Traded
  <2>2. RateEndingAfter(y.pool[t], b) = RateEndingAfter(x.pool[t], b)
    BY <2>1, SameSums
  <2> QED
    BY <1>3, <1>5, <2>1, <2>2 DEF RateLive
<1>9. ASSUME NEW t \in Token
      PROVE  PoolClaims(x.pool[t], x.last) /\ PoolClaims(y.pool[t], y.last)
  <2>1. /\ x.pool[t] \in Pool /\ SameOrders(OrderPoolMap[t], x.pool[t]) /\ x.last \in Block
        /\ y.pool[t] \in Pool /\ SameOrders(OrderPoolMap[t], y.pool[t])
    BY <1>5 DEF ExecutedBy, ExecState
  <2>2. lastVirtualOrderBlock <= b
    BY <1>1, <2>1, BlockNat DEF Bookkeeping, TypeOK
  <2> QED
    BY <1>5, <2>1, <2>2, ExecutionClaims
<1>10. ASSUME NEW t \in Token
       PROVE  Covered(balance[t], y.reserve[t], y.pool[t], y.pool[Other(t)], y.last)
  <2>1. balance[t] \in Nat
    BY <1>1 DEF Bookkeeping, TypeOK
  <2>2. Covered(balance[t], x.reserve[t], x.pool[t], x.pool[Other(t)], x.last)
    BY DEF Sound
  <2> QED
    BY <1>1, <1>2, <1>5, <1>7, <1>9, <2>1, <2>2, TradeCovered
<1>11. Sound(y)
  BY <1>8, <1>10 DEF Sound
<1> QED
  BY <1>4, <1>5, <1>11 DEF y
-----------------------------------------------------------------------------
\* The states of the loop, before its turn for block b + 1.
SoundKept(n) ==
  [b \in Nat |->
    {x \in ExecutedBy(n) :
       /\ x.ok
       /\ x.last = lastVirtualOrderBlock \/ x.last < n
       /\ NothingSkipped(x, b, n)
       /\ reserveMap["A"] * reserveMap["B"] <= x.reserve["A"] * x.reserve["B"]
       /\ \A t \in Token : Checkpointed(OrderPoolMap[t], x.pool[t], x.last)
       /\ Sound(x)}]

\* The execution starts in one of these states.
LEMMA SoundStart ==
  ASSUME Claims, Sound(CurrentExecState), NEW n \in Block, lastVirtualOrderBlock <= n
  PROVE  CurrentExecState \in SoundKept(n)[0]
<1>1. /\ TypeOK /\ lastVirtualOrderBlock \in Nat /\ \A c \in Block : c \in Nat
      /\ CurrentExecState.last = lastVirtualOrderBlock
      /\ CurrentExecState.reserve = reserveMap
      /\ CurrentExecState.pool = OrderPoolMap
      /\ CurrentExecState.ok
  BY BlockNat DEF Claims, Bookkeeping, TypeOK, CurrentExecState
<1>2. CurrentExecState \in ExecutedBy(n)
  <2>1. lastVirtualOrderBlock \in Block
    BY PoolAssumption DEF Claims, Bookkeeping, TypeOK, Block
  <2>2. CurrentExecState \in ExecState
    BY <1>1, <2>1 DEF TypeOK, CurrentExecState, ExecState
  <2>3. \A t \in Token : reserveMap[t] > 0
    BY <1>1 DEF TypeOK
  <2> QED
    BY <1>1, <2>2, <2>3 DEF ExecutedBy, SameOrders
<1>3. NothingSkipped(CurrentExecState, 0, n)
  BY <1>1 DEF NothingSkipped
<1>4. \A t \in Token : Checkpointed(OrderPoolMap[t], OrderPoolMap[t], lastVirtualOrderBlock)
  <2> SUFFICES ASSUME NEW t \in Token
               PROVE  Checkpointed(OrderPoolMap[t], OrderPoolMap[t], lastVirtualOrderBlock)
    OBVIOUS
  <2>1. PoolClaims(OrderPoolMap[t], lastVirtualOrderBlock) /\ OrderPoolMap[t].rewardFactor \in Nat
    BY DEF Claims, Bookkeeping, TypeOK, Pool
  <2> QED
    BY <1>1, <2>1 DEF PoolClaims, Checkpointed
<1>5. reserveMap["A"] * reserveMap["B"] \in Nat
  BY <1>1, MulNat DEF TypeOK, Token
<1> QED
  BY <1>1, <1>2, <1>3, <1>4, <1>5 DEF SoundKept

\* An execution from a sound state does not revert and ends in a sound state,
\* unless it executes a block again at which orders end.
LEMMA ExecutionSound ==
  ASSUME Claims, Sound(CurrentExecState),
         NEW n \in Block, n <= block, lastVirtualOrderBlock <= n,
         NEW tree \in SUBSET Block, expiries \subseteq tree,
         \A e \in tree : OnInterval(e),
         lastVirtualOrderBlock = n => ~OrdersEndAt(n)
  PROVE  ExecuteUntil(tree, n).ok /\ Sound(ExecuteUntil(tree, n))
<1> DEFINE list == ExpiriesList(tree, lastVirtualOrderBlock, n)
           J == SoundKept(n)
<1>1. /\ TypeOK /\ list \in SUBSET Block /\ StopsListed(list, n)
      /\ lastVirtualOrderBlock \in Nat /\ n \in Nat
      /\ \A c \in Block : c \in Nat
  <2>1. TypeOK /\ Bookkeeping /\ lastVirtualOrderBlock \in Nat
    BY BlockNat DEF Claims, Bookkeeping, TypeOK
  <2>2. StopsListed(list, n)
    BY <2>1, ListComplete
  <2> QED
    BY <2>1, <2>2, BlockNat DEF ExpiriesList
<1> HIDE DEF list
<1>2. J \in [Nat -> SUBSET ExecutedBy(n)]
  BY DEF SoundKept
<1>3. CurrentExecState \in J[0]
  BY SoundStart
<1>4. ASSUME NEW b \in Nat, NEW x \in J[b]
      PROVE  ExecuteListed(list, x, b + 1, n) \in J[b + 1]
  <2> DEFINE y == ExecuteListed(list, x, b + 1, n)
  <2>1. /\ x \in ExecutedBy(n) /\ x.ok
        /\ x.last = lastVirtualOrderBlock \/ x.last < n
        /\ NothingSkipped(x, b, n)
        /\ reserveMap["A"] * reserveMap["B"] <= x.reserve["A"] * x.reserve["B"]
        /\ \A t \in Token : Checkpointed(OrderPoolMap[t], x.pool[t], x.last)
        /\ Sound(x)
    BY DEF SoundKept
  <2>2. CASE y = x /\ NothingSkipped(x, b + 1, n)
    <3> HIDE DEF y
    <3> QED
      BY <2>1, <2>2 DEF SoundKept, y
  <2>3. CASE /\ y = ExecuteVirtualTradesAndOrderExpiries(x, b + 1)
             /\ b + 1 \in Block /\ x.last < b + 1 /\ b + 1 < n
             /\ \A z : z.last = b + 1 => NothingSkipped(z, b + 1, n)
    <3>1. x.last \in Nat /\ lastVirtualOrderBlock <= x.last
      BY <2>1, BlockNat DEF ExecutedBy, ExecState, NothingSkipped
    <3>2. \A c \in Block : lastVirtualOrderBlock < c /\ c < b + 1 /\ OrdersEndAt(c)
                             => c <= x.last
      <4> HIDE DEF y
      <4>1. \A c \in Block : c < b + 1 => c <= b /\ c < n
        BY <1>1, <2>3
      <4> QED
        BY <2>1, <4>1 DEF NothingSkipped
    <3>3. b + 1 <= n /\ x.last <= b + 1 /\ x.last # b + 1
      <4> HIDE DEF y
      <4> QED
        BY <1>1, <2>3, <3>1
    <3> HIDE DEF y
    <3>4. /\ y.ok /\ y \in ExecutedBy(n) /\ y.last = b + 1
          /\ reserveMap["A"] * reserveMap["B"] <= y.reserve["A"] * y.reserve["B"]
          /\ \A t \in Token : Checkpointed(OrderPoolMap[t], y.pool[t], b + 1)
          /\ Sound(y)
      BY <2>1, <2>3, <3>1, <3>2, <3>3, SoundStep
    <3> QED
      BY <2>3, <3>4 DEF SoundKept, y
  <2> QED
    BY <1>1, <2>1, <2>2, <2>3, LoopTurn
<1>5. PICK x \in J[n] : ExecuteUntil(tree, n) = ExecuteVirtualTradesAndOrderExpiries(x, n)
  <2> HIDE DEF J
  <2> QED
    BY <1>1, <1>2, <1>3, <1>4, LoopReaches DEF list
<1>6. /\ x \in ExecutedBy(n) /\ x.ok
      /\ x.last = lastVirtualOrderBlock \/ x.last < n
      /\ NothingSkipped(x, n, n)
      /\ reserveMap["A"] * reserveMap["B"] <= x.reserve["A"] * x.reserve["B"]
      /\ \A t \in Token : Checkpointed(OrderPoolMap[t], x.pool[t], x.last)
      /\ Sound(x)
  BY <1>1, <1>5 DEF SoundKept
<1>7. x.last <= n /\ n <= n /\ lastVirtualOrderBlock <= x.last
  <2>1. x.last \in Block /\ x.last <= n
    BY <1>6 DEF ExecutedBy, ExecState
  <2>2. lastVirtualOrderBlock <= x.last
    BY <1>6 DEF NothingSkipped
  <2> QED
    BY <1>1, <2>1, <2>2
<1>8. \A c \in Block : lastVirtualOrderBlock < c /\ c < n /\ OrdersEndAt(c) => c <= x.last
  BY <1>1, <1>6 DEF NothingSkipped
<1>9. x.last = n => ~OrdersEndAt(n)
  BY <1>1, <1>6
<1> QED
  BY <1>5, <1>6, <1>7, <1>8, <1>9, SoundStep
-----------------------------------------------------------------------------
\* What is paid of a claim is at most the claim, whatever is rounded off.
LEMMA EarnedAtMost ==
  ASSUME NEW p \in Pool, NEW id \in OrderId, NEW f \in Nat,
         f >= p.rewardFactorAtSubmission[id]
  PROVE  /\ Earned(p, id, f) \in Nat
         /\ (f - p.rewardFactorAtSubmission[id]) * p.salesRate[id] \in Nat
         /\ RATE_PRECISION * SCALE * Earned(p, id, f)
              <= (f - p.rewardFactorAtSubmission[id]) * p.salesRate[id]
<1> DEFINE a == (f - p.rewardFactorAtSubmission[id]) * p.salesRate[id]
           c == a \div RATE_PRECISION
           d == c \div SCALE
<1>1. RATE_PRECISION \in Nat \ {0} /\ SCALE \in Nat \ {0}
  BY PoolAssumption
<1>2. a \in Nat
  <2>1. f - p.rewardFactorAtSubmission[id] \in Nat /\ p.salesRate[id] \in Nat
    BY OrderTypes
  <2> QED
    BY <2>1, MulNat
<1>3. Earned(p, id, f) = d
  BY DEF Earned
<1> HIDE DEF a
<1>4. c \in Nat /\ RATE_PRECISION * c <= a
  BY <1>1, <1>2, DivFloor, Zenon
<1> HIDE DEF c
<1>5. d \in Nat /\ SCALE * d <= c
  BY <1>1, <1>4, DivFloor, Zenon
<1> HIDE DEF d
<1>6. SCALE * d \in Nat
  BY <1>1, <1>5, MulNat
<1>7. (SCALE * d) * RATE_PRECISION <= c * RATE_PRECISION
  BY <1>1, <1>4, <1>5, <1>6, MulMono
<1>8. c * RATE_PRECISION = RATE_PRECISION * c
      /\ (SCALE * d) * RATE_PRECISION = RATE_PRECISION * SCALE * d
  BY <1>1, <1>4, <1>5
<1>9. d \in Nat /\ a \in Nat /\ RATE_PRECISION * SCALE * d <= a
  BY <1>1, <1>2, <1>4, <1>5, <1>6, <1>7, <1>8
<1> QED
  BY <1>3, <1>9 DEF a

\* A new order adds its rate, and what it will sell, to the pool.
LEMMA DepositSums ==
  ASSUME NEW p \in Pool, NEW id \in OrderId, NEW rate \in Nat, NEW e \in Block,
         NEW b \in Nat, b < e, PoolClaims(p, b), p.salesRate[id] = 0
  PROVE  LET q == DepositOrder(p, id, rate, e)
         IN  /\ q.currentSalesRate = p.currentSalesRate + rate
             /\ RateEndingAfter(q, b) = RateEndingAfter(p, b) + rate
             /\ UnsoldBy(q, b) = UnsoldBy(p, b) + (e - b) * rate
             /\ UnpaidBy(q, b) = UnpaidBy(p, b)
<1> DEFINE q == DepositOrder(p, id, rate, e)
<1>1. /\ q \in Pool /\ PoolClaims(q, b)
      /\ \A i \in OrderId \ {id} :
           /\ q.salesRate[i] = p.salesRate[i]
           /\ q.rewardFactorAtSubmission[i] = p.rewardFactorAtSubmission[i]
           /\ WithdrawFactor(q, i, b) = WithdrawFactor(p, i, b)
  BY DepositOrderType, DepositOrderClaims
<1>2. /\ \A i \in OrderId \ {id} : q.orderExpiry[i] = p.orderExpiry[i]
      /\ q.currentSalesRate = p.currentSalesRate + rate
      /\ q.rewardFactor = p.rewardFactor
      /\ q.salesRate[id] = rate /\ q.orderExpiry[id] = e
      /\ q.rewardFactorAtSubmission[id] = p.rewardFactor
  BY DEF DepositOrder, Pool
<1> HIDE DEF q
<1>3. /\ e \in Nat /\ p.rewardFactor \in Nat
      /\ p.orderExpiry[id] \in Nat /\ p.rewardFactorAtSubmission[id] \in Nat
      /\ WithdrawFactor(p, id, b) \in Nat
  BY BlockNat, OrderTypes DEF Pool
<1>4. WithdrawFactor(q, id, b) = p.rewardFactor
  BY <1>2, <1>3 DEF WithdrawFactor
<1>5. AfterTerms(q, b)[id] = rate /\ UnsoldTerms(q, b)[id] = (e - b) * rate
  BY <1>2, <1>3 DEF AfterTerms, UnsoldTerms
<1>6. UnpaidTerms(q, b)[id] = 0
  <2>1. UnpaidTerms(q, b)[id] = (p.rewardFactor - p.rewardFactor) * rate
    BY <1>2, <1>4 DEF UnpaidTerms
  <2> QED
    BY <1>3, <2>1
<1>7. AfterTerms(p, b)[id] = 0 /\ UnsoldTerms(p, b)[id] = 0 /\ UnpaidTerms(p, b)[id] = 0
  <2>1. AfterTerms(p, b)[id] = 0 /\ UnsoldTerms(p, b)[id] = 0
    BY <1>3 DEF AfterTerms, UnsoldTerms
  <2>2. UnpaidTerms(p, b)[id]
          = (WithdrawFactor(p, id, b) - p.rewardFactorAtSubmission[id]) * 0
    BY DEF UnpaidTerms
  <2> QED
    BY <1>3, <2>1, <2>2
<1>8. /\ RateEndingAfter(q, b)
           = RateEndingAfter(p, b) + AfterTerms(q, b)[id] - AfterTerms(p, b)[id]
      /\ UnsoldBy(q, b)
           = UnsoldBy(p, b) + UnsoldTerms(q, b)[id] - UnsoldTerms(p, b)[id]
      /\ UnpaidBy(q, b)
           = UnpaidBy(p, b) + UnpaidTerms(q, b)[id] - UnpaidTerms(p, b)[id]
  BY <1>1, <1>2, OneOrderSums
<1>9. RateEndingAfter(p, b) \in Nat /\ UnsoldBy(p, b) \in Nat /\ UnpaidBy(p, b) \in Nat
  BY SoldTypes, UnpaidType
<1>10. (e - b) * rate \in Nat
  <2>1. e - b \in Nat
    BY <1>3
  <2> QED
    BY <2>1, MulNat
<1>11. /\ RateEndingAfter(q, b) = RateEndingAfter(p, b) + rate
       /\ UnsoldBy(q, b) = UnsoldBy(p, b) + (e - b) * rate
       /\ UnpaidBy(q, b) = UnpaidBy(p, b)
  BY <1>5, <1>6, <1>7, <1>8, <1>9, <1>10
<1> QED
  BY <1>2, <1>11 DEF q

\* A cancellation takes the order's rate and its debts out of the sums, and
\* pays at most these debts.
LEMMA CancelSums ==
  ASSUME NEW p \in Pool, NEW id \in OrderId, NEW b \in Nat, PoolClaims(p, b),
         CanCancel(p, id, b)
  PROVE  LET q == CancelOrder(p, id)
             u == UnsoldAmount(p, id, b)
             w == PurchasedAmount(p, id)
         IN  /\ u \in Nat /\ w \in Nat
             /\ q.currentSalesRate = p.currentSalesRate - p.salesRate[id]
             /\ RateEndingAfter(q, b) = RateEndingAfter(p, b) - p.salesRate[id]
             /\ UnsoldBy(q, b) + RATE_PRECISION * u <= UnsoldBy(p, b)
             /\ UnpaidBy(q, b) + RATE_PRECISION * SCALE * w <= UnpaidBy(p, b)
<1> DEFINE q == CancelOrder(p, id)
           u == UnsoldAmount(p, id, b)
           w == PurchasedAmount(p, id)
           e == p.orderExpiry[id]
           r == p.salesRate[id]
           m == (e - b) * r
           g == (p.rewardFactor - p.rewardFactorAtSubmission[id]) * r
<1>1. /\ q \in Pool /\ PoolClaims(q, b)
      /\ \A i \in OrderId \ {id} :
           /\ q.salesRate[i] = p.salesRate[i]
           /\ q.rewardFactorAtSubmission[i] = p.rewardFactorAtSubmission[i]
           /\ WithdrawFactor(q, i, b) = WithdrawFactor(p, i, b)
  BY CancelOrderType, CancelOrderClaims
<1>2. /\ \A i \in OrderId \ {id} : q.orderExpiry[i] = p.orderExpiry[i]
      /\ q.currentSalesRate = p.currentSalesRate - r
      /\ q.salesRate[id] = 0
      /\ q.rewardFactorAtSubmission[id] = p.rewardFactorAtSubmission[id]
  BY DEF CancelOrder, Pool
<1>3. /\ e \in Nat /\ r \in Nat /\ p.rewardFactor \in Nat /\ e > b
      /\ p.rewardFactorAtSubmission[id] \in Nat
      /\ p.rewardFactor >= p.rewardFactorAtSubmission[id]
      /\ WithdrawFactor(q, id, b) \in Nat
  <2>1. e \in Nat /\ r \in Nat /\ p.rewardFactorAtSubmission[id] \in Nat
    BY OrderTypes
  <2>2. WithdrawFactor(q, id, b) \in Nat
    BY <1>1, OrderTypes
  <2> QED
    BY <2>1, <2>2 DEF CanCancel, Pool
<1>4. u \in Nat /\ RATE_PRECISION * u <= m /\ m \in Nat
  <2>1. e - b \in Nat
    BY <1>3
  <2>2. m \in Nat
    BY <1>3, <2>1, MulNat
  <2>3. u = m \div RATE_PRECISION
    BY DEF UnsoldAmount
  <2> HIDE DEF m
  <2> QED
    BY <2>2, <2>3, DivFloor, PoolAssumption
<1>5. w \in Nat /\ g \in Nat /\ RATE_PRECISION * SCALE * w <= g
  BY <1>3, EarnedAtMost DEF PurchasedAmount
<1>6. AfterTerms(p, b)[id] = r /\ UnsoldTerms(p, b)[id] = m /\ UnpaidTerms(p, b)[id] = g
  <2>1. AfterTerms(p, b)[id] = r /\ UnsoldTerms(p, b)[id] = m
    BY <1>3 DEF AfterTerms, UnsoldTerms
  <2>2. WithdrawFactor(p, id, b) = p.rewardFactor
    BY <1>3 DEF WithdrawFactor
  <2> QED
    BY <2>1, <2>2 DEF UnpaidTerms
<1>7. AfterTerms(q, b)[id] = 0 /\ UnsoldTerms(q, b)[id] = 0 /\ UnpaidTerms(q, b)[id] = 0
  <2> HIDE DEF q
  <2>1. q.orderExpiry[id] \in Nat
    BY <1>1, OrderTypes
  <2>2. AfterTerms(q, b)[id] = 0 /\ UnsoldTerms(q, b)[id] = 0
    BY <1>2, <2>1 DEF AfterTerms, UnsoldTerms
  <2>3. UnpaidTerms(q, b)[id]
          = (WithdrawFactor(q, id, b) - p.rewardFactorAtSubmission[id]) * 0
    BY <1>2 DEF UnpaidTerms
  <2> QED
    BY <1>3, <2>2, <2>3
<1> HIDE DEF q, u, w, e, m, g
<1>8. /\ RateEndingAfter(q, b)
           = RateEndingAfter(p, b) + AfterTerms(q, b)[id] - AfterTerms(p, b)[id]
      /\ UnsoldBy(q, b)
           = UnsoldBy(p, b) + UnsoldTerms(q, b)[id] - UnsoldTerms(p, b)[id]
      /\ UnpaidBy(q, b)
           = UnpaidBy(p, b) + UnpaidTerms(q, b)[id] - UnpaidTerms(p, b)[id]
  BY <1>1, <1>2, OneOrderSums
<1>9. RateEndingAfter(p, b) \in Nat /\ UnsoldBy(p, b) \in Nat /\ UnpaidBy(p, b) \in Nat
  BY SoldTypes, UnpaidType
<1>10. RATE_PRECISION * u \in Nat /\ RATE_PRECISION * SCALE * w \in Nat
  BY <1>4, <1>5, MulNat, PoolAssumption
<1> HIDE DEF r
<1>11. /\ RateEndingAfter(q, b) = RateEndingAfter(p, b) - r
       /\ UnsoldBy(q, b) + RATE_PRECISION * u <= UnsoldBy(p, b)
       /\ UnpaidBy(q, b) + RATE_PRECISION * SCALE * w <= UnpaidBy(p, b)
  BY <1>3, <1>4, <1>5, <1>6, <1>7, <1>8, <1>9, <1>10
<1> QED
  BY <1>2, <1>4, <1>5, <1>11 DEF q, u, w, r

\* A withdrawal pays at most what it takes off the debts.
LEMMA WithdrawSums ==
  ASSUME NEW p \in Pool, NEW id \in OrderId, NEW b \in Nat, PoolClaims(p, b),
         CanWithdraw(p, id, b)
  PROVE  LET q == WithdrawProceeds(p, id, b)
             w == TotalReward(p, id, b)
         IN  /\ w \in Nat
             /\ q.currentSalesRate = p.currentSalesRate
             /\ RateEndingAfter(q, b) = RateEndingAfter(p, b)
             /\ UnsoldBy(q, b) = UnsoldBy(p, b)
             /\ UnpaidBy(q, b) + RATE_PRECISION * SCALE * w <= UnpaidBy(p, b)
<1> DEFINE q == WithdrawProceeds(p, id, b)
           w == TotalReward(p, id, b)
           e == p.orderExpiry[id]
           r == p.salesRate[id]
           f == WithdrawFactor(p, id, b)
           g == (f - p.rewardFactorAtSubmission[id]) * r
<1>1. /\ q \in Pool /\ PoolClaims(q, b)
      /\ \A i \in OrderId \ {id} :
           /\ q.salesRate[i] = p.salesRate[i]
           /\ q.rewardFactorAtSubmission[i] = p.rewardFactorAtSubmission[i]
           /\ WithdrawFactor(q, i, b) = WithdrawFactor(p, i, b)
      /\ \/ q.salesRate[id] = 0
         \/ q.rewardFactorAtSubmission[id] = WithdrawFactor(q, id, b)
  BY WithdrawProceedsType, WithdrawProceedsClaims
<1>2. /\ q.orderExpiry = p.orderExpiry
      /\ q.currentSalesRate = p.currentSalesRate
      /\ q.salesRate[id] = r \/ (b >= e /\ q.salesRate[id] = 0)
  BY DEF WithdrawProceeds, Pool
<1>3. /\ e \in Nat /\ r \in Nat /\ f \in Nat
      /\ p.rewardFactorAtSubmission[id] \in Nat
      /\ f >= p.rewardFactorAtSubmission[id]
  BY OrderTypes DEF CanWithdraw
<1>4. w \in Nat /\ g \in Nat /\ RATE_PRECISION * SCALE * w <= g
  BY <1>3, EarnedAtMost DEF TotalReward
<1>5. /\ AfterTerms(q, b)[id] = AfterTerms(p, b)[id]
      /\ UnsoldTerms(q, b)[id] = UnsoldTerms(p, b)[id]
      /\ UnpaidTerms(p, b)[id] = g
  <2>1. b >= e => ~(e > b)
    BY <1>3
  <2> HIDE DEF q
  <2> QED
    BY <1>2, <2>1 DEF AfterTerms, UnsoldTerms, UnpaidTerms
<1> HIDE DEF q
<1>6. UnpaidTerms(q, b)[id] = 0
  <2> DEFINE h == WithdrawFactor(q, id, b)
             s == q.rewardFactorAtSubmission[id]
             v == q.salesRate[id]
  <2>1. h \in Nat /\ s \in Nat /\ v \in Nat
    BY <1>1, OrderTypes
  <2>2. UnpaidTerms(q, b)[id] = (h - s) * v
    BY DEF UnpaidTerms
  <2>3. v = 0 \/ s = h
    BY <1>1
  <2> HIDE DEF h, s, v
  <2>4. CASE v = 0
    BY <2>1, <2>2, <2>4
  <2>5. CASE s = h
    <3>1. h - s = 0
      BY <2>1, <2>5
    <3> QED
      BY <2>1, <2>2, <3>1
  <2> QED
    BY <2>3, <2>4, <2>5
<1> HIDE DEF w, e, g, f
<1>7. /\ RateEndingAfter(q, b)
           = RateEndingAfter(p, b) + AfterTerms(q, b)[id] - AfterTerms(p, b)[id]
      /\ UnsoldBy(q, b)
           = UnsoldBy(p, b) + UnsoldTerms(q, b)[id] - UnsoldTerms(p, b)[id]
      /\ UnpaidBy(q, b)
           = UnpaidBy(p, b) + UnpaidTerms(q, b)[id] - UnpaidTerms(p, b)[id]
  BY <1>1, <1>2, OneOrderSums
<1>8. /\ RateEndingAfter(p, b) \in Nat /\ UnsoldBy(p, b) \in Nat /\ UnpaidBy(p, b) \in Nat
      /\ AfterTerms(p, b)[id] \in Nat /\ UnsoldTerms(p, b)[id] \in Nat
  BY SoldTypes, UnpaidType DEF OrderId
<1>9. RATE_PRECISION * SCALE * w \in Nat
  BY <1>4, MulNat, PoolAssumption
<1>10. /\ RateEndingAfter(q, b) = RateEndingAfter(p, b)
       /\ UnsoldBy(q, b) = UnsoldBy(p, b)
       /\ UnpaidBy(q, b) + RATE_PRECISION * SCALE * w <= UnpaidBy(p, b)
  BY <1>4, <1>5, <1>6, <1>7, <1>8, <1>9
<1> QED
  BY <1>2, <1>4, <1>10 DEF q, w
-----------------------------------------------------------------------------
(***************************************************************************)
(* The actions.  PoolsSound: the rates and debts of the pools, with the    *)
(* reserves and what is held, up to block b.                               *)
(***************************************************************************)
PoolsSound(held, reserve, pools, b) ==
  \A t \in Token :
    /\ RateLive(pools[t], b)
    /\ Covered(held[t], reserve[t], pools[t], pools[Other(t)], b)

\* The invariant after a step, from the pools the step leaves.
LEMMA OrderlyNext ==
  ASSUME Claims',
         PoolsSound(balance', reserveMap', OrderPoolMap', lastVirtualOrderBlock')
  PROVE  Orderly'
<1>1. SalesRateIsOfLiveOrders'
  BY DEF PoolsSound, RateLive, SalesRateIsOfLiveOrders
<1>2. Solvent'
  <2>1. \A p : Unsold(p)' = UnsoldBy(p, lastVirtualOrderBlock')
    BY DEF Unsold, UnsoldBy, UnsoldTerms
  <2>2. \A p : Unpaid(p)' = UnpaidBy(p, lastVirtualOrderBlock')
    BY DEF Unpaid, UnpaidBy, UnpaidTerms, ClaimFactor, WithdrawFactor
  <2> QED
    BY <2>1, <2>2 DEF PoolsSound, Covered, Solvent
<1> QED
  BY <1>1, <1>2 DEF Orderly

\* A pair that has executed nothing owes nothing.
LEMMA UnusedOrderly == Unused => Orderly
<1> SUFFICES ASSUME Unused PROVE Orderly
  OBVIOUS
<1>1. Claims
  BY UnusedClaims
<1>2. /\ OrderPoolMap = [t \in Token |-> EmptyPool]
      /\ lastVirtualOrderBlock \in Block /\ lastVirtualOrderBlock \in Nat
      /\ balance = reserveMap /\ reserveMap \in [Token -> Nat]
  BY OrdersAssumption, BlockNat DEF Unused
<1>3. /\ RateEndingAfter(EmptyPool, lastVirtualOrderBlock) = 0
      /\ UnsoldBy(EmptyPool, lastVirtualOrderBlock) = 0
      /\ UnpaidBy(EmptyPool, lastVirtualOrderBlock) = 0
  BY <1>2, NoOrders
<1>4. SalesRateIsOfLiveOrders
  BY <1>2, <1>3 DEF SalesRateIsOfLiveOrders, EmptyPool
<1>5. Solvent
  <2> SUFFICES ASSUME NEW t \in Token
               PROVE  RATE_PRECISION * SCALE * balance[t]
                        >= RATE_PRECISION * SCALE * reserveMap[t]
                             + SCALE * Unsold(OrderPoolMap[t]) + Unpaid(OrderPoolMap[Other(t)])
    BY DEF Solvent
  <2>1. Unsold(OrderPoolMap[t]) = 0 /\ Unpaid(OrderPoolMap[Other(t)]) = 0
    BY <1>2, <1>3, TokenOther, SumsOfProperties
  <2>2. RATE_PRECISION * SCALE * reserveMap[t] \in Nat /\ SCALE * 0 = 0
    BY <1>2, MulNat, PoolAssumption
  <2>3. balance[t] = reserveMap[t]
    BY <1>2
  <2> QED
    BY <2>1, <2>2, <2>3
<1> QED
  BY <1>1, <1>4, <1>5 DEF Orderly

\* A step that leaves the pools and the tokens alone (a new block, a stutter).
LEMMA QuietOrderly ==
  ASSUME Orderly, Claims',
         UNCHANGED <<lastVirtualOrderBlock, OrderPoolMap, reserveMap, balance>>
  PROVE  Orderly'
<1>1. PoolsSound(balance, reserveMap, OrderPoolMap, lastVirtualOrderBlock)
  BY OrderlySound DEF Sound, CurrentExecState, PoolsSound
<1>2. PoolsSound(balance', reserveMap', OrderPoolMap', lastVirtualOrderBlock')
  BY <1>1
<1> QED
  BY <1>2, OrderlyNext

\* The execution that a step makes up to block n, if it does not execute a
\* block again at which orders end.
LEMMA OrderlyExecution ==
  ASSUME Orderly, NEW n \in Block, n <= block, lastVirtualOrderBlock <= n,
         block' = block, lastVirtualOrderBlock' = n, ~Reexecutes,
         NEW tree \in SUBSET Block, expiries \subseteq tree,
         \A e \in tree : OnInterval(e)
  PROVE  LET x == ExecuteUntil(tree, n)
         IN  PoolsSound(balance, x.reserve, x.pool, x.last)
<1>1. Claims /\ Sound(CurrentExecState)
  BY OrderlySound DEF Orderly
<1>2. lastVirtualOrderBlock = n => ~OrdersEndAt(n)
  BY DEF Reexecutes
<1>3. Sound(ExecuteUntil(tree, n))
  BY <1>1, <1>2, ExecutionSound, ZenonT(60)
<1> QED
  BY <1>3 DEF Sound, PoolsSound

\* executeVirtualOrders.
LEMMA ExecuteOrderly ==
  ASSUME Orderly, Claims', ~Reexecutes, NEW n \in Block, ExecuteVirtualOrders(n)
  PROVE  Orderly'
<1> DEFINE x == ExecuteUntil(expiries, n)
<1>1. /\ x.ok /\ n <= block /\ lastVirtualOrderBlock <= n /\ block' = block
      /\ lastVirtualOrderBlock' = x.last /\ reserveMap' = x.reserve
      /\ OrderPoolMap' = x.pool /\ balance' = balance
  BY BlockNat DEF ExecuteVirtualOrders, Commit, Orderly, Claims, Bookkeeping, TypeOK
<1>2. /\ expiries \in SUBSET Block /\ expiries \subseteq expiries
      /\ \A e \in expiries : OnInterval(e)
  BY DEF Orderly, Claims, Bookkeeping, TypeOK, ExpiriesOnInterval
<1>3. x.last = n
  BY <1>1, <1>2, Execution, ZenonT(60) DEF Orderly, Claims
<1>4. PoolsSound(balance, x.reserve, x.pool, x.last)
  <2>1. lastVirtualOrderBlock' = n
    BY <1>1, <1>3
  <2> QED
    BY <1>1, <1>2, <2>1, OrderlyExecution, ZenonT(60)
<1> HIDE DEF x
<1> QED
  BY <1>1, <1>4, OrderlyNext
-----------------------------------------------------------------------------
\* After the execution an order of pool sell is changed: only the pools' sums
\* with that pool have to be looked at.
LEMMA OneOrderSound ==
  ASSUME NEW held, NEW reserve, NEW pools, NEW b, NEW sell \in Token, NEW q, NEW left,
         pools \in [Token -> Pool],
         PoolsSound(held, reserve, pools, b),
         RateLive(q, b),
         Covered(left[sell], reserve[sell], q, pools[Other(sell)], b),
         Covered(left[Other(sell)], reserve[Other(sell)], pools[Other(sell)], q, b)
  PROVE  PoolsSound(left, reserve, [pools EXCEPT ![sell] = q], b)
<1> DEFINE new == [pools EXCEPT ![sell] = q]
<1>1. /\ new[sell] = q
      /\ new[Other(sell)] = pools[Other(sell)]
      /\ Other(Other(sell)) = sell
      /\ \A t \in Token : t = sell \/ t = Other(sell)
  BY DEF Token, Other
<1>2. RateLive(pools[Other(sell)], b)
  BY TokenOther DEF PoolsSound
<1> HIDE DEF new
<1>3. PoolsSound(left, reserve, new, b)
  BY <1>1, <1>2 DEF PoolsSound
<1> QED
  BY <1>3 DEF new

\* The pair is paid an amount that covers what a pool sells more.
LEMMA CoverMore ==
  ASSUME NEW r \in Nat, NEW s \in Nat, NEW held \in Nat, NEW reserve \in Nat,
         NEW u \in Nat, NEW v \in Nat, NEW amount \in Nat, NEW m \in Nat,
         r * s * held >= r * s * reserve + s * u + v,
         m <= amount * r
  PROVE  r * s * (held + amount) >= r * s * reserve + s * (u + m) + v
<1>1. m * s <= (amount * r) * s
  BY MulNat, MulMono
<1>2. /\ r * s * (held + amount) = r * s * held + (amount * r) * s
      /\ s * (u + m) = s * u + m * s
  OBVIOUS
<1>3. /\ r * s * held \in Nat /\ r * s * reserve \in Nat /\ s * u \in Nat
      /\ m * s \in Nat /\ (amount * r) * s \in Nat
  BY MulNat
<1> QED
  BY <1>1, <1>2, <1>3

\* The pair pays what a pool did not sell.
LEMMA CoverUnsold ==
  ASSUME NEW r \in Nat, NEW s \in Nat, NEW held \in Nat, NEW reserve \in Nat,
         NEW u \in Nat, NEW v \in Nat, NEW w \in Nat, NEW amount \in Nat,
         r * s * held >= r * s * reserve + s * u + v,
         w + r * amount <= u
  PROVE  r * s * (held - amount) >= r * s * reserve + s * w + v
<1>1. r * amount \in Nat
  BY MulNat
<1>2. (w + r * amount) * s <= u * s
  BY <1>1, MulMono
<1>3. /\ r * s * (held - amount) = r * s * held - s * (r * amount)
      /\ (w + r * amount) * s = s * w + s * (r * amount)
      /\ u * s = s * u
  BY <1>1
<1>4. /\ r * s * held \in Nat /\ r * s * reserve \in Nat /\ s * u \in Nat
      /\ s * w \in Nat /\ s * (r * amount) \in Nat
  BY <1>1, MulNat
<1> QED
  BY <1>2, <1>3, <1>4

\* The pair pays proceeds.
LEMMA CoverPaid ==
  ASSUME NEW r \in Nat, NEW s \in Nat, NEW held \in Nat, NEW reserve \in Nat,
         NEW u \in Nat, NEW v \in Nat, NEW w \in Nat, NEW amount \in Nat,
         r * s * held >= r * s * reserve + s * u + v,
         w + r * s * amount <= v
  PROVE  r * s * (held - amount) >= r * s * reserve + s * u + w
<1>1. r * s * (held - amount) = r * s * held - r * s * amount
  OBVIOUS
<1>2. /\ r * s * held \in Nat /\ r * s * reserve \in Nat /\ s * u \in Nat
      /\ r * s * amount \in Nat
  BY MulNat
<1> QED
  BY <1>1, <1>2
-----------------------------------------------------------------------------
\* performLongTermSwap: the amount paid in covers the rate times the blocks.
LEMMA PlaceOrderly ==
  ASSUME Orderly, Claims', ~Reexecutes,
         NEW from \in Token, NEW sender \in Account, NEW amount \in Amount,
         NEW n \in BlockIntervals, PerformLongTermSwap(from, sender, amount, n)
  PROVE  Orderly'
<1> DEFINE expiry == OrderExpiry(block, n)
           rate   == (amount * RATE_PRECISION) \div (expiry - block)
           tree   == expiries \cup {expiry}
           x      == ExecuteUntil(tree, block)
           p      == x.pool[from]
           o      == x.pool[Other(from)]
           q      == DepositOrder(p, orderId, rate, expiry)
           held   == [balance EXCEPT ![from] = @ + amount]
<1>1. /\ Bookkeeping /\ block \in Block /\ block \in Nat
      /\ lastVirtualOrderBlock <= block /\ block <= block
      /\ orderId \in OrderId /\ amount \in Nat /\ n \in Nat
      /\ expiries \in SUBSET Block /\ \A e \in expiries : OnInterval(e)
      /\ balance \in [Token -> Nat]
  <2>1. /\ block \in Block /\ lastVirtualOrderBlock \in 0 .. block /\ orderId \in 0 .. MaxOrders
        /\ expiries \subseteq Block /\ ExpiriesOnInterval /\ Bookkeeping
        /\ balance \in [Token -> Nat]
    BY DEF Orderly, Claims, Bookkeeping, TypeOK
  <2>2. orderId < MaxOrders
    BY DEF PerformLongTermSwap
  <2> QED
    BY <2>1, <2>2, BlockNat, OrdersAssumption, PoolAssumption DEF OrderId, ExpiriesOnInterval
<1>2. expiry \in Nat /\ expiry > block /\ expiry \in Block /\ OnInterval(expiry)
  <2>1. expiry \in Nat /\ expiry > block /\ OnInterval(expiry)
    BY <1>1, ExpiryAhead, ExpiryOnInterval
  <2>2. expiry < MaxBlock
    BY DEF PerformLongTermSwap
  <2> QED
    BY <2>1, <2>2, PoolAssumption DEF Block
<1>3. /\ x.ok /\ lastVirtualOrderBlock' = x.last /\ reserveMap' = x.reserve
      /\ OrderPoolMap' = [x.pool EXCEPT ![from] = q]
      /\ balance' = held /\ block' = block
  BY DEF PerformLongTermSwap, Commit
<1>4. rate \in Nat /\ (expiry - block) * rate <= amount * RATE_PRECISION
  <2> HIDE DEF expiry
  <2>1. expiry - block \in Nat \ {0}
    BY <1>1, <1>2
  <2>2. amount * RATE_PRECISION \in Nat
    BY <1>1, MulNat, PoolAssumption
  <2> QED
    BY <2>1, <2>2, DivFloor
<1> HIDE DEF expiry, rate
<1>5. /\ tree \in SUBSET Block /\ expiries \subseteq tree
      /\ \A e \in tree : OnInterval(e)
  BY <1>1, <1>2
<1> HIDE DEF tree
<1>6. /\ x.last = block /\ x.pool \in [Token -> Pool] /\ x.reserve \in [Token -> Nat]
      /\ \A t \in Token : SameOrders(OrderPoolMap[t], x.pool[t])
  <2>1. /\ x.last = block /\ x.pool \in [Token -> Pool]
        /\ x.reserve \in [Token -> Nat \ {0}]
        /\ \A t \in Token : SameOrders(OrderPoolMap[t], x.pool[t])
    BY <1>1, <1>3, <1>5, Execution, ZenonT(60)
  <2> QED
    BY <2>1
<1>7. \A t \in Token : PoolClaims(x.pool[t], block)
  BY <1>1, <1>3, <1>5, ClaimsExecution, ZenonT(60) DEF Orderly
<1>8. PoolsSound(balance, x.reserve, x.pool, block)
  <2>1. lastVirtualOrderBlock' = block
    BY <1>3, <1>6
  <2>2. PoolsSound(balance, x.reserve, x.pool, x.last)
    BY <1>1, <1>3, <1>5, <2>1, OrderlyExecution, ZenonT(60)
  <2> QED
    BY <1>6, <2>2
<1> HIDE DEF x
<1>9. /\ p \in Pool /\ o \in Pool /\ PoolClaims(p, block) /\ PoolClaims(o, block)
      /\ Other(from) \in Token /\ Other(from) # from
  BY <1>6, <1>7, TokenOther
<1>10. p.salesRate[orderId] = 0
  <2>1. OrderPoolMap[from].salesRate[orderId] = 0
    BY <1>1 DEF Bookkeeping, UnusedIds, OrderId
  <2> QED
    BY <1>6, <2>1 DEF SameOrders
<1> HIDE DEF p, o
<1>11. /\ q.currentSalesRate = p.currentSalesRate + rate
       /\ RateEndingAfter(q, block) = RateEndingAfter(p, block) + rate
       /\ UnsoldBy(q, block) = UnsoldBy(p, block) + (expiry - block) * rate
       /\ UnpaidBy(q, block) = UnpaidBy(p, block)
  <2>1. block < expiry
    BY <1>1, <1>2
  <2> QED
    BY <1>1, <1>2, <1>4, <1>9, <1>10, <2>1, DepositSums, ZenonT(150)
<1> HIDE DEF q
<1>12. /\ RateLive(p, block)
       /\ Covered(balance[from], x.reserve[from], p, o, block)
       /\ Covered(balance[Other(from)], x.reserve[Other(from)], o, p, block)
  <2>1. Other(Other(from)) = from
    BY DEF Token, Other
  <2> QED
    BY <1>8, <1>9, <2>1 DEF PoolsSound, p, o
<1>13. RateLive(q, block)
  BY <1>11, <1>12 DEF RateLive
<1>14. /\ held[from] = balance[from] + amount
       /\ held[Other(from)] = balance[Other(from)]
       /\ balance[from] \in Nat /\ x.reserve[from] \in Nat
  BY <1>1, <1>6, <1>9
<1> HIDE DEF held
<1>15. Covered(held[from], x.reserve[from], q, o, block)
  <2>1. UnsoldBy(p, block) \in Nat /\ UnpaidBy(o, block) \in Nat
    BY <1>1, <1>9, SoldTypes, UnpaidType
  <2>2. (expiry - block) * rate \in Nat
    <3>1. expiry - block \in Nat
      BY <1>1, <1>2
    <3> QED
      BY <1>4, <3>1, MulNat
  <2>3. RATE_PRECISION * SCALE * balance[from]
          >= RATE_PRECISION * SCALE * x.reserve[from]
               + SCALE * UnsoldBy(p, block) + UnpaidBy(o, block)
    BY <1>12 DEF Covered
  <2>4. RATE_PRECISION * SCALE * (balance[from] + amount)
          >= RATE_PRECISION * SCALE * x.reserve[from]
               + SCALE * (UnsoldBy(p, block) + (expiry - block) * rate) + UnpaidBy(o, block)
    BY <1>1, <1>4, <1>14, <2>1, <2>2, <2>3, CoverMore, PoolAssumption
  <2> QED
    BY <1>11, <1>14, <2>4 DEF Covered
<1>16. Covered(held[Other(from)], x.reserve[Other(from)], o, q, block)
  BY <1>11, <1>12, <1>14 DEF Covered
<1>17. PoolsSound(held, x.reserve, [x.pool EXCEPT ![from] = q], block)
  BY <1>6, <1>8, <1>13, <1>15, <1>16, OneOrderSound DEF o
<1> QED
  BY <1>3, <1>6, <1>17, OrderlyNext

\* cancelLongTermSwap.
LEMMA CancelOrderly ==
  ASSUME Orderly, Claims', ~Reexecutes,
         NEW sender \in Account, NEW id \in 0 .. orderId - 1,
         CancelLongTermSwap(sender, id)
  PROVE  Orderly'
<1> DEFINE x    == ExecuteUntil(expiries, block)
           sell == orderMap[id].sellTokenId
           buy  == orderMap[id].buyTokenId
           p    == x.pool[sell]
           o    == x.pool[Other(sell)]
           q    == CancelOrder(p, id)
           u    == UnsoldAmount(p, id, block)
           w    == PurchasedAmount(p, id)
           held == [balance EXCEPT ![buy] = @ - w, ![sell] = @ - u]
<1>1. /\ Bookkeeping /\ block \in Block /\ block \in Nat
      /\ lastVirtualOrderBlock <= block /\ block <= block
      /\ id \in OrderId /\ sell \in Token /\ buy = Other(sell)
      /\ expiries \in SUBSET Block /\ expiries \subseteq expiries
      /\ \A e \in expiries : OnInterval(e)
      /\ balance \in [Token -> Nat]
  <2>1. /\ orderId \in 0 .. MaxOrders /\ block \in Block /\ expiries \subseteq Block
        /\ lastVirtualOrderBlock \in 0 .. block
        /\ orderMap \in [0 .. orderId - 1 -> Order]
        /\ ExpiriesOnInterval /\ SubmitBlocks /\ Bookkeeping
        /\ balance \in [Token -> Nat]
    BY DEF Orderly, Claims, Bookkeeping, TypeOK
  <2>2. orderMap[id] \in Order
    BY <2>1
  <2>3. sell \in Token
    BY <2>2 DEF Order
  <2>4. id \in OrderId /\ lastVirtualOrderBlock <= block
    BY <2>1, PoolAssumption DEF OrderId
  <2> QED
    BY <2>1, <2>3, <2>4, BlockNat DEF SubmitBlocks, ExpiriesOnInterval
<1>2. /\ x.ok /\ lastVirtualOrderBlock' = x.last /\ reserveMap' = x.reserve
      /\ OrderPoolMap' = [x.pool EXCEPT ![sell] = q]
      /\ CanCancel(p, id, block)
      /\ balance' = held /\ block' = block
  BY DEF CancelLongTermSwap, Commit
<1>3. /\ x.last = block /\ x.pool \in [Token -> Pool] /\ x.reserve \in [Token -> Nat]
  <2>1. /\ x.last = block /\ x.pool \in [Token -> Pool]
        /\ x.reserve \in [Token -> Nat \ {0}]
    BY <1>1, <1>2, Execution, ZenonT(60)
  <2> QED
    BY <2>1
<1>4. \A t \in Token : PoolClaims(x.pool[t], block)
  BY <1>1, <1>2, ClaimsExecution, ZenonT(60) DEF Orderly
<1>5. PoolsSound(balance, x.reserve, x.pool, block)
  <2>1. lastVirtualOrderBlock' = block
    BY <1>2, <1>3
  <2>2. PoolsSound(balance, x.reserve, x.pool, x.last)
    BY <1>1, <1>2, <2>1, OrderlyExecution, ZenonT(60)
  <2> QED
    BY <1>3, <2>2
<1> HIDE DEF x, sell, buy
<1>6. /\ p \in Pool /\ o \in Pool /\ PoolClaims(p, block) /\ PoolClaims(o, block)
      /\ Other(sell) \in Token /\ Other(sell) # sell /\ Other(Other(sell)) = sell
  <2>1. Other(Other(sell)) = sell
    BY <1>1 DEF Token, Other
  <2> QED
    BY <1>1, <1>3, <1>4, <2>1, TokenOther
<1> HIDE DEF p, o
<1>7. /\ u \in Nat /\ w \in Nat
      /\ q.currentSalesRate = p.currentSalesRate - p.salesRate[id]
      /\ RateEndingAfter(q, block) = RateEndingAfter(p, block) - p.salesRate[id]
      /\ UnsoldBy(q, block) + RATE_PRECISION * u <= UnsoldBy(p, block)
      /\ UnpaidBy(q, block) + RATE_PRECISION * SCALE * w <= UnpaidBy(p, block)
      /\ q \in Pool /\ PoolClaims(q, block)
  <2>1. q \in Pool /\ PoolClaims(q, block)
    BY <1>1, <1>2, <1>6, CancelOrderType, CancelOrderClaims
  <2> QED
    BY <1>1, <1>2, <1>6, <2>1, CancelSums, ZenonT(60)
<1> HIDE DEF q, u, w
<1>8. /\ RateLive(p, block)
      /\ Covered(balance[sell], x.reserve[sell], p, o, block)
      /\ Covered(balance[Other(sell)], x.reserve[Other(sell)], o, p, block)
  BY <1>1, <1>5, <1>6 DEF PoolsSound, p, o
<1>9. RateLive(q, block)
  BY <1>7, <1>8 DEF RateLive
<1>10. /\ held[sell] = balance[sell] - u
       /\ held[Other(sell)] = balance[Other(sell)] - w
       /\ balance[sell] \in Nat /\ x.reserve[sell] \in Nat
       /\ balance[Other(sell)] \in Nat /\ x.reserve[Other(sell)] \in Nat
  BY <1>1, <1>3, <1>6
<1> HIDE DEF held
<1>11. /\ UnsoldBy(p, block) \in Nat /\ UnsoldBy(q, block) \in Nat /\ UnsoldBy(o, block) \in Nat
       /\ UnpaidBy(p, block) \in Nat /\ UnpaidBy(q, block) \in Nat /\ UnpaidBy(o, block) \in Nat
       /\ RATE_PRECISION \in Nat /\ SCALE \in Nat
  BY <1>1, <1>6, <1>7, SoldTypes, UnpaidType, PoolAssumption
<1>12. Covered(held[sell], x.reserve[sell], q, o, block)
  BY <1>7, <1>8, <1>10, <1>11, CoverUnsold DEF Covered
<1>13. Covered(held[Other(sell)], x.reserve[Other(sell)], o, q, block)
  BY <1>7, <1>8, <1>10, <1>11, CoverPaid DEF Covered
<1>14. PoolsSound(held, x.reserve, [x.pool EXCEPT ![sell] = q], block)
  BY <1>1, <1>3, <1>5, <1>9, <1>12, <1>13, OneOrderSound DEF o
<1> QED
  BY <1>2, <1>3, <1>14, OrderlyNext

\* withdrawProceedsFromLongTermSwap.
LEMMA WithdrawOrderly ==
  ASSUME Orderly, Claims', ~Reexecutes,
         NEW sender \in Account, NEW id \in 0 .. orderId - 1,
         WithdrawProceedsFromLongTermSwap(sender, id)
  PROVE  Orderly'
<1> DEFINE x    == ExecuteUntil(expiries, block)
           sell == orderMap[id].sellTokenId
           buy  == orderMap[id].buyTokenId
           p    == x.pool[sell]
           o    == x.pool[Other(sell)]
           q    == WithdrawProceeds(p, id, block)
           w    == TotalReward(p, id, block)
           held == [balance EXCEPT ![buy] = @ - w]
<1>1. /\ Bookkeeping /\ block \in Block /\ block \in Nat
      /\ lastVirtualOrderBlock <= block /\ block <= block
      /\ id \in OrderId /\ sell \in Token /\ buy = Other(sell)
      /\ expiries \in SUBSET Block /\ expiries \subseteq expiries
      /\ \A e \in expiries : OnInterval(e)
      /\ balance \in [Token -> Nat]
  <2>1. /\ orderId \in 0 .. MaxOrders /\ block \in Block /\ expiries \subseteq Block
        /\ lastVirtualOrderBlock \in 0 .. block
        /\ orderMap \in [0 .. orderId - 1 -> Order]
        /\ ExpiriesOnInterval /\ SubmitBlocks /\ Bookkeeping
        /\ balance \in [Token -> Nat]
    BY DEF Orderly, Claims, Bookkeeping, TypeOK
  <2>2. orderMap[id] \in Order
    BY <2>1
  <2>3. sell \in Token
    BY <2>2 DEF Order
  <2>4. id \in OrderId /\ lastVirtualOrderBlock <= block
    BY <2>1, PoolAssumption DEF OrderId
  <2> QED
    BY <2>1, <2>3, <2>4, BlockNat DEF SubmitBlocks, ExpiriesOnInterval
<1>2. /\ x.ok /\ lastVirtualOrderBlock' = x.last /\ reserveMap' = x.reserve
      /\ OrderPoolMap' = [x.pool EXCEPT ![sell] = q]
      /\ CanWithdraw(p, id, block)
      /\ balance' = held /\ block' = block
  BY DEF WithdrawProceedsFromLongTermSwap, Commit
<1>3. /\ x.last = block /\ x.pool \in [Token -> Pool] /\ x.reserve \in [Token -> Nat]
  <2>1. /\ x.last = block /\ x.pool \in [Token -> Pool]
        /\ x.reserve \in [Token -> Nat \ {0}]
    BY <1>1, <1>2, Execution, ZenonT(60)
  <2> QED
    BY <2>1
<1>4. \A t \in Token : PoolClaims(x.pool[t], block)
  BY <1>1, <1>2, ClaimsExecution, ZenonT(60) DEF Orderly
<1>5. PoolsSound(balance, x.reserve, x.pool, block)
  <2>1. lastVirtualOrderBlock' = block
    BY <1>2, <1>3
  <2>2. PoolsSound(balance, x.reserve, x.pool, x.last)
    BY <1>1, <1>2, <2>1, OrderlyExecution, ZenonT(60)
  <2> QED
    BY <1>3, <2>2
<1> HIDE DEF x, sell, buy
<1>6. /\ p \in Pool /\ o \in Pool /\ PoolClaims(p, block) /\ PoolClaims(o, block)
      /\ Other(sell) \in Token /\ Other(sell) # sell /\ Other(Other(sell)) = sell
  <2>1. Other(Other(sell)) = sell
    BY <1>1 DEF Token, Other
  <2> QED
    BY <1>1, <1>3, <1>4, <2>1, TokenOther
<1> HIDE DEF p, o
<1>7. /\ w \in Nat
      /\ q.currentSalesRate = p.currentSalesRate
      /\ RateEndingAfter(q, block) = RateEndingAfter(p, block)
      /\ UnsoldBy(q, block) = UnsoldBy(p, block)
      /\ UnpaidBy(q, block) + RATE_PRECISION * SCALE * w <= UnpaidBy(p, block)
      /\ q \in Pool /\ PoolClaims(q, block)
  <2>1. q \in Pool /\ PoolClaims(q, block)
    BY <1>1, <1>2, <1>6, WithdrawProceedsType, WithdrawProceedsClaims
  <2> QED
    BY <1>1, <1>2, <1>6, <2>1, WithdrawSums, ZenonT(60)
<1> HIDE DEF q, w
<1>8. /\ RateLive(p, block)
      /\ Covered(balance[sell], x.reserve[sell], p, o, block)
      /\ Covered(balance[Other(sell)], x.reserve[Other(sell)], o, p, block)
  BY <1>1, <1>5, <1>6 DEF PoolsSound, p, o
<1>9. RateLive(q, block)
  BY <1>7, <1>8 DEF RateLive
<1>10. /\ held[sell] = balance[sell]
       /\ held[Other(sell)] = balance[Other(sell)] - w
       /\ balance[Other(sell)] \in Nat /\ x.reserve[Other(sell)] \in Nat
  BY <1>1, <1>3, <1>6
<1> HIDE DEF held
<1>11. /\ UnsoldBy(o, block) \in Nat
       /\ UnpaidBy(p, block) \in Nat /\ UnpaidBy(q, block) \in Nat
       /\ RATE_PRECISION \in Nat /\ SCALE \in Nat
  BY <1>1, <1>6, <1>7, SoldTypes, UnpaidType, PoolAssumption
<1>12. Covered(held[sell], x.reserve[sell], q, o, block)
  BY <1>7, <1>8, <1>10 DEF Covered
<1>13. Covered(held[Other(sell)], x.reserve[Other(sell)], o, q, block)
  BY <1>7, <1>8, <1>10, <1>11, CoverPaid DEF Covered
<1>14. PoolsSound(held, x.reserve, [x.pool EXCEPT ![sell] = q], block)
  BY <1>1, <1>3, <1>5, <1>9, <1>12, <1>13, OneOrderSound DEF o
<1> QED
  BY <1>2, <1>3, <1>14, OrderlyNext
-----------------------------------------------------------------------------
\* Every step that does not execute such a block again keeps the invariant.
LEMMA NextOrderly == Orderly /\ [Next /\ ~Reexecutes]_vars => Orderly'
<1> SUFFICES ASSUME Orderly, [Next /\ ~Reexecutes]_vars PROVE Orderly'
  OBVIOUS
<1>1. Claims'
  BY NextFair DEF Orderly, FairStep
<1>2. CASE Tick
  BY <1>1, <1>2, QuietOrderly DEF Tick
<1>3. CASE UNCHANGED vars
  BY <1>1, <1>3, QuietOrderly DEF vars
<1>4. ASSUME ~Reexecutes,
             NEW from \in Token, NEW sender \in Account, NEW amount \in Amount,
             NEW n \in BlockIntervals, PerformLongTermSwap(from, sender, amount, n)
      PROVE  Orderly'
  BY <1>1, <1>4, PlaceOrderly
<1>5. ASSUME ~Reexecutes, NEW sender \in Account, NEW id \in 0 .. orderId - 1,
             CancelLongTermSwap(sender, id)
      PROVE  Orderly'
  BY <1>1, <1>5, CancelOrderly
<1>6. ASSUME ~Reexecutes, NEW sender \in Account, NEW id \in 0 .. orderId - 1,
             WithdrawProceedsFromLongTermSwap(sender, id)
      PROVE  Orderly'
  BY <1>1, <1>6, WithdrawOrderly
<1>7. ASSUME ~Reexecutes, NEW n \in Block, ExecuteVirtualOrders(n)
      PROVE  Orderly'
  BY <1>1, <1>7, ExecuteOrderly
<1> QED
  BY <1>2, <1>3, <1>4, <1>5, <1>6, <1>7 DEF Next

\* As long as no block at which orders end is executed again, the claims are
\* in order, the rates are those of the live orders and the debts are covered.
THEOREM SpecOrderly == OrderlySpec => []Orderly
<1>1. Init => Orderly
  BY InitUnused, UnusedOrderly
<1>2. Orderly /\ [Next /\ ~Reexecutes]_vars => Orderly'
  BY NextOrderly
<1> QED
  BY <1>1, <1>2, PTL DEF OrderlySpec

\* The current sales rate of a pool (OrderPool.sol, line 17) is the rate of its
\* orders that have not ended, through every order placed, cancelled, withdrawn
\* or expired, in whatever order.
THEOREM RatesCorrect == OrderlySpec => []SalesRateIsOfLiveOrders
<1>1. Orderly => SalesRateIsOfLiveOrders
  BY DEF Orderly
<1> QED
  BY <1>1, SpecOrderly, PTL

\* The pair holds what it owes: reserves, unsold amounts and unpaid proceeds,
\* with every rounding of the code counted.
THEOREM SolvencyCorrect == OrderlySpec => []Solvent
<1>1. Orderly => Solvent
  BY DEF Orderly
<1> QED
  BY <1>1, SpecOrderly, PTL

\* In a state like that the execution that every operation starts with succeeds.
LEMMA OrderlyUnlocked == Orderly => NeverLocked
<1> SUFFICES ASSUME Orderly, lastVirtualOrderBlock = block => ~OrdersEndAt(block)
             PROVE  ExecuteUntil(expiries, block).ok
  BY DEF NeverLocked
<1>1. /\ Claims /\ Sound(CurrentExecState)
      /\ block \in Block /\ block <= block /\ lastVirtualOrderBlock <= block
      /\ expiries \in SUBSET Block /\ expiries \subseteq expiries
      /\ \A e \in expiries : OnInterval(e)
  <2>1. /\ block \in Block /\ lastVirtualOrderBlock \in 0 .. block
        /\ expiries \subseteq Block /\ ExpiriesOnInterval /\ Claims
    BY DEF Orderly, Claims, Bookkeeping, TypeOK
  <2>2. block \in Nat
    BY <2>1, BlockNat
  <2> QED
    BY <2>1, <2>2, OrderlySound DEF ExpiriesOnInterval
<1> QED
  BY <1>1, ExecutionSound, ZenonT(60)

\* The pair is never locked: an execution up to the current block does not
\* revert, unless it executes a block again at which orders end.
THEOREM NeverLockedCorrect == OrderlySpec => []NeverLocked
BY OrderlyUnlocked, SpecOrderly, PTL
=============================================================================
