----------------------- MODULE LongTermOrders_proofs ------------------------
(***************************************************************************)
(* Proofs about LongTermOrders: its type invariant, the bookkeeping of     *)
(* expiries and order records, what an execution does, and the refinement  *)
(* of OrderBook, for every instance of the constants.                      *)
(***************************************************************************)
EXTENDS LongTermOrders, Sums_proofs

-----------------------------------------------------------------------------
\* Quotients of natural numbers are natural numbers.
LEMMA DivNat == \A a \in Nat, c \in Nat \ {0} : a \div c \in Nat
OBVIOUS

\* Products of natural numbers are natural numbers.
LEMMA MulNat == \A a, b \in Nat : a * b \in Nat
OBVIOUS

\* Multiplication by a natural number is monotonic.
LEMMA MulMono == \A a, b, c \in Nat : a <= b => a * c <= b * c
OBVIOUS

\* A bound on the dividend bounds the quotient (fixed-point divisions).
LEMMA DivLe ==
  ASSUME NEW a \in Nat, NEW c \in Nat \ {0}, NEW d \in Nat, a <= d * c
  PROVE  a \div c <= d
OBVIOUS

\* An order that is placed ends after the block it is placed in.
LEMMA ExpiryAhead ==
  ASSUME NEW b \in Nat, NEW n \in Nat
  PROVE  OrderExpiry(b, n) \in Nat /\ OrderExpiry(b, n) > b
<1>1. b % orderBlockInterval \in 0 .. orderBlockInterval - 1
  BY IntervalAssumption
<1>2. /\ orderBlockInterval * (n + 1) \in Nat
      /\ orderBlockInterval * (n + 1) >= orderBlockInterval
  BY IntervalAssumption
<1> QED
  BY <1>1, <1>2, IntervalAssumption DEF OrderExpiry, LastExpiryBlock

\* The last expiry block is not after the block it is computed for.
LEMMA LastExpiryBlockBelow ==
  ASSUME NEW b \in Nat
  PROVE  LastExpiryBlock(b) \in Nat /\ LastExpiryBlock(b) <= b
<1>1. b % orderBlockInterval \in Nat /\ b % orderBlockInterval <= b
  BY IntervalAssumption
<1> QED
  BY <1>1 DEF LastExpiryBlock
-----------------------------------------------------------------------------
\* The pool of a new pair is in the type of pools.
LEMMA EmptyPoolType == EmptyPool \in Pool
<1>1. 0 \in Block
  BY PoolAssumption DEF Block
<1> QED
  BY <1>1 DEF EmptyPool, Pool

\* distributePayment keeps a pool in its type.
LEMMA DistributePaymentType ==
  ASSUME NEW p \in Pool, NEW amount \in Nat
  PROVE  DistributePayment(p, amount) \in Pool
<1>1. CASE p.currentSalesRate = 0
  BY <1>1 DEF DistributePayment
<1>2. CASE p.currentSalesRate # 0
  <2>1. p.currentSalesRate \in Nat \ {0} /\ p.rewardFactor \in Nat
    BY <1>2 DEF Pool
  <2>2. amount * SCALE * RATE_PRECISION \in Nat
    BY MulNat, PoolAssumption
  <2>3. (amount * SCALE * RATE_PRECISION) \div p.currentSalesRate \in Nat
    BY <2>1, <2>2, DivNat
  <2> QED
    BY <1>2, <2>1, <2>3 DEF DistributePayment, Pool
<1> QED
  BY <1>1, <1>2

\* A payment changes the reward factor only.
LEMMA DistributePaymentFrame ==
  ASSUME NEW p \in Pool, NEW amount \in Nat
  PROVE  LET q == DistributePayment(p, amount)
         IN  /\ q.currentSalesRate = p.currentSalesRate
             /\ q.salesRateEndingPerBlock = p.salesRateEndingPerBlock
             /\ q.orderExpiry = p.orderExpiry
             /\ q.salesRate = p.salesRate
             /\ q.rewardFactorAtSubmission = p.rewardFactorAtSubmission
             /\ q.rewardFactorAtBlock = p.rewardFactorAtBlock
BY DEF DistributePayment, Pool

\* updateStateFromBlockExpiry keeps a pool in its type if its checked
\* subtraction does not revert.
LEMMA BlockExpiryType ==
  ASSUME NEW p \in Pool, NEW b \in Block, CanExpire(p, b)
  PROVE  UpdateStateFromBlockExpiry(p, b) \in Pool
<1>1. /\ p.currentSalesRate \in Nat /\ p.salesRateEndingPerBlock[b] \in Nat
      /\ p.salesRateEndingPerBlock[b] <= p.currentSalesRate
  BY DEF Pool, CanExpire
<1>2. p.currentSalesRate - p.salesRateEndingPerBlock[b] \in Nat
  BY <1>1
<1> QED
  BY <1>2 DEF Pool, UpdateStateFromBlockExpiry

\* depositOrder keeps a pool in its type.
LEMMA DepositOrderType ==
  ASSUME NEW p \in Pool, NEW id \in OrderId, NEW rate \in Nat, NEW e \in Block
  PROVE  DepositOrder(p, id, rate, e) \in Pool
<1>1. /\ p.currentSalesRate + rate \in Nat
      /\ p.salesRateEndingPerBlock[e] + rate \in Nat
      /\ p.rewardFactor \in Nat
  BY DEF Pool
<1>2. /\ [p.salesRateEndingPerBlock EXCEPT ![e] = @ + rate] \in [Block -> Nat]
      /\ [p.rewardFactorAtSubmission EXCEPT ![id] = p.rewardFactor] \in [OrderId -> Nat]
      /\ [p.orderExpiry EXCEPT ![id] = e] \in [OrderId -> Block]
      /\ [p.salesRate EXCEPT ![id] = rate] \in [OrderId -> Nat]
  BY <1>1 DEF Pool
<1> QED
  BY <1>1, <1>2 DEF Pool, DepositOrder

\* The proceeds of an order are a natural number if the factor they are
\* computed with is not below the one the order was entered with.
LEMMA EarnedType ==
  ASSUME NEW p \in Pool, NEW id \in OrderId, NEW factor \in Nat,
         factor >= p.rewardFactorAtSubmission[id]
  PROVE  Earned(p, id, factor) \in Nat
<1>1. /\ factor - p.rewardFactorAtSubmission[id] \in Nat
      /\ p.salesRate[id] \in Nat
  BY DEF Pool
<1>2. (factor - p.rewardFactorAtSubmission[id]) * p.salesRate[id] \in Nat
  BY <1>1, MulNat
<1> QED
  BY <1>2, DivNat, PoolAssumption DEF Earned

\* cancelOrder keeps a pool in its type, and returns natural numbers.
LEMMA CancelOrderType ==
  ASSUME NEW p \in Pool, NEW id \in OrderId, NEW now \in Nat,
         CanCancel(p, id, now)
  PROVE  /\ CancelOrder(p, id) \in Pool
         /\ UnsoldAmount(p, id, now) \in Nat
         /\ PurchasedAmount(p, id) \in Nat
<1>1. /\ p.orderExpiry[id] \in Block /\ p.salesRate[id] \in Nat
      /\ p.currentSalesRate \in Nat
      /\ p.salesRateEndingPerBlock \in [Block -> Nat]
      /\ p.salesRateEndingPerBlock[p.orderExpiry[id]] \in Nat
  BY DEF Pool
<1>2. /\ p.currentSalesRate - p.salesRate[id] \in Nat
      /\ p.salesRateEndingPerBlock[p.orderExpiry[id]] - p.salesRate[id] \in Nat
      /\ p.orderExpiry[id] - now \in Nat
  <2>1. /\ p.orderExpiry[id] > now
        /\ p.currentSalesRate >= p.salesRate[id]
        /\ p.salesRateEndingPerBlock[p.orderExpiry[id]] >= p.salesRate[id]
    BY DEF CanCancel
  <2>2. p.orderExpiry[id] \in Nat
    BY <1>1, PoolAssumption DEF Block
  <2>3. p.currentSalesRate - p.salesRate[id] \in Nat
    BY <1>1, <2>1
  <2>4. p.salesRateEndingPerBlock[p.orderExpiry[id]] - p.salesRate[id] \in Nat
    BY <1>1, <2>1
  <2>5. p.orderExpiry[id] - now \in Nat
    BY <2>1, <2>2
  <2> QED
    BY <2>3, <2>4, <2>5
<1>3. CancelOrder(p, id) \in Pool
  <2>1. 0 \in Block
    BY PoolAssumption DEF Block
  <2>2. /\ [p.salesRate EXCEPT ![id] = 0] \in [OrderId -> Nat]
        /\ [p.orderExpiry EXCEPT ![id] = 0] \in [OrderId -> Block]
    BY <2>1 DEF Pool
  <2>3. [p.salesRateEndingPerBlock EXCEPT ![p.orderExpiry[id]] = @ - p.salesRate[id]]
          \in [Block -> Nat]
    BY <1>1, <1>2
  <2> QED
    BY <1>2, <2>2, <2>3 DEF Pool, CancelOrder
<1>4. UnsoldAmount(p, id, now) \in Nat
  <2>1. (p.orderExpiry[id] - now) * p.salesRate[id] \in Nat
    BY <1>1, <1>2, MulNat
  <2> QED
    BY <2>1, DivNat, PoolAssumption DEF UnsoldAmount
<1>5. PurchasedAmount(p, id) \in Nat
  BY EarnedType DEF PurchasedAmount, CanCancel, Pool
<1> QED
  BY <1>3, <1>4, <1>5

\* withdrawProceeds keeps a pool in its type, and returns a natural number.
LEMMA WithdrawProceedsType ==
  ASSUME NEW p \in Pool, NEW id \in OrderId, NEW now \in Nat,
         CanWithdraw(p, id, now)
  PROVE  /\ WithdrawProceeds(p, id, now) \in Pool
         /\ TotalReward(p, id, now) \in Nat
<1>1. WithdrawProceeds(p, id, now) \in Pool
  BY DEF Pool, WithdrawProceeds
<1>2. WithdrawFactor(p, id, now) \in Nat
  BY DEF WithdrawFactor, Pool
<1>3. TotalReward(p, id, now) \in Nat
  BY <1>2, EarnedType DEF TotalReward, CanWithdraw
<1> QED
  BY <1>1, <1>3
-----------------------------------------------------------------------------
\* The states of an execution up to block n that started in the current state:
\* it changes rates, factors and checkpoints of the pools, and nothing that
\* belongs to a single order.
SameOrders(p, q) ==
  /\ q.salesRateEndingPerBlock = p.salesRateEndingPerBlock
  /\ q.orderExpiry = p.orderExpiry
  /\ q.salesRate = p.salesRate
  /\ q.rewardFactorAtSubmission = p.rewardFactorAtSubmission

ExecutedBy(n) ==
  {x \in ExecState : /\ x.last <= n
                     /\ \A t \in Token : x.reserve[t] > 0
                     /\ \A t \in Token : SameOrders(OrderPoolMap[t], x.pool[t])}

\* What is paid out of the AMM is at most what it holds.
LEMMA VirtualOutType ==
  ASSUME NEW reserve \in [Token -> Nat], NEW in \in [Token -> Nat], NEW t \in Token,
         \A u \in Token : reserve[u] > 0
  PROVE  /\ ComputeVirtualOut(reserve, in, t) \in Nat
         /\ ComputeVirtualOut(reserve, in, t) < reserve[t] + in[t]
<1> DEFINE s == reserve[t] + in[t]
           r == reserve[Other(t)] + in[Other(t)]
           a == in[Other(t)]
<1>1. Other(t) \in Token
  BY DEF Token, Other
<1>2. s \in Nat /\ s > 0 /\ r \in Nat \ {0} /\ a \in Nat /\ a < r
  BY <1>1
<1>3. ComputeVirtualOut(reserve, in, t) = (s * a) \div r
  BY DEF ComputeVirtualOut
<1> HIDE DEF s, r, a
<1>4. s * a \in Nat /\ s * a < s * r
  BY <1>2
<1>5. (s * a) \div r \in Nat /\ ((s * a) \div r) * r <= s * a
  BY <1>2, <1>4
<1>6. (s * a) \div r < s
  <2> SUFFICES ASSUME (s * a) \div r >= s PROVE FALSE
    BY <1>2, <1>5
  <2>1. ((s * a) \div r) * r >= s * r
    BY <1>2, <1>5, MulMono
  <2> QED
    BY <1>2, <1>4, <1>5, <2>1
<1> QED
  BY <1>3, <1>5, <1>6 DEF s

\* The liquidity fee and what is left of a virtual trade are natural numbers.
LEMMA FeeType ==
  ASSUME NEW out \in Nat
  PROVE  /\ (out * LP_FEE) \div FEE_BASE \in Nat
         /\ (out * (FEE_BASE - LP_FEE)) \div FEE_BASE \in Nat
<1>1. /\ LP_FEE \in Nat /\ FEE_BASE \in Nat \ {0} /\ FEE_BASE - LP_FEE \in Nat
  BY OrdersAssumption
<1>2. out * LP_FEE \in Nat /\ out * (FEE_BASE - LP_FEE) \in Nat
  BY <1>1, MulNat
<1> QED
  BY <1>1, <1>2, DivNat

\* One execution step keeps the state typed and ends at its block.
LEMMA ExecuteStep ==
  ASSUME NEW n \in Block, NEW x \in ExecutedBy(n),
         NEW b \in Block, x.last <= b, b <= n
  PROVE  /\ ExecuteVirtualTradesAndOrderExpiries(x, b) \in ExecutedBy(n)
         /\ ExecuteVirtualTradesAndOrderExpiries(x, b).ok
              => ExecuteVirtualTradesAndOrderExpiries(x, b).last = b
<1> DEFINE in   == [t \in Token |-> (x.pool[t].currentSalesRate * (b - x.last))
                                       \div RATE_PRECISION]
           out  == [t \in Token |-> ComputeVirtualOut(x.reserve, in, t)]
           fee  == [t \in Token |-> (out[t] * LP_FEE) \div FEE_BASE]
           net  == [t \in Token |-> (out[t] * (FEE_BASE - LP_FEE)) \div FEE_BASE]
           paid == [t \in Token |-> DistributePayment(x.pool[t], net[Other(t)])]
           end  == [t \in Token |-> x.reserve[t] + in[t] - out[t] + fee[t]]
           left == [t \in Token |-> UpdateStateFromBlockExpiry(paid[t], b)]
           fine == /\ x.ok
                   /\ \A t \in Token : x.reserve[t] + in[t] > 0
                   /\ \A t \in Token : CanExpire(paid[t], b)
           y    == ExecuteVirtualTradesAndOrderExpiries(x, b)
<1>1. /\ x.reserve \in [Token -> Nat] /\ x.pool \in [Token -> Pool]
      /\ x.last \in Block /\ x.ok \in BOOLEAN /\ x.last <= n
      /\ \A t \in Token : x.reserve[t] > 0
      /\ \A t \in Token : SameOrders(OrderPoolMap[t], x.pool[t])
  BY DEF ExecutedBy, ExecState
<1>2. in \in [Token -> Nat]
  <2> SUFFICES ASSUME NEW t \in Token
               PROVE  (x.pool[t].currentSalesRate * (b - x.last)) \div RATE_PRECISION
                        \in Nat
    OBVIOUS
  <2>1. x.pool[t].currentSalesRate \in Nat
    BY <1>1 DEF Pool
  <2>2. b - x.last \in Nat
    BY <1>1, PoolAssumption DEF Block
  <2>3. x.pool[t].currentSalesRate * (b - x.last) \in Nat
    BY <2>1, <2>2, MulNat
  <2> QED
    BY <2>3, DivNat, PoolAssumption
<1> HIDE DEF in
<1>3. \A t \in Token : out[t] \in Nat /\ out[t] < x.reserve[t] + in[t]
  BY <1>1, <1>2, VirtualOutType
<1>4. fee \in [Token -> Nat] /\ net \in [Token -> Nat]
  <2> HIDE DEF out
  <2> QED
    BY <1>3, FeeType
<1>5. end \in [Token -> Nat] /\ \A t \in Token : end[t] > 0
  <2> HIDE DEF out, fee
  <2>1. \A t \in Token : x.reserve[t] + in[t] - out[t] + fee[t] \in Nat \ {0}
    BY <1>1, <1>2, <1>3, <1>4
  <2> QED
    BY <2>1
<1>6. /\ paid \in [Token -> Pool]
      /\ \A t \in Token : SameOrders(x.pool[t], paid[t])
  <2> HIDE DEF net
  <2>1. \A t \in Token : Other(t) \in Token
    BY DEF Token, Other
  <2>2. \A t \in Token : net[Other(t)] \in Nat
    BY <1>4, <2>1
  <2> QED
    BY <1>1, <2>2, DistributePaymentType, DistributePaymentFrame DEF SameOrders
<1> HIDE DEF paid
<1>7. ASSUME fine
      PROVE  /\ left \in [Token -> Pool]
             /\ \A t \in Token : SameOrders(OrderPoolMap[t], left[t])
  <2>1. left \in [Token -> Pool]
    BY <1>6, <1>7, BlockExpiryType
  <2>2. \A t \in Token : SameOrders(paid[t], left[t])
    <3> SUFFICES ASSUME NEW t \in Token PROVE SameOrders(paid[t], left[t])
      OBVIOUS
    <3>1. paid[t] \in Pool /\ left[t] = UpdateStateFromBlockExpiry(paid[t], b)
      BY <1>6
    <3> QED
      BY <3>1 DEF SameOrders, UpdateStateFromBlockExpiry, Pool
  <2> QED
    BY <1>1, <1>6, <2>1, <2>2 DEF SameOrders
<1>8. y = IF fine
          THEN [ok |-> TRUE, last |-> b, reserve |-> end, pool |-> left]
          ELSE [x EXCEPT !.ok = FALSE]
  BY DEF ExecuteVirtualTradesAndOrderExpiries, in, paid
<1> HIDE DEF left, end, fine
<1>9. ASSUME fine PROVE y \in ExecutedBy(n) /\ y.last = b
  <2>1. y = [ok |-> TRUE, last |-> b, reserve |-> end, pool |-> left]
    BY <1>8, <1>9
  <2> HIDE DEF y
  <2>2. y \in ExecState
    BY <1>5, <1>7, <1>9, <2>1 DEF ExecState
  <2> QED
    BY <1>5, <1>7, <1>9, <2>1, <2>2 DEF ExecutedBy
<1>10. ASSUME ~fine PROVE y \in ExecutedBy(n) /\ ~y.ok
  <2>1. y = [x EXCEPT !.ok = FALSE]
    BY <1>8, <1>10
  <2>2. x \in ExecState
    BY DEF ExecutedBy
  <2> HIDE DEF y
  <2>3. y \in ExecState /\ ~y.ok
    BY <2>1, <2>2 DEF ExecState
  <2>4. y.last = x.last /\ y.reserve = x.reserve /\ y.pool = x.pool
    BY <2>1, <2>2 DEF ExecState
  <2> QED
    BY <1>1, <2>3, <2>4 DEF ExecutedBy
<1> QED
  BY <1>9, <1>10
-----------------------------------------------------------------------------
\* The loop of ExecuteUntil, as the sequence of the states it goes through.
LEMMA ExecuteUntilLoop ==
  ASSUME NEW tree, NEW n \in Nat, NEW U, CurrentExecState \in U,
         \A x \in U, b \in Nat \ {0} :
           ExecuteListed(ExpiriesList(tree, lastVirtualOrderBlock, n), x, b, n) \in U
  PROVE  \E f \in [Nat -> U] :
           /\ f[0] = CurrentExecState
           /\ \A b \in Nat : f[b + 1] =
                ExecuteListed(ExpiriesList(tree, lastVirtualOrderBlock, n), f[b], b + 1, n)
           /\ ExecuteUntil(tree, n) = ExecuteVirtualTradesAndOrderExpiries(f[n], n)
<1> DEFINE list == ExpiriesList(tree, lastVirtualOrderBlock, n)
           Body(a) == [b \in Nat |-> IF b = 0 THEN CurrentExecState
                                     ELSE ExecuteListed(list, a[b - 1], b, n)]
           g == [k \in Nat |-> [x \in U |-> ExecuteListed(list, x, k + 1, n)]]
           after == CHOOSE a : a = Body(a)
<1>1. ExecuteUntil(tree, n) = ExecuteVirtualTradesAndOrderExpiries(after[n], n)
  BY DEF ExecuteUntil
<1> HIDE DEF list
<1>2. \A x \in U, b \in Nat \ {0} : ExecuteListed(list, x, b, n) \in U
  BY DEF list
<1>3. g \in [Nat -> [U -> U]]
  BY <1>2
<1>4. PICK h \in [Nat -> U] : Follows(h, CurrentExecState, g)
  <2> HIDE DEF g
  <2> QED
    BY <1>3, RecursionExists, Zenon
<1>5. /\ h[0] = CurrentExecState
      /\ \A b \in Nat : h[b + 1] = ExecuteListed(list, h[b], b + 1, n)
  BY <1>4 DEF Follows
<1>6. h = Body(h)
  <2> SUFFICES ASSUME NEW b \in Nat, b # 0
               PROVE  h[b] = ExecuteListed(list, h[b - 1], b, n)
    BY <1>5
  <2>1. b - 1 \in Nat /\ (b - 1) + 1 = b
    OBVIOUS
  <2> QED
    BY <1>5, <2>1
<1>7. after = Body(after)
  <2> HIDE DEF Body
  <2> QED
    BY <1>6
<1> HIDE DEF after, g
<1>8. /\ after[0] = CurrentExecState
      /\ \A b \in Nat : after[b + 1] = ExecuteListed(list, after[b], b + 1, n)
  <2>1. \A b \in Nat : after[b] = IF b = 0 THEN CurrentExecState
                                 ELSE ExecuteListed(list, after[b - 1], b, n)
    BY <1>7
  <2>2. ASSUME NEW b \in Nat
        PROVE  after[b + 1] = ExecuteListed(list, after[b], b + 1, n)
    <3>1. b + 1 \in Nat /\ b + 1 # 0 /\ (b + 1) - 1 = b
      OBVIOUS
    <3>2. after[b + 1] = ExecuteListed(list, after[(b + 1) - 1], b + 1, n)
      BY <2>1, <3>1
    <3> QED
      BY <3>1, <3>2
  <2> QED
    BY <2>1, <2>2
<1>9. after \in [Nat -> U]
  <2> DEFINE S == {b \in Nat : after[b] \in U}
  <2>1. 0 \in S
    BY <1>8
  <2>2. \A b \in Nat : b \in S => b + 1 \in S
    <3> SUFFICES ASSUME NEW b \in Nat, after[b] \in U PROVE after[b + 1] \in U
      OBVIOUS
    <3>1. b + 1 \in Nat \ {0}
      OBVIOUS
    <3>2. ExecuteListed(list, after[b], b + 1, n) \in U
      BY <1>2, <3>1, Zenon
    <3> QED
      BY <1>8, <3>2
  <2>3. Nat \subseteq S
    <3> HIDE DEF S
    <3> QED
      BY <2>1, <2>2, NatSetInduction, Zenon
  <2>4. after = [b \in Nat |-> after[b]]
    BY <1>7
  <2> QED
    BY <2>3, <2>4
<1> QED
  BY <1>1, <1>8, <1>9 DEF list

\* An execution that does not revert ends typed, at the block it was asked for.
LEMMA ExecuteUntilType ==
  ASSUME TypeOK, NEW tree \in SUBSET Block, NEW n \in Block,
         lastVirtualOrderBlock <= n
  PROVE  /\ ExecuteUntil(tree, n) \in ExecutedBy(n)
         /\ ExecuteUntil(tree, n).ok => ExecuteUntil(tree, n).last = n
<1> DEFINE list == ExpiriesList(tree, lastVirtualOrderBlock, n)
<1>1. list \subseteq Block
  BY DEF ExpiriesList
<1>2. CurrentExecState \in ExecutedBy(n)
  <2>1. lastVirtualOrderBlock \in Block
    BY PoolAssumption DEF TypeOK, Block
  <2>2. CurrentExecState \in ExecState
    BY <2>1 DEF TypeOK, CurrentExecState, ExecState
  <2>3. \A t \in Token : reserveMap[t] > 0
    BY DEF TypeOK
  <2>4. /\ CurrentExecState.last = lastVirtualOrderBlock
        /\ CurrentExecState.reserve = reserveMap
        /\ CurrentExecState.pool = OrderPoolMap
    BY DEF CurrentExecState
  <2> QED
    BY <2>2, <2>3, <2>4 DEF ExecutedBy, SameOrders
<1>3. ASSUME NEW x \in ExecutedBy(n), NEW b \in Nat \ {0}
      PROVE  ExecuteListed(list, x, b, n) \in ExecutedBy(n)
  <2> HIDE DEF list
  <2>1. CASE b \in list /\ b > x.last /\ b < n
    <3>1. x.last \in Nat /\ n \in Nat
      BY PoolAssumption DEF ExecutedBy, ExecState, Block
    <3>2. b \in Block /\ x.last <= b /\ b <= n
      BY <1>1, <2>1, <3>1
    <3> QED
      BY <3>2, ExecuteStep DEF ExecuteListed
  <2>2. CASE ~(b \in list /\ b > x.last /\ b < n)
    BY <2>2 DEF ExecuteListed
  <2> QED
    BY <2>1, <2>2
<1>4. n \in Nat
  BY PoolAssumption DEF Block
<1>5. PICK f \in [Nat -> ExecutedBy(n)] :
        ExecuteUntil(tree, n) = ExecuteVirtualTradesAndOrderExpiries(f[n], n)
  BY <1>2, <1>3, <1>4, ExecuteUntilLoop
<1>6. f[n] \in ExecutedBy(n) /\ f[n].last <= n /\ n <= n
  BY <1>4, <1>5 DEF ExecutedBy
<1> QED
  BY <1>5, <1>6, ExecuteStep
-----------------------------------------------------------------------------
\* How the operations of a pool change the rates that end at a block to come.
RateTerms(p, b) ==
  [i \in OrderId |-> IF p.orderExpiry[i] = b THEN p.salesRate[i] ELSE 0]

\* The rates that are summed over the orders are natural numbers, so is the sum.
LEMMA RateTermsType ==
  ASSUME NEW p \in Pool, NEW b \in Nat
  PROVE  /\ RateTerms(p, b) \in [0 .. MaxOrders - 1 -> Nat]
         /\ RateEndingAt(p, b) = SumUpTo(RateTerms(p, b), MaxOrders)
         /\ RateEndingAt(p, b) \in Nat
<1>1. RateTerms(p, b) \in [0 .. MaxOrders - 1 -> Nat]
  BY DEF RateTerms, Pool, OrderId
<1>2. RateEndingAt(p, b) = SumUpTo(RateTerms(p, b), MaxOrders)
  BY DEF RateEndingAt, RateTerms
<1> QED
  BY <1>1, <1>2, SumType, PoolAssumption

\* The rate ending at a block depends on the records of the orders only.
LEMMA SameOrdersRate ==
  ASSUME NEW p, NEW q, SameOrders(p, q), NEW b
  PROVE  RateEndingAt(q, b) = RateEndingAt(p, b)
BY DEF SameOrders, RateEndingAt

\* In a new pair's pools nothing ends.
LEMMA EmptyPoolRate ==
  ASSUME NEW b \in Nat
  PROVE  RateEndingAt(EmptyPool, b) = 0
<1>1. \A i \in 0 .. MaxOrders - 1 : RateTerms(EmptyPool, b)[i] = 0
  BY DEF RateTerms, EmptyPool, OrderId
<1> QED
  BY <1>1, EmptyPoolType, RateTermsType, SumZero, PoolAssumption

\* Two pools that differ in one order.
LEMMA RateChange ==
  ASSUME NEW p \in Pool, NEW q \in Pool, NEW id \in OrderId, NEW b \in Nat,
         \A i \in OrderId \ {id} : /\ q.orderExpiry[i] = p.orderExpiry[i]
                                 /\ q.salesRate[i] = p.salesRate[i]
  PROVE  RateEndingAt(q, b) = RateEndingAt(p, b) + RateTerms(q, b)[id] - RateTerms(p, b)[id]
<1>1. \A i \in 0 .. MaxOrders - 1 : i # id => RateTerms(q, b)[i] = RateTerms(p, b)[i]
  BY DEF RateTerms, OrderId
<1>2. id \in 0 .. MaxOrders - 1
  BY DEF OrderId
<1>3. /\ RateTerms(p, b) \in [0 .. MaxOrders - 1 -> Nat]
      /\ RateTerms(q, b) \in [0 .. MaxOrders - 1 -> Nat]
  BY RateTermsType
<1>4. SumUpTo(RateTerms(q, b), MaxOrders)
        = SumUpTo(RateTerms(p, b), MaxOrders) + RateTerms(q, b)[id] - RateTerms(p, b)[id]
  BY <1>1, <1>2, <1>3, SumChange, PoolAssumption
<1> QED
  BY <1>4, RateTermsType

\* A deposit adds the order's rate to the sum at its expiry.
LEMMA DepositOrderRate ==
  ASSUME NEW p \in Pool, NEW id \in OrderId, NEW rate \in Nat, NEW e \in Block,
         p.orderExpiry[id] = 0, NEW b \in Nat \ {0}
  PROVE  RateEndingAt(DepositOrder(p, id, rate, e), b)
           = RateEndingAt(p, b) + IF b = e THEN rate ELSE 0
<1> DEFINE q == DepositOrder(p, id, rate, e)
<1>1. q \in Pool
  BY DepositOrderType
<1>2. /\ q.orderExpiry[id] = e /\ q.salesRate[id] = rate
      /\ \A i \in OrderId \ {id} : /\ q.orderExpiry[i] = p.orderExpiry[i]
                                  /\ q.salesRate[i] = p.salesRate[i]
  BY DEF DepositOrder, Pool
<1> HIDE DEF q
<1>3. RateTerms(q, b)[id] = IF b = e THEN rate ELSE 0
  BY <1>2 DEF RateTerms
<1>4. RateTerms(p, b)[id] = 0
  BY DEF RateTerms
<1>5. RateEndingAt(q, b) = RateEndingAt(p, b) + RateTerms(q, b)[id] - RateTerms(p, b)[id]
  BY <1>1, <1>2, RateChange
<1>6. RateEndingAt(p, b) \in Nat
  BY RateTermsType
<1> QED
  BY <1>3, <1>4, <1>5, <1>6 DEF q

\* A cancellation takes the order's rate from the sum at its expiry.
LEMMA CancelOrderRate ==
  ASSUME NEW p \in Pool, NEW id \in OrderId, NEW now \in Nat, CanCancel(p, id, now),
         NEW b \in Nat \ {0}
  PROVE  RateEndingAt(CancelOrder(p, id), b)
           = RateEndingAt(p, b) - IF b = p.orderExpiry[id] THEN p.salesRate[id] ELSE 0
<1> DEFINE q == CancelOrder(p, id)
<1>1. q \in Pool
  BY CancelOrderType
<1>2. /\ q.orderExpiry[id] = 0 /\ q.salesRate[id] = 0
      /\ \A i \in OrderId \ {id} : /\ q.orderExpiry[i] = p.orderExpiry[i]
                                  /\ q.salesRate[i] = p.salesRate[i]
  BY DEF CancelOrder, Pool
<1> HIDE DEF q
<1>3. RateTerms(p, b)[id] = IF b = p.orderExpiry[id] THEN p.salesRate[id] ELSE 0
  BY DEF RateTerms
<1>4. RateTerms(q, b)[id] = 0
  BY <1>2 DEF RateTerms
<1>5. RateEndingAt(q, b) = RateEndingAt(p, b) + RateTerms(q, b)[id] - RateTerms(p, b)[id]
  BY <1>1, <1>2, RateChange
<1>6. RateEndingAt(p, b) \in Nat /\ p.salesRate[id] \in Nat
  BY RateTermsType DEF Pool
<1> QED
  BY <1>3, <1>4, <1>5, <1>6 DEF q

\* A withdrawal leaves the sums of the blocks to come as they are: a stake is
\* cleared only at or after its expiry.
LEMMA WithdrawProceedsRate ==
  ASSUME NEW p \in Pool, NEW id \in OrderId, NEW now \in Nat,
         CanWithdraw(p, id, now), NEW b \in Nat, b > now
  PROVE  RateEndingAt(WithdrawProceeds(p, id, now), b) = RateEndingAt(p, b)
<1> DEFINE q == WithdrawProceeds(p, id, now)
<1>1. q \in Pool
  BY WithdrawProceedsType
<1>2. /\ q.orderExpiry = p.orderExpiry
      /\ \A i \in OrderId \ {id} : q.salesRate[i] = p.salesRate[i]
      /\ now < p.orderExpiry[id] => q.salesRate[id] = p.salesRate[id]
  BY PoolAssumption DEF WithdrawProceeds, Pool, Block
<1>3. p.orderExpiry[id] \in Nat
  BY PoolAssumption DEF Pool, Block
<1> HIDE DEF q
<1>4. RateTerms(q, b)[id] = RateTerms(p, b)[id]
  BY <1>2, <1>3 DEF RateTerms
<1>5. RateEndingAt(q, b) = RateEndingAt(p, b) + RateTerms(q, b)[id] - RateTerms(p, b)[id]
  BY <1>1, <1>2, RateChange
<1>6. RateEndingAt(p, b) \in Nat /\ RateTerms(p, b)[id] \in Nat
  BY RateTermsType DEF OrderId
<1> QED
  BY <1>4, <1>5, <1>6 DEF q
-----------------------------------------------------------------------------
(***************************************************************************)
(* The inductive invariant.  The type invariant needs that no order was    *)
(* submitted after now or after its expiry (the sold amounts are           *)
(* differences of these blocks); the sums over the order ids need that the *)
(* ids to come have no stake; the records need each other.                 *)
(***************************************************************************)
SubmitBlocks ==
  \A id \in 0 .. orderId - 1 :
    /\ orderMap[id].submitBlock <= block
    /\ orderMap[id].submitBlock <= orderMap[id].expirationBlock
    /\ orderMap[id].buyTokenId = Other(orderMap[id].sellTokenId)

UnusedIds ==
  \A id \in OrderId : id >= orderId =>
    \A t \in Token : /\ OrderPoolMap[t].orderExpiry[id] = 0
                     /\ OrderPoolMap[t].salesRate[id] = 0

Bookkeeping ==
  /\ TypeOK
  /\ SubmitBlocks
  /\ UnusedIds
  /\ EndingRatesMatchOrders
  /\ EveryExpiryScheduled
  /\ OrderRecordsAgree

\* One pool, after an execution up to block n that left the expiries in tree.
PoolBooked(p, n, tree) ==
  \A b \in Block : b > n =>
    /\ p.salesRateEndingPerBlock[b] = RateEndingAt(p, b)
    /\ p.salesRateEndingPerBlock[b] > 0 => b \in tree

\* The blocks of the model are natural numbers.
LEMMA BlockNat == Block \subseteq Nat /\ 0 \in Block /\ MaxBlock \in Block
BY PoolAssumption DEF Block

\* The other token of a pair is a token of the pair.
LEMMA TokenOther == \A t \in Token : Other(t) \in Token /\ Other(t) # t
BY DEF Token, Other

\* Everything that the actions need to know of an execution.
LEMMA Execution ==
  ASSUME Bookkeeping, NEW n \in Block, n <= block, lastVirtualOrderBlock <= n,
         NEW tree \in SUBSET Block, expiries \subseteq tree,
         ExecuteUntil(tree, n).ok
  PROVE  LET x == ExecuteUntil(tree, n)
             left == TrimTree(tree, lastVirtualOrderBlock, n)
         IN  /\ x.last = n
             /\ x.reserve \in [Token -> Nat \ {0}]
             /\ x.pool \in [Token -> Pool]
             /\ left \subseteq tree
             /\ \A b \in tree : b > n => b \in left
             /\ \A t \in Token : SameOrders(OrderPoolMap[t], x.pool[t])
             /\ \A t \in Token : PoolBooked(x.pool[t], n, left)
<1> DEFINE x == ExecuteUntil(tree, n)
           left == TrimTree(tree, lastVirtualOrderBlock, n)
<1>1. x \in ExecutedBy(n) /\ x.last = n
  BY ExecuteUntilType DEF Bookkeeping
<1> HIDE DEF x
<1>2. x.reserve \in [Token -> Nat \ {0}]
  <2>1. x.reserve \in [Token -> Nat] /\ \A t \in Token : x.reserve[t] > 0
    BY <1>1 DEF ExecutedBy, ExecState
  <2>2. \A t \in Token : x.reserve[t] \in Nat \ {0}
    BY <2>1
  <2> QED
    BY <2>1, <2>2
<1>3. /\ x.pool \in [Token -> Pool]
      /\ \A t \in Token : SameOrders(OrderPoolMap[t], x.pool[t])
  BY <1>1 DEF ExecutedBy, ExecState
<1>4. left \subseteq tree /\ \A b \in tree : b > n => b \in left
  <2>1. n \in Nat /\ LastExpiryBlock(n) \in Nat /\ LastExpiryBlock(n) <= n
    BY BlockNat, LastExpiryBlockBelow
  <2>2. \A b \in tree : b \in Nat
    BY BlockNat
  <2> QED
    BY <2>1, <2>2 DEF TrimTree, ExpiriesList
<1>5. ASSUME NEW t \in Token PROVE PoolBooked(x.pool[t], n, left)
  <2> SUFFICES ASSUME NEW b \in Block, b > n
               PROVE  /\ x.pool[t].salesRateEndingPerBlock[b] = RateEndingAt(x.pool[t], b)
                      /\ x.pool[t].salesRateEndingPerBlock[b] > 0 => b \in left
    BY DEF PoolBooked
  <2>1. b > lastVirtualOrderBlock
    BY BlockNat DEF Bookkeeping, TypeOK
  <2>2. SameOrders(OrderPoolMap[t], x.pool[t])
    BY <1>3
  <2>3. x.pool[t].salesRateEndingPerBlock[b] = RateEndingAt(x.pool[t], b)
    BY <2>1, <2>2, SameOrdersRate DEF Bookkeeping, EndingRatesMatchOrders, SameOrders
  <2>4. ASSUME x.pool[t].salesRateEndingPerBlock[b] > 0 PROVE b \in left
    <3>1. b \in tree
      BY <2>1, <2>2, <2>4 DEF Bookkeeping, EveryExpiryScheduled, SameOrders
    <3> QED
      BY <1>4, <3>1
  <2> QED
    BY <2>3, <2>4
<1> QED
  BY <1>1, <1>2, <1>3, <1>4, <1>5 DEF x

(***************************************************************************)
(* A pair that has got its liquidity, in the block of its deployment or    *)
(* later, and has executed nothing since.                                  *)
(***************************************************************************)
Unused ==
  /\ block \in Block /\ DeployBlock <= block
  /\ lastVirtualOrderBlock = DeployBlock
  /\ OrderPoolMap = [t \in Token |-> EmptyPool]
  /\ expiries = {LastExpiryBlock(DeployBlock)}
  /\ orderId = 0
  /\ orderMap = <<>>
  /\ orderIdMap = [a \in Account |-> <<>>]
  /\ orderIdStatusMap = [i \in OrderId |-> FALSE]
  /\ reserveMap \in [Token -> Nat \ {0}]
  /\ balance = reserveMap

\* The pair of this module gets it at once.
LEMMA InitUnused == Init => Unused
<1>1. DeployBlock \in Block /\ DeployBlock <= DeployBlock
  BY OrdersAssumption, BlockNat
<1> QED
  BY <1>1, OrdersAssumption DEF Init, Deployed, Unused

\* Such a pair satisfies the inductive invariant.
LEMMA UnusedBookkeeping == Unused => Bookkeeping
<1> SUFFICES ASSUME Unused PROVE Bookkeeping
  OBVIOUS
<1>1. DeployBlock \in Nat /\ DeployBlock \in Block /\ LastExpiryBlock(DeployBlock) \in Block
  <2>1. DeployBlock \in Block /\ DeployBlock \in Nat
    BY OrdersAssumption, BlockNat
  <2> QED
    BY <2>1, LastExpiryBlockBelow, PoolAssumption DEF Block
<1>2. TypeOK
  <2>1. orderMap \in [0 .. orderId - 1 -> Order]
    BY DEF Unused
  <2>2. OrderPoolMap \in [Token -> Pool]
    BY EmptyPoolType DEF Unused
  <2>3. orderIdMap \in [Account -> Seq(0 .. orderId - 1)]
    BY DEF Unused
  <2>4. reserveMap \in [Token -> Nat \ {0}] /\ balance \in [Token -> Nat]
    BY OrdersAssumption DEF Unused
  <2> QED
    BY <1>1, <2>1, <2>2, <2>3, <2>4, BlockNat, PoolAssumption DEF Unused, TypeOK
<1>3. SubmitBlocks /\ OrderRecordsAgree
  BY DEF Unused, SubmitBlocks, OrderRecordsAgree
<1>4. UnusedIds
  BY DEF Unused, UnusedIds, EmptyPool
<1>5. EndingRatesMatchOrders /\ EveryExpiryScheduled
  <2>1. \A b \in Block : b \in Nat /\ RateEndingAt(EmptyPool, b) = 0
    BY BlockNat, EmptyPoolRate
  <2>2. \A b \in Block : EmptyPool.salesRateEndingPerBlock[b] = 0
    BY DEF EmptyPool
  <2>3. \A t \in Token : OrderPoolMap[t] = EmptyPool
    BY DEF Unused
  <2> QED
    BY <2>1, <2>2, <2>3 DEF EndingRatesMatchOrders, EveryExpiryScheduled
<1> QED
  BY <1>2, <1>3, <1>4, <1>5 DEF Bookkeeping

\* A new block preserves the inductive invariant.
LEMMA TickBookkeeping ==
  ASSUME Bookkeeping, Tick PROVE Bookkeeping'
<1>1. TypeOK'
  BY BlockNat, PoolAssumption DEF Bookkeeping, TypeOK, Tick, Block
<1>2. SubmitBlocks'
  <2>1. \A id \in 0 .. orderId - 1 : orderMap[id].submitBlock \in Nat
    BY BlockNat DEF Bookkeeping, TypeOK, Order
  <2>2. block \in Nat /\ block' = block + 1 /\ UNCHANGED <<orderId, orderMap>>
    BY BlockNat DEF Bookkeeping, TypeOK, Tick
  <2> QED
    BY <2>1, <2>2 DEF Bookkeeping, SubmitBlocks
<1>3. UnusedIds' /\ OrderRecordsAgree'
  BY DEF Bookkeeping, Tick, UnusedIds, OrderRecordsAgree
<1>4. EndingRatesMatchOrders' /\ EveryExpiryScheduled'
  BY DEF Bookkeeping, Tick, EndingRatesMatchOrders, EveryExpiryScheduled
<1> QED
  BY <1>1, <1>2, <1>3, <1>4 DEF Bookkeeping

\* A step that changes nothing preserves the inductive invariant.
LEMMA StutterBookkeeping ==
  ASSUME Bookkeeping, UNCHANGED vars PROVE Bookkeeping'
BY DEF Bookkeeping, vars, TypeOK, SubmitBlocks, UnusedIds, EndingRatesMatchOrders,
       EveryExpiryScheduled, OrderRecordsAgree

\* The parts of the invariant that are about single orders survive every step
\* that leaves the records of the orders alone.
LEMMA OrderFrame ==
  ASSUME Bookkeeping,
         UNCHANGED <<orderId, orderMap, orderIdStatusMap>>,
         \A t \in Token : SameOrders(OrderPoolMap[t], OrderPoolMap'[t])
  PROVE  UnusedIds' /\ OrderRecordsAgree'
<1>1. \A t \in Token : /\ OrderPoolMap'[t].salesRate = OrderPoolMap[t].salesRate
                      /\ OrderPoolMap'[t].orderExpiry = OrderPoolMap[t].orderExpiry
  BY DEF SameOrders
<1>2. UnusedIds'
  BY <1>1 DEF Bookkeeping, UnusedIds
<1>3. \A id \in 0 .. orderId - 1 : /\ orderMap[id].sellTokenId \in Token
                                  /\ orderMap[id].buyTokenId \in Token
  BY DEF Bookkeeping, TypeOK, Order
<1>4. OrderRecordsAgree'
  BY <1>1, <1>3 DEF Bookkeeping, OrderRecordsAgree
<1> QED
  BY <1>2, <1>4

\* executeVirtualOrders preserves the inductive invariant.
LEMMA ExecuteBookkeeping ==
  ASSUME Bookkeeping, NEW n \in Block, ExecuteVirtualOrders(n) PROVE Bookkeeping'
<1> DEFINE x == ExecuteUntil(expiries, n)
           left == TrimTree(expiries, lastVirtualOrderBlock, n)
<1>1. /\ x.last = n
      /\ x.reserve \in [Token -> Nat \ {0}]
      /\ x.pool \in [Token -> Pool]
      /\ left \subseteq expiries
      /\ \A t \in Token : SameOrders(OrderPoolMap[t], x.pool[t])
      /\ \A t \in Token : PoolBooked(x.pool[t], n, left)
  BY Execution DEF Bookkeeping, TypeOK, ExecuteVirtualOrders
<1>2. /\ lastVirtualOrderBlock' = n /\ n <= block
      /\ reserveMap' = x.reserve
      /\ OrderPoolMap' = x.pool
      /\ expiries' = left
      /\ UNCHANGED <<block, orderId, orderMap, orderIdMap, orderIdStatusMap, balance>>
  BY <1>1 DEF ExecuteVirtualOrders, Commit
<1> HIDE DEF x, left
<1>3. TypeOK'
  BY <1>1, <1>2, BlockNat DEF Bookkeeping, TypeOK
<1>4. SubmitBlocks'
  BY <1>2 DEF Bookkeeping, SubmitBlocks
<1>5. UnusedIds' /\ OrderRecordsAgree'
  BY <1>1, <1>2, OrderFrame
<1>6. EndingRatesMatchOrders' /\ EveryExpiryScheduled'
  BY <1>1, <1>2 DEF PoolBooked, EndingRatesMatchOrders, EveryExpiryScheduled
<1> QED
  BY <1>3, <1>4, <1>5, <1>6 DEF Bookkeeping

\* The order ids of an account, with the id of its new order.
LEMMA AppendId ==
  ASSUME NEW k \in Nat, NEW s \in Seq(0 .. k - 1)
  PROVE  s \in Seq(0 .. k) /\ Append(s, k) \in Seq(0 .. k)
<1>1. /\ Len(s) \in Nat
      /\ \A i \in 1 .. Len(s) : s[i] \in 0 .. k
      /\ DOMAIN s = 1 .. Len(s)
  OBVIOUS
<1>2. s \in Seq(0 .. k)
  BY <1>1
<1> QED
  BY <1>2

\* performLongTermSwap preserves the inductive invariant.
LEMMA PlaceBookkeeping ==
  ASSUME Bookkeeping,
         NEW from \in Token, NEW sender \in Account, NEW amount \in Amount,
         NEW n \in BlockIntervals, PerformLongTermSwap(from, sender, amount, n)
  PROVE  Bookkeeping'
<1> DEFINE expiry == OrderExpiry(block, n)
           rate   == (amount * RATE_PRECISION) \div (expiry - block)
           tree   == expiries \cup {expiry}
           x      == ExecuteUntil(tree, block)
           left   == TrimTree(tree, lastVirtualOrderBlock, block)
           placed == [submitBlock |-> block,
                      expirationBlock |-> expiry,
                      saleRate |-> rate,
                      sellAmount |-> 0,
                      buyAmount |-> 0,
                      owner |-> sender,
                      sellTokenId |-> from,
                      buyTokenId |-> Other(from)]
           pool   == DepositOrder(x.pool[from], orderId, rate, expiry)
<1>1. /\ block \in Block /\ block \in Nat /\ lastVirtualOrderBlock \in Nat
      /\ lastVirtualOrderBlock <= block
      /\ orderId \in Nat /\ orderId \in OrderId
      /\ amount \in Nat /\ n \in Nat
  BY BlockNat, OrdersAssumption, PoolAssumption
  DEF Bookkeeping, TypeOK, PerformLongTermSwap, OrderId
<1>2. expiry \in Block /\ expiry \in Nat /\ expiry > block /\ expiry # 0
  <2>1. expiry \in Nat /\ expiry > block
    BY <1>1, ExpiryAhead
  <2>2. expiry < MaxBlock
    BY DEF PerformLongTermSwap
  <2> QED
    BY <1>1, <2>1, <2>2, PoolAssumption DEF Block
<1>3. rate \in Nat
  <2> HIDE DEF expiry
  <2>1. expiry - block \in Nat \ {0}
    BY <1>1, <1>2
  <2>2. amount * RATE_PRECISION \in Nat
    BY <1>1, MulNat, PoolAssumption
  <2> QED
    BY <2>1, <2>2, DivNat
<1>4. /\ x.ok
      /\ lastVirtualOrderBlock' = x.last
      /\ reserveMap' = x.reserve
      /\ OrderPoolMap' = [x.pool EXCEPT ![from] = pool]
      /\ expiries' = left
      /\ orderMap' = [i \in 0 .. orderId |-> IF i < orderId THEN orderMap[i] ELSE placed]
      /\ orderIdMap' = [orderIdMap EXCEPT ![sender] = Append(@, orderId)]
      /\ orderIdStatusMap' = [orderIdStatusMap EXCEPT ![orderId] = TRUE]
      /\ orderId' = orderId + 1
      /\ balance' = [balance EXCEPT ![from] = @ + amount]
      /\ block' = block
  BY DEF PerformLongTermSwap, Commit
<1> HIDE DEF expiry, rate
<1>5. /\ x.last = block
      /\ x.reserve \in [Token -> Nat \ {0}]
      /\ x.pool \in [Token -> Pool]
      /\ left \subseteq tree
      /\ \A b \in tree : b > block => b \in left
      /\ \A t \in Token : SameOrders(OrderPoolMap[t], x.pool[t])
      /\ \A t \in Token : PoolBooked(x.pool[t], block, left)
  <2>1. tree \in SUBSET Block /\ expiries \subseteq tree
    BY <1>2 DEF Bookkeeping, TypeOK
  <2>2. x.ok /\ block <= block
    BY <1>1, <1>4
  <2> HIDE DEF tree
  <2> QED
    BY <1>1, <2>1, <2>2, Execution, ZenonT(60)
<1>6. tree \subseteq Block /\ expiry \in left
  BY <1>2, <1>5 DEF Bookkeeping, TypeOK
<1> HIDE DEF x, left, tree
<1>7. \A t \in Token : /\ x.pool[t].orderExpiry[orderId] = 0
                      /\ x.pool[t].salesRate[orderId] = 0
  BY <1>1, <1>5 DEF Bookkeeping, UnusedIds, SameOrders
<1>8. pool \in Pool
  BY <1>1, <1>2, <1>3, <1>5, DepositOrderType
<1>9. /\ \A i \in OrderId \ {orderId} : /\ pool.orderExpiry[i] = x.pool[from].orderExpiry[i]
                                        /\ pool.salesRate[i] = x.pool[from].salesRate[i]
      /\ pool.orderExpiry[orderId] = expiry
      /\ pool.salesRate[orderId] = rate
      /\ \A b \in Block : pool.salesRateEndingPerBlock[b]
           = x.pool[from].salesRateEndingPerBlock[b] + IF b = expiry THEN rate ELSE 0
  <2>1. x.pool[from] \in Pool
    BY <1>5
  <2>2. \A b \in Block : x.pool[from].salesRateEndingPerBlock[b] \in Nat
    BY <2>1 DEF Pool
  <2> QED
    BY <1>1, <1>2, <1>3, <2>1, <2>2 DEF DepositOrder, Pool
<1>10. ASSUME NEW b \in Block, b > block
       PROVE  RateEndingAt(pool, b)
                = RateEndingAt(x.pool[from], b) + IF b = expiry THEN rate ELSE 0
  <2>1. b \in Nat \ {0}
    BY <1>1, <1>10, BlockNat
  <2> QED
    BY <1>1, <1>2, <1>3, <1>5, <1>7, <2>1, DepositOrderRate
<1> HIDE DEF pool
<1>11. PoolBooked(pool, block, left)
  <2> SUFFICES ASSUME NEW b \in Block, b > block
               PROVE  /\ pool.salesRateEndingPerBlock[b] = RateEndingAt(pool, b)
                      /\ pool.salesRateEndingPerBlock[b] > 0 => b \in left
    BY DEF PoolBooked
  <2>1. /\ x.pool[from].salesRateEndingPerBlock[b] = RateEndingAt(x.pool[from], b)
        /\ x.pool[from].salesRateEndingPerBlock[b] > 0 => b \in left
    BY <1>5 DEF PoolBooked
  <2>2. x.pool[from].salesRateEndingPerBlock[b] \in Nat
    BY <1>5 DEF Pool
  <2> QED
    BY <1>3, <1>6, <1>9, <1>10, <2>1, <2>2
<1>12. \A t \in Token : PoolBooked(OrderPoolMap'[t], block, left)
  BY <1>4, <1>5, <1>11
<1>13. placed \in Order
  BY <1>1, <1>2, <1>3, TokenOther, BlockNat DEF Order
<1>14. TypeOK'
  <2>1. orderMap' \in [0 .. orderId' - 1 -> Order]
    <3>1. orderMap \in [0 .. orderId - 1 -> Order] /\ orderId' - 1 = orderId
      BY <1>1, <1>4 DEF Bookkeeping, TypeOK
    <3>2. \A i \in 0 .. orderId : (IF i < orderId THEN orderMap[i] ELSE placed) \in Order
      BY <1>1, <1>13, <3>1
    <3> HIDE DEF placed
    <3> QED
      BY <1>4, <3>1, <3>2
  <2>2. orderIdMap' \in [Account -> Seq(0 .. orderId' - 1)]
    <3>1. orderIdMap \in [Account -> Seq(0 .. orderId - 1)] /\ orderId' - 1 = orderId
      BY <1>1, <1>4 DEF Bookkeeping, TypeOK
    <3>2. \A a \in Account : /\ orderIdMap[a] \in Seq(0 .. orderId)
                            /\ Append(orderIdMap[a], orderId) \in Seq(0 .. orderId)
      BY <1>1, <3>1, AppendId
    <3> QED
      BY <1>4, <3>1, <3>2
  <2>3. OrderPoolMap' \in [Token -> Pool]
    BY <1>4, <1>5, <1>8
  <2>4. orderId' \in 0 .. MaxOrders
    BY <1>1, <1>4, PoolAssumption DEF OrderId
  <2>5. balance' \in [Token -> Nat]
    <3>1. balance \in [Token -> Nat]
      BY DEF Bookkeeping, TypeOK
    <3> QED
      BY <1>1, <1>4, <3>1
  <2>6. expiries' \subseteq Block
    BY <1>4, <1>5, <1>6
  <2>7. orderIdStatusMap' \in [OrderId -> BOOLEAN]
    BY <1>1, <1>4 DEF Bookkeeping, TypeOK
  <2>8. block' \in Block /\ lastVirtualOrderBlock' \in 0 .. block'
    BY <1>1, <1>4, <1>5
  <2>9. reserveMap' \in [Token -> Nat \ {0}]
    BY <1>4, <1>5
  <2> QED
    BY <2>1, <2>2, <2>3, <2>4, <2>5, <2>6, <2>7, <2>8, <2>9 DEF TypeOK
<1>15. /\ \A id \in 0 .. orderId - 1 : id # orderId /\ id \in OrderId
                                      /\ orderMap'[id] = orderMap[id]
       /\ orderMap'[orderId] = placed
       /\ \A id \in 0 .. orderId' - 1 : id \in 0 .. orderId - 1 \/ id = orderId
  <2> HIDE DEF placed
  <2> QED
    BY <1>1, <1>4, PoolAssumption DEF OrderId
<1>16. SubmitBlocks'
  <2>1. \A id \in 0 .. orderId - 1 :
          /\ orderMap[id].submitBlock <= block
          /\ orderMap[id].submitBlock <= orderMap[id].expirationBlock
          /\ orderMap[id].buyTokenId = Other(orderMap[id].sellTokenId)
    BY DEF Bookkeeping, SubmitBlocks
  <2>2. /\ placed.submitBlock <= block
        /\ placed.submitBlock <= placed.expirationBlock
        /\ placed.buyTokenId = Other(placed.sellTokenId)
    BY <1>1, <1>2
  <2> HIDE DEF placed
  <2> QED
    BY <1>4, <1>15, <2>1, <2>2 DEF SubmitBlocks
<1>17. \A t \in Token, id \in OrderId : id # orderId =>
         /\ OrderPoolMap'[t].salesRate[id] = OrderPoolMap[t].salesRate[id]
         /\ OrderPoolMap'[t].orderExpiry[id] = OrderPoolMap[t].orderExpiry[id]
  <2> TAKE t \in Token, id \in OrderId
  <2> HAVE id # orderId
  <2>1. /\ x.pool[t].salesRate[id] = OrderPoolMap[t].salesRate[id]
        /\ x.pool[t].orderExpiry[id] = OrderPoolMap[t].orderExpiry[id]
    BY <1>5 DEF SameOrders
  <2>2. CASE t = from
    <3>1. OrderPoolMap'[t] = pool
      BY <1>4, <1>5, <2>2
    <3> QED
      BY <1>9, <2>1, <2>2, <3>1
  <2>3. CASE t # from
    <3>1. OrderPoolMap'[t] = x.pool[t]
      BY <1>4, <1>5, <2>3
    <3> QED
      BY <2>1, <3>1
  <2> QED
    BY <2>2, <2>3
<1>18. UnusedIds'
  <2>1. ASSUME NEW id \in OrderId, id >= orderId + 1 PROVE id >= orderId /\ id # orderId
    BY <1>1, <2>1 DEF OrderId
  <2> QED
    BY <1>4, <1>17, <2>1 DEF Bookkeeping, UnusedIds
<1>19. OrderRecordsAgree'
  <2> SUFFICES ASSUME NEW id \in 0 .. orderId' - 1
               PROVE  LET order == orderMap'[id]
                          p     == OrderPoolMap'[order.sellTokenId]
                      IN  /\ orderIdStatusMap'[id] => /\ p.salesRate[id] = order.saleRate
                                                      /\ p.orderExpiry[id] = order.expirationBlock
                          /\ ~orderIdStatusMap'[id] => p.salesRate[id] = 0
                          /\ OrderPoolMap'[order.buyTokenId].salesRate[id] = 0
    BY DEF OrderRecordsAgree
  <2>1. orderIdStatusMap \in [OrderId -> BOOLEAN]
    BY DEF Bookkeeping, TypeOK
  <2>2. CASE id \in 0 .. orderId - 1
    <3>1. orderMap[id].sellTokenId \in Token /\ orderMap[id].buyTokenId \in Token
      BY <2>2 DEF Bookkeeping, TypeOK, Order
    <3>2. id \in OrderId /\ id # orderId /\ orderMap'[id] = orderMap[id]
          /\ orderIdStatusMap'[id] = orderIdStatusMap[id]
      BY <1>4, <1>15, <2>1, <2>2
    <3> QED
      BY <1>17, <2>2, <3>1, <3>2 DEF Bookkeeping, OrderRecordsAgree
  <2>3. CASE id = orderId
    <3>1. orderIdStatusMap'[id]
      BY <1>1, <1>4, <2>1, <2>3
    <3>2. OrderPoolMap'[from] = pool /\ OrderPoolMap'[Other(from)] = x.pool[Other(from)]
      BY <1>4, <1>5, TokenOther
    <3>3. /\ orderMap'[id].sellTokenId = from
          /\ orderMap'[id].buyTokenId = Other(from)
          /\ orderMap'[id].saleRate = rate
          /\ orderMap'[id].expirationBlock = expiry
      BY <1>15, <2>3
    <3> QED
      BY <1>7, <1>9, <2>3, <3>1, <3>2, <3>3, TokenOther
  <2> QED
    BY <1>15, <2>2, <2>3
<1>20. EndingRatesMatchOrders' /\ EveryExpiryScheduled'
  BY <1>4, <1>5, <1>12 DEF PoolBooked, EndingRatesMatchOrders, EveryExpiryScheduled
<1> QED
  BY <1>14, <1>16, <1>18, <1>19, <1>20 DEF Bookkeeping

\* An order is settled at a block that is not before its submission: the sold
\* amount is not negative.
LEMMA SettleType ==
  ASSUME NEW o \in Order, NEW b \in Nat, o.submitBlock <= b, NEW bought \in Nat
  PROVE  LET s == Settle(o, b, bought)
         IN  /\ s \in Order
             /\ s.submitBlock = o.submitBlock
             /\ s.expirationBlock = o.expirationBlock
             /\ s.saleRate = o.saleRate
             /\ s.sellTokenId = o.sellTokenId
             /\ s.buyTokenId = o.buyTokenId
<1>1. o.submitBlock \in Nat /\ o.saleRate \in Nat /\ o.buyAmount \in Nat
  BY BlockNat DEF Order
<1>2. (b - o.submitBlock) * o.saleRate \in Nat
  BY <1>1, MulNat
<1>3. ((b - o.submitBlock) * o.saleRate) \div RATE_PRECISION \in Nat
  BY <1>2, DivNat, PoolAssumption
<1>4. o.buyAmount + bought \in Nat
  BY <1>1
<1> QED
  BY <1>3, <1>4 DEF Settle, Order

\* An operation on one order `id' of the pool of token `sell', after an
\* execution up to the current block: it settles the order's record, and
\* leaves the pool as pool.
LEMMA OneOrder ==
  ASSUME Bookkeeping,
         NEW id \in 0 .. orderId - 1, NEW soldTo \in Nat, NEW bought \in Nat,
         orderMap[id].submitBlock <= soldTo,
         NEW active \in BOOLEAN, NEW pools \in [Token -> Pool], NEW pool \in Pool,
         \A t \in Token : SameOrders(OrderPoolMap[t], pools[t]),
         \A i \in OrderId \ {id} :
           /\ pool.orderExpiry[i] = pools[orderMap[id].sellTokenId].orderExpiry[i]
           /\ pool.salesRate[i] = pools[orderMap[id].sellTokenId].salesRate[i],
         active => /\ pool.salesRate[id] = orderMap[id].saleRate
                   /\ pool.orderExpiry[id] = orderMap[id].expirationBlock,
         ~active => pool.salesRate[id] = 0,
         OrderPoolMap' = [pools EXCEPT ![orderMap[id].sellTokenId] = pool],
         orderMap' = [orderMap EXCEPT ![id] = Settle(@, soldTo, bought)],
         orderIdStatusMap' = [orderIdStatusMap EXCEPT ![id] = active],
         UNCHANGED <<block, orderId, orderIdMap>>
  PROVE  /\ orderMap' \in [0 .. orderId' - 1 -> Order]
         /\ orderIdMap' \in [Account -> Seq(0 .. orderId' - 1)]
         /\ orderIdStatusMap' \in [OrderId -> BOOLEAN]
         /\ OrderPoolMap' \in [Token -> Pool]
         /\ SubmitBlocks'
         /\ UnusedIds'
         /\ OrderRecordsAgree'
<1> DEFINE sell    == orderMap[id].sellTokenId
           settled == Settle(orderMap[id], soldTo, bought)
<1>1. /\ orderId \in Nat /\ id \in OrderId /\ id \in Nat /\ id < orderId
      /\ orderMap \in [0 .. orderId - 1 -> Order]
      /\ orderMap[id] \in Order /\ sell \in Token
      /\ orderIdStatusMap \in [OrderId -> BOOLEAN]
  <2>1. /\ orderId \in 0 .. MaxOrders
        /\ orderMap \in [0 .. orderId - 1 -> Order]
        /\ orderIdStatusMap \in [OrderId -> BOOLEAN]
    BY DEF Bookkeeping, TypeOK
  <2>2. orderId \in Nat /\ id \in OrderId /\ id \in Nat /\ id < orderId
    BY <2>1, PoolAssumption DEF OrderId
  <2>3. orderMap[id] \in Order
    BY <2>1
  <2>4. sell \in Token
    BY <2>3 DEF Order
  <2> QED
    BY <2>1, <2>2, <2>3, <2>4
<1>2. /\ settled \in Order
      /\ settled.submitBlock = orderMap[id].submitBlock
      /\ settled.expirationBlock = orderMap[id].expirationBlock
      /\ settled.saleRate = orderMap[id].saleRate
      /\ settled.sellTokenId = sell
      /\ settled.buyTokenId = orderMap[id].buyTokenId
  BY <1>1, SettleType
<1>3. orderMap' = [orderMap EXCEPT ![id] = settled]
  OBVIOUS
<1> HIDE DEF settled
<1>4. /\ orderMap' \in [0 .. orderId' - 1 -> Order]
      /\ orderMap'[id] = settled
      /\ \A i \in 0 .. orderId - 1 : i # id => orderMap'[i] = orderMap[i]
  BY <1>1, <1>2, <1>3
<1>5. \A i \in 0 .. orderId - 1 :
        /\ orderMap'[i].submitBlock = orderMap[i].submitBlock
        /\ orderMap'[i].expirationBlock = orderMap[i].expirationBlock
        /\ orderMap'[i].saleRate = orderMap[i].saleRate
        /\ orderMap'[i].sellTokenId = orderMap[i].sellTokenId
        /\ orderMap'[i].buyTokenId = orderMap[i].buyTokenId
  BY <1>2, <1>4
<1>6. OrderPoolMap' \in [Token -> Pool] /\ OrderPoolMap'[sell] = pool
      /\ \A t \in Token : t # sell => OrderPoolMap'[t] = pools[t]
  BY <1>1
<1>7. SubmitBlocks'
  BY <1>5 DEF Bookkeeping, SubmitBlocks
<1>8. \A t \in Token, i \in OrderId : i # id \/ t # sell =>
         /\ OrderPoolMap'[t].salesRate[i] = OrderPoolMap[t].salesRate[i]
         /\ OrderPoolMap'[t].orderExpiry[i] = OrderPoolMap[t].orderExpiry[i]
  <2> TAKE t \in Token, i \in OrderId
  <2> HAVE i # id \/ t # sell
  <2>1. /\ pools[t].salesRate[i] = OrderPoolMap[t].salesRate[i]
        /\ pools[t].orderExpiry[i] = OrderPoolMap[t].orderExpiry[i]
    BY DEF SameOrders
  <2> QED
    BY <1>6, <2>1
<1>9. UnusedIds'
  <2>1. \A i \in OrderId : i >= orderId => i # id
    BY <1>1
  <2> QED
    BY <1>8, <2>1 DEF Bookkeeping, UnusedIds
<1>10. OrderRecordsAgree'
  <2> SUFFICES ASSUME NEW i \in 0 .. orderId - 1
               PROVE  LET order == orderMap'[i]
                          p     == OrderPoolMap'[order.sellTokenId]
                      IN  /\ orderIdStatusMap'[i] => /\ p.salesRate[i] = order.saleRate
                                                     /\ p.orderExpiry[i] = order.expirationBlock
                          /\ ~orderIdStatusMap'[i] => p.salesRate[i] = 0
                          /\ OrderPoolMap'[order.buyTokenId].salesRate[i] = 0
    BY DEF OrderRecordsAgree
  <2>1. /\ i \in OrderId
        /\ orderMap[i].sellTokenId \in Token /\ orderMap[i].buyTokenId \in Token
        /\ orderMap[i].buyTokenId # orderMap[i].sellTokenId
    BY TokenOther, PoolAssumption
    DEF Bookkeeping, TypeOK, Order, OrderId, SubmitBlocks
  <2>2. LET order == orderMap[i]
            p     == OrderPoolMap[order.sellTokenId]
        IN  /\ orderIdStatusMap[i] => /\ p.salesRate[i] = order.saleRate
                                      /\ p.orderExpiry[i] = order.expirationBlock
            /\ ~orderIdStatusMap[i] => p.salesRate[i] = 0
            /\ OrderPoolMap[order.buyTokenId].salesRate[i] = 0
    BY DEF Bookkeeping, OrderRecordsAgree
  <2>3. CASE i # id
    <3>1. orderIdStatusMap'[i] = orderIdStatusMap[i]
      BY <1>1, <2>1, <2>3
    <3> QED
      BY <1>5, <1>8, <2>1, <2>2, <2>3, <3>1
  <2>4. CASE i = id
    <3>1. orderIdStatusMap'[i] = active
      BY <1>1, <2>4
    <3>2. OrderPoolMap'[orderMap[i].buyTokenId].salesRate[i] = 0
      BY <1>8, <2>1, <2>2, <2>4
    <3> QED
      BY <1>5, <1>6, <2>4, <3>1, <3>2
  <2> QED
    BY <2>3, <2>4
<1> QED
  BY <1>1, <1>4, <1>6, <1>7, <1>9, <1>10 DEF Bookkeeping, TypeOK

\* cancelLongTermSwap preserves the inductive invariant.
LEMMA CancelBookkeeping ==
  ASSUME Bookkeeping, NEW sender \in Account, NEW id \in 0 .. orderId - 1,
         CancelLongTermSwap(sender, id)
  PROVE  Bookkeeping'
<1> DEFINE x         == ExecuteUntil(expiries, block)
           left      == TrimTree(expiries, lastVirtualOrderBlock, block)
           sell      == orderMap[id].sellTokenId
           buy       == orderMap[id].buyTokenId
           unsold    == UnsoldAmount(x.pool[sell], id, block)
           purchased == PurchasedAmount(x.pool[sell], id)
           pool      == CancelOrder(x.pool[sell], id)
           pools     == [x.pool EXCEPT ![sell] = pool]
           e         == orderMap[id].expirationBlock
<1>1. /\ block \in Block /\ block \in Nat /\ lastVirtualOrderBlock <= block
      /\ id \in OrderId /\ orderMap[id] \in Order /\ sell \in Token /\ buy \in Token
      /\ orderMap[id].submitBlock <= block
      /\ expiries \in SUBSET Block
  BY BlockNat, PoolAssumption
  DEF Bookkeeping, TypeOK, OrderId, Order, SubmitBlocks
<1>2. /\ x.ok
      /\ orderIdStatusMap[id]
      /\ CanCancel(x.pool[sell], id, block)
      /\ balance[buy] >= purchased /\ balance[sell] >= unsold
      /\ lastVirtualOrderBlock' = x.last
      /\ reserveMap' = x.reserve
      /\ OrderPoolMap' = pools
      /\ expiries' = left \ {b \in {e} : NothingEndsAt(pools, b)}
      /\ orderMap' = [orderMap EXCEPT ![id] = Settle(@, block, purchased)]
      /\ orderIdStatusMap' = [orderIdStatusMap EXCEPT ![id] = FALSE]
      /\ balance' = [balance EXCEPT ![buy] = @ - purchased, ![sell] = @ - unsold]
      /\ UNCHANGED <<block, orderId, orderIdMap>>
  BY DEF CancelLongTermSwap, Commit
<1>3. /\ x.last = block
      /\ x.reserve \in [Token -> Nat \ {0}]
      /\ x.pool \in [Token -> Pool]
      /\ left \subseteq expiries
      /\ \A t \in Token : SameOrders(OrderPoolMap[t], x.pool[t])
      /\ \A t \in Token : PoolBooked(x.pool[t], block, left)
  <2>1. expiries \subseteq expiries /\ block <= block
    BY <1>1
  <2> QED
    BY <1>1, <1>2, <2>1, Execution, ZenonT(60)
<1> HIDE DEF x, left
<1>4. x.pool[sell] \in Pool
  BY <1>1, <1>3
<1>5. pool \in Pool /\ unsold \in Nat /\ purchased \in Nat
  BY <1>1, <1>2, <1>4, CancelOrderType
<1>6. /\ x.pool[sell].salesRate[id] = orderMap[id].saleRate
      /\ x.pool[sell].orderExpiry[id] = e
      /\ e \in Block /\ e > block
  BY <1>1, <1>2, <1>3
  DEF Bookkeeping, OrderRecordsAgree, SameOrders, CanCancel, Order
<1>7. /\ pool.salesRate[id] = 0
      /\ \A i \in OrderId \ {id} : /\ pool.orderExpiry[i] = x.pool[sell].orderExpiry[i]
                                  /\ pool.salesRate[i] = x.pool[sell].salesRate[i]
      /\ \A b \in Block : pool.salesRateEndingPerBlock[b]
           = x.pool[sell].salesRateEndingPerBlock[b]
               - IF b = e THEN x.pool[sell].salesRate[id] ELSE 0
  <2>1. \A b \in Block : x.pool[sell].salesRateEndingPerBlock[b] \in Nat
    BY <1>4 DEF Pool
  <2>2. /\ x.pool[sell].orderExpiry \in [OrderId -> Block]
        /\ x.pool[sell].salesRate \in [OrderId -> Nat]
        /\ x.pool[sell].salesRateEndingPerBlock \in [Block -> Nat]
    BY <1>4 DEF Pool
  <2>3. /\ pool.salesRate = [x.pool[sell].salesRate EXCEPT ![id] = 0]
        /\ pool.orderExpiry = [x.pool[sell].orderExpiry EXCEPT ![id] = 0]
        /\ pool.salesRateEndingPerBlock =
             [x.pool[sell].salesRateEndingPerBlock EXCEPT ![e] = @ - x.pool[sell].salesRate[id]]
    BY <1>4, <1>6 DEF CancelOrder, Pool
  <2>4. id \in OrderId /\ e \in Block /\ x.pool[sell].salesRate[id] \in Nat
    BY <1>1, <1>6, <2>2
  <2> HIDE DEF pool
  <2>5. \A i \in OrderId \ {id} : /\ pool.orderExpiry[i] = x.pool[sell].orderExpiry[i]
                                 /\ pool.salesRate[i] = x.pool[sell].salesRate[i]
    BY <2>2, <2>3
  <2>6. pool.salesRate[id] = 0
    BY <2>2, <2>3, <2>4
  <2>7. ASSUME NEW b \in Block
        PROVE  pool.salesRateEndingPerBlock[b] = x.pool[sell].salesRateEndingPerBlock[b]
                 - IF b = e THEN x.pool[sell].salesRate[id] ELSE 0
    <3>1. CASE b = e
      BY <2>2, <2>3, <2>4, <3>1
    <3>2. CASE b # e
      <4>1. pool.salesRateEndingPerBlock[b] = x.pool[sell].salesRateEndingPerBlock[b]
        BY <2>2, <2>3, <3>2
      <4>2. x.pool[sell].salesRateEndingPerBlock[b] \in Nat
        BY <2>1
      <4> HIDE DEF e, sell
      <4> QED
        BY <3>2, <4>1, <4>2
    <3> QED
      BY <3>1, <3>2
  <2> QED
    BY <2>5, <2>6, <2>7
<1>8. ASSUME NEW b \in Block, b > block
      PROVE  RateEndingAt(pool, b) = RateEndingAt(x.pool[sell], b)
                                       - IF b = e THEN x.pool[sell].salesRate[id] ELSE 0
  <2>1. b \in Nat \ {0}
    BY <1>1, <1>8, BlockNat
  <2> QED
    BY <1>1, <1>2, <1>4, <1>6, <2>1, CancelOrderRate
<1> HIDE DEF pool, unsold, purchased
<1>9. /\ pools \in [Token -> Pool]
      /\ pools[sell] = pool
      /\ \A t \in Token : t # sell => pools[t] = x.pool[t]
  BY <1>1, <1>3, <1>5
<1>10. /\ orderMap' \in [0 .. orderId' - 1 -> Order]
       /\ orderIdMap' \in [Account -> Seq(0 .. orderId' - 1)]
       /\ orderIdStatusMap' \in [OrderId -> BOOLEAN]
       /\ OrderPoolMap' \in [Token -> Pool]
       /\ SubmitBlocks'
       /\ UnusedIds'
       /\ OrderRecordsAgree'
  <2>1. \A i \in OrderId \ {id} : /\ pool.orderExpiry[i] = x.pool[sell].orderExpiry[i]
                                 /\ pool.salesRate[i] = x.pool[sell].salesRate[i]
    BY <1>7
  <2>2. /\ FALSE \in BOOLEAN
        /\ FALSE => /\ pool.salesRate[id] = orderMap[id].saleRate
                    /\ pool.orderExpiry[id] = orderMap[id].expirationBlock
        /\ ~FALSE => pool.salesRate[id] = 0
    BY <1>7
  <2> QED
    BY <1>1, <1>2, <1>3, <1>5, <2>1, <2>2, OneOrder, ZenonT(60)
<1> HIDE DEF pools
<1>11. ASSUME NEW t \in Token, NEW b \in Block, b > block
       PROVE  /\ pools[t].salesRateEndingPerBlock[b] = RateEndingAt(pools[t], b)
              /\ pools[t].salesRateEndingPerBlock[b] > 0 => b \in left
  <2>1. /\ x.pool[t].salesRateEndingPerBlock[b] = RateEndingAt(x.pool[t], b)
        /\ x.pool[t].salesRateEndingPerBlock[b] > 0 => b \in left
    BY <1>3, <1>11 DEF PoolBooked
  <2>2. CASE t # sell
    BY <1>9, <2>1, <2>2
  <2>3. CASE t = sell
    <3>1. /\ x.pool[sell].salesRateEndingPerBlock[b] \in Nat
          /\ x.pool[sell].salesRate[id] \in Nat
      BY <1>1, <1>4 DEF Pool
    <3>2. pools[t] = pool
      BY <1>9, <2>3
    <3> QED
      BY <1>7, <1>8, <1>11, <2>1, <2>3, <3>1, <3>2
  <2> QED
    BY <2>2, <2>3
<1>12. EndingRatesMatchOrders'
  BY <1>2, <1>3, <1>11 DEF EndingRatesMatchOrders
<1>13. EveryExpiryScheduled'
  <2> SUFFICES ASSUME NEW t \in Token, NEW b \in Block, b > block,
                      pools[t].salesRateEndingPerBlock[b] > 0
               PROVE  b \in expiries'
    BY <1>2, <1>3 DEF EveryExpiryScheduled
  <2>1. b \in left
    BY <1>11
  <2>2. ~NothingEndsAt(pools, b)
    BY DEF NothingEndsAt
  <2> QED
    BY <1>2, <2>1, <2>2
<1>14. TypeOK'
  <2>1. balance' \in [Token -> Nat]
    <3>1. balance \in [Token -> Nat] /\ buy # sell
      BY <1>1, TokenOther DEF Bookkeeping, TypeOK, SubmitBlocks
    <3>2. balance[buy] - purchased \in Nat /\ balance[sell] - unsold \in Nat
      BY <1>1, <1>2, <1>5, <3>1
    <3>3. balance' = [t \in Token |-> IF t = sell THEN balance[sell] - unsold
                                     ELSE IF t = buy THEN balance[buy] - purchased
                                     ELSE balance[t]]
      BY <1>1, <1>2, <3>1
    <3> QED
      BY <3>1, <3>2, <3>3
  <2>2. expiries' \subseteq Block
    BY <1>1, <1>2, <1>3
  <2>3. block' \in Block /\ lastVirtualOrderBlock' \in 0 .. block'
    BY <1>1, <1>2, <1>3
  <2>4. reserveMap' \in [Token -> Nat \ {0}] /\ orderId' \in 0 .. MaxOrders
    BY <1>2, <1>3 DEF Bookkeeping, TypeOK
  <2> QED
    BY <1>10, <2>1, <2>2, <2>3, <2>4 DEF TypeOK
<1> QED
  BY <1>10, <1>12, <1>13, <1>14 DEF Bookkeeping

\* withdrawProceedsFromLongTermSwap preserves the inductive invariant.
LEMMA WithdrawBookkeeping ==
  ASSUME Bookkeeping, NEW sender \in Account, NEW id \in 0 .. orderId - 1,
         WithdrawProceedsFromLongTermSwap(sender, id)
  PROVE  Bookkeeping'
<1> DEFINE x         == ExecuteUntil(expiries, block)
           left      == TrimTree(expiries, lastVirtualOrderBlock, block)
           sell      == orderMap[id].sellTokenId
           buy       == orderMap[id].buyTokenId
           e         == orderMap[id].expirationBlock
           proceeds  == TotalReward(x.pool[sell], id, block)
           pool      == WithdrawProceeds(x.pool[sell], id, block)
           pools     == [x.pool EXCEPT ![sell] = pool]
           soldTo    == IF e <= block THEN e ELSE block
<1>1. /\ block \in Block /\ block \in Nat /\ lastVirtualOrderBlock <= block
      /\ id \in OrderId /\ orderMap[id] \in Order /\ sell \in Token /\ buy \in Token
      /\ orderMap[id].submitBlock <= block
      /\ orderMap[id].submitBlock <= e
      /\ e \in Nat
      /\ expiries \in SUBSET Block
  <2>1. /\ orderId \in 0 .. MaxOrders /\ block \in Block /\ expiries \subseteq Block
        /\ lastVirtualOrderBlock \in 0 .. block
        /\ orderMap \in [0 .. orderId - 1 -> Order]
    BY DEF Bookkeeping, TypeOK
  <2>2. orderMap[id] \in Order
    BY <2>1
  <2>3. e \in Block /\ sell \in Token /\ buy \in Token
    BY <2>2 DEF Order
  <2>4. id \in OrderId /\ lastVirtualOrderBlock <= block
    BY <2>1, PoolAssumption DEF OrderId
  <2>5. block \in Nat /\ e \in Nat
    <3> HIDE DEF e
    <3> QED
      BY <2>1, <2>3, BlockNat
  <2>6. orderMap[id].submitBlock <= block /\ orderMap[id].submitBlock <= e
    BY DEF Bookkeeping, SubmitBlocks
  <2> QED
    BY <2>1, <2>2, <2>3, <2>4, <2>5, <2>6
<1>2. /\ x.ok
      /\ orderIdStatusMap[id]
      /\ CanWithdraw(x.pool[sell], id, block)
      /\ balance[buy] >= proceeds
      /\ lastVirtualOrderBlock' = x.last
      /\ reserveMap' = x.reserve
      /\ OrderPoolMap' = pools
      /\ expiries' = left
      /\ orderMap' = [orderMap EXCEPT ![id] = Settle(@, soldTo, proceeds)]
      /\ orderIdStatusMap' = [orderIdStatusMap EXCEPT ![id] = ~(e <= block)]
      /\ balance' = [balance EXCEPT ![buy] = @ - proceeds]
      /\ UNCHANGED <<block, orderId, orderIdMap>>
  BY DEF WithdrawProceedsFromLongTermSwap, Commit
<1>3. /\ x.last = block
      /\ x.reserve \in [Token -> Nat \ {0}]
      /\ x.pool \in [Token -> Pool]
      /\ left \subseteq expiries
      /\ \A t \in Token : SameOrders(OrderPoolMap[t], x.pool[t])
      /\ \A t \in Token : PoolBooked(x.pool[t], block, left)
  <2>1. expiries \subseteq expiries /\ block <= block
    BY <1>1
  <2> QED
    BY <1>1, <1>2, <2>1, Execution, ZenonT(60)
<1> HIDE DEF x, left
<1>4. x.pool[sell] \in Pool
  BY <1>1, <1>3
<1>5. pool \in Pool /\ proceeds \in Nat
  BY <1>1, <1>2, <1>4, WithdrawProceedsType
<1>6. /\ x.pool[sell].salesRate[id] = orderMap[id].saleRate
      /\ x.pool[sell].orderExpiry[id] = e
  BY <1>1, <1>2, <1>3
  DEF Bookkeeping, OrderRecordsAgree, SameOrders
<1>7. /\ e <= block => pool.salesRate[id] = 0
      /\ ~(e <= block) => pool.salesRate[id] = orderMap[id].saleRate
      /\ pool.orderExpiry = x.pool[sell].orderExpiry
      /\ pool.salesRateEndingPerBlock = x.pool[sell].salesRateEndingPerBlock
      /\ \A i \in OrderId \ {id} : pool.salesRate[i] = x.pool[sell].salesRate[i]
  BY <1>1, <1>4, <1>6 DEF WithdrawProceeds, Pool
<1>8. ASSUME NEW b \in Block, b > block
      PROVE  RateEndingAt(pool, b) = RateEndingAt(x.pool[sell], b)
  <2>1. b \in Nat
    BY BlockNat
  <2> QED
    BY <1>1, <1>2, <1>4, <1>8, <2>1, WithdrawProceedsRate
<1> HIDE DEF pool, proceeds
<1>9. /\ pools \in [Token -> Pool]
      /\ pools[sell] = pool
      /\ \A t \in Token : t # sell => pools[t] = x.pool[t]
  BY <1>1, <1>3, <1>5
<1>10. /\ orderMap' \in [0 .. orderId' - 1 -> Order]
       /\ orderIdMap' \in [Account -> Seq(0 .. orderId' - 1)]
       /\ orderIdStatusMap' \in [OrderId -> BOOLEAN]
       /\ OrderPoolMap' \in [Token -> Pool]
       /\ SubmitBlocks'
       /\ UnusedIds'
       /\ OrderRecordsAgree'
  <2>1. soldTo \in Nat /\ orderMap[id].submitBlock <= soldTo
    BY <1>1
  <2> HIDE DEF soldTo
  <2>2. \A i \in OrderId \ {id} : /\ pool.orderExpiry[i] = x.pool[sell].orderExpiry[i]
                                 /\ pool.salesRate[i] = x.pool[sell].salesRate[i]
    BY <1>7
  <2>3. /\ x.pool \in [Token -> Pool] /\ pool \in Pool /\ proceeds \in Nat
        /\ \A t \in Token : SameOrders(OrderPoolMap[t], x.pool[t])
        /\ OrderPoolMap' = [x.pool EXCEPT ![orderMap[id].sellTokenId] = pool]
        /\ orderMap' = [orderMap EXCEPT ![id] = Settle(@, soldTo, proceeds)]
        /\ UNCHANGED <<block, orderId, orderIdMap>>
    BY <1>2, <1>3, <1>5
  <2>4. CASE e <= block
    <3>1. orderIdStatusMap' = [orderIdStatusMap EXCEPT ![id] = FALSE]
      BY <1>2, <2>4
    <3>2. /\ FALSE \in BOOLEAN
          /\ FALSE => /\ pool.salesRate[id] = orderMap[id].saleRate
                      /\ pool.orderExpiry[id] = orderMap[id].expirationBlock
          /\ ~FALSE => pool.salesRate[id] = 0
      BY <1>7, <2>4
    <3> QED
      BY <2>1, <2>2, <2>3, <3>1, <3>2, OneOrder, ZenonT(60)
  <2>5. CASE ~(e <= block)
    <3>1. orderIdStatusMap' = [orderIdStatusMap EXCEPT ![id] = TRUE]
      BY <1>2, <2>5
    <3>2. /\ TRUE \in BOOLEAN
          /\ TRUE => /\ pool.salesRate[id] = orderMap[id].saleRate
                     /\ pool.orderExpiry[id] = orderMap[id].expirationBlock
          /\ ~TRUE => pool.salesRate[id] = 0
      BY <1>6, <1>7, <2>5
    <3> QED
      BY <2>1, <2>2, <2>3, <3>1, <3>2, OneOrder, ZenonT(60)
  <2> QED
    BY <2>4, <2>5
<1> HIDE DEF pools
<1>11. \A t \in Token : PoolBooked(pools[t], block, left)
  BY <1>3, <1>7, <1>8, <1>9 DEF PoolBooked
<1>12. EndingRatesMatchOrders' /\ EveryExpiryScheduled'
  BY <1>2, <1>3, <1>11 DEF PoolBooked, EndingRatesMatchOrders, EveryExpiryScheduled
<1>13. TypeOK'
  <2>1. balance' \in [Token -> Nat]
    <3>1. balance \in [Token -> Nat]
      BY DEF Bookkeeping, TypeOK
    <3>2. balance[buy] - proceeds \in Nat
      BY <1>1, <1>2, <1>5, <3>1
    <3> QED
      BY <1>2, <3>1, <3>2
  <2>2. expiries' \subseteq Block
    BY <1>1, <1>2, <1>3
  <2>3. block' \in Block /\ lastVirtualOrderBlock' \in 0 .. block'
    BY <1>1, <1>2, <1>3
  <2>4. reserveMap' \in [Token -> Nat \ {0}] /\ orderId' \in 0 .. MaxOrders
    BY <1>2, <1>3 DEF Bookkeeping, TypeOK
  <2> QED
    BY <1>10, <2>1, <2>2, <2>3, <2>4 DEF TypeOK
<1> QED
  BY <1>10, <1>12, <1>13 DEF Bookkeeping
-----------------------------------------------------------------------------
(***************************************************************************)
(* The bookkeeping of the library: every reachable state of every pair     *)
(* satisfies the inductive invariant.                                      *)
(***************************************************************************)
THEOREM SpecBookkeeping == Spec => []Bookkeeping
<1>1. Init => Bookkeeping
  BY InitUnused, UnusedBookkeeping
<1>2. Bookkeeping /\ [Next]_vars => Bookkeeping'
  <2> SUFFICES ASSUME Bookkeeping, [Next]_vars PROVE Bookkeeping'
    OBVIOUS
  <2>1. CASE Tick
    BY <2>1, TickBookkeeping
  <2>2. CASE \E from \in Token, sender \in Account, amount \in Amount,
               n \in BlockIntervals : PerformLongTermSwap(from, sender, amount, n)
    BY <2>2, PlaceBookkeeping
  <2>3. CASE \E sender \in Account, id \in 0 .. orderId - 1 :
               CancelLongTermSwap(sender, id)
    BY <2>3, CancelBookkeeping
  <2>4. CASE \E sender \in Account, id \in 0 .. orderId - 1 :
               WithdrawProceedsFromLongTermSwap(sender, id)
    BY <2>4, WithdrawBookkeeping
  <2>5. CASE \E n \in Block : ExecuteVirtualOrders(n)
    BY <2>5, ExecuteBookkeeping
  <2>6. CASE UNCHANGED vars
    BY <2>6, StutterBookkeeping
  <2> QED
    BY <2>1, <2>2, <2>3, <2>4, <2>5, <2>6 DEF Next
<1> QED
  BY <1>1, <1>2, PTL DEF Spec

\* The state of the pair stays in its types: no rate, amount, reserve or
\* balance becomes negative, and no reserve is sold out.
THEOREM TypeCorrect == Spec => []TypeOK
<1>1. Bookkeeping => TypeOK
  BY DEF Bookkeeping
<1> QED
  BY <1>1, SpecBookkeeping, PTL

\* What leaves a pool at a block to come is what the orders ending there sell.
THEOREM EndingRatesCorrect == Spec => []EndingRatesMatchOrders
<1>1. Bookkeeping => EndingRatesMatchOrders
  BY DEF Bookkeeping
<1> QED
  BY <1>1, SpecBookkeeping, PTL

\* No block to come at which orders end is missing from the tree of expiries.
THEOREM ExpiriesComplete == Spec => []EveryExpiryScheduled
<1>1. Bookkeeping => EveryExpiryScheduled
  BY DEF Bookkeeping
<1> QED
  BY <1>1, SpecBookkeeping, PTL

\* The records of an order agree, and a closed order has no stake left.
THEOREM OrderRecordsCorrect == Spec => []OrderRecordsAgree
<1>1. Bookkeeping => OrderRecordsAgree
  BY DEF Bookkeeping
<1> QED
  BY <1>1, SpecBookkeeping, PTL
-----------------------------------------------------------------------------
(***************************************************************************)
(* What an execution of the virtual orders does to the reserves and to the *)
(* reward factors, and that LongTermOrders implements OrderBook, what the  *)
(* owners of orders are promised.  The theorems hold for every instance    *)
(* and for every sequence of calls, also those that execute a block twice. *)
(***************************************************************************)
\* A positive factor cancels from an inequality of products.
LEMMA CancelFactor ==
  ASSUME NEW a \in Nat, NEW b \in Nat, NEW k \in Nat \ {0}, a * k <= b * k
  PROVE  a <= b
<1> SUFFICES ASSUME b + 1 <= a PROVE FALSE
  OBVIOUS
<1>1. (b + 1) * k <= a * k
  BY MulMono
<1>2. (b + 1) * k = b * k + k
  OBVIOUS
<1>3. a * k \in Nat /\ b * k \in Nat
  BY MulNat
<1> QED
  BY <1>1, <1>2, <1>3

\* Inequalities of naturals can be multiplied.
LEMMA MulMono2 ==
  ASSUME NEW a \in Nat, NEW b \in Nat, NEW c \in Nat, NEW d \in Nat, a <= b, c <= d
  PROVE  a * c <= b * d
<1>1. a * c <= b * c
  BY MulMono
<1>2. c * b <= d * b
  BY MulMono
<1>3. b * c = c * b /\ d * b = b * d
  OBVIOUS
<1>4. a * c \in Nat /\ b * c \in Nat /\ b * d \in Nat
  BY MulNat
<1> QED
  BY <1>1, <1>2, <1>3, <1>4

\* The quotient of the constant-product formula, rounded down.
LEMMA QuotientKept ==
  ASSUME NEW s \in Nat, NEW w \in Nat, NEW a \in Nat, w + a # 0
  PROVE  s * w <= (s - (s * a) \div (w + a)) * (w + a)
<1> DEFINE r == w + a
           d == (s * a) \div r
<1>1. r \in Nat \ {0}
  OBVIOUS
<1>2. s * r = s * w + s * a
  OBVIOUS
<1> HIDE DEF r
<1>3. d \in Nat /\ d * r <= s * a
  <2>1. s * a \in Nat
    BY MulNat
  <2> QED
    BY <1>1, <2>1
<1> HIDE DEF d
<1>4. (s - d) * r = s * r - d * r
  BY <1>1, <1>3
<1>5. s * w \in Nat /\ s * a \in Nat /\ s * r \in Nat /\ d * r \in Nat
  BY <1>1, <1>3, MulNat
<1>6. s * w <= (s - d) * r
  BY <1>2, <1>3, <1>4, <1>5
<1> QED
  BY <1>6, Zenon DEF d, r

\* What a trade leaves on one side of the AMM, against the other side.
LEMMA SideKept ==
  ASSUME NEW reserve \in [Token -> Nat], NEW in \in [Token -> Nat], NEW t \in Token,
         \A u \in Token : reserve[u] > 0
  PROVE  (reserve[t] + in[t]) * reserve[Other(t)]
           <= ((reserve[t] + in[t]) - ComputeVirtualOut(reserve, in, t))
                * (reserve[Other(t)] + in[Other(t)])
<1> DEFINE s == reserve[t] + in[t]
           w == reserve[Other(t)]
           a == in[Other(t)]
           out == ComputeVirtualOut(reserve, in, t)
<1>1. s \in Nat /\ w \in Nat /\ a \in Nat /\ w + a # 0
  BY TokenOther
<1>2. out = (s * a) \div (w + a)
  BY DEF ComputeVirtualOut
<1> SUFFICES s * w <= (s - out) * (w + a)
  OBVIOUS
<1> HIDE DEF s, w, a, out
<1>3. s * w <= (s - (s * a) \div (w + a)) * (w + a)
  BY <1>1, QuotientKept, Zenon
<1> QED
  BY <1>2, <1>3, Zenon

\* Both sides together: the product of the reserves does not fall.
LEMMA ProductKept ==
  ASSUME NEW sa \in Nat \ {0}, NEW sb \in Nat \ {0}, NEW ra \in Nat, NEW rb \in Nat,
         NEW u \in Nat, NEW v \in Nat,
         sa * rb <= u * sb, sb * ra <= v * sa
  PROVE  ra * rb <= u * v
<1>1. /\ sa * rb \in Nat /\ u * sb \in Nat /\ sb * ra \in Nat /\ v * sa \in Nat
      /\ ra * rb \in Nat /\ u * v \in Nat /\ sa * sb \in Nat
  BY MulNat
<1>2. (sa * rb) * (sb * ra) <= (u * sb) * (v * sa)
  BY <1>1, MulMono2
<1>3. (sa * rb) * (sb * ra) = (ra * rb) * (sa * sb)
  OBVIOUS
<1>4. (u * sb) * (v * sa) = (u * v) * (sa * sb)
  OBVIOUS
<1>5. sa * sb # 0
  OBVIOUS
<1> QED
  BY <1>1, <1>2, <1>3, <1>4, <1>5, CancelFactor
-----------------------------------------------------------------------------
(***************************************************************************)
(* What the step from execution state x to y did on the side of token t:   *)
(* in is what the pools sold to the AMM, out what the AMM paid.            *)
(***************************************************************************)
Net(out) == (out * (FEE_BASE - LP_FEE)) \div FEE_BASE
Fee(out) == (out * LP_FEE) \div FEE_BASE

Traded(x, y, in, out, t) ==
  LET p == x.pool[t]
      q == y.pool[t]
      b == y.last
  IN  /\ in[t] = (p.currentSalesRate * (b - x.last)) \div RATE_PRECISION
      /\ out[t] = ComputeVirtualOut(x.reserve, in, t)
      /\ y.reserve[t] = ((x.reserve[t] + in[t]) - out[t]) + Fee(out[t])
      /\ q.rewardFactor = DistributePayment(p, Net(out[Other(t)])).rewardFactor
      /\ p.salesRateEndingPerBlock[b] <= p.currentSalesRate
      /\ q.currentSalesRate = p.currentSalesRate - p.salesRateEndingPerBlock[b]
      /\ q.rewardFactorAtBlock = [p.rewardFactorAtBlock EXCEPT ![b] = q.rewardFactor]
      /\ SameOrders(p, q)

\* The expiry of a block changes the rate and the checkpoint of the block only.
LEMMA BlockExpiryFrame ==
  ASSUME NEW p \in Pool, NEW b \in Block
  PROVE  LET q == UpdateStateFromBlockExpiry(p, b)
         IN  /\ q.currentSalesRate = p.currentSalesRate - p.salesRateEndingPerBlock[b]
             /\ q.rewardFactorAtBlock = [p.rewardFactorAtBlock EXCEPT ![b] = p.rewardFactor]
             /\ q.rewardFactor = p.rewardFactor
             /\ q.salesRateEndingPerBlock = p.salesRateEndingPerBlock
             /\ q.orderExpiry = p.orderExpiry
             /\ q.salesRate = p.salesRate
             /\ q.rewardFactorAtSubmission = p.rewardFactorAtSubmission
BY DEF UpdateStateFromBlockExpiry, Pool

\* A step that does not revert trades on both sides.
LEMMA TradeFacts ==
  ASSUME NEW n \in Block, NEW x \in ExecutedBy(n),
         NEW b \in Block, x.last <= b, b <= n,
         ExecuteVirtualTradesAndOrderExpiries(x, b).ok
  PROVE  LET y == ExecuteVirtualTradesAndOrderExpiries(x, b)
         IN  /\ x.ok /\ y.last = b
             /\ \E in, out \in [Token -> Nat] : \A t \in Token : Traded(x, y, in, out, t)
<1> DEFINE in   == [t \in Token |-> (x.pool[t].currentSalesRate * (b - x.last))
                                       \div RATE_PRECISION]
           out  == [t \in Token |-> ComputeVirtualOut(x.reserve, in, t)]
           fee  == [t \in Token |-> (out[t] * LP_FEE) \div FEE_BASE]
           net  == [t \in Token |-> (out[t] * (FEE_BASE - LP_FEE)) \div FEE_BASE]
           paid == [t \in Token |-> DistributePayment(x.pool[t], net[Other(t)])]
           end  == [t \in Token |-> x.reserve[t] + in[t] - out[t] + fee[t]]
           left == [t \in Token |-> UpdateStateFromBlockExpiry(paid[t], b)]
           fine == /\ x.ok
                   /\ \A t \in Token : x.reserve[t] + in[t] > 0
                   /\ \A t \in Token : CanExpire(paid[t], b)
           y    == ExecuteVirtualTradesAndOrderExpiries(x, b)
<1>1. /\ x.reserve \in [Token -> Nat] /\ x.pool \in [Token -> Pool]
      /\ x.last \in Nat /\ b \in Nat /\ x.ok \in BOOLEAN
      /\ \A t \in Token : x.reserve[t] > 0
  BY BlockNat DEF ExecutedBy, ExecState
<1>2. y = IF fine
          THEN [ok |-> TRUE, last |-> b, reserve |-> end, pool |-> left]
          ELSE [x EXCEPT !.ok = FALSE]
  BY DEF ExecuteVirtualTradesAndOrderExpiries
<1>3. fine
  <2> SUFFICES ASSUME ~fine PROVE FALSE
    OBVIOUS
  <2>1. y = [x EXCEPT !.ok = FALSE]
    BY <1>2
  <2>2. x \in ExecState
    BY DEF ExecutedBy
  <2> HIDE DEF y, fine
  <2>3. ~y.ok
    BY <2>1, <2>2 DEF ExecState
  <2> QED
    BY <2>3 DEF y
<1>4. y = [ok |-> TRUE, last |-> b, reserve |-> end, pool |-> left]
  BY <1>2, <1>3
<1>5. in \in [Token -> Nat]
  <2> SUFFICES ASSUME NEW t \in Token
               PROVE  (x.pool[t].currentSalesRate * (b - x.last)) \div RATE_PRECISION
                        \in Nat
    OBVIOUS
  <2>1. x.pool[t].currentSalesRate \in Nat /\ b - x.last \in Nat
    BY <1>1 DEF Pool
  <2>2. x.pool[t].currentSalesRate * (b - x.last) \in Nat
    BY <2>1, MulNat
  <2> QED
    BY <2>2, DivNat, PoolAssumption
<1>6. \A t \in Token : in[t] = (x.pool[t].currentSalesRate * (b - x.last)) \div RATE_PRECISION
  OBVIOUS
<1> HIDE DEF in
<1>7. out \in [Token -> Nat] /\ \A t \in Token : out[t] = ComputeVirtualOut(x.reserve, in, t)
  BY <1>1, <1>5, VirtualOutType
<1> HIDE DEF out
<1>8. \A t \in Token : fee[t] = Fee(out[t]) /\ net[t] = Net(out[t])
  BY DEF Fee, Net
<1>9. \A t \in Token : fee[t] \in Nat /\ net[t] \in Nat
  BY <1>7, FeeType
<1>10. \A t \in Token : paid[t] = DistributePayment(x.pool[t], Net(out[Other(t)]))
  BY <1>8, TokenOther
<1>11. \A t \in Token : Net(out[Other(t)]) \in Nat
  BY <1>8, <1>9, TokenOther
<1>12. \A t \in Token : end[t] = ((x.reserve[t] + in[t]) - out[t]) + Fee(out[t])
  <2> SUFFICES ASSUME NEW t \in Token
               PROVE  end[t] = ((x.reserve[t] + in[t]) - out[t]) + Fee(out[t])
    OBVIOUS
  <2>1. end[t] = x.reserve[t] + in[t] - out[t] + fee[t]
    BY DEF end
  <2>2. x.reserve[t] \in Nat /\ in[t] \in Nat /\ out[t] \in Nat /\ fee[t] \in Nat
    BY <1>1, <1>5, <1>7, <1>9
  <2> HIDE DEF end, fee
  <2> QED
    BY <1>8, <2>1, <2>2
<1>13. \A t \in Token : CanExpire(paid[t], b)
  BY <1>3
<1> HIDE DEF fee, net, paid, end, fine
<1>14. y.last = b /\ y.reserve = end /\ y.pool = left
  BY <1>4
<1>15. \A t \in Token : left[t] = UpdateStateFromBlockExpiry(paid[t], b)
  OBVIOUS
<1> HIDE DEF left, y
<1>16. ASSUME NEW t \in Token PROVE Traded(x, y, in, out, t)
  <2> DEFINE p == x.pool[t]
             m == paid[t]
             q == left[t]
  <2>1. p \in Pool /\ m = DistributePayment(p, Net(out[Other(t)])) /\ m \in Pool
    BY <1>1, <1>10, <1>11, DistributePaymentType
  <2>2. /\ m.currentSalesRate = p.currentSalesRate
        /\ m.salesRateEndingPerBlock = p.salesRateEndingPerBlock
        /\ m.orderExpiry = p.orderExpiry
        /\ m.salesRate = p.salesRate
        /\ m.rewardFactorAtSubmission = p.rewardFactorAtSubmission
        /\ m.rewardFactorAtBlock = p.rewardFactorAtBlock
    BY <1>11, <2>1, DistributePaymentFrame
  <2>3. /\ q.currentSalesRate = m.currentSalesRate - m.salesRateEndingPerBlock[b]
        /\ q.rewardFactorAtBlock = [m.rewardFactorAtBlock EXCEPT ![b] = m.rewardFactor]
        /\ q.rewardFactor = m.rewardFactor
        /\ q.salesRateEndingPerBlock = m.salesRateEndingPerBlock
        /\ q.orderExpiry = m.orderExpiry
        /\ q.salesRate = m.salesRate
        /\ q.rewardFactorAtSubmission = m.rewardFactorAtSubmission
    BY <1>15, <2>1, BlockExpiryFrame
  <2>4. m.salesRateEndingPerBlock[b] <= m.currentSalesRate
    BY <1>13 DEF CanExpire
  <2>5. q = y.pool[t] /\ y.reserve[t] = end[t]
    BY <1>14
  <2>6. SameOrders(p, q)
    BY <2>2, <2>3 DEF SameOrders
  <2> QED
    BY <1>6, <1>7, <1>12, <1>14, <2>1, <2>2, <2>3, <2>4, <2>5, <2>6 DEF Traded
<1>17. \E i, o \in [Token -> Nat] : \A t \in Token : Traded(x, y, i, o, t)
  BY <1>5, <1>7, <1>16
<1> QED
  BY <1>3, <1>14, <1>17 DEF y, fine
-----------------------------------------------------------------------------
\* A payment raises the reward factor by no more than was paid, in units of
\* 1 / (RATE_PRECISION * SCALE) token over the rate of the pool.
LEMMA FactorGrows ==
  ASSUME NEW p \in Pool, NEW amount \in Nat
  PROVE  LET f == DistributePayment(p, amount).rewardFactor
         IN  /\ f \in Nat
             /\ p.rewardFactor <= f
             /\ (f - p.rewardFactor) * p.currentSalesRate
                  <= amount * SCALE * RATE_PRECISION
             /\ amount = 0 => f = p.rewardFactor
<1> DEFINE a == amount * SCALE * RATE_PRECISION
           r == p.currentSalesRate
           d == a \div r
           f == DistributePayment(p, amount).rewardFactor
<1>1. r \in Nat /\ p.rewardFactor \in Nat /\ a \in Nat /\ (amount = 0 => a = 0)
  BY MulNat, PoolAssumption DEF Pool
<1>2. f = IF r # 0 THEN p.rewardFactor + d ELSE p.rewardFactor
  BY DEF DistributePayment, Pool
<1> SUFFICES /\ f \in Nat /\ p.rewardFactor <= f
             /\ (f - p.rewardFactor) * r <= a
             /\ amount = 0 => f = p.rewardFactor
  BY Zenon
<1> HIDE DEF a, r, f
<1>3. CASE r = 0
  <2>1. f = p.rewardFactor
    BY <1>2, <1>3
  <2> QED
    BY <1>1, <2>1
<1>4. CASE r # 0
  <2>1. d \in Nat /\ d * r <= a /\ (a = 0 => d = 0)
    BY <1>1, <1>4
  <2>2. f = p.rewardFactor + d
    BY <1>2, <1>4
  <2> HIDE DEF d
  <2>3. f - p.rewardFactor = d
    BY <1>1, <2>1, <2>2
  <2> QED
    BY <1>1, <2>1, <2>2, <2>3
<1> QED
  BY <1>3, <1>4

\* The virtual amounts of a step and what becomes of them are natural numbers.
LEMMA TradeTypes ==
  ASSUME NEW n \in Block, NEW x \in ExecutedBy(n), NEW t \in Token,
         NEW in \in [Token -> Nat], NEW out \in [Token -> Nat]
  PROVE  /\ x.pool[t] \in Pool /\ x.reserve[t] \in Nat \ {0} /\ x.last \in Nat
         /\ x.pool[t].currentSalesRate \in Nat /\ x.pool[t].rewardFactor \in Nat
         /\ x.pool[t].rewardFactorAtBlock \in [Block -> Nat]
         /\ in[t] \in Nat /\ out[t] \in Nat /\ Other(t) \in Token
         /\ Fee(out[t]) \in Nat /\ Net(out[t]) \in Nat
         /\ Net(out[Other(t)]) \in Nat
<1>1. /\ x.pool \in [Token -> Pool] /\ x.reserve \in [Token -> Nat]
      /\ x.reserve[t] > 0 /\ x.last \in Nat
  BY BlockNat DEF ExecutedBy, ExecState
<1>2. /\ x.pool[t] \in Pool /\ x.reserve[t] \in Nat \ {0} /\ x.last \in Nat
      /\ x.pool[t].currentSalesRate \in Nat /\ x.pool[t].rewardFactor \in Nat
      /\ x.pool[t].rewardFactorAtBlock \in [Block -> Nat]
  BY <1>1 DEF Pool
<1>3. Other(t) \in Token
  BY TokenOther
<1>4. \A u \in Token : Fee(out[u]) \in Nat /\ Net(out[u]) \in Nat
  BY FeeType DEF Fee, Net
<1> QED
  BY <1>2, <1>3, <1>4

\* A step does not lower the product of the reserves.
LEMMA TradeKeepsProduct ==
  ASSUME NEW n \in Block, NEW x \in ExecutedBy(n), NEW y \in ExecutedBy(n),
         NEW in \in [Token -> Nat], NEW out \in [Token -> Nat],
         \A t \in Token : Traded(x, y, in, out, t)
  PROVE  x.reserve["A"] * x.reserve["B"] <= y.reserve["A"] * y.reserve["B"]
<1> DEFINE s(t) == x.reserve[t] + in[t]
           u(t) == s(t) - out[t]
<1>1. "A" \in Token /\ "B" \in Token /\ Other("A") = "B" /\ Other("B") = "A"
  BY DEF Token, Other
<1>2. /\ x.reserve \in [Token -> Nat] /\ y.reserve \in [Token -> Nat]
      /\ \A t \in Token : x.reserve[t] > 0
  BY DEF ExecutedBy, ExecState
<1>3. ASSUME NEW t \in Token
      PROVE  /\ s(t) \in Nat \ {0} /\ u(t) \in Nat
             /\ s(t) * x.reserve[Other(t)] <= u(t) * s(Other(t))
             /\ u(t) <= y.reserve[t]
  <2>1. out[t] = ComputeVirtualOut(x.reserve, in, t)
    BY DEF Traded
  <2>2. out[t] < s(t) /\ s(t) \in Nat \ {0}
    BY <1>2, <2>1, VirtualOutType
  <2>3. s(t) * x.reserve[Other(t)] <= u(t) * s(Other(t))
    BY <1>2, <2>1, SideKept
  <2>4. y.reserve[t] = u(t) + Fee(out[t])
    BY DEF Traded
  <2>5. Fee(out[t]) \in Nat /\ out[t] \in Nat
    BY TradeTypes
  <2> HIDE DEF s
  <2>6. u(t) \in Nat
    BY <2>2, <2>5
  <2> QED
    BY <2>2, <2>3, <2>4, <2>5, <2>6
<1> HIDE DEF s, u
<1>4. x.reserve["A"] * x.reserve["B"] <= u("A") * u("B")
  <2>1. /\ s("A") \in Nat \ {0} /\ s("B") \in Nat \ {0}
        /\ u("A") \in Nat /\ u("B") \in Nat
        /\ x.reserve["A"] \in Nat /\ x.reserve["B"] \in Nat
        /\ s("A") * x.reserve["B"] <= u("A") * s("B")
        /\ s("B") * x.reserve["A"] <= u("B") * s("A")
    BY <1>1, <1>2, <1>3
  <2> QED
    BY <2>1, ProductKept
<1>5. /\ u("A") \in Nat /\ u("B") \in Nat
      /\ u("A") <= y.reserve["A"] /\ u("B") <= y.reserve["B"]
      /\ y.reserve["A"] \in Nat /\ y.reserve["B"] \in Nat
      /\ x.reserve["A"] \in Nat /\ x.reserve["B"] \in Nat
  BY <1>1, <1>2, <1>3
<1>6. u("A") * u("B") <= y.reserve["A"] * y.reserve["B"]
  BY <1>5, MulMono2
<1>7. /\ u("A") * u("B") \in Nat /\ y.reserve["A"] * y.reserve["B"] \in Nat
      /\ x.reserve["A"] * x.reserve["B"] \in Nat
  BY <1>5, MulNat
<1> QED
  BY <1>4, <1>6, <1>7
-----------------------------------------------------------------------------
(***************************************************************************)
(* The blocks at which the loop of an execution stops.  Expiry blocks are  *)
(* multiples of the interval, so that the bounds of the list, which are    *)
(* rounded down to the interval, cut off none of them.                     *)
(***************************************************************************)
OnInterval(b) == \E k \in Nat : b = orderBlockInterval * k

ExpiriesOnInterval == \A e \in expiries : OnInterval(e)

StopsListed(list, n) ==
  \A c \in Block :
    lastVirtualOrderBlock < c /\ c <= n /\ OrdersEndAt(c) => c \in list

\* The last expiry block is a multiple of the interval, less than one interval back.
LEMMA LastExpiryBlockMultiple ==
  ASSUME NEW b \in Nat
  PROVE  \E k \in Nat : /\ LastExpiryBlock(b) = orderBlockInterval * k
                        /\ b < orderBlockInterval * (k + 1)
<1> DEFINE k == b \div orderBlockInterval
           r == b % orderBlockInterval
<1>1. /\ orderBlockInterval \in Nat /\ k \in Nat /\ r \in Nat /\ r < orderBlockInterval
      /\ b = orderBlockInterval * k + r
  BY IntervalAssumption
<1> HIDE DEF k
<1>2. LastExpiryBlock(b) = b - r
  BY DEF LastExpiryBlock
<1> HIDE DEF r
<1>3. orderBlockInterval * k \in Nat
  BY <1>1, MulNat
<1>4. orderBlockInterval * (k + 1) = orderBlockInterval * k + orderBlockInterval
  BY <1>1
<1>5. LastExpiryBlock(b) = orderBlockInterval * k /\ b < orderBlockInterval * (k + 1)
  BY <1>1, <1>2, <1>3, <1>4
<1> QED
  BY <1>1, <1>5

\* A multiple of the interval that is not after a block is not after the last
\* expiry block.
LEMMA MultipleBelow ==
  ASSUME NEW c \in Nat, OnInterval(c), NEW n \in Nat, c <= n
  PROVE  c <= LastExpiryBlock(n)
<1>1. PICK j \in Nat : c = orderBlockInterval * j
  BY DEF OnInterval
<1>2. PICK k \in Nat : /\ LastExpiryBlock(n) = orderBlockInterval * k
                       /\ n < orderBlockInterval * (k + 1)
  BY LastExpiryBlockMultiple
<1>3. orderBlockInterval \in Nat \ {0}
  BY IntervalAssumption
<1>4. j <= k
  <2> SUFFICES ASSUME k + 1 <= j PROVE FALSE
    BY <1>1, <1>2
  <2>1. (k + 1) * orderBlockInterval <= j * orderBlockInterval
    BY <1>3, MulMono
  <2>2. /\ (k + 1) * orderBlockInterval = orderBlockInterval * (k + 1)
        /\ j * orderBlockInterval = c
    BY <1>1, <1>3
  <2>3. (k + 1) * orderBlockInterval \in Nat
    BY <1>3, MulNat
  <2> QED
    BY <1>2, <2>1, <2>2, <2>3
<1>5. j * orderBlockInterval <= k * orderBlockInterval
  BY <1>3, <1>4, MulMono
<1>6. j * orderBlockInterval = c /\ k * orderBlockInterval = LastExpiryBlock(n)
  BY <1>1, <1>2, <1>3
<1> QED
  BY <1>5, <1>6

\* The block at which an order placed at block b ends is a multiple.
LEMMA ExpiryOnInterval ==
  ASSUME NEW b \in Nat, NEW n \in Nat
  PROVE  OnInterval(OrderExpiry(b, n))
<1>1. PICK k \in Nat : LastExpiryBlock(b) = orderBlockInterval * k
  BY LastExpiryBlockMultiple
<1>2. OrderExpiry(b, n) = orderBlockInterval * (n + 1) + orderBlockInterval * k
  BY <1>1 DEF OrderExpiry
<1>3. orderBlockInterval * (n + 1) + orderBlockInterval * k = orderBlockInterval * ((n + 1) + k)
  BY IntervalAssumption
<1>4. (n + 1) + k \in Nat
  OBVIOUS
<1> QED
  BY <1>2, <1>3, <1>4, Zenon DEF OnInterval

\* Every block to come at which orders end is on the list of an execution up
\* to it or past it.
LEMMA ListComplete ==
  ASSUME Bookkeeping, NEW n \in Block, NEW tree \in SUBSET Block,
         expiries \subseteq tree, \A e \in tree : OnInterval(e)
  PROVE  StopsListed(ExpiriesList(tree, lastVirtualOrderBlock, n), n)
<1> SUFFICES ASSUME NEW c \in Block, lastVirtualOrderBlock < c, c <= n, OrdersEndAt(c)
             PROVE  c \in ExpiriesList(tree, lastVirtualOrderBlock, n)
  BY DEF StopsListed
<1>1. c \in tree
  BY DEF Bookkeeping, EveryExpiryScheduled, OrdersEndAt
<1>2. c \in Nat /\ n \in Nat /\ lastVirtualOrderBlock \in Nat
  BY BlockNat DEF Bookkeeping, TypeOK
<1>3. c <= LastExpiryBlock(n)
  BY <1>1, <1>2, MultipleBelow
<1>4. LastExpiryBlock(lastVirtualOrderBlock) <= lastVirtualOrderBlock
      /\ LastExpiryBlock(lastVirtualOrderBlock) \in Nat
  BY <1>2, LastExpiryBlockBelow
<1>5. LastExpiryBlock(lastVirtualOrderBlock) <= c
  BY <1>2, <1>4
<1> QED
  BY <1>1, <1>3, <1>5 DEF ExpiriesList
-----------------------------------------------------------------------------
\* No block at which orders end lies between the block an execution has
\* reached and block b of its loop.
NothingSkipped(x, b, n) ==
  /\ lastVirtualOrderBlock <= x.last
  /\ x.last = lastVirtualOrderBlock \/ x.last <= b
  /\ \A c \in Block : /\ lastVirtualOrderBlock < c /\ c <= b /\ c < n
                      /\ OrdersEndAt(c)
                      => c <= x.last

\* One turn of the loop: it stops at the block, or no orders end there.
LEMMA LoopTurn ==
  ASSUME TypeOK, NEW n \in Block, NEW list \in SUBSET Block, StopsListed(list, n),
         NEW x \in ExecutedBy(n), NEW b \in Nat, NothingSkipped(x, b, n)
  PROVE  \/ /\ ExecuteListed(list, x, b + 1, n) = x
            /\ NothingSkipped(x, b + 1, n)
         \/ /\ ExecuteListed(list, x, b + 1, n)
                 = ExecuteVirtualTradesAndOrderExpiries(x, b + 1)
            /\ b + 1 \in Block /\ x.last < b + 1 /\ b + 1 < n
            /\ \A y : y.last = b + 1 => NothingSkipped(y, b + 1, n)
<1> DEFINE stop == /\ b + 1 \in list
                   /\ \E t \in Token : x.pool[t].salesRateEndingPerBlock[b + 1] > 0
                   /\ b + 1 > x.last
                   /\ b + 1 < n
<1>1. /\ x.last \in Nat /\ n \in Nat /\ lastVirtualOrderBlock \in Nat /\ x.last <= n
      /\ \A c \in Block : c \in Nat
      /\ \A t \in Token : SameOrders(OrderPoolMap[t], x.pool[t])
  <2>1. /\ x.last \in Block /\ x.last <= n
        /\ \A t \in Token : SameOrders(OrderPoolMap[t], x.pool[t])
    BY DEF ExecutedBy, ExecState
  <2>2. lastVirtualOrderBlock \in Nat
    BY BlockNat DEF TypeOK
  <2> QED
    BY <2>1, <2>2, BlockNat
<1>2. /\ lastVirtualOrderBlock <= x.last
      /\ x.last = lastVirtualOrderBlock \/ x.last <= b
      /\ \A c \in Block : lastVirtualOrderBlock < c /\ c <= b /\ c < n /\ OrdersEndAt(c)
                            => c <= x.last
  BY DEF NothingSkipped
<1>3. ExecuteListed(list, x, b + 1, n)
        = IF stop THEN ExecuteVirtualTradesAndOrderExpiries(x, b + 1) ELSE x
  BY DEF ExecuteListed
<1>4. CASE stop
  <2>1. b + 1 \in Block /\ x.last < b + 1 /\ b + 1 < n
    BY <1>1, <1>4
  <2>2. ASSUME NEW y, y.last = b + 1 PROVE NothingSkipped(y, b + 1, n)
    <3>1. lastVirtualOrderBlock <= y.last /\ y.last <= b + 1
      BY <1>1, <1>2, <2>1, <2>2
    <3> QED
      BY <2>2, <3>1 DEF NothingSkipped
  <2> QED
    BY <1>3, <1>4, <2>1, <2>2
<1>5. CASE ~stop
  <2>1. ASSUME NEW c \in Block, lastVirtualOrderBlock < c, c <= b + 1, c < n, OrdersEndAt(c)
        PROVE  c <= x.last
    <3>1. CASE c <= b
      BY <1>2, <2>1, <3>1
    <3>2. CASE c = b + 1
      <4>1. c \in list
        BY <1>1, <2>1 DEF StopsListed
      <4>2. \E t \in Token : x.pool[t].salesRateEndingPerBlock[b + 1] > 0
        BY <1>1, <2>1, <3>2 DEF OrdersEndAt, SameOrders
      <4> QED
        BY <1>1, <1>5, <2>1, <3>2, <4>1, <4>2
    <3>3. c \in Nat /\ c <= b + 1
      BY <1>1, <2>1
    <3> QED
      BY <3>1, <3>2, <3>3
  <2>2. x.last = lastVirtualOrderBlock \/ x.last <= b + 1
    BY <1>1, <1>2
  <2>3. NothingSkipped(x, b + 1, n)
    BY <1>2, <2>1, <2>2 DEF NothingSkipped
  <2> QED
    BY <1>3, <1>5, <2>3
<1> QED
  BY <1>4, <1>5
-----------------------------------------------------------------------------
\* What holds of the state before a turn of the loop, and is kept by each turn,
\* holds before the last step of the execution.
LEMMA LoopReaches ==
  ASSUME TypeOK, NEW tree \in SUBSET Block, NEW n \in Block,
         lastVirtualOrderBlock <= n,
         NEW J \in [Nat -> SUBSET ExecutedBy(n)],
         CurrentExecState \in J[0],
         \A b \in Nat : \A x \in J[b] :
           ExecuteListed(ExpiriesList(tree, lastVirtualOrderBlock, n), x, b + 1, n)
             \in J[b + 1]
  PROVE  \E x \in J[n] :
           ExecuteUntil(tree, n) = ExecuteVirtualTradesAndOrderExpiries(x, n)
<1> DEFINE list == ExpiriesList(tree, lastVirtualOrderBlock, n)
<1>1. n \in Nat
  BY BlockNat
<1>2. CurrentExecState \in ExecutedBy(n)
  OBVIOUS
<1>3. ASSUME NEW x \in ExecutedBy(n), NEW b \in Nat \ {0}
      PROVE  ExecuteListed(list, x, b, n) \in ExecutedBy(n)
  <2>1. list \subseteq Block
    BY DEF ExpiriesList
  <2> HIDE DEF list
  <2>2. CASE b \in list /\ b > x.last /\ b < n
    <3>1. x.last \in Nat
      BY BlockNat DEF ExecutedBy, ExecState
    <3>2. b \in Block /\ x.last <= b /\ b <= n
      BY <1>1, <2>1, <2>2, <3>1
    <3> QED
      BY <2>2, <3>2, ExecuteStep DEF ExecuteListed
  <2>3. CASE ~(b \in list /\ b > x.last /\ b < n)
    BY <2>3 DEF ExecuteListed
  <2> QED
    BY <2>2, <2>3
<1>4. PICK f \in [Nat -> ExecutedBy(n)] :
        /\ f[0] = CurrentExecState
        /\ \A b \in Nat : f[b + 1] = ExecuteListed(list, f[b], b + 1, n)
        /\ ExecuteUntil(tree, n) = ExecuteVirtualTradesAndOrderExpiries(f[n], n)
  BY <1>1, <1>2, <1>3, ExecuteUntilLoop
<1> HIDE DEF list
<1> DEFINE S == {b \in Nat : f[b] \in J[b]}
<1>5. 0 \in S
  BY <1>4
<1>6. \A b \in Nat : b \in S => b + 1 \in S
  BY <1>4 DEF list
<1>7. Nat \subseteq S
  <2> HIDE DEF S
  <2> QED
    BY <1>5, <1>6, NatSetInduction, Zenon
<1> QED
  BY <1>1, <1>4, <1>7
-----------------------------------------------------------------------------
(***************************************************************************)
(* The reward factor q of a pool after an execution that has reached block *)
(* b, against the factor p of the pool before it: factors only grow, and   *)
(* the checkpoints taken on the way lie between the two.                   *)
(***************************************************************************)
Checkpointed(p, q, b) ==
  /\ p.rewardFactor <= q.rewardFactor
  /\ q.rewardFactorAtBlock[b] = q.rewardFactor
  /\ \A c \in Block : q.rewardFactorAtBlock[c] <= q.rewardFactor
  /\ \A c \in Block : c <= lastVirtualOrderBlock =>
       q.rewardFactorAtBlock[c] = p.rewardFactorAtBlock[c]
  /\ \A c \in Block : /\ lastVirtualOrderBlock < c /\ c <= b /\ OrdersEndAt(c)
                      => p.rewardFactor <= q.rewardFactorAtBlock[c]

\* Nothing is traded over no blocks.
LEMMA NoBlocksNoTrade ==
  ASSUME NEW n \in Block, NEW x \in ExecutedBy(n), NEW y,
         NEW in \in [Token -> Nat], NEW out \in [Token -> Nat],
         \A t \in Token : Traded(x, y, in, out, t), y.last = x.last, NEW t \in Token
  PROVE  /\ y.pool[t].rewardFactor = x.pool[t].rewardFactor
         /\ y.reserve[t] = x.reserve[t]
<1>1. ASSUME NEW u \in Token PROVE in[u] = 0
  <2>1. in[u] = (x.pool[u].currentSalesRate * (x.last - x.last)) \div RATE_PRECISION
    BY DEF Traded
  <2>2. x.pool[u].currentSalesRate \in Nat /\ x.last \in Nat
    BY TradeTypes
  <2>3. x.pool[u].currentSalesRate * (x.last - x.last) = 0
    BY <2>2
  <2>4. 0 \div RATE_PRECISION = 0
    BY PoolAssumption
  <2> QED
    BY <2>1, <2>3, <2>4
<1>2. ASSUME NEW u \in Token PROVE out[u] = 0
  <2>1. out[u] = ((x.reserve[u] + in[u]) * in[Other(u)])
                    \div (x.reserve[Other(u)] + in[Other(u)])
    BY DEF Traded, ComputeVirtualOut
  <2>2. /\ x.reserve[u] \in Nat /\ x.reserve[Other(u)] \in Nat \ {0}
        /\ in[u] = 0 /\ in[Other(u)] = 0
    BY <1>1, TradeTypes, TokenOther
  <2>3. (x.reserve[u] + in[u]) * in[Other(u)] = 0
    BY <2>2
  <2>4. 0 \div (x.reserve[Other(u)] + in[Other(u)]) = 0
    BY <2>2
  <2> QED
    BY <2>1, <2>3, <2>4
<1>3. Net(out[Other(t)]) = 0
  <2>1. out[Other(t)] = 0 /\ FEE_BASE \in Nat \ {0} /\ LP_FEE \in Nat
    BY <1>2, TokenOther, OrdersAssumption
  <2>2. 0 * (FEE_BASE - LP_FEE) = 0 /\ 0 \div FEE_BASE = 0
    BY <2>1
  <2> QED
    BY <2>1, <2>2 DEF Net
<1>4. x.pool[t] \in Pool
  BY TradeTypes
<1>5. y.pool[t].rewardFactor = DistributePayment(x.pool[t], Net(out[Other(t)])).rewardFactor
  BY DEF Traded
<1>6. y.pool[t].rewardFactor = x.pool[t].rewardFactor
  BY <1>3, <1>4, <1>5, FactorGrows
<1>7. y.reserve[t] = x.reserve[t]
  <2>1. Fee(out[t]) = 0
    <3>1. out[t] = 0 /\ FEE_BASE \in Nat \ {0} /\ LP_FEE \in Nat
      BY <1>2, OrdersAssumption
    <3>2. 0 * LP_FEE = 0 /\ 0 \div FEE_BASE = 0
      BY <3>1
    <3> QED
      BY <3>1, <3>2 DEF Fee
  <2>2. y.reserve[t] = ((x.reserve[t] + in[t]) - out[t]) + Fee(out[t])
    BY DEF Traded
  <2>3. x.reserve[t] \in Nat
    BY TradeTypes
  <2> QED
    BY <1>1, <1>2, <2>1, <2>2, <2>3
<1> QED
  BY <1>6, <1>7

\* A step keeps the checkpoints in order, if no block at which orders end lies
\* between the blocks it leads from and to.
LEMMA CheckpointStep ==
  ASSUME NEW n \in Block, NEW x \in ExecutedBy(n), NEW y \in ExecutedBy(n),
         NEW in \in [Token -> Nat], NEW out \in [Token -> Nat],
         \A t \in Token : Traded(x, y, in, out, t),
         lastVirtualOrderBlock \in Nat,
         lastVirtualOrderBlock <= x.last, x.last <= y.last,
         \A c \in Block : lastVirtualOrderBlock < c /\ c < y.last /\ OrdersEndAt(c)
                            => c <= x.last,
         NEW t \in Token, OrderPoolMap[t] \in Pool,
         Checkpointed(OrderPoolMap[t], x.pool[t], x.last)
  PROVE  Checkpointed(OrderPoolMap[t], y.pool[t], y.last)
<1> DEFINE o == OrderPoolMap[t]
           p == x.pool[t]
           q == y.pool[t]
           b == y.last
<1>1. /\ p \in Pool /\ p.rewardFactor \in Nat /\ x.last \in Nat
      /\ p.rewardFactorAtBlock \in [Block -> Nat] /\ Net(out[Other(t)]) \in Nat
      /\ o.rewardFactor \in Nat
  BY TradeTypes DEF Pool
<1>2. /\ q.rewardFactor = DistributePayment(p, Net(out[Other(t)])).rewardFactor
      /\ q.rewardFactorAtBlock = [p.rewardFactorAtBlock EXCEPT ![b] = q.rewardFactor]
  BY DEF Traded
<1>3. q.rewardFactor \in Nat /\ p.rewardFactor <= q.rewardFactor
  BY <1>1, <1>2, FactorGrows
<1>4. b = x.last => q.rewardFactor = p.rewardFactor
  BY NoBlocksNoTrade
<1>5. b \in Block /\ b \in Nat /\ \A c \in Block : c \in Nat
  BY BlockNat DEF ExecutedBy, ExecState
<1>6. /\ o.rewardFactor <= p.rewardFactor
      /\ p.rewardFactorAtBlock[x.last] = p.rewardFactor
      /\ \A c \in Block : p.rewardFactorAtBlock[c] <= p.rewardFactor
      /\ \A c \in Block : c <= lastVirtualOrderBlock =>
           p.rewardFactorAtBlock[c] = o.rewardFactorAtBlock[c]
      /\ \A c \in Block : lastVirtualOrderBlock < c /\ c <= x.last /\ OrdersEndAt(c)
                            => o.rewardFactor <= p.rewardFactorAtBlock[c]
  BY DEF Checkpointed
<1>7. /\ q.rewardFactorAtBlock[b] = q.rewardFactor
      /\ \A c \in Block : c # b => q.rewardFactorAtBlock[c] = p.rewardFactorAtBlock[c]
      /\ \A c \in Block : p.rewardFactorAtBlock[c] \in Nat
  BY <1>1, <1>2, <1>5
<1>8. /\ x.last <= b /\ lastVirtualOrderBlock <= x.last
      /\ \A c \in Block : lastVirtualOrderBlock < c /\ c < b /\ OrdersEndAt(c)
                            => c <= x.last
  OBVIOUS
<1> HIDE DEF o, p, q, b
<1>9. \A c \in Block : q.rewardFactorAtBlock[c] <= q.rewardFactor
  <2> TAKE c \in Block
  <2> QED
    BY <1>1, <1>3, <1>6, <1>7
<1>10. ASSUME NEW c \in Block, c <= lastVirtualOrderBlock
       PROVE  q.rewardFactorAtBlock[c] = o.rewardFactorAtBlock[c]
  <2>1. CASE c # b
    BY <1>6, <1>7, <1>10, <2>1
  <2>2. CASE c = b
    <3>1. c = x.last
      BY <1>1, <1>5, <1>8, <1>10, <2>2
    <3> QED
      BY <1>4, <1>6, <1>7, <1>10, <2>2, <3>1
  <2> QED
    BY <2>1, <2>2
<1>11. ASSUME NEW c \in Block, lastVirtualOrderBlock < c, c <= b, OrdersEndAt(c)
       PROVE  o.rewardFactor <= q.rewardFactorAtBlock[c]
  <2>1. CASE c = b
    BY <1>1, <1>3, <1>6, <1>7, <2>1
  <2>2. CASE c # b
    <3>1. c < b
      BY <1>5, <1>11, <2>2
    <3>2. c <= x.last
      BY <1>8, <1>11, <3>1
    <3> QED
      BY <1>6, <1>7, <1>11, <2>2, <3>2
  <2> QED
    BY <2>1, <2>2
<1>12. o.rewardFactor <= q.rewardFactor
  BY <1>1, <1>3, <1>6
<1>13. Checkpointed(o, q, b)
  BY <1>7, <1>9, <1>10, <1>11, <1>12 DEF Checkpointed
<1> QED
  BY <1>13 DEF o, q, b
-----------------------------------------------------------------------------
(***************************************************************************)
(* The inductive invariant of the claims.  Of a pool executed up to block  *)
(* b: the checkpoint of b is today's factor, since nothing was paid after  *)
(* it; no checkpoint is ahead of today's factor; and the factor up to      *)
(* which an order with a stake has sold is not below the one it was        *)
(* entered with.                                                           *)
(***************************************************************************)
PoolClaims(p, b) ==
  /\ p.rewardFactorAtBlock[b] = p.rewardFactor
  /\ \A c \in Block : p.rewardFactorAtBlock[c] <= p.rewardFactor
  /\ \A i \in OrderId : p.salesRate[i] > 0 =>
       p.rewardFactorAtSubmission[i] <= WithdrawFactor(p, i, b)

Claims ==
  /\ Bookkeeping
  /\ ExpiriesOnInterval
  /\ \A t \in Token : PoolClaims(OrderPoolMap[t], lastVirtualOrderBlock)

\* The states of the loop, before its turn for block b + 1.
ClaimsKept(n) ==
  [b \in Nat |->
    {x \in ExecutedBy(n) : x.ok =>
       /\ NothingSkipped(x, b, n)
       /\ reserveMap["A"] * reserveMap["B"] <= x.reserve["A"] * x.reserve["B"]
       /\ \A t \in Token : Checkpointed(OrderPoolMap[t], x.pool[t], x.last)}]

\* One step of an execution in such a state.
LEMMA ClaimsStep ==
  ASSUME Claims, NEW n \in Block, NEW x \in ExecutedBy(n), NEW b \in Block,
         x.last <= b, b <= n, lastVirtualOrderBlock <= x.last,
         \A c \in Block : lastVirtualOrderBlock < c /\ c < b /\ OrdersEndAt(c)
                            => c <= x.last,
         reserveMap["A"] * reserveMap["B"] <= x.reserve["A"] * x.reserve["B"],
         \A t \in Token : Checkpointed(OrderPoolMap[t], x.pool[t], x.last),
         ExecuteVirtualTradesAndOrderExpiries(x, b).ok
  PROVE  LET y == ExecuteVirtualTradesAndOrderExpiries(x, b)
         IN  /\ y \in ExecutedBy(n) /\ y.last = b
             /\ reserveMap["A"] * reserveMap["B"] <= y.reserve["A"] * y.reserve["B"]
             /\ \A t \in Token : Checkpointed(OrderPoolMap[t], y.pool[t], b)
<1> DEFINE y == ExecuteVirtualTradesAndOrderExpiries(x, b)
<1>1. y \in ExecutedBy(n) /\ y.last = b
  BY ExecuteStep
<1>2. \E in, out \in [Token -> Nat] : \A t \in Token : Traded(x, y, in, out, t)
  BY TradeFacts
<1>3. PICK in \in [Token -> Nat], out \in [Token -> Nat] :
        \A t \in Token : Traded(x, y, in, out, t)
  BY <1>2
<1> HIDE DEF y
<1>4. lastVirtualOrderBlock \in Nat /\ \A t \in Token : OrderPoolMap[t] \in Pool
  BY BlockNat DEF Claims, Bookkeeping, TypeOK
<1>5. \A t \in Token : Checkpointed(OrderPoolMap[t], y.pool[t], b)
  BY <1>1, <1>3, <1>4, CheckpointStep
<1>6. reserveMap["A"] * reserveMap["B"] <= y.reserve["A"] * y.reserve["B"]
  <2>1. x.reserve["A"] * x.reserve["B"] <= y.reserve["A"] * y.reserve["B"]
    BY <1>1, <1>3, TradeKeepsProduct
  <2>2. /\ "A" \in Token /\ "B" \in Token
        /\ reserveMap \in [Token -> Nat]
        /\ x.reserve \in [Token -> Nat] /\ y.reserve \in [Token -> Nat]
    BY <1>1 DEF Claims, Bookkeeping, TypeOK, ExecutedBy, ExecState, Token
  <2>3. /\ reserveMap["A"] * reserveMap["B"] \in Nat
        /\ x.reserve["A"] * x.reserve["B"] \in Nat
        /\ y.reserve["A"] * y.reserve["B"] \in Nat
    BY <2>2, MulNat
  <2> QED
    BY <2>1, <2>3
<1> QED
  BY <1>1, <1>5, <1>6 DEF y

\* The checkpoints after a whole execution.
LEMMA ExecutionCheckpoints ==
  ASSUME Claims, NEW n \in Block, n <= block, lastVirtualOrderBlock <= n,
         NEW tree \in SUBSET Block, expiries \subseteq tree,
         \A e \in tree : OnInterval(e),
         ExecuteUntil(tree, n).ok
  PROVE  LET x == ExecuteUntil(tree, n)
         IN  /\ reserveMap["A"] * reserveMap["B"] <= x.reserve["A"] * x.reserve["B"]
             /\ \A t \in Token : Checkpointed(OrderPoolMap[t], x.pool[t], n)
<1> DEFINE list == ExpiriesList(tree, lastVirtualOrderBlock, n)
           J == ClaimsKept(n)
<1>1. /\ TypeOK /\ list \in SUBSET Block /\ StopsListed(list, n)
      /\ lastVirtualOrderBlock \in Nat /\ n \in Nat
      /\ \A c \in Block : c \in Nat
  <2>1. TypeOK /\ Bookkeeping /\ lastVirtualOrderBlock \in Nat
    BY BlockNat DEF Claims, Bookkeeping, TypeOK
  <2>2. StopsListed(list, n)
    BY <2>1, ListComplete
  <2> QED
    BY <2>1, <2>2, BlockNat DEF ExpiriesList
<1> HIDE DEF list
<1>2. J \in [Nat -> SUBSET ExecutedBy(n)]
  BY DEF ClaimsKept
<1>3. CurrentExecState \in J[0]
  <2>1. /\ CurrentExecState.last = lastVirtualOrderBlock
        /\ CurrentExecState.reserve = reserveMap
        /\ CurrentExecState.pool = OrderPoolMap
    BY DEF CurrentExecState
  <2>2. CurrentExecState \in ExecutedBy(n)
    <3>1. lastVirtualOrderBlock \in Block
      BY PoolAssumption DEF Claims, Bookkeeping, TypeOK, Block
    <3>2. CurrentExecState \in ExecState
      BY <1>1, <3>1 DEF TypeOK, CurrentExecState, ExecState
    <3>3. \A t \in Token : reserveMap[t] > 0
      BY <1>1 DEF TypeOK
    <3> QED
      BY <2>1, <3>2, <3>3 DEF ExecutedBy, SameOrders
  <2>3. NothingSkipped(CurrentExecState, 0, n)
    BY <1>1, <2>1 DEF NothingSkipped
  <2>4. \A t \in Token : Checkpointed(OrderPoolMap[t], OrderPoolMap[t], lastVirtualOrderBlock)
    <3> SUFFICES ASSUME NEW t \in Token
                 PROVE  Checkpointed(OrderPoolMap[t], OrderPoolMap[t], lastVirtualOrderBlock)
      OBVIOUS
    <3>1. PoolClaims(OrderPoolMap[t], lastVirtualOrderBlock) /\ OrderPoolMap[t].rewardFactor \in Nat
      BY DEF Claims, Bookkeeping, TypeOK, Pool
    <3> QED
      BY <1>1, <3>1 DEF PoolClaims, Checkpointed
  <2>5. reserveMap["A"] * reserveMap["B"] \in Nat
    BY <1>1, MulNat DEF TypeOK, Token
  <2> QED
    BY <2>1, <2>2, <2>3, <2>4, <2>5 DEF ClaimsKept
<1>4. ASSUME NEW b \in Nat, NEW x \in J[b]
      PROVE  ExecuteListed(list, x, b + 1, n) \in J[b + 1]
  <2> DEFINE y == ExecuteListed(list, x, b + 1, n)
  <2>1. x \in ExecutedBy(n)
    BY DEF ClaimsKept
  <2>2. CASE ~x.ok
    <3>1. y = x \/ y = ExecuteVirtualTradesAndOrderExpiries(x, b + 1)
      BY DEF ExecuteListed
    <3>2. ExecuteVirtualTradesAndOrderExpiries(x, b + 1) = [x EXCEPT !.ok = FALSE]
      BY <2>2 DEF ExecuteVirtualTradesAndOrderExpiries
    <3>3. x \in ExecState
      BY <2>1 DEF ExecutedBy
    <3>4. y \in ExecutedBy(n) /\ ~y.ok
      <4>1. CASE y = x
        BY <2>1, <2>2, <4>1
      <4>2. CASE y = [x EXCEPT !.ok = FALSE]
        <5> HIDE DEF y
        <5>1. y \in ExecState /\ ~y.ok /\ y.last = x.last /\ y.reserve = x.reserve /\ y.pool = x.pool
          BY <3>3, <4>2 DEF ExecState
        <5> QED
          BY <2>1, <5>1 DEF ExecutedBy
      <4> QED
        BY <3>1, <3>2, <4>1, <4>2
    <3> HIDE DEF y
    <3> QED
      BY <3>4 DEF ClaimsKept, y
  <2>3. CASE x.ok
    <3>1. /\ NothingSkipped(x, b, n)
          /\ reserveMap["A"] * reserveMap["B"] <= x.reserve["A"] * x.reserve["B"]
          /\ \A t \in Token : Checkpointed(OrderPoolMap[t], x.pool[t], x.last)
      BY <2>3 DEF ClaimsKept
    <3>2. CASE y = x /\ NothingSkipped(x, b + 1, n)
      <4> HIDE DEF y
      <4> QED
        BY <2>1, <3>1, <3>2 DEF ClaimsKept, y
    <3>3. CASE /\ y = ExecuteVirtualTradesAndOrderExpiries(x, b + 1)
               /\ b + 1 \in Block /\ x.last < b + 1 /\ b + 1 < n
               /\ \A z : z.last = b + 1 => NothingSkipped(z, b + 1, n)
      <4>1. x.last \in Nat /\ lastVirtualOrderBlock <= x.last
        BY <2>1, <3>1, BlockNat DEF ExecutedBy, ExecState, NothingSkipped
      <4>2. \A c \in Block : lastVirtualOrderBlock < c /\ c < b + 1 /\ OrdersEndAt(c)
                               => c <= x.last
        BY <1>1, <3>1, <3>3 DEF NothingSkipped
      <4>3. b + 1 <= n /\ x.last <= b + 1
        BY <1>1, <3>3, <4>1
      <4> HIDE DEF y
      <4>4. CASE y.ok
        <5>1. /\ y \in ExecutedBy(n) /\ y.last = b + 1
              /\ reserveMap["A"] * reserveMap["B"] <= y.reserve["A"] * y.reserve["B"]
              /\ \A t \in Token : Checkpointed(OrderPoolMap[t], y.pool[t], b + 1)
          BY <2>1, <3>1, <3>3, <4>1, <4>2, <4>3, <4>4, ClaimsStep
        <5> QED
          BY <3>3, <5>1 DEF ClaimsKept, y
      <4>5. CASE ~y.ok
        <5>1. y \in ExecutedBy(n)
          BY <2>1, <3>3, <4>3, ExecuteStep
        <5> QED
          BY <4>5, <5>1 DEF ClaimsKept, y
      <4> QED
        BY <4>4, <4>5
    <3> QED
      BY <1>1, <2>1, <3>1, <3>2, <3>3, LoopTurn
  <2> QED
    BY <2>2, <2>3
<1>5. PICK x \in J[n] : ExecuteUntil(tree, n) = ExecuteVirtualTradesAndOrderExpiries(x, n)
  <2> HIDE DEF J
  <2> QED
    BY <1>1, <1>2, <1>3, <1>4, LoopReaches DEF list
<1>6. x \in ExecutedBy(n) /\ x.last \in Nat /\ x.last <= n
  BY <1>1, <1>5, BlockNat DEF ClaimsKept, ExecutedBy, ExecState
<1>7. x.ok
  <2>1. ExecuteVirtualTradesAndOrderExpiries(x, n).ok /\ n <= n
    BY <1>1, <1>5
  <2> QED
    BY <1>6, <2>1, TradeFacts
<1>8. /\ NothingSkipped(x, n, n)
      /\ reserveMap["A"] * reserveMap["B"] <= x.reserve["A"] * x.reserve["B"]
      /\ \A t \in Token : Checkpointed(OrderPoolMap[t], x.pool[t], x.last)
  BY <1>1, <1>5, <1>7 DEF ClaimsKept
<1>9. \A c \in Block : lastVirtualOrderBlock < c /\ c < n /\ OrdersEndAt(c) => c <= x.last
  BY <1>1, <1>8 DEF NothingSkipped
<1> QED
  BY <1>1, <1>5, <1>6, <1>8, <1>9, ClaimsStep DEF NothingSkipped
-----------------------------------------------------------------------------
\* An order with a stake that ends at a block to come is among those the
\* execution stops for.
LEMMA StakeEnds ==
  ASSUME Bookkeeping, NEW t \in Token, NEW i \in OrderId,
         OrderPoolMap[t].salesRate[i] > 0,
         OrderPoolMap[t].orderExpiry[i] > lastVirtualOrderBlock
  PROVE  OrdersEndAt(OrderPoolMap[t].orderExpiry[i])
<1> DEFINE p == OrderPoolMap[t]
           b == p.orderExpiry[i]
<1>1. /\ p \in Pool /\ b \in Block /\ b \in Nat /\ p.salesRate[i] \in Nat
      /\ i \in 0 .. MaxOrders - 1
  <2>1. p \in Pool
    BY DEF Bookkeeping, TypeOK
  <2>2. p.orderExpiry \in [OrderId -> Block] /\ p.salesRate \in [OrderId -> Nat]
    BY <2>1 DEF Pool
  <2> HIDE DEF p
  <2>3. b \in Block /\ p.salesRate[i] \in Nat
    BY <2>2
  <2> QED
    BY <2>1, <2>3, BlockNat DEF OrderId
<1>2. /\ RateTerms(p, b) \in [0 .. MaxOrders - 1 -> Nat]
      /\ RateEndingAt(p, b) = SumUpTo(RateTerms(p, b), MaxOrders)
  BY <1>1, RateTermsType
<1>3. RateTerms(p, b)[i] = p.salesRate[i]
  BY DEF RateTerms
<1>4. p.salesRate[i] <= RateEndingAt(p, b) /\ RateEndingAt(p, b) \in Nat
  <2>1. RateTerms(p, b)[i] <= SumUpTo(RateTerms(p, b), MaxOrders)
    BY <1>1, <1>2, SumAtLeast, PoolAssumption, Zenon
  <2> QED
    BY <1>1, <1>2, <1>3, <2>1, RateTermsType
<1>5. b > lastVirtualOrderBlock /\ p.salesRate[i] > 0
  OBVIOUS
<1> HIDE DEF b
<1>6. p.salesRateEndingPerBlock[b] = RateEndingAt(p, b)
  BY <1>1, <1>5 DEF Bookkeeping, EndingRatesMatchOrders
<1> HIDE DEF p
<1>7. p.salesRateEndingPerBlock[b] > 0
  BY <1>1, <1>4, <1>5, <1>6
<1>8. OrdersEndAt(b)
  BY <1>1, <1>7 DEF OrdersEndAt, p
<1> QED
  BY <1>8 DEF b, p

\* The claims on a pool after an execution up to block n: they are in order,
\* and none is less than before.
LEMMA ExecutionClaims ==
  ASSUME Claims, NEW n \in Block, lastVirtualOrderBlock <= n,
         NEW t \in Token, NEW q \in Pool, SameOrders(OrderPoolMap[t], q),
         Checkpointed(OrderPoolMap[t], q, n)
  PROVE  /\ PoolClaims(q, n)
         /\ \A i \in OrderId : q.salesRate[i] > 0 =>
              WithdrawFactor(OrderPoolMap[t], i, lastVirtualOrderBlock)
                <= WithdrawFactor(q, i, n)
<1> DEFINE p == OrderPoolMap[t]
           l == lastVirtualOrderBlock
<1>1. /\ p \in Pool /\ l \in Nat /\ n \in Nat /\ \A c \in Block : c \in Nat
      /\ PoolClaims(p, l) /\ Bookkeeping
  BY BlockNat DEF Claims, Bookkeeping, TypeOK
<1>2. /\ p.rewardFactor <= q.rewardFactor
      /\ q.rewardFactorAtBlock[n] = q.rewardFactor
      /\ \A c \in Block : q.rewardFactorAtBlock[c] <= q.rewardFactor
      /\ \A c \in Block : c <= l => q.rewardFactorAtBlock[c] = p.rewardFactorAtBlock[c]
      /\ \A c \in Block : l < c /\ c <= n /\ OrdersEndAt(c)
                            => p.rewardFactor <= q.rewardFactorAtBlock[c]
  BY DEF Checkpointed
<1>3. ASSUME NEW i \in OrderId, q.salesRate[i] > 0
      PROVE  /\ WithdrawFactor(p, i, l) <= WithdrawFactor(q, i, n)
             /\ q.rewardFactorAtSubmission[i] <= WithdrawFactor(q, i, n)
  <2> DEFINE e == q.orderExpiry[i]
  <2>1. /\ e = p.orderExpiry[i] /\ p.salesRate[i] > 0
        /\ q.rewardFactorAtSubmission[i] = p.rewardFactorAtSubmission[i]
        /\ e \in Block /\ e \in Nat
    BY <1>1, <1>3 DEF SameOrders, Pool
  <2>2. /\ p.rewardFactorAtSubmission[i] <= WithdrawFactor(p, i, l)
        /\ p.rewardFactorAtSubmission[i] \in Nat
        /\ WithdrawFactor(p, i, l) \in Nat /\ WithdrawFactor(q, i, n) \in Nat
    <3>1. p.rewardFactorAtSubmission[i] <= WithdrawFactor(p, i, l)
      BY <1>1, <2>1 DEF PoolClaims
    <3>2. /\ p.rewardFactorAtBlock \in [Block -> Nat] /\ p.rewardFactor \in Nat
          /\ q.rewardFactorAtBlock \in [Block -> Nat] /\ q.rewardFactor \in Nat
          /\ p.rewardFactorAtSubmission[i] \in Nat
      BY <1>1 DEF Pool
    <3> QED
      BY <2>1, <3>1, <3>2 DEF WithdrawFactor
  <2>3. WithdrawFactor(p, i, l) = IF l >= e THEN p.rewardFactorAtBlock[e] ELSE p.rewardFactor
    BY <2>1 DEF WithdrawFactor
  <2>4. WithdrawFactor(q, i, n) = IF n >= e THEN q.rewardFactorAtBlock[e] ELSE q.rewardFactor
    BY DEF WithdrawFactor
  <2>5. OrdersEndAt(e) \/ e <= l
    BY <1>1, <2>1, StakeEnds
  <2> HIDE DEF e
  <2>6. CASE e <= l
    BY <1>1, <1>2, <2>1, <2>2, <2>3, <2>4, <2>6
  <2>7. CASE l < e /\ e <= n
    <3>1. WithdrawFactor(p, i, l) = p.rewardFactor /\ WithdrawFactor(q, i,
              n) = q.rewardFactorAtBlock[e]
      BY <1>1, <2>1, <2>3, <2>4, <2>7
    <3>2. p.rewardFactor <= q.rewardFactorAtBlock[e]
      BY <1>1, <1>2, <2>1, <2>5, <2>7
    <3> QED
      BY <2>1, <2>2, <3>1, <3>2
  <2>8. CASE n < e
    <3>1. WithdrawFactor(p, i, l) = p.rewardFactor /\ WithdrawFactor(q, i, n) = q.rewardFactor
      BY <1>1, <2>1, <2>3, <2>4, <2>8
    <3> QED
      BY <1>2, <2>1, <2>2, <3>1
  <2> QED
    BY <1>1, <2>1, <2>6, <2>7, <2>8
<1> QED
  BY <1>2, <1>3 DEF PoolClaims

\* All of it for an execution that an action makes.
LEMMA ClaimsExecution ==
  ASSUME Claims, NEW n \in Block, n <= block, lastVirtualOrderBlock <= n,
         NEW tree \in SUBSET Block, expiries \subseteq tree,
         \A e \in tree : OnInterval(e),
         ExecuteUntil(tree, n).ok
  PROVE  LET x == ExecuteUntil(tree, n)
         IN  /\ x.last = n
             /\ reserveMap["A"] * reserveMap["B"] <= x.reserve["A"] * x.reserve["B"]
             /\ x.pool \in [Token -> Pool]
             /\ \A t \in Token : SameOrders(OrderPoolMap[t], x.pool[t])
             /\ \A t \in Token : PoolClaims(x.pool[t], n)
             /\ \A t \in Token, i \in OrderId : x.pool[t].salesRate[i] > 0 =>
                  WithdrawFactor(OrderPoolMap[t], i, lastVirtualOrderBlock)
                    <= WithdrawFactor(x.pool[t], i, n)
<1> DEFINE x == ExecuteUntil(tree, n)
<1>1. /\ reserveMap["A"] * reserveMap["B"] <= x.reserve["A"] * x.reserve["B"]
      /\ \A t \in Token : Checkpointed(OrderPoolMap[t], x.pool[t], n)
  BY ExecutionCheckpoints, ZenonT(60)
<1>2. x \in ExecutedBy(n) /\ x.last = n
  BY ExecuteUntilType DEF Claims, Bookkeeping
<1> HIDE DEF x
<1>3. /\ x.pool \in [Token -> Pool]
      /\ \A t \in Token : SameOrders(OrderPoolMap[t], x.pool[t])
  BY <1>2 DEF ExecutedBy, ExecState
<1>4. \A t \in Token : x.pool[t] \in Pool
  BY <1>3
<1>5. \A t \in Token : /\ PoolClaims(x.pool[t], n)
                      /\ \A i \in OrderId : x.pool[t].salesRate[i] > 0 =>
                           WithdrawFactor(OrderPoolMap[t], i, lastVirtualOrderBlock)
                             <= WithdrawFactor(x.pool[t], i, n)
  BY <1>1, <1>3, <1>4, ExecutionClaims
<1> QED
  BY <1>1, <1>2, <1>3, <1>5 DEF x
-----------------------------------------------------------------------------
\* A new order is entered with today's factor.
LEMMA DepositOrderClaims ==
  ASSUME NEW p \in Pool, NEW id \in OrderId, NEW rate \in Nat, NEW e \in Block,
         NEW b \in Nat, b < e, PoolClaims(p, b)
  PROVE  /\ PoolClaims(DepositOrder(p, id, rate, e), b)
         /\ \A i \in OrderId \ {id} :
              /\ DepositOrder(p, id, rate, e).salesRate[i] = p.salesRate[i]
              /\ DepositOrder(p, id, rate, e).rewardFactorAtSubmission[i]
                   = p.rewardFactorAtSubmission[i]
              /\ WithdrawFactor(DepositOrder(p, id, rate, e), i, b) = WithdrawFactor(p, i, b)
<1> DEFINE q == DepositOrder(p, id, rate, e)
<1>1. /\ q.rewardFactor = p.rewardFactor
      /\ q.rewardFactorAtBlock = p.rewardFactorAtBlock
      /\ q.orderExpiry[id] = e
      /\ q.rewardFactorAtSubmission[id] = p.rewardFactor
      /\ \A i \in OrderId \ {id} :
           /\ q.orderExpiry[i] = p.orderExpiry[i]
           /\ q.salesRate[i] = p.salesRate[i]
           /\ q.rewardFactorAtSubmission[i] = p.rewardFactorAtSubmission[i]
  BY DEF DepositOrder, Pool
<1>2. p.rewardFactor \in Nat /\ e \in Nat
  BY BlockNat DEF Pool
<1> HIDE DEF q
<1>3. \A i \in OrderId \ {id} : WithdrawFactor(q, i, b) = WithdrawFactor(p, i, b)
  BY <1>1 DEF WithdrawFactor
<1>4. WithdrawFactor(q, id, b) = p.rewardFactor
  BY <1>1, <1>2 DEF WithdrawFactor
<1>5. PoolClaims(q, b)
  <2>1. ASSUME NEW i \in OrderId, q.salesRate[i] > 0
        PROVE  q.rewardFactorAtSubmission[i] <= WithdrawFactor(q, i, b)
    <3>1. CASE i = id
      BY <1>1, <1>2, <1>4, <3>1
    <3>2. CASE i # id
      BY <1>1, <1>3, <2>1, <3>2 DEF PoolClaims
    <3> QED
      BY <3>1, <3>2
  <2> QED
    BY <1>1, <2>1 DEF PoolClaims
<1> QED
  BY <1>1, <1>3, <1>5 DEF q

\* A cancellation closes one claim.
LEMMA CancelOrderClaims ==
  ASSUME NEW p \in Pool, NEW id \in OrderId, NEW b \in Nat, PoolClaims(p, b)
  PROVE  /\ PoolClaims(CancelOrder(p, id), b)
         /\ CancelOrder(p, id).salesRate[id] = 0
         /\ \A i \in OrderId \ {id} :
              /\ CancelOrder(p, id).salesRate[i] = p.salesRate[i]
              /\ CancelOrder(p, id).rewardFactorAtSubmission[i]
                   = p.rewardFactorAtSubmission[i]
              /\ WithdrawFactor(CancelOrder(p, id), i, b) = WithdrawFactor(p, i, b)
<1> DEFINE q == CancelOrder(p, id)
<1>1. /\ q.rewardFactor = p.rewardFactor
      /\ q.rewardFactorAtBlock = p.rewardFactorAtBlock
      /\ q.rewardFactorAtSubmission = p.rewardFactorAtSubmission
      /\ q.salesRate[id] = 0
      /\ \A i \in OrderId \ {id} :
           /\ q.orderExpiry[i] = p.orderExpiry[i]
           /\ q.salesRate[i] = p.salesRate[i]
  BY DEF CancelOrder, Pool
<1> HIDE DEF q
<1>2. \A i \in OrderId \ {id} : WithdrawFactor(q, i, b) = WithdrawFactor(p, i, b)
  BY <1>1 DEF WithdrawFactor
<1>3. PoolClaims(q, b)
  BY <1>1, <1>2 DEF PoolClaims
<1> QED
  BY <1>1, <1>2, <1>3 DEF q

\* A withdrawal closes one claim, or starts it again from today's factor.
LEMMA WithdrawProceedsClaims ==
  ASSUME NEW p \in Pool, NEW id \in OrderId, NEW b \in Nat, PoolClaims(p, b)
  PROVE  /\ PoolClaims(WithdrawProceeds(p, id, b), b)
         /\ \/ WithdrawProceeds(p, id, b).salesRate[id] = 0
            \/ /\ WithdrawProceeds(p, id, b).salesRate[id] = p.salesRate[id]
               /\ WithdrawProceeds(p, id, b).rewardFactorAtSubmission[id]
                    = WithdrawFactor(WithdrawProceeds(p, id, b), id, b)
         /\ \A i \in OrderId \ {id} :
              /\ WithdrawProceeds(p, id, b).salesRate[i] = p.salesRate[i]
              /\ WithdrawProceeds(p, id, b).rewardFactorAtSubmission[i]
                   = p.rewardFactorAtSubmission[i]
              /\ WithdrawFactor(WithdrawProceeds(p, id, b), i, b) = WithdrawFactor(p, i, b)
<1> DEFINE q == WithdrawProceeds(p, id, b)
<1>1. /\ q.rewardFactor = p.rewardFactor
      /\ q.rewardFactorAtBlock = p.rewardFactorAtBlock
      /\ q.orderExpiry = p.orderExpiry
      /\ \A i \in OrderId \ {id} :
           /\ q.salesRate[i] = p.salesRate[i]
           /\ q.rewardFactorAtSubmission[i] = p.rewardFactorAtSubmission[i]
      /\ b >= p.orderExpiry[id] => q.salesRate[id] = 0
      /\ ~(b >= p.orderExpiry[id]) => /\ q.salesRate[id] = p.salesRate[id]
                                      /\ q.rewardFactorAtSubmission[id] = p.rewardFactor
  BY DEF WithdrawProceeds, Pool
<1>2. p.rewardFactor \in Nat
  BY DEF Pool
<1> HIDE DEF q
<1>3. \A i \in OrderId : WithdrawFactor(q, i, b) = WithdrawFactor(p, i, b)
  BY <1>1 DEF WithdrawFactor
<1>4. ~(b >= p.orderExpiry[id]) => WithdrawFactor(q, id, b) = p.rewardFactor
  BY <1>1 DEF WithdrawFactor
<1>5. PoolClaims(q, b)
  <2>1. ASSUME NEW i \in OrderId, q.salesRate[i] > 0
        PROVE  q.rewardFactorAtSubmission[i] <= WithdrawFactor(q, i, b)
    <3>1. CASE i = id
      BY <1>1, <1>2, <1>4, <2>1, <3>1
    <3>2. CASE i # id
      BY <1>1, <1>3, <2>1, <3>2 DEF PoolClaims
    <3> QED
      BY <3>1, <3>2
  <2> QED
    BY <1>1, <2>1 DEF PoolClaims
<1> QED
  BY <1>1, <1>3, <1>4, <1>5 DEF q
-----------------------------------------------------------------------------
\* Division by a positive number is monotonic.
LEMMA DivMono ==
  ASSUME NEW a \in Nat, NEW c \in Nat, NEW k \in Nat \ {0}, a <= c
  PROVE  a \div k \in Nat /\ c \div k \in Nat /\ a \div k <= c \div k
OBVIOUS

\* The proceeds grow with the factor they are computed with, and are none
\* without a stake.
LEMMA EarnedGrows ==
  ASSUME NEW p \in Pool, NEW q \in Pool, NEW id \in OrderId,
         NEW f \in Nat, NEW g \in Nat,
         q.salesRate[id] = p.salesRate[id],
         p.salesRate[id] > 0 =>
           /\ q.rewardFactorAtSubmission[id] = p.rewardFactorAtSubmission[id]
           /\ p.rewardFactorAtSubmission[id] <= f /\ f <= g
  PROVE  /\ Earned(p, id, f) \in Nat
         /\ Earned(q, id, g) \in Nat
         /\ Earned(p, id, f) <= Earned(q, id, g)
<1> DEFINE r == p.salesRate[id]
           s == p.rewardFactorAtSubmission[id]
           u == q.rewardFactorAtSubmission[id]
<1>1. r \in Nat /\ s \in Nat /\ u \in Nat /\ RATE_PRECISION \in Nat \ {0} /\ SCALE \in Nat \ {0}
  BY PoolAssumption DEF Pool
<1>3. /\ Earned(p, id, f) = (((f - s) * r) \div RATE_PRECISION) \div SCALE
      /\ Earned(q, id, g) = (((g - u) * r) \div RATE_PRECISION) \div SCALE
  BY DEF Earned
<1>4. /\ (f - s) * r \in Nat /\ (g - u) * r \in Nat
      /\ (f - s) * r <= (g - u) * r
  <2>1. r > 0 => u = s /\ s <= f /\ f <= g
    OBVIOUS
  <2> HIDE DEF r, s, u
  <2>2. CASE r = 0
    BY <1>1, <2>2
  <2>3. CASE r > 0
    <3>1. f - s \in Nat /\ g - u \in Nat /\ f - s <= g - u
      BY <1>1, <2>1, <2>3
    <3> QED
      BY <1>1, <3>1, MulNat, MulMono
  <2> QED
    BY <1>1, <2>2, <2>3
<1> HIDE DEF r, s, u
<1> DEFINE a == ((f - s) * r) \div RATE_PRECISION
           c == ((g - u) * r) \div RATE_PRECISION
<1>5. a \in Nat /\ c \in Nat /\ a <= c
  BY <1>1, <1>4, DivMono, Zenon
<1> HIDE DEF a, c
<1>6. a \div SCALE \in Nat /\ c \div SCALE \in Nat /\ a \div SCALE <= c \div SCALE
  BY <1>1, <1>5, DivMono, Zenon
<1> QED
  BY <1>3, <1>6, Zenon DEF a, c
-----------------------------------------------------------------------------
\* An order that is not settled in a step has not received less after it, if
\* its stake is as before and its claim has not shrunk.
LEMMA OthersReceive ==
  ASSUME Claims, NEW id \in 0 .. orderId - 1, NEW t \in Token,
         orderMap[id].sellTokenId = t, orderMap'[id].sellTokenId = t,
         orderMap'[id].buyAmount = orderMap[id].buyAmount,
         NEW q \in Pool, OrderPoolMap'[t] = q,
         q.salesRate[id] = OrderPoolMap[t].salesRate[id],
         q.salesRate[id] > 0 =>
           /\ q.rewardFactorAtSubmission[id] = OrderPoolMap[t].rewardFactorAtSubmission[id]
           /\ WithdrawFactor(OrderPoolMap[t], id, lastVirtualOrderBlock)
                <= WithdrawFactor(q, id, lastVirtualOrderBlock')
  PROVE  Received(id)' >= Received(id)
<1> DEFINE p == OrderPoolMap[t]
           f == WithdrawFactor(p, id, lastVirtualOrderBlock)
           g == WithdrawFactor(q, id, lastVirtualOrderBlock')
<1>1. /\ id \in OrderId /\ p \in Pool /\ orderMap[id].buyAmount \in Nat
      /\ PoolClaims(p, lastVirtualOrderBlock)
  BY PoolAssumption DEF Claims, Bookkeeping, TypeOK, OrderId, Order
<1>2. f \in Nat /\ g \in Nat
  BY <1>1 DEF WithdrawFactor, Pool
<1>3. ClaimFactor(p, id) = f /\ ClaimFactor(q, id)' = g
  BY DEF ClaimFactor, WithdrawFactor
<1>4. p.salesRate[id] > 0 => p.rewardFactorAtSubmission[id] <= f
  BY <1>1 DEF PoolClaims
<1>5. /\ Received(id) = orderMap[id].buyAmount + Earned(p, id, f)
      /\ Received(id)' = orderMap[id].buyAmount + Earned(q, id, g)
  BY <1>3 DEF Received
<1> HIDE DEF p, f, g
<1>6. /\ Earned(p, id, f) \in Nat /\ Earned(q, id, g) \in Nat
      /\ Earned(p, id, f) <= Earned(q, id, g)
  <2>1. /\ q.salesRate[id] = p.salesRate[id]
        /\ p.salesRate[id] > 0 =>
             /\ q.rewardFactorAtSubmission[id] = p.rewardFactorAtSubmission[id]
             /\ p.rewardFactorAtSubmission[id] <= f /\ f <= g
    BY <1>4 DEF p, f, g
  <2> QED
    BY <1>1, <1>2, <2>1, EarnedGrows
<1> QED
  BY <1>1, <1>5, <1>6
\* An order that is settled has been paid its claim, p being its pool after the
\* execution, before the order's own operation leaves the pool as q.
LEMMA OwnerReceives ==
  ASSUME Claims, NEW id \in 0 .. orderId - 1, NEW t \in Token,
         orderMap[id].sellTokenId = t, orderMap'[id].sellTokenId = t,
         NEW p \in Pool, p.salesRate[id] = OrderPoolMap[t].salesRate[id],
         p.salesRate[id] > 0 =>
           /\ p.rewardFactorAtSubmission[id] = OrderPoolMap[t].rewardFactorAtSubmission[id]
           /\ WithdrawFactor(OrderPoolMap[t], id, lastVirtualOrderBlock)
                <= WithdrawFactor(p, id, lastVirtualOrderBlock'),
         orderMap'[id].buyAmount = orderMap[id].buyAmount
            + Earned(p, id, WithdrawFactor(p, id, lastVirtualOrderBlock')),
         NEW q \in Pool, OrderPoolMap'[t] = q,
         q.salesRate[id] > 0 =>
           q.rewardFactorAtSubmission[id] = WithdrawFactor(q, id, lastVirtualOrderBlock')
  PROVE  Received(id)' >= Received(id)
<1> DEFINE o == OrderPoolMap[t]
           f == WithdrawFactor(o, id, lastVirtualOrderBlock)
           g == WithdrawFactor(p, id, lastVirtualOrderBlock')
           h == WithdrawFactor(q, id, lastVirtualOrderBlock')
<1>1. /\ id \in OrderId /\ o \in Pool /\ orderMap[id].buyAmount \in Nat
      /\ PoolClaims(o, lastVirtualOrderBlock)
  BY PoolAssumption DEF Claims, Bookkeeping, TypeOK, OrderId, Order
<1>2. f \in Nat /\ g \in Nat /\ h \in Nat
  BY <1>1 DEF WithdrawFactor, Pool
<1>3. ClaimFactor(o, id) = f /\ ClaimFactor(q, id)' = h
  BY DEF ClaimFactor, WithdrawFactor
<1>4. o.salesRate[id] > 0 => o.rewardFactorAtSubmission[id] <= f
  BY <1>1 DEF PoolClaims
<1>5. /\ Received(id) = orderMap[id].buyAmount + Earned(o, id, f)
      /\ Received(id)' = orderMap'[id].buyAmount + Earned(q, id, h)
  BY <1>3 DEF Received
<1>6. orderMap'[id].buyAmount = orderMap[id].buyAmount + Earned(p, id, g)
  OBVIOUS
<1>7. /\ Earned(o, id, f) \in Nat /\ Earned(p, id, g) \in Nat
      /\ Earned(o, id, f) <= Earned(p, id, g)
  <2>1. /\ p.salesRate[id] = o.salesRate[id]
        /\ o.salesRate[id] > 0 =>
             /\ p.rewardFactorAtSubmission[id] = o.rewardFactorAtSubmission[id]
             /\ o.rewardFactorAtSubmission[id] <= f /\ f <= g
    BY <1>4
  <2> HIDE DEF o, f, g
  <2> QED
    BY <1>1, <1>2, <2>1, EarnedGrows
<1>8. Earned(q, id, h) \in Nat
  <2>1. q.salesRate[id] > 0 => q.rewardFactorAtSubmission[id] <= h /\ h <= h
    BY <1>2
  <2> HIDE DEF h
  <2> QED
    BY <1>1, <1>2, <2>1, EarnedGrows
<1> HIDE DEF o, f, g, h
<1> QED
  BY <1>1, <1>5, <1>6, <1>7, <1>8
-----------------------------------------------------------------------------
(***************************************************************************)
(* The actions.  A step keeps the claims in order, does not lower the      *)
(* product of the reserves and takes nothing from what an order received.  *)
(***************************************************************************)
FairStep ==
  /\ Claims'
  /\ reserveMap'["A"] * reserveMap'["B"] >= reserveMap["A"] * reserveMap["B"]
  /\ \A id \in 0 .. orderId - 1 : Received(id)' >= Received(id)

\* A pair that has executed nothing has no claims.
LEMMA UnusedClaims == Unused => Claims
<1> SUFFICES ASSUME Unused PROVE Claims
  OBVIOUS
<1>1. Bookkeeping
  BY UnusedBookkeeping
<1>2. ExpiriesOnInterval
  <2>1. DeployBlock \in Nat
    BY OrdersAssumption, BlockNat
  <2>2. OnInterval(LastExpiryBlock(DeployBlock))
    BY <2>1, LastExpiryBlockMultiple DEF OnInterval
  <2> QED
    BY <2>2 DEF Unused, ExpiriesOnInterval
<1>3. \A t \in Token : PoolClaims(OrderPoolMap[t], lastVirtualOrderBlock)
  <2>1. \A t \in Token : OrderPoolMap[t] = EmptyPool
    BY DEF Unused
  <2>2. lastVirtualOrderBlock \in Block
    BY OrdersAssumption DEF Unused
  <2>3. PoolClaims(EmptyPool, lastVirtualOrderBlock)
    BY <2>2 DEF EmptyPool, PoolClaims
  <2> QED
    BY <2>1, <2>3
<1> QED
  BY <1>1, <1>2, <1>3 DEF Claims

\* A step that leaves the orders and the pools alone (a new block, a stutter).
LEMMA QuietClaims ==
  ASSUME Claims, Bookkeeping',
         UNCHANGED <<lastVirtualOrderBlock, OrderPoolMap, expiries, orderMap, reserveMap>>
  PROVE  FairStep
<1>1. Claims'
  BY DEF Claims, ExpiriesOnInterval
<1>2. reserveMap'["A"] * reserveMap'["B"] >= reserveMap["A"] * reserveMap["B"]
  <2>1. reserveMap["A"] \in Nat /\ reserveMap["B"] \in Nat
    BY DEF Claims, Bookkeeping, TypeOK, Token
  <2>2. reserveMap["A"] * reserveMap["B"] \in Nat
    BY <2>1, MulNat
  <2> QED
    BY <2>2
<1>3. ASSUME NEW id \in 0 .. orderId - 1 PROVE Received(id)' >= Received(id)
  <2> DEFINE t == orderMap[id].sellTokenId
             p == OrderPoolMap[t]
  <2>1. id \in OrderId /\ t \in Token /\ p \in Pool
    BY PoolAssumption DEF Claims, Bookkeeping, TypeOK, Order, OrderId
  <2>2. WithdrawFactor(p, id, lastVirtualOrderBlock) \in Nat
    BY <2>1 DEF WithdrawFactor, Pool
  <2>3. WithdrawFactor(p, id, lastVirtualOrderBlock)
          <= WithdrawFactor(p, id, lastVirtualOrderBlock')
    BY <2>2
  <2>4. OrderPoolMap'[t] = p /\ orderMap' = orderMap
    OBVIOUS
  <2> HIDE DEF p
  <2> QED
    BY <2>1, <2>3, <2>4, OthersReceive DEF p
<1> QED
  BY <1>1, <1>2, <1>3 DEF FairStep

\* executeVirtualOrders.
LEMMA ExecuteClaims ==
  ASSUME Claims, NEW n \in Block, ExecuteVirtualOrders(n) PROVE FairStep
<1> DEFINE x == ExecuteUntil(expiries, n)
<1>1. /\ x.ok /\ n <= block /\ lastVirtualOrderBlock <= n
      /\ lastVirtualOrderBlock' = x.last /\ reserveMap' = x.reserve
      /\ OrderPoolMap' = x.pool
      /\ expiries' = TrimTree(expiries, lastVirtualOrderBlock, n)
      /\ orderMap' = orderMap
  BY BlockNat DEF ExecuteVirtualOrders, Commit, Claims, Bookkeeping, TypeOK
<1>2. /\ expiries \in SUBSET Block /\ expiries \subseteq expiries
      /\ \A e \in expiries : OnInterval(e)
  BY DEF Claims, Bookkeeping, TypeOK, ExpiriesOnInterval
<1>3. /\ x.last = n
      /\ reserveMap["A"] * reserveMap["B"] <= x.reserve["A"] * x.reserve["B"]
      /\ x.pool \in [Token -> Pool]
      /\ \A t \in Token : SameOrders(OrderPoolMap[t], x.pool[t])
      /\ \A t \in Token : PoolClaims(x.pool[t], n)
      /\ \A t \in Token, i \in OrderId : x.pool[t].salesRate[i] > 0 =>
           WithdrawFactor(OrderPoolMap[t], i, lastVirtualOrderBlock)
             <= WithdrawFactor(x.pool[t], i, n)
  BY <1>1, <1>2, ClaimsExecution, ZenonT(60)
<1> HIDE DEF x
<1>4. Claims'
  <2>1. Bookkeeping'
    BY ExecuteBookkeeping DEF Claims
  <2>2. expiries' \subseteq expiries
    BY <1>1 DEF TrimTree
  <2> QED
    BY <1>1, <1>2, <1>3, <2>1, <2>2 DEF Claims, ExpiriesOnInterval
<1>5. ASSUME NEW id \in 0 .. orderId - 1 PROVE Received(id)' >= Received(id)
  <2> DEFINE t == orderMap[id].sellTokenId
  <2>1. id \in OrderId /\ t \in Token
    BY PoolAssumption DEF Claims, Bookkeeping, TypeOK, Order, OrderId
  <2>2. /\ x.pool[t] \in Pool /\ OrderPoolMap'[t] = x.pool[t]
        /\ x.pool[t].salesRate[id] = OrderPoolMap[t].salesRate[id]
        /\ x.pool[t].rewardFactorAtSubmission[id] = OrderPoolMap[t].rewardFactorAtSubmission[id]
    BY <1>1, <1>3, <2>1 DEF SameOrders
  <2> QED
    BY <1>1, <1>3, <2>1, <2>2, OthersReceive
<1> QED
  BY <1>1, <1>3, <1>4, <1>5 DEF FairStep

\* performLongTermSwap.
LEMMA PlaceClaims ==
  ASSUME Claims,
         NEW from \in Token, NEW sender \in Account, NEW amount \in Amount,
         NEW n \in BlockIntervals, PerformLongTermSwap(from, sender, amount, n)
  PROVE  FairStep
<1> DEFINE expiry == OrderExpiry(block, n)
           rate   == (amount * RATE_PRECISION) \div (expiry - block)
           tree   == expiries \cup {expiry}
           x      == ExecuteUntil(tree, block)
           pool   == DepositOrder(x.pool[from], orderId, rate, expiry)
           placed == [submitBlock |-> block,
                      expirationBlock |-> expiry,
                      saleRate |-> rate,
                      sellAmount |-> 0,
                      buyAmount |-> 0,
                      owner |-> sender,
                      sellTokenId |-> from,
                      buyTokenId |-> Other(from)]
<1>1. /\ block \in Block /\ block \in Nat /\ lastVirtualOrderBlock <= block /\ block <= block
      /\ orderId \in Nat /\ orderId \in OrderId /\ amount \in Nat /\ n \in Nat
      /\ expiries \in SUBSET Block /\ \A e \in expiries : OnInterval(e)
  <2>1. /\ block \in Block /\ lastVirtualOrderBlock \in 0 .. block /\ orderId \in 0 .. MaxOrders
        /\ expiries \subseteq Block /\ ExpiriesOnInterval
    BY DEF Claims, Bookkeeping, TypeOK
  <2>2. orderId < MaxOrders
    BY DEF PerformLongTermSwap
  <2> QED
    BY <2>1, <2>2, BlockNat, OrdersAssumption, PoolAssumption DEF OrderId, ExpiriesOnInterval
<1>2. expiry \in Nat /\ expiry > block /\ expiry \in Block /\ OnInterval(expiry)
  <2>1. expiry \in Nat /\ expiry > block /\ OnInterval(expiry)
    BY <1>1, ExpiryAhead, ExpiryOnInterval
  <2>2. expiry < MaxBlock
    BY DEF PerformLongTermSwap
  <2> QED
    BY <2>1, <2>2, PoolAssumption DEF Block
<1>3. /\ x.ok /\ lastVirtualOrderBlock' = x.last /\ reserveMap' = x.reserve
      /\ OrderPoolMap' = [x.pool EXCEPT ![from] = pool]
      /\ expiries' = TrimTree(tree, lastVirtualOrderBlock, block)
      /\ orderMap' = [i \in 0 .. orderId |->
                        IF i < orderId THEN orderMap[i] ELSE placed]
  BY DEF PerformLongTermSwap, Commit
<1>4. rate \in Nat
  <2> HIDE DEF expiry
  <2>1. expiry - block \in Nat \ {0}
    BY <1>1, <1>2
  <2>2. amount * RATE_PRECISION \in Nat
    BY <1>1, MulNat, PoolAssumption
  <2> QED
    BY <2>1, <2>2, DivNat
<1> HIDE DEF expiry, rate, placed
<1>5. /\ tree \in SUBSET Block /\ expiries \subseteq tree
      /\ \A e \in tree : OnInterval(e)
  BY <1>1, <1>2
<1> HIDE DEF tree
<1>6. /\ x.last = block
      /\ reserveMap["A"] * reserveMap["B"] <= x.reserve["A"] * x.reserve["B"]
      /\ x.pool \in [Token -> Pool]
      /\ \A t \in Token : SameOrders(OrderPoolMap[t], x.pool[t])
      /\ \A t \in Token : PoolClaims(x.pool[t], block)
      /\ \A t \in Token, i \in OrderId : x.pool[t].salesRate[i] > 0 =>
           WithdrawFactor(OrderPoolMap[t], i, lastVirtualOrderBlock)
             <= WithdrawFactor(x.pool[t], i, block)
  BY <1>1, <1>3, <1>5, ClaimsExecution, ZenonT(60)
<1> HIDE DEF x
<1>7. x.pool[from] \in Pool /\ PoolClaims(x.pool[from], block)
  BY <1>6
<1>8. /\ PoolClaims(pool, block)
      /\ \A i \in OrderId \ {orderId} :
           /\ pool.salesRate[i] = x.pool[from].salesRate[i]
           /\ pool.rewardFactorAtSubmission[i] = x.pool[from].rewardFactorAtSubmission[i]
           /\ WithdrawFactor(pool, i, block) = WithdrawFactor(x.pool[from], i, block)
  <2>1. block < expiry
    BY <1>1, <1>2
  <2> QED
    BY <1>1, <1>2, <1>4, <1>7, <2>1, DepositOrderClaims, SMTT(30)
<1>9. pool \in Pool
  BY <1>1, <1>2, <1>4, <1>7, DepositOrderType
<1> HIDE DEF pool
<1>10. /\ OrderPoolMap'[from] = pool
       /\ \A t \in Token : t # from => OrderPoolMap'[t] = x.pool[t]
  BY <1>3, <1>6
<1>11. Claims'
  <2>1. Bookkeeping'
    BY PlaceBookkeeping DEF Claims
  <2>2. ExpiriesOnInterval'
    <3>1. expiries' \subseteq tree
      BY <1>3 DEF TrimTree
    <3> QED
      BY <1>5, <3>1 DEF ExpiriesOnInterval
  <2> QED
    BY <1>3, <1>6, <1>8, <1>10, <2>1, <2>2 DEF Claims
<1>12. ASSUME NEW id \in 0 .. orderId - 1 PROVE Received(id)' >= Received(id)
  <2> DEFINE t == orderMap[id].sellTokenId
             q == OrderPoolMap'[t]
  <2>1. id \in OrderId /\ id # orderId /\ t \in Token /\ orderMap'[id] = orderMap[id]
    <3>1. orderMap \in [0 .. orderId - 1 -> Order]
      BY DEF Claims, Bookkeeping, TypeOK
    <3>2. orderMap[id] \in Order
      BY <3>1
    <3>3. id \in 0 .. orderId /\ id < orderId /\ id \in OrderId /\ id # orderId
      BY <1>1, PoolAssumption DEF OrderId
    <3>4. t \in Token
      BY <3>2 DEF Order
    <3>5. orderMap'[id] = orderMap[id]
      BY <1>3, <3>3
    <3> QED
      BY <3>3, <3>4, <3>5
  <2>2. /\ x.pool[t].salesRate[id] = OrderPoolMap[t].salesRate[id]
        /\ x.pool[t].rewardFactorAtSubmission[id] = OrderPoolMap[t].rewardFactorAtSubmission[id]
        /\ x.pool[t] \in Pool
    BY <1>6, <2>1 DEF SameOrders
  <2>3. /\ q \in Pool
        /\ q.salesRate[id] = x.pool[t].salesRate[id]
        /\ q.rewardFactorAtSubmission[id] = x.pool[t].rewardFactorAtSubmission[id]
        /\ WithdrawFactor(q, id, block) = WithdrawFactor(x.pool[t], id, block)
    <3>1. CASE t = from
      BY <1>8, <1>9, <1>10, <2>1, <3>1
    <3>2. CASE t # from
      BY <1>10, <2>1, <2>2, <3>2
    <3> QED
      BY <3>1, <3>2
  <2>4. x.pool[t].salesRate[id] > 0 =>
          WithdrawFactor(OrderPoolMap[t], id, lastVirtualOrderBlock)
            <= WithdrawFactor(x.pool[t], id, block)
    BY <1>6, <2>1
  <2>5. lastVirtualOrderBlock' = block
    BY <1>3, <1>6
  <2>6. /\ q.salesRate[id] = OrderPoolMap[t].salesRate[id]
        /\ q.salesRate[id] > 0 =>
             /\ q.rewardFactorAtSubmission[id] = OrderPoolMap[t].rewardFactorAtSubmission[id]
             /\ WithdrawFactor(OrderPoolMap[t], id, lastVirtualOrderBlock)
                  <= WithdrawFactor(q, id, lastVirtualOrderBlock')
    BY <2>2, <2>3, <2>4, <2>5
  <2>7. orderMap'[id].sellTokenId = t /\ orderMap'[id].buyAmount = orderMap[id].buyAmount
    BY <2>1
  <2>8. q \in Pool /\ OrderPoolMap'[t] = q
    BY <2>3
  <2>9. orderMap[id].sellTokenId = t /\ t \in Token
    BY <2>1
  <2> HIDE DEF q, t
  <2> QED
    BY <2>6, <2>7, <2>8, <2>9, OthersReceive
<1> QED
  BY <1>3, <1>6, <1>11, <1>12 DEF FairStep

(***************************************************************************)
(* The step of the owner of order id, after an execution that ended in x:  *)
(* the order's pool, of token sell, is left as q, and the order is paid    *)
(* the claim it then had.                                                  *)
(***************************************************************************)
Executed(x) ==
  /\ lastVirtualOrderBlock' = block /\ reserveMap' = x.reserve
  /\ reserveMap["A"] * reserveMap["B"] <= x.reserve["A"] * x.reserve["B"]
  /\ x.pool \in [Token -> Pool]
  /\ \A t \in Token : SameOrders(OrderPoolMap[t], x.pool[t])
  /\ \A t \in Token : PoolClaims(x.pool[t], block)
  /\ \A t \in Token, i \in OrderId : x.pool[t].salesRate[i] > 0 =>
       WithdrawFactor(OrderPoolMap[t], i, lastVirtualOrderBlock)
         <= WithdrawFactor(x.pool[t], i, block)

OwnOrder(x, q, sell, id) ==
  /\ PoolClaims(q, block)
  /\ \A i \in OrderId \ {id} :
       /\ q.salesRate[i] = x.pool[sell].salesRate[i]
       /\ q.rewardFactorAtSubmission[i] = x.pool[sell].rewardFactorAtSubmission[i]
       /\ WithdrawFactor(q, i, block) = WithdrawFactor(x.pool[sell], i, block)
  /\ q.salesRate[id] > 0 =>
       q.rewardFactorAtSubmission[id] = WithdrawFactor(q, id, block)
  /\ OrderPoolMap' = [x.pool EXCEPT ![sell] = q]
  /\ expiries' \subseteq expiries

\* What an owner's call (a cancellation or a withdrawal of proceeds) does to its own
\* order after the execution leaves the claims in order and takes no proceeds away.
LEMMA OwnerStep ==
  ASSUME Claims, Bookkeeping', NEW id \in 0 .. orderId - 1,
         NEW sell \in Token, orderMap[id].sellTokenId = sell,
         NEW soldTo \in Nat, orderMap[id].submitBlock <= soldTo,
         NEW x, NEW q \in Pool, Executed(x), OwnOrder(x, q, sell, id),
         Earned(x.pool[sell], id, WithdrawFactor(x.pool[sell], id, block)) \in Nat,
         orderMap' = [orderMap EXCEPT ![id] = Settle(@, soldTo,
            Earned(x.pool[sell], id, WithdrawFactor(x.pool[sell], id, block)))]
  PROVE  FairStep
<1> USE DEF Executed, OwnOrder
<1> DEFINE paid    == Earned(x.pool[sell], id, WithdrawFactor(x.pool[sell], id, block))
           settled == Settle(orderMap[id], soldTo, paid)
<1>1. /\ orderMap \in [0 .. orderId - 1 -> Order] /\ orderMap[id] \in Order
      /\ \A i \in 0 .. orderId - 1 : i \in OrderId /\ orderMap[i] \in Order
                                     /\ orderMap[i].sellTokenId \in Token
  <2>1. orderMap \in [0 .. orderId - 1 -> Order] /\ orderId \in 0 .. MaxOrders
    BY DEF Claims, Bookkeeping, TypeOK
  <2>2. \A i \in 0 .. orderId - 1 : orderMap[i] \in Order
    BY <2>1
  <2>3. \A i \in 0 .. orderId - 1 : i \in OrderId
    BY <2>1, PoolAssumption DEF OrderId
  <2>4. \A o \in Order : o.sellTokenId \in Token
    BY DEF Order
  <2> QED
    BY <2>1, <2>2, <2>3, <2>4
<1>2. /\ settled.sellTokenId = sell
      /\ settled.buyAmount = orderMap[id].buyAmount + paid
  BY <1>1 DEF Settle, Order
<1>3. orderMap' = [orderMap EXCEPT ![id] = settled]
  OBVIOUS
<1> HIDE DEF settled, paid
<1>4. /\ OrderPoolMap'[sell] = q
      /\ \A t \in Token : t # sell => OrderPoolMap'[t] = x.pool[t]
  OBVIOUS
<1>5. Claims'
  <2>1. ExpiriesOnInterval'
    BY DEF Claims, ExpiriesOnInterval
  <2>2. \A t \in Token : PoolClaims(OrderPoolMap'[t], block)
    BY <1>4
  <2> QED
    BY <2>1, <2>2 DEF Claims
<1>6. \A t \in Token : /\ x.pool[t] \in Pool
                      /\ x.pool[t].salesRate = OrderPoolMap[t].salesRate
                      /\ x.pool[t].rewardFactorAtSubmission = OrderPoolMap[t].rewardFactorAtSubmission
  BY DEF SameOrders
<1>7. Received(id)' >= Received(id)
  <2> DEFINE p == x.pool[sell]
  <2>1. /\ p \in Pool /\ p.salesRate[id] = OrderPoolMap[sell].salesRate[id]
        /\ p.rewardFactorAtSubmission[id] = OrderPoolMap[sell].rewardFactorAtSubmission[id]
    BY <1>6
  <2>2. p.salesRate[id] > 0 =>
          WithdrawFactor(OrderPoolMap[sell], id, lastVirtualOrderBlock)
            <= WithdrawFactor(p, id, lastVirtualOrderBlock')
    BY <1>1
  <2>3. /\ orderMap'[id].sellTokenId = sell
        /\ orderMap'[id].buyAmount = orderMap[id].buyAmount + paid
    BY <1>1, <1>2, <1>3
  <2>4. paid = Earned(p, id, WithdrawFactor(p, id, lastVirtualOrderBlock'))
    BY DEF paid
  <2>5. OrderPoolMap'[sell] = q /\ (q.salesRate[id] > 0 =>
          q.rewardFactorAtSubmission[id] = WithdrawFactor(q, id, lastVirtualOrderBlock'))
    BY <1>4
  <2> HIDE DEF p
  <2> QED
    BY <2>1, <2>2, <2>3, <2>4, <2>5, OwnerReceives
<1>8. ASSUME NEW i \in 0 .. orderId - 1, i # id PROVE Received(i)' >= Received(i)
  <2> DEFINE t == orderMap[i].sellTokenId
             r == OrderPoolMap'[t]
  <2>1. i \in OrderId /\ t \in Token /\ orderMap'[i] = orderMap[i]
    BY <1>1, <1>3, <1>8
  <2>2. /\ x.pool[t] \in Pool
        /\ x.pool[t].salesRate[i] = OrderPoolMap[t].salesRate[i]
        /\ x.pool[t].rewardFactorAtSubmission[i] = OrderPoolMap[t].rewardFactorAtSubmission[i]
    BY <1>6, <2>1
  <2>3. /\ r \in Pool
        /\ r.salesRate[i] = x.pool[t].salesRate[i]
        /\ r.rewardFactorAtSubmission[i] = x.pool[t].rewardFactorAtSubmission[i]
        /\ WithdrawFactor(r, i, block) = WithdrawFactor(x.pool[t], i, block)
    <3>1. CASE t = sell
      BY <1>4, <1>8, <2>1, <3>1
    <3>2. CASE t # sell
      BY <1>4, <2>1, <2>2, <3>2
    <3> QED
      BY <3>1, <3>2
  <2>4. x.pool[t].salesRate[i] > 0 =>
          WithdrawFactor(OrderPoolMap[t], i, lastVirtualOrderBlock)
            <= WithdrawFactor(x.pool[t], i, block)
    BY <2>1
  <2>5. /\ r.salesRate[i] = OrderPoolMap[t].salesRate[i]
        /\ r.salesRate[i] > 0 =>
             /\ r.rewardFactorAtSubmission[i] = OrderPoolMap[t].rewardFactorAtSubmission[i]
             /\ WithdrawFactor(OrderPoolMap[t], i, lastVirtualOrderBlock)
                  <= WithdrawFactor(r, i, lastVirtualOrderBlock')
    BY <2>2, <2>3, <2>4
  <2>6. /\ orderMap[i].sellTokenId = t /\ t \in Token /\ r \in Pool /\ OrderPoolMap'[t] = r
        /\ orderMap'[i].sellTokenId = t /\ orderMap'[i].buyAmount = orderMap[i].buyAmount
    BY <2>1, <2>3
  <2> HIDE DEF t, r
  <2> QED
    BY <2>5, <2>6, OthersReceive
<1> QED
  BY <1>5, <1>7, <1>8 DEF FairStep

\* cancelLongTermSwap.
LEMMA CancelClaims ==
  ASSUME Claims, NEW sender \in Account, NEW id \in 0 .. orderId - 1,
         CancelLongTermSwap(sender, id)
  PROVE  FairStep
<1> DEFINE x         == ExecuteUntil(expiries, block)
           sell      == orderMap[id].sellTokenId
           purchased == PurchasedAmount(x.pool[sell], id)
           q         == CancelOrder(x.pool[sell], id)
<1>1. /\ block \in Block /\ block \in Nat /\ lastVirtualOrderBlock <= block /\ block <= block
      /\ id \in OrderId /\ sell \in Token
      /\ orderMap[id].submitBlock <= block
      /\ expiries \in SUBSET Block /\ expiries \subseteq expiries
      /\ \A e \in expiries : OnInterval(e)
  <2>1. /\ orderId \in 0 .. MaxOrders /\ block \in Block /\ expiries \subseteq Block
        /\ lastVirtualOrderBlock \in 0 .. block
        /\ orderMap \in [0 .. orderId - 1 -> Order]
        /\ ExpiriesOnInterval /\ SubmitBlocks
    BY DEF Claims, Bookkeeping, TypeOK
  <2>2. orderMap[id] \in Order
    BY <2>1
  <2>3. sell \in Token
    BY <2>2 DEF Order
  <2>4. id \in OrderId /\ lastVirtualOrderBlock <= block
    BY <2>1, PoolAssumption DEF OrderId
  <2> QED
    BY <2>1, <2>3, <2>4, BlockNat DEF SubmitBlocks, ExpiriesOnInterval
<1>2. /\ x.ok
      /\ CanCancel(x.pool[sell], id, block)
      /\ lastVirtualOrderBlock' = x.last
      /\ reserveMap' = x.reserve
      /\ OrderPoolMap' = [x.pool EXCEPT ![sell] = q]
      /\ expiries' \subseteq expiries
      /\ orderMap' = [orderMap EXCEPT ![id] = Settle(@, block, purchased)]
  BY DEF CancelLongTermSwap, Commit, TrimTree
<1>3. Bookkeeping'
  BY CancelBookkeeping DEF Claims
<1>4. /\ x.last = block
      /\ reserveMap["A"] * reserveMap["B"] <= x.reserve["A"] * x.reserve["B"]
      /\ x.pool \in [Token -> Pool]
      /\ \A t \in Token : SameOrders(OrderPoolMap[t], x.pool[t])
      /\ \A t \in Token : PoolClaims(x.pool[t], block)
      /\ \A t \in Token, i \in OrderId : x.pool[t].salesRate[i] > 0 =>
           WithdrawFactor(OrderPoolMap[t], i, lastVirtualOrderBlock)
             <= WithdrawFactor(x.pool[t], i, block)
  BY <1>1, <1>2, ClaimsExecution, ZenonT(60)
<1> HIDE DEF x
<1>5. x.pool[sell] \in Pool /\ PoolClaims(x.pool[sell], block)
  BY <1>1, <1>4
<1>6. q \in Pool /\ purchased \in Nat
  BY <1>1, <1>2, <1>5, CancelOrderType
<1>7. /\ PoolClaims(q, block) /\ q.salesRate[id] = 0
      /\ \A i \in OrderId \ {id} :
           /\ q.salesRate[i] = x.pool[sell].salesRate[i]
           /\ q.rewardFactorAtSubmission[i] = x.pool[sell].rewardFactorAtSubmission[i]
           /\ WithdrawFactor(q, i, block) = WithdrawFactor(x.pool[sell], i, block)
  BY <1>1, <1>5, CancelOrderClaims
<1>8. purchased = Earned(x.pool[sell], id, WithdrawFactor(x.pool[sell], id, block))
  <2>1. /\ x.pool[sell].orderExpiry[id] > block
        /\ x.pool[sell].orderExpiry[id] \in Nat
    BY <1>1, <1>2, <1>5, BlockNat DEF CanCancel, Pool
  <2>2. ~(block >= x.pool[sell].orderExpiry[id])
    BY <1>1, <2>1
  <2>3. WithdrawFactor(x.pool[sell], id, block) = x.pool[sell].rewardFactor
    BY <2>2 DEF WithdrawFactor
  <2> QED
    BY <2>3 DEF PurchasedAmount
<1> HIDE DEF purchased, q
<1>9. Executed(x) /\ OwnOrder(x, q, sell, id)
  BY <1>2, <1>4, <1>7 DEF Executed, OwnOrder
<1>10. /\ Earned(x.pool[sell], id, WithdrawFactor(x.pool[sell], id, block)) \in Nat
       /\ orderMap' = [orderMap EXCEPT ![id] = Settle(@, block,
           Earned(x.pool[sell], id, WithdrawFactor(x.pool[sell], id, block)))]
  BY <1>2, <1>6, <1>8
<1> QED
  BY <1>1, <1>3, <1>6, <1>9, <1>10, OwnerStep, ZenonT(60)

\* withdrawProceedsFromLongTermSwap.
LEMMA WithdrawClaims ==
  ASSUME Claims, NEW sender \in Account, NEW id \in 0 .. orderId - 1,
         WithdrawProceedsFromLongTermSwap(sender, id)
  PROVE  FairStep
<1> DEFINE x        == ExecuteUntil(expiries, block)
           sell     == orderMap[id].sellTokenId
           e        == orderMap[id].expirationBlock
           proceeds == TotalReward(x.pool[sell], id, block)
           soldTo   == IF e <= block THEN e ELSE block
           q        == WithdrawProceeds(x.pool[sell], id, block)
<1>1. /\ block \in Block /\ block \in Nat /\ lastVirtualOrderBlock <= block /\ block <= block
      /\ id \in OrderId /\ sell \in Token
      /\ soldTo \in Nat /\ orderMap[id].submitBlock <= soldTo
      /\ expiries \in SUBSET Block /\ expiries \subseteq expiries
      /\ \A c \in expiries : OnInterval(c)
  <2>1. /\ orderId \in 0 .. MaxOrders /\ block \in Block /\ expiries \subseteq Block
        /\ lastVirtualOrderBlock \in 0 .. block
        /\ orderMap \in [0 .. orderId - 1 -> Order]
        /\ ExpiriesOnInterval /\ SubmitBlocks
    BY DEF Claims, Bookkeeping, TypeOK
  <2>2. orderMap[id] \in Order
    BY <2>1
  <2>3. sell \in Token /\ e \in Block
    BY <2>2 DEF Order
  <2>4. id \in OrderId /\ lastVirtualOrderBlock <= block
    BY <2>1, PoolAssumption DEF OrderId
  <2>5. orderMap[id].submitBlock <= block /\ orderMap[id].submitBlock <= e
    BY <2>1 DEF SubmitBlocks
  <2> HIDE DEF e
  <2>6. soldTo \in Nat /\ orderMap[id].submitBlock <= soldTo /\ block \in Nat
    BY <2>1, <2>3, <2>5, BlockNat
  <2> QED
    BY <2>1, <2>3, <2>4, <2>6 DEF ExpiriesOnInterval
<1>2. /\ x.ok
      /\ CanWithdraw(x.pool[sell], id, block)
      /\ lastVirtualOrderBlock' = x.last
      /\ reserveMap' = x.reserve
      /\ OrderPoolMap' = [x.pool EXCEPT ![sell] = q]
      /\ expiries' \subseteq expiries
      /\ orderMap' = [orderMap EXCEPT ![id] = Settle(@, soldTo, proceeds)]
  BY DEF WithdrawProceedsFromLongTermSwap, Commit, TrimTree
<1> HIDE DEF soldTo
<1>3. Bookkeeping'
  BY WithdrawBookkeeping DEF Claims
<1>4. /\ x.last = block
      /\ reserveMap["A"] * reserveMap["B"] <= x.reserve["A"] * x.reserve["B"]
      /\ x.pool \in [Token -> Pool]
      /\ \A t \in Token : SameOrders(OrderPoolMap[t], x.pool[t])
      /\ \A t \in Token : PoolClaims(x.pool[t], block)
      /\ \A t \in Token, i \in OrderId : x.pool[t].salesRate[i] > 0 =>
           WithdrawFactor(OrderPoolMap[t], i, lastVirtualOrderBlock)
             <= WithdrawFactor(x.pool[t], i, block)
  BY <1>1, <1>2, ClaimsExecution, ZenonT(60)
<1> HIDE DEF x
<1>5. x.pool[sell] \in Pool /\ PoolClaims(x.pool[sell], block)
  BY <1>1, <1>4
<1>6. q \in Pool /\ proceeds \in Nat
  BY <1>1, <1>2, <1>5, WithdrawProceedsType
<1>7. /\ PoolClaims(q, block)
      /\ \/ q.salesRate[id] = 0
         \/ q.rewardFactorAtSubmission[id] = WithdrawFactor(q, id, block)
      /\ \A i \in OrderId \ {id} :
           /\ q.salesRate[i] = x.pool[sell].salesRate[i]
           /\ q.rewardFactorAtSubmission[i] = x.pool[sell].rewardFactorAtSubmission[i]
           /\ WithdrawFactor(q, i, block) = WithdrawFactor(x.pool[sell], i, block)
  BY <1>1, <1>5, WithdrawProceedsClaims
<1>8. proceeds = Earned(x.pool[sell], id, WithdrawFactor(x.pool[sell], id, block))
  BY DEF TotalReward
<1> HIDE DEF proceeds, q
<1>9. Executed(x) /\ OwnOrder(x, q, sell, id)
  BY <1>2, <1>4, <1>7 DEF Executed, OwnOrder
<1>10. /\ Earned(x.pool[sell], id, WithdrawFactor(x.pool[sell], id, block)) \in Nat
       /\ orderMap' = [orderMap EXCEPT ![id] = Settle(@, soldTo,
           Earned(x.pool[sell], id, WithdrawFactor(x.pool[sell], id, block)))]
  BY <1>2, <1>6, <1>8
<1> QED
  BY <1>1, <1>3, <1>6, <1>9, <1>10, OwnerStep, ZenonT(60)
-----------------------------------------------------------------------------
\* Every step is fair to the orders and to the liquidity providers.
LEMMA NextFair == Claims /\ [Next]_vars => FairStep
<1> SUFFICES ASSUME Claims, [Next]_vars PROVE FairStep
  OBVIOUS
<1>1. CASE Tick
  <2>1. Bookkeeping'
    BY <1>1, TickBookkeeping DEF Claims
  <2>2. UNCHANGED <<lastVirtualOrderBlock, OrderPoolMap, expiries, orderMap, reserveMap>>
    BY <1>1 DEF Tick
  <2> QED
    BY <2>1, <2>2, QuietClaims
<1>2. CASE \E from \in Token, sender \in Account, amount \in Amount,
             n \in BlockIntervals : PerformLongTermSwap(from, sender, amount, n)
  BY <1>2, PlaceClaims
<1>3. CASE \E sender \in Account, id \in 0 .. orderId - 1 :
             CancelLongTermSwap(sender, id)
  BY <1>3, CancelClaims
<1>4. CASE \E sender \in Account, id \in 0 .. orderId - 1 :
             WithdrawProceedsFromLongTermSwap(sender, id)
  BY <1>4, WithdrawClaims
<1>5. CASE \E n \in Block : ExecuteVirtualOrders(n)
  BY <1>5, ExecuteClaims
<1>6. CASE UNCHANGED vars
  <2>1. Bookkeeping'
    BY <1>6, StutterBookkeeping DEF Claims
  <2>2. UNCHANGED <<lastVirtualOrderBlock, OrderPoolMap, expiries, orderMap, reserveMap>>
    BY <1>6 DEF vars
  <2> QED
    BY <2>1, <2>2, QuietClaims
<1> QED
  BY <1>1, <1>2, <1>3, <1>4, <1>5, <1>6 DEF Next

\* Every reachable state satisfies the inductive invariant of the claims.
THEOREM SpecClaims == Spec => []Claims
<1>1. Init => Claims
  BY InitUnused, UnusedClaims
<1>2. Claims /\ [Next]_vars => Claims'
  BY NextFair DEF FairStep
<1> QED
  BY <1>1, <1>2, PTL DEF Spec

\* The checkpoint with which the proceeds of an order are computed lies between
\* the factor the order was entered with and today's: no withdrawal and no
\* cancellation of an order with a stake reverts in that subtraction.
THEOREM CheckpointsCorrect == Spec => []CheckpointsOrdered
<1>1. Claims => CheckpointsOrdered
  <2> SUFFICES ASSUME Claims, NEW id \in 0 .. orderId - 1,
                      OrderPoolMap[orderMap[id].sellTokenId].salesRate[id] > 0
               PROVE  LET pool == OrderPoolMap[orderMap[id].sellTokenId]
                      IN  /\ pool.rewardFactorAtSubmission[id] <= ClaimFactor(pool, id)
                          /\ ClaimFactor(pool, id) <= pool.rewardFactor
    BY Zenon DEF CheckpointsOrdered
  <2> DEFINE pool == OrderPoolMap[orderMap[id].sellTokenId]
  <2>1. orderMap[id].sellTokenId \in Token /\ id \in OrderId
    <3>1. orderMap \in [0 .. orderId - 1 -> Order] /\ orderId \in 0 .. MaxOrders
      BY DEF Claims, Bookkeeping, TypeOK
    <3>2. orderMap[id] \in Order /\ id \in OrderId
      BY <3>1, PoolAssumption DEF OrderId
    <3> QED
      BY <3>2 DEF Order
  <2>2. pool \in Pool /\ PoolClaims(pool, lastVirtualOrderBlock)
    BY <2>1 DEF Claims, Bookkeeping, TypeOK
  <2>3. ClaimFactor(pool, id) = WithdrawFactor(pool, id, lastVirtualOrderBlock)
    BY DEF ClaimFactor, WithdrawFactor
  <2>4. pool.orderExpiry[id] \in Block /\ pool.rewardFactor \in Nat
    BY <2>1, <2>2 DEF Pool
  <2>5. pool.salesRate[id] > 0
    OBVIOUS
  <2> HIDE DEF pool
  <2>6. WithdrawFactor(pool, id, lastVirtualOrderBlock) <= pool.rewardFactor
    BY <2>2, <2>4 DEF WithdrawFactor, PoolClaims
  <2>7. pool.rewardFactorAtSubmission[id] <= WithdrawFactor(pool, id, lastVirtualOrderBlock)
    BY <2>1, <2>2, <2>5 DEF PoolClaims
  <2> QED
    BY <2>3, <2>6, <2>7 DEF pool
<1> QED
  BY <1>1, SpecClaims, PTL

\* What an order has been paid and what it can still claim never becomes less.
THEOREM ProceedsCorrect == Spec => ProceedsNeverShrink
<1>1. Claims /\ [Next]_vars => [\A id \in 0 .. orderId - 1 : Received(id)' >= Received(id)]_vars
  BY NextFair DEF FairStep
<1> QED
  BY <1>1, SpecClaims, PTL DEF Spec, ProceedsNeverShrink

\* Virtual trades never take from the liquidity providers.
THEOREM ProductCorrect == Spec => ProductNeverFalls
<1>1. Claims /\ [Next]_vars
        => [reserveMap'["A"] * reserveMap'["B"] >= reserveMap["A"] * reserveMap["B"]]_vars
  BY NextFair DEF FairStep
<1> QED
  BY <1>1, SpecClaims, PTL DEF Spec, ProductNeverFalls
-----------------------------------------------------------------------------
(***************************************************************************)
(* LongTermOrders implements OrderBook.                                    *)
(***************************************************************************)

\* What an order has sold when it has sold up to a block, in whole tokens.
SoldBy(o, b) == ((b - o.submitBlock) * o.saleRate) \div RATE_PRECISION

\* The block up to which an order has sold at a block.
SoldTo(o, now) == IF o.expirationBlock <= now THEN o.expirationBlock ELSE now

(***************************************************************************)
(* The inductive invariant: with the one of the claims, that an order was  *)
(* never settled for more than it has sold by now.                         *)
(***************************************************************************)
SoldSoFar ==
  \A id \in 0 .. orderId - 1 :
    orderMap[id].sellAmount <= SoldBy(orderMap[id], SoldTo(orderMap[id], block))

BookInv == Claims /\ SoldSoFar

\* What an order has bought and its owner was not paid yet.
Due(id) ==
  LET pool == OrderPoolMap[orderMap[id].sellTokenId]
  IN  Earned(pool, id, ClaimFactor(pool, id))

BookEntry(id) ==
  [owner   |-> orderMap[id].owner,
   sells   |-> orderMap[id].sellTokenId,
   buys    |-> orderMap[id].buyTokenId,
   open    |-> orderIdStatusMap[id],
   offered |-> SoldBy(orderMap[id], orderMap[id].expirationBlock),
   sold    |-> orderMap[id].sellAmount,
   paid    |-> orderMap[id].buyAmount,
   due     |-> Due(id)]
-----------------------------------------------------------------------------
\* The book, entry by entry.
LEMMA BookEntries ==
  /\ Book = [id \in 0 .. orderId - 1 |-> BookEntry(id)]
  /\ DOMAIN Book = 0 .. orderId - 1
  /\ \A id \in 0 .. orderId - 1 : Book[id] = BookEntry(id)
<1>1. Book = [id \in 0 .. orderId - 1 |-> BookEntry(id)]
  BY DEF Book, BookEntry, Due, SoldBy
<1> QED
  BY <1>1

\* An order sells more the longer it sells.
LEMMA SoldByGrows ==
  ASSUME NEW o \in Order, NEW b \in Nat, NEW c \in Nat, o.submitBlock <= b, b <= c
  PROVE  SoldBy(o, b) \in Nat /\ SoldBy(o, c) \in Nat /\ SoldBy(o, b) <= SoldBy(o, c)
<1>1. o.submitBlock \in Nat /\ o.saleRate \in Nat
  BY BlockNat DEF Order
<1>2. b - o.submitBlock \in Nat /\ c - o.submitBlock \in Nat /\ b - o.submitBlock <= c - o.submitBlock
  BY <1>1
<1> DEFINE u == (b - o.submitBlock) * o.saleRate
           v == (c - o.submitBlock) * o.saleRate
<1>3. u \in Nat /\ v \in Nat /\ u <= v
  BY <1>1, <1>2, MulNat, MulMono
<1> HIDE DEF u, v
<1>4. /\ u \div RATE_PRECISION \in Nat /\ v \div RATE_PRECISION \in Nat
      /\ u \div RATE_PRECISION <= v \div RATE_PRECISION
  BY <1>3, PoolAssumption, DivMono, Zenon
<1> QED
  BY <1>4 DEF SoldBy, u, v

\* What an order has sold up to a block and what it has not sold then make what it
\* offers, but for one unit that the two roundings may lose.
LEMMA SoldAndUnsold ==
  ASSUME NEW o \in Order, NEW b \in Nat, o.submitBlock <= b, b <= o.expirationBlock
  PROVE  LET unsold == ((o.expirationBlock - b) * o.saleRate) \div RATE_PRECISION
         IN  /\ unsold \in Nat
             /\ SoldBy(o, b) + unsold <= SoldBy(o, o.expirationBlock)
             /\ SoldBy(o, o.expirationBlock) <= SoldBy(o, b) + unsold + 1
<1> DEFINE u == (b - o.submitBlock) * o.saleRate
           v == (o.expirationBlock - b) * o.saleRate
           w == (o.expirationBlock - o.submitBlock) * o.saleRate
<1>1. o.submitBlock \in Nat /\ o.expirationBlock \in Nat /\ o.saleRate \in Nat
  BY BlockNat DEF Order
<1>2. u \in Nat /\ v \in Nat /\ w = u + v
  <2>1. b - o.submitBlock \in Nat /\ o.expirationBlock - b \in Nat
    BY <1>1
  <2>2. u \in Nat /\ v \in Nat
    BY <1>1, <2>1, MulNat
  <2>3. w = u + v
    BY <1>1
  <2> QED
    BY <2>2, <2>3
<1>3. SoldBy(o, b) = u \div RATE_PRECISION /\ SoldBy(o, o.expirationBlock) = w \div RATE_PRECISION
  BY DEF SoldBy
<1> HIDE DEF u, v, w
<1>4. RATE_PRECISION \in Nat \ {0}
  BY PoolAssumption
<1>5. /\ v \div RATE_PRECISION \in Nat
      /\ u \div RATE_PRECISION + v \div RATE_PRECISION <= (u + v) \div RATE_PRECISION
      /\ (u + v) \div RATE_PRECISION <= u \div RATE_PRECISION + v \div RATE_PRECISION + 1
  BY <1>2, <1>4
<1> QED
  BY <1>2, <1>3, <1>5 DEF v

\* Proceeds are not negative, and a closed order has none.
LEMMA DueType ==
  ASSUME Claims, NEW id \in 0 .. orderId - 1
  PROVE  /\ Due(id) \in Nat
         /\ ~orderIdStatusMap[id] => Due(id) = 0
         /\ Received(id) = orderMap[id].buyAmount + Due(id)
<1> DEFINE t == orderMap[id].sellTokenId
           p == OrderPoolMap[t]
           f == WithdrawFactor(p, id, lastVirtualOrderBlock)
<1>1. id \in OrderId /\ orderMap[id] \in Order /\ t \in Token
  <2>1. orderMap \in [0 .. orderId - 1 -> Order] /\ orderId \in 0 .. MaxOrders
    BY DEF Claims, Bookkeeping, TypeOK
  <2>2. orderMap[id] \in Order /\ id \in OrderId
    BY <2>1, PoolAssumption DEF OrderId
  <2> QED
    BY <2>2 DEF Order
<1>2. p \in Pool /\ PoolClaims(p, lastVirtualOrderBlock)
  BY <1>1 DEF Claims, Bookkeeping, TypeOK
<1>3. Due(id) = Earned(p, id, f) /\ Received(id) = orderMap[id].buyAmount + Earned(p, id, f)
  BY DEF Due, Received, ClaimFactor, WithdrawFactor
<1>4. ~orderIdStatusMap[id] => p.salesRate[id] = 0
  BY DEF Claims, Bookkeeping, OrderRecordsAgree
<1> HIDE DEF p, t
<1>5. f \in Nat
  BY <1>1, <1>2 DEF WithdrawFactor, Pool
<1>6. p.salesRate[id] > 0 => p.rewardFactorAtSubmission[id] <= f
  BY <1>1, <1>2 DEF PoolClaims
<1> HIDE DEF f
<1>7. Earned(p, id, f) \in Nat
  BY <1>1, <1>2, <1>5, <1>6, EarnedGrows
<1>8. p.salesRate[id] = 0 => Earned(p, id, f) = 0
  <2> SUFFICES ASSUME p.salesRate[id] = 0 PROVE Earned(p, id, f) = 0
    OBVIOUS
  <2>1. p.rewardFactorAtSubmission[id] \in Nat
    BY <1>1, <1>2 DEF Pool
  <2>2. (f - p.rewardFactorAtSubmission[id]) * p.salesRate[id] = 0
    BY <1>5, <2>1
  <2>3. 0 \div RATE_PRECISION = 0 /\ 0 \div SCALE = 0
    BY PoolAssumption
  <2> QED
    BY <2>2, <2>3 DEF Earned
<1> QED
  BY <1>3, <1>4, <1>7, <1>8

\* The parts of the entry that stands for an order.
LEMMA EntryTypes ==
  ASSUME Claims, NEW id \in 0 .. orderId - 1
  PROVE  /\ orderMap[id] \in Order
         /\ id \in OrderId
         /\ orderMap[id].sellTokenId \in Token /\ orderMap[id].buyTokenId \in Token
         /\ orderMap[id].buyTokenId # orderMap[id].sellTokenId
         /\ orderMap[id].submitBlock \in Nat /\ orderMap[id].expirationBlock \in Nat
         /\ orderMap[id].sellAmount \in Nat /\ orderMap[id].buyAmount \in Nat
         /\ orderMap[id].submitBlock <= block
         /\ orderMap[id].submitBlock <= orderMap[id].expirationBlock
         /\ block \in Nat /\ orderId \in Nat
<1>1. /\ orderMap \in [0 .. orderId - 1 -> Order] /\ orderId \in 0 .. MaxOrders
      /\ block \in Block /\ SubmitBlocks
  BY DEF Claims, Bookkeeping, TypeOK
<1>2. orderMap[id] \in Order /\ id \in OrderId /\ block \in Nat /\ orderId \in Nat
  BY <1>1, PoolAssumption, BlockNat DEF OrderId
<1>3. /\ orderMap[id].sellTokenId \in Token /\ orderMap[id].buyTokenId \in Token
      /\ orderMap[id].submitBlock \in Nat /\ orderMap[id].expirationBlock \in Nat
      /\ orderMap[id].sellAmount \in Nat /\ orderMap[id].buyAmount \in Nat
  BY <1>2, BlockNat DEF Order
<1> QED
  BY <1>1, <1>2, <1>3, TokenOther DEF SubmitBlocks
-----------------------------------------------------------------------------
(***************************************************************************)
(* The invariant.                                                          *)
(***************************************************************************)
\* An order that is not settled has sold no less after a step.
LEMMA SoldKept ==
  ASSUME BookInv, Claims', NEW id \in 0 .. orderId - 1,
         orderMap'[id] = orderMap[id], block <= block', block' \in Nat
  PROVE  orderMap'[id].sellAmount <= SoldBy(orderMap'[id], SoldTo(orderMap'[id], block'))
<1> DEFINE o == orderMap[id]
           b == SoldTo(o, block)
           c == SoldTo(o, block')
<1>1. /\ o \in Order /\ o.submitBlock \in Nat /\ o.expirationBlock \in Nat
      /\ o.submitBlock <= block /\ o.submitBlock <= o.expirationBlock /\ block \in Nat
      /\ o.sellAmount \in Nat
  BY EntryTypes DEF BookInv
<1>2. o.sellAmount <= SoldBy(o, b)
  BY DEF BookInv, SoldSoFar
<1>3. orderMap'[id] = o /\ SoldTo(orderMap'[id], block') = c
  BY DEF SoldTo
<1> HIDE DEF o
<1>4. b \in Nat /\ c \in Nat /\ o.submitBlock <= b /\ b <= c
  BY <1>1 DEF SoldTo
<1> HIDE DEF b, c
<1>5. SoldBy(o, b) \in Nat /\ SoldBy(o, c) \in Nat /\ SoldBy(o, b) <= SoldBy(o, c)
  BY <1>1, <1>4, SoldByGrows
<1> QED
  BY <1>1, <1>2, <1>3, <1>5

\* A step that leaves the records of the orders alone.
LEMMA QuietSold ==
  ASSUME BookInv, Claims', UNCHANGED <<orderId, orderMap>>, block <= block'
  PROVE  BookInv'
<1>1. block' \in Nat
  BY BlockNat DEF Claims, Bookkeeping, TypeOK
<1>2. \A id \in 0 .. orderId - 1 :
        orderMap'[id].sellAmount <= SoldBy(orderMap'[id], SoldTo(orderMap'[id], block'))
  BY <1>1, SoldKept
<1> QED
  BY <1>2 DEF BookInv, SoldSoFar

\* An order that is settled is settled for what it has sold by now.
LEMMA SettledSold ==
  ASSUME BookInv, Claims', UNCHANGED <<block, orderId>>, NEW id \in 0 .. orderId - 1,
         NEW bought,
         orderMap' = [orderMap EXCEPT ![id] = Settle(@, SoldTo(orderMap[id], block), bought)]
  PROVE  BookInv'
<1> DEFINE o == orderMap[id]
           s == Settle(o, SoldTo(o, block), bought)
<1>1. block \in Nat /\ orderMap[id] \in Order /\ orderMap \in [0 .. orderId - 1 -> Order]
  BY EntryTypes DEF BookInv, Claims, Bookkeeping, TypeOK
<1>2. orderMap'[id] = s
  BY <1>1
<1>3. ASSUME NEW i \in 0 .. orderId - 1
      PROVE  orderMap'[i].sellAmount <= SoldBy(orderMap'[i], SoldTo(orderMap'[i], block'))
  <2>1. CASE i # id
    <3>1. orderMap'[i] = orderMap[i]
      BY <1>1, <2>1
    <3> QED
      BY <1>1, <3>1, SoldKept
  <2>2. CASE i = id
    <3>1. /\ s.sellAmount = SoldBy(o, SoldTo(o, block))
          /\ s.submitBlock = o.submitBlock /\ s.saleRate = o.saleRate
          /\ s.expirationBlock = o.expirationBlock
      BY <1>1 DEF Settle, SoldBy, Order
    <3>2. SoldBy(s, SoldTo(s, block')) = SoldBy(o, SoldTo(o, block))
      BY <3>1 DEF SoldBy, SoldTo
    <3>3. SoldBy(o, SoldTo(o, block)) \in Nat
      <4>1. SoldTo(o, block) \in Nat /\ o.submitBlock <= SoldTo(o, block)
        BY EntryTypes DEF BookInv, SoldTo
      <4> QED
        BY <1>1, <4>1, SoldByGrows
    <3>4. SoldTo(orderMap'[id], block') = SoldTo(s, block')
      BY <1>2
    <3> HIDE DEF s, o
    <3> QED
      BY <1>2, <2>2, <3>1, <3>2, <3>3, <3>4
  <2> QED
    BY <2>1, <2>2
<1> QED
  BY <1>3 DEF BookInv, SoldSoFar

\* An order that is placed has sold nothing.
LEMMA PlacedSold ==
  ASSUME BookInv, Claims',
         NEW from \in Token, NEW sender \in Account, NEW amount \in Amount,
         NEW n \in BlockIntervals, PerformLongTermSwap(from, sender, amount, n)
  PROVE  BookInv'
<1>1. /\ orderId \in Nat /\ block \in Nat /\ orderMap \in [0 .. orderId - 1 -> Order]
  BY BlockNat DEF BookInv, Claims, Bookkeeping, TypeOK
<1>2. /\ orderId' = orderId + 1 /\ block' = block
      /\ \A i \in 0 .. orderId - 1 : orderMap'[i] = orderMap[i]
      /\ orderMap'[orderId].sellAmount = 0
      /\ orderMap'[orderId].submitBlock = block
  BY <1>1 DEF PerformLongTermSwap
<1>3. ASSUME NEW i \in 0 .. orderId' - 1
      PROVE  orderMap'[i].sellAmount <= SoldBy(orderMap'[i], SoldTo(orderMap'[i], block'))
  <2>1. CASE i \in 0 .. orderId - 1
    BY <1>1, <1>2, <2>1, SoldKept
  <2>2. CASE i = orderId
    <3> DEFINE o == orderMap'[i]
    <3>1. o \in Order /\ o.submitBlock = block /\ o.sellAmount = 0
      BY <1>2, <2>2 DEF Claims, Bookkeeping, TypeOK
    <3>2. o.expirationBlock \in Nat /\ o.submitBlock <= o.expirationBlock
      BY <3>1, BlockNat DEF Claims, Bookkeeping, SubmitBlocks, Order
    <3>3. SoldTo(o, block') \in Nat /\ o.submitBlock <= SoldTo(o, block')
      BY <1>1, <1>2, <3>1, <3>2 DEF SoldTo
    <3>4. SoldTo(orderMap'[i], block') = SoldTo(o, block')
      OBVIOUS
    <3> HIDE DEF o
    <3>5. SoldBy(o, SoldTo(o, block')) \in Nat
      BY <3>1, <3>3, SoldByGrows
    <3> QED
      BY <3>1, <3>4, <3>5 DEF o
  <2> QED
    BY <1>1, <1>2, <2>1, <2>2
<1> QED
  BY <1>3 DEF BookInv, SoldSoFar

\* Everything that the calls of users need to know of the execution they begin with.
LEMMA Executes ==
  ASSUME Claims, NEW tree \in SUBSET Block, expiries \subseteq tree,
         ExecuteUntil(tree, block).ok
  PROVE  LET x == ExecuteUntil(tree, block)
         IN  /\ x.last = block
             /\ \A t \in Token : x.pool[t] \in Pool
             /\ x.pool \in [Token -> Pool]
             /\ \A t \in Token : SameOrders(OrderPoolMap[t], x.pool[t])
<1>1. Bookkeeping /\ block \in Block /\ block <= block /\ lastVirtualOrderBlock <= block
  BY BlockNat DEF Claims, Bookkeeping, TypeOK
<1> DEFINE x == ExecuteUntil(tree, block)
<1>2. /\ x.last = block /\ x.pool \in [Token -> Pool]
      /\ \A t \in Token : SameOrders(OrderPoolMap[t], x.pool[t])
  BY <1>1, Execution, ZenonT(60)
<1> HIDE DEF x
<1>3. \A t \in Token : x.pool[t] \in Pool
  BY <1>2
<1> QED
  BY <1>2, <1>3 DEF x

\* An order that is cancelled has not ended.
LEMMA CancelTime ==
  ASSUME Claims, NEW sender \in Account, NEW id \in 0 .. orderId - 1,
         CancelLongTermSwap(sender, id)
  PROVE  LET pool == ExecuteUntil(expiries, block).pool[orderMap[id].sellTokenId]
         IN  /\ pool.orderExpiry[id] = orderMap[id].expirationBlock
             /\ pool.salesRate[id] = orderMap[id].saleRate
             /\ block < orderMap[id].expirationBlock
<1> DEFINE x == ExecuteUntil(expiries, block)
           sell == orderMap[id].sellTokenId
<1>1. /\ x.ok /\ orderIdStatusMap[id] /\ CanCancel(x.pool[sell], id, block)
  BY DEF CancelLongTermSwap
<1>2. expiries \in SUBSET Block /\ expiries \subseteq expiries
  BY DEF Claims, Bookkeeping, TypeOK
<1>3. \A t \in Token : SameOrders(OrderPoolMap[t], x.pool[t])
  BY <1>1, <1>2, Executes, ZenonT(60)
<1>4. sell \in Token /\ block \in Nat /\ orderMap[id].expirationBlock \in Nat
  BY EntryTypes
<1>5. /\ OrderPoolMap[sell].salesRate[id] = orderMap[id].saleRate
      /\ OrderPoolMap[sell].orderExpiry[id] = orderMap[id].expirationBlock
  BY <1>1 DEF Claims, Bookkeeping, OrderRecordsAgree
<1> HIDE DEF x
<1>6. /\ x.pool[sell].salesRate[id] = orderMap[id].saleRate
      /\ x.pool[sell].orderExpiry[id] = orderMap[id].expirationBlock
  BY <1>3, <1>4, <1>5 DEF SameOrders
<1> QED
  BY <1>1, <1>4, <1>6 DEF CanCancel, x

\* Every step preserves the invariant.
LEMMA NextSold == BookInv /\ [Next]_vars => BookInv' /\ FairStep
<1> SUFFICES ASSUME BookInv, [Next]_vars PROVE BookInv' /\ FairStep
  OBVIOUS
<1>1. FairStep /\ Claims'
  BY NextFair DEF BookInv, FairStep
<1>2. block \in Nat
  BY BlockNat DEF BookInv, Claims, Bookkeeping, TypeOK
<1>3. CASE Tick
  BY <1>1, <1>2, <1>3, QuietSold DEF Tick
<1>4. CASE \E from \in Token, sender \in Account, amount \in Amount,
             n \in BlockIntervals : PerformLongTermSwap(from, sender, amount, n)
  BY <1>1, <1>4, PlacedSold
<1>5. ASSUME NEW sender \in Account, NEW id \in 0 .. orderId - 1,
             CancelLongTermSwap(sender, id)
      PROVE  BookInv'
  <2> DEFINE purchased == PurchasedAmount(ExecuteUntil(expiries, block).pool[orderMap[id].sellTokenId], id)
  <2>1. /\ UNCHANGED <<block, orderId>>
        /\ orderMap' = [orderMap EXCEPT ![id] = Settle(@, block, purchased)]
        /\ orderIdStatusMap[id]
    BY <1>5 DEF CancelLongTermSwap
  <2>2. SoldTo(orderMap[id], block) = block
    <3>1. block < orderMap[id].expirationBlock /\ orderMap[id].expirationBlock \in Nat
      BY <1>5, CancelTime, EntryTypes DEF BookInv
    <3> QED
      BY <1>2, <3>1 DEF SoldTo
  <2> HIDE DEF purchased
  <2> QED
    BY <1>1, <2>1, <2>2, SettledSold
<1>6. ASSUME NEW sender \in Account, NEW id \in 0 .. orderId - 1,
             WithdrawProceedsFromLongTermSwap(sender, id)
      PROVE  BookInv'
  <2> DEFINE proceeds == TotalReward(ExecuteUntil(expiries, block).pool[orderMap[id].sellTokenId], id, block)
  <2>1. /\ UNCHANGED <<block, orderId>>
        /\ orderMap' = [orderMap EXCEPT ![id] = Settle(@, SoldTo(orderMap[id], block), proceeds)]
    BY <1>6 DEF WithdrawProceedsFromLongTermSwap, SoldTo
  <2> HIDE DEF proceeds
  <2> QED
    BY <1>1, <2>1, SettledSold
<1>7. CASE \E n \in Block : ExecuteVirtualOrders(n)
  <2>1. UNCHANGED <<orderId, orderMap, block>>
    BY <1>7 DEF ExecuteVirtualOrders
  <2> QED
    BY <1>1, <1>2, <2>1, QuietSold
<1>8. CASE UNCHANGED vars
  <2>1. UNCHANGED <<orderId, orderMap, block>>
    BY <1>8 DEF vars
  <2> QED
    BY <1>1, <1>2, <2>1, QuietSold
<1> QED
  BY <1>1, <1>3, <1>4, <1>5, <1>6, <1>7, <1>8 DEF Next

\* In every reachable state claims are sound and no order was settled for more
\* than it has sold: the invariant that the refinement rests on.
THEOREM SpecBook == Spec => []BookInv
<1>1. Init => BookInv
  <2> SUFFICES ASSUME Init PROVE BookInv
    OBVIOUS
  <2>1. Claims
    BY InitUnused, UnusedClaims
  <2>2. SoldSoFar
    BY DEF Init, Deployed, SoldSoFar
  <2> QED
    BY <2>1, <2>2 DEF BookInv
<1> QED
  BY <1>1, NextSold, PTL DEF Spec
-----------------------------------------------------------------------------
(***************************************************************************)
(* The steps of the book.                                                  *)
(***************************************************************************)
DuesRight ==
  \A id \in 0 .. orderId - 1 :
    /\ Due(id) \in Nat
    /\ ~orderIdStatusMap[id] => Due(id) = 0
    /\ Received(id) = orderMap[id].buyAmount + Due(id)

BookRight ==
  /\ Book = [id \in 0 .. orderId - 1 |-> BookEntry(id)]
  /\ DuesRight
  /\ orderId \in Nat
  /\ \A id \in 0 .. orderId - 1 : /\ orderMap[id].buyAmount \in Nat
                                  /\ orderIdStatusMap[id] \in BOOLEAN

\* The book that the orders stand for is one of those OrderBook allows.
LEMMA BookIsRight == BookInv => BookRight
<1> SUFFICES ASSUME BookInv PROVE BookRight
  OBVIOUS
<1>1. DuesRight
  BY DueType DEF BookInv, DuesRight
<1>2. \A id \in 0 .. orderId - 1 : orderMap[id].buyAmount \in Nat /\ id \in OrderId
  BY EntryTypes DEF BookInv
<1>3. orderId \in Nat /\ orderIdStatusMap \in [OrderId -> BOOLEAN]
  BY DEF BookInv, Claims, Bookkeeping, TypeOK
<1> QED
  BY <1>1, <1>2, <1>3, BookEntries DEF BookRight

\* An order whose record a step leaves alone goes on.
LEMMA RecordGoesOn ==
  ASSUME BookRight, BookRight', FairStep,
         NEW id \in 0 .. orderId - 1, id \in 0 .. orderId' - 1,
         orderMap'[id] = orderMap[id], orderIdStatusMap'[id] = orderIdStatusMap[id]
  PROVE  OrderBook!GoesOn(id)
<1>1. Book[id] = BookEntry(id) /\ Book'[id] = BookEntry(id)'
  BY DEF BookRight
<1>2. /\ Due(id) \in Nat /\ Due(id)' \in Nat
      /\ Received(id) = orderMap[id].buyAmount + Due(id)
      /\ Received(id)' = orderMap[id].buyAmount + Due(id)'
      /\ orderMap[id].buyAmount \in Nat
      /\ ~orderIdStatusMap[id] => Due(id) = 0 /\ Due(id)' = 0
  BY DEF BookRight, DuesRight
<1>3. Received(id)' >= Received(id)
  BY DEF FairStep
<1>4. Due(id)' >= Due(id)
  BY <1>2, <1>3
<1>5. BookEntry(id)' = [BookEntry(id) EXCEPT !.due = Due(id)']
  BY DEF BookEntry
<1>6. BookEntry(id)'.due = Due(id)' /\ BookEntry(id).due = Due(id)
      /\ BookEntry(id).open = orderIdStatusMap[id]
  BY DEF BookEntry
<1> QED
  BY <1>1, <1>2, <1>4, <1>5, <1>6 DEF OrderBook!GoesOn

\* A step that leaves the records of all orders alone is one of trade.
LEMMA QuietTrade ==
  ASSUME BookRight, BookRight', FairStep,
         UNCHANGED <<orderId, orderMap, orderIdStatusMap, balance>>
  PROVE  OrderBook!Trade
<1>1. DOMAIN Book' = DOMAIN Book /\ DOMAIN Book = 0 .. orderId - 1
  BY DEF BookRight
<1>2. \A id \in 0 .. orderId - 1 : OrderBook!GoesOn(id)
  BY RecordGoesOn
<1> QED
  BY <1>1, <1>2 DEF OrderBook!Trade

\* What a call of its owner does to the entry of an order.
LEMMA EntrySettled ==
  ASSUME BookInv, BookRight, BookRight', FairStep, orderId' = orderId,
         NEW id \in 0 .. orderId - 1, orderIdStatusMap[id],
         NEW paid \in Nat, NEW refund \in Nat, 0 < paid + refund,
         NEW open \in BOOLEAN,
         orderMap' = [orderMap EXCEPT ![id] = Settle(@, SoldTo(orderMap[id], block), paid)],
         orderIdStatusMap' = [orderIdStatusMap EXCEPT ![id] = open],
         Due(id)' = 0,
         SoldBy(orderMap[id], SoldTo(orderMap[id], block)) + refund
           <= SoldBy(orderMap[id], orderMap[id].expirationBlock),
         paid <= balance[orderMap[id].buyTokenId],
         refund <= balance[orderMap[id].sellTokenId],
         balance' = [balance EXCEPT ![orderMap[id].buyTokenId] = @ - paid,
                                    ![orderMap[id].sellTokenId] = @ - refund]
  PROVE  /\ OrderBook!Settle(id, refund)
         /\ Book'[id].open = open
         /\ Book'[id].sold = SoldBy(orderMap[id], SoldTo(orderMap[id], block))
<1> DEFINE o == orderMap[id]
           sold == SoldBy(o, SoldTo(o, block))
<1>1. /\ o \in Order /\ o.buyAmount \in Nat /\ o.sellAmount <= sold
      /\ orderMap \in [0 .. orderId - 1 -> Order]
      /\ orderIdStatusMap \in [OrderId -> BOOLEAN] /\ id \in OrderId
      /\ \A i \in 0 .. orderId - 1 : i \in OrderId
  <2>1. o \in Order /\ o.buyAmount \in Nat /\ \A i \in 0 .. orderId - 1 : i \in OrderId
    BY EntryTypes DEF BookInv
  <2>2. o.sellAmount <= sold
    BY DEF BookInv, SoldSoFar
  <2>3. /\ orderMap \in [0 .. orderId - 1 -> Order]
        /\ orderIdStatusMap \in [OrderId -> BOOLEAN]
    BY DEF BookInv, Claims, Bookkeeping, TypeOK
  <2> QED
    BY <2>1, <2>2, <2>3
<1>2. /\ Book[id] = BookEntry(id) /\ Book'[id] = BookEntry(id)'
      /\ DOMAIN Book' = DOMAIN Book /\ DOMAIN Book = 0 .. orderId - 1
  BY DEF BookRight
<1>3. \A i \in DOMAIN Book \ {id} : OrderBook!GoesOn(i)
  <2> SUFFICES ASSUME NEW i \in 0 .. orderId - 1, i # id PROVE OrderBook!GoesOn(i)
    BY <1>2
  <2>1. orderMap'[i] = orderMap[i] /\ orderIdStatusMap'[i] = orderIdStatusMap[i]
    BY <1>1
  <2> QED
    BY <2>1, RecordGoesOn
<1>4. /\ orderMap'[id] = Settle(o, SoldTo(o, block), paid) /\ orderIdStatusMap'[id] = open
  BY <1>1
<1>5. /\ orderMap'[id].owner = o.owner
      /\ orderMap'[id].sellTokenId = o.sellTokenId
      /\ orderMap'[id].buyTokenId = o.buyTokenId
      /\ orderMap'[id].submitBlock = o.submitBlock
      /\ orderMap'[id].expirationBlock = o.expirationBlock
      /\ orderMap'[id].saleRate = o.saleRate
      /\ orderMap'[id].sellAmount = sold
      /\ orderMap'[id].buyAmount = o.buyAmount + paid
  BY <1>1, <1>4 DEF Settle, Order, SoldBy
<1>6. SoldBy(orderMap'[id], orderMap'[id].expirationBlock) = SoldBy(o, o.expirationBlock)
  BY <1>5 DEF SoldBy
<1> DEFINE old == BookEntry(id)
           new == BookEntry(id)'
<1>7. new = [owner |-> o.owner, sells |-> o.sellTokenId, buys |-> o.buyTokenId,
             open |-> open, offered |-> SoldBy(o, o.expirationBlock),
             sold |-> sold, paid |-> o.buyAmount + paid, due |-> 0]
  BY <1>4, <1>5, <1>6 DEF BookEntry
<1>8. old = [owner |-> o.owner, sells |-> o.sellTokenId, buys |-> o.buyTokenId,
             open |-> orderIdStatusMap[id], offered |-> SoldBy(o, o.expirationBlock),
             sold |-> o.sellAmount, paid |-> o.buyAmount, due |-> Due(id)]
  BY DEF BookEntry
<1>9. Due(id) <= paid
  <2>1. /\ Due(id) \in Nat /\ Received(id) = orderMap[id].buyAmount + Due(id)
        /\ Received(id)' = orderMap'[id].buyAmount + Due(id)'
    BY DEF BookRight, DuesRight
  <2>2. Received(id)' >= Received(id)
    BY DEF FairStep
  <2> QED
    BY <1>1, <1>5, <2>1, <2>2
<1> HIDE DEF o, sold, old, new
<1>10. new = [old EXCEPT !.open = new.open, !.sold = new.sold, !.paid = new.paid, !.due = 0]
  <2> DEFINE offers == SoldBy(o, o.expirationBlock)
             pays == o.buyAmount + paid
             r1 == [owner |-> o.owner, sells |-> o.sellTokenId, buys |-> o.buyTokenId,
                    open |-> open, offered |-> offers,
                    sold |-> o.sellAmount, paid |-> o.buyAmount, due |-> Due(id)]
             r2 == [owner |-> o.owner, sells |-> o.sellTokenId, buys |-> o.buyTokenId,
                    open |-> open, offered |-> offers,
                    sold |-> sold, paid |-> o.buyAmount, due |-> Due(id)]
             r3 == [owner |-> o.owner, sells |-> o.sellTokenId, buys |-> o.buyTokenId,
                    open |-> open, offered |-> offers,
                    sold |-> sold, paid |-> pays, due |-> Due(id)]
  <2>1. new.open = open /\ new.sold = sold /\ new.paid = pays
    BY <1>7
  <2> HIDE DEF offers, pays
  <2>2. r1 = [old EXCEPT !.open = open]
    BY <1>8 DEF offers
  <2>3. r2 = [r1 EXCEPT !.sold = sold]
    OBVIOUS
  <2>4. r3 = [r2 EXCEPT !.paid = pays]
    OBVIOUS
  <2>5. new = [r3 EXCEPT !.due = 0]
    BY <1>7 DEF offers, pays
  <2> HIDE DEF r1, r2, r3
  <2> QED
    BY <2>1, <2>2, <2>3, <2>4, <2>5, Zenon
<1>11. /\ old.open = orderIdStatusMap[id] /\ old.buys = o.buyTokenId /\ old.sells = o.sellTokenId
       /\ old.sold = o.sellAmount /\ old.offered = SoldBy(o, o.expirationBlock)
       /\ old.due = Due(id) /\ old.paid = o.buyAmount
       /\ new.sold = sold /\ new.open = open /\ new.paid = o.buyAmount + paid
  BY <1>7, <1>8
<1>12. new.paid - old.paid = paid
  BY <1>1, <1>11
<1>13. balance' = [balance EXCEPT ![o.buyTokenId] = @ - paid, ![o.sellTokenId] = @ - refund]
  BY DEF o
<1>14. /\ sold + refund <= SoldBy(o, o.expirationBlock)
       /\ paid <= balance[o.buyTokenId] /\ refund <= balance[o.sellTokenId]
  BY DEF o, sold
<1>15. OrderBook!Settle(id, refund)
  <2>1. Book[id] = old /\ Book'[id] = new
    BY <1>2 DEF old, new
  <2> QED
    BY <1>1, <1>2, <1>3, <1>9, <1>10, <1>11, <1>12, <1>13, <1>14, <2>1, Zenon
       DEF OrderBook!Settle
<1> QED
  BY <1>2, <1>11, <1>15 DEF new, sold, o

\* With the factor it was paid up to, an order has earned nothing.
LEMMA NothingEarned ==
  ASSUME NEW p \in Pool, NEW id \in OrderId
  PROVE  Earned(p, id, p.rewardFactorAtSubmission[id]) = 0
<1>1. p.rewardFactorAtSubmission[id] \in Nat /\ p.salesRate[id] \in Nat
  BY DEF Pool
<1>2. (p.rewardFactorAtSubmission[id] - p.rewardFactorAtSubmission[id]) * p.salesRate[id] = 0
  BY <1>1
<1>3. 0 \div RATE_PRECISION = 0 /\ 0 \div SCALE = 0
  BY PoolAssumption
<1> QED
  BY <1>2, <1>3 DEF Earned

\* Nothing is due to an order that sells on and whose factor is its pool's.
LEMMA NothingDue ==
  ASSUME NEW id \in OrderId, NEW t, NEW q \in Pool,
         orderMap'[id].sellTokenId = t, OrderPoolMap'[t] = q,
         q.rewardFactorAtSubmission[id] = q.rewardFactor,
         ~(lastVirtualOrderBlock' >= q.orderExpiry[id])
  PROVE  Due(id)' = 0
<1>1. ~(q.orderExpiry[id] <= lastVirtualOrderBlock')
  OBVIOUS
<1>2. ClaimFactor(q, id)' = q.rewardFactor
  BY <1>1 DEF ClaimFactor
<1>3. Due(id)' = Earned(q, id, ClaimFactor(q, id)')
  BY DEF Due
<1> QED
  BY <1>2, <1>3, NothingEarned

\* cancelLongTermSwap.
LEMMA CancelImplements ==
  ASSUME BookInv, BookRight, BookRight', FairStep,
         NEW sender \in Account, NEW id \in 0 .. orderId - 1,
         CancelLongTermSwap(sender, id)
  PROVE  OrderBook!Cancel(id)
<1> DEFINE x         == ExecuteUntil(expiries, block)
           o         == orderMap[id]
           sell      == o.sellTokenId
           buy       == o.buyTokenId
           unsold    == UnsoldAmount(x.pool[sell], id, block)
           purchased == PurchasedAmount(x.pool[sell], id)
<1>1. /\ orderIdStatusMap[id] /\ x.ok /\ CanCancel(x.pool[sell], id, block)
      /\ unsold > 0 \/ purchased > 0
      /\ purchased <= balance[buy] /\ unsold <= balance[sell]
      /\ orderMap' = [orderMap EXCEPT ![id] = Settle(@, block, purchased)]
      /\ orderIdStatusMap' = [orderIdStatusMap EXCEPT ![id] = FALSE]
      /\ balance' = [balance EXCEPT ![buy] = @ - purchased, ![sell] = @ - unsold]
      /\ orderId' = orderId
  <2>1. balance[buy] >= purchased /\ balance[sell] >= unsold
    BY DEF CancelLongTermSwap
  <2>2. /\ orderIdStatusMap[id] /\ x.ok /\ CanCancel(x.pool[sell], id, block)
        /\ unsold > 0 \/ purchased > 0
        /\ orderMap' = [orderMap EXCEPT ![id] = Settle(@, block, purchased)]
        /\ orderIdStatusMap' = [orderIdStatusMap EXCEPT ![id] = FALSE]
        /\ balance' = [balance EXCEPT ![buy] = @ - purchased, ![sell] = @ - unsold]
        /\ orderId' = orderId
    BY DEF CancelLongTermSwap
  <2> HIDE DEF purchased, unsold, x
  <2> QED
    BY <2>1, <2>2
<1>2. /\ o \in Order /\ id \in OrderId /\ sell \in Token /\ buy \in Token /\ buy # sell
      /\ block \in Nat /\ o.submitBlock <= block /\ o.expirationBlock \in Nat
  BY EntryTypes DEF BookInv
<1>3. /\ x.pool[sell].orderExpiry[id] = o.expirationBlock
      /\ x.pool[sell].salesRate[id] = o.saleRate
      /\ block < o.expirationBlock
  BY CancelTime DEF BookInv
<1>4. x.pool[sell] \in Pool
  <2>1. expiries \in SUBSET Block /\ expiries \subseteq expiries /\ Claims
    BY DEF BookInv, Claims, Bookkeeping, TypeOK
  <2> QED
    BY <1>1, <1>2, <2>1, Executes
<1>5. purchased \in Nat
  BY <1>1, <1>2, <1>4, CancelOrderType
<1>6. unsold = ((o.expirationBlock - block) * o.saleRate) \div RATE_PRECISION
  BY <1>3 DEF UnsoldAmount
<1> HIDE DEF unsold, purchased, x
<1>7. /\ unsold \in Nat
      /\ SoldBy(o, block) + unsold <= SoldBy(o, o.expirationBlock)
      /\ SoldBy(o, o.expirationBlock) <= SoldBy(o, block) + unsold + 1
  BY <1>2, <1>3, <1>6, SoldAndUnsold
<1>8. SoldTo(o, block) = block
  BY <1>2, <1>3 DEF SoldTo
<1>9. Due(id)' = 0
  <2>1. ~orderIdStatusMap'[id]
    BY <1>1, <1>2 DEF BookInv, Claims, Bookkeeping, TypeOK
  <2> QED
    BY <1>1, <2>1 DEF BookRight, DuesRight
<1>10. 0 < purchased + unsold
  BY <1>1, <1>5, <1>7
<1>11. orderMap' = [orderMap EXCEPT ![id] = Settle(@, SoldTo(orderMap[id], block), purchased)]
  BY <1>1, <1>8
<1>12. SoldBy(o, SoldTo(o, block)) + unsold <= SoldBy(o, o.expirationBlock)
  BY <1>7, <1>8
<1>13. /\ OrderBook!Settle(id, unsold)
       /\ Book'[id].open = FALSE
       /\ Book'[id].sold = SoldBy(o, SoldTo(o, block))
  BY <1>1, <1>5, <1>7, <1>9, <1>10, <1>11, <1>12, EntrySettled, ZenonT(60)
<1>14. balance[sell] - balance'[sell] = unsold
  <2>1. balance \in [Token -> Nat]
    BY DEF BookInv, Claims, Bookkeeping, TypeOK
  <2>2. balance'[sell] = balance[sell] - unsold /\ balance[sell] \in Nat
    BY <1>1, <1>2, <2>1
  <2> QED
    BY <1>7, <2>2
<1>15. Book[id].sells = sell /\ Book[id].offered = SoldBy(o, o.expirationBlock)
  BY DEF BookRight, BookEntry
<1>16. balance[Book[id].sells] - balance'[Book[id].sells] = unsold
  BY <1>14, <1>15
<1>17. /\ 0 <= unsold
       /\ Book[id].offered <= Book'[id].sold + unsold + 1
  BY <1>7, <1>8, <1>13, <1>15
<1> QED
  BY <1>13, <1>16, <1>17, Zenon DEF OrderBook!Cancel

\* After a withdrawal nothing stays due to the order.
LEMMA NothingDueAfter ==
  ASSUME BookInv, BookRight, BookRight',
         NEW sender \in Account, NEW id \in 0 .. orderId - 1,
         WithdrawProceedsFromLongTermSwap(sender, id)
  PROVE  Due(id)' = 0
<1> DEFINE x    == ExecuteUntil(expiries, block)
           o    == orderMap[id]
           sell == o.sellTokenId
           p    == x.pool[sell]
           paid == TotalReward(p, id, block)
<1>1. /\ orderIdStatusMap[id] /\ x.ok /\ orderId' = orderId
      /\ lastVirtualOrderBlock' = x.last
      /\ OrderPoolMap' = [x.pool EXCEPT ![sell] = WithdrawProceeds(p, id, block)]
      /\ orderMap' = [orderMap EXCEPT ![id] =
           Settle(@, IF o.expirationBlock <= block THEN o.expirationBlock ELSE block, paid)]
      /\ orderIdStatusMap' = [orderIdStatusMap EXCEPT ![id] = ~(o.expirationBlock <= block)]
  BY DEF WithdrawProceedsFromLongTermSwap, Commit
<1>2. /\ o \in Order /\ id \in OrderId /\ sell \in Token
      /\ block \in Nat /\ o.expirationBlock \in Nat
  BY EntryTypes DEF BookInv
<1>3. /\ orderMap \in [0 .. orderId - 1 -> Order]
      /\ orderIdStatusMap \in [OrderId -> BOOLEAN]
  BY DEF BookInv, Claims, Bookkeeping, TypeOK
<1>4. CASE o.expirationBlock <= block
  <2>1. ~orderIdStatusMap'[id]
    BY <1>1, <1>2, <1>3, <1>4
  <2> QED
    BY <1>1, <2>1 DEF BookRight, DuesRight
<1>5. CASE ~(o.expirationBlock <= block)
  <2>1. /\ x.last = block /\ p \in Pool /\ x.pool \in [Token -> Pool]
        /\ p.orderExpiry[id] = OrderPoolMap[sell].orderExpiry[id]
    <3>1. expiries \in SUBSET Block /\ expiries \subseteq expiries /\ Claims
      BY DEF BookInv, Claims, Bookkeeping, TypeOK
    <3>2. /\ x.last = block /\ p \in Pool /\ x.pool \in [Token -> Pool]
          /\ SameOrders(OrderPoolMap[sell], p)
      BY <1>1, <1>2, <3>1, Executes
    <3> HIDE DEF p, x
    <3> QED
      BY <3>2 DEF SameOrders
  <2>2. p.orderExpiry[id] = o.expirationBlock
    BY <1>1, <2>1 DEF BookInv, Claims, Bookkeeping, OrderRecordsAgree
  <2> DEFINE q == WithdrawProceeds(p, id, block)
  <2>3. orderMap'[id].sellTokenId = sell /\ OrderPoolMap'[sell] = q
    <3>1. orderMap'[id] = Settle(o, IF o.expirationBlock <= block THEN o.expirationBlock ELSE block, paid)
      BY <1>1, <1>3
    <3>2. orderMap'[id].sellTokenId = sell
      BY <1>2, <3>1 DEF Settle, Order
    <3>3. OrderPoolMap'[sell] = q
      BY <1>1, <1>2, <2>1
    <3> QED
      BY <3>2, <3>3
  <2> HIDE DEF p, x, paid
  <2>4. q = [p EXCEPT !.rewardFactorAtSubmission[id] = p.rewardFactor]
    BY <1>2, <1>5, <2>2 DEF WithdrawProceeds
  <2>5. /\ q \in Pool /\ q.orderExpiry[id] = o.expirationBlock
        /\ q.rewardFactorAtSubmission[id] = q.rewardFactor
    BY <1>2, <2>1, <2>2, <2>4 DEF Pool
  <2>6. lastVirtualOrderBlock' = block /\ ~(block >= o.expirationBlock)
    BY <1>1, <1>2, <1>5, <2>1
  <2> HIDE DEF q
  <2> QED
    BY <1>2, <2>3, <2>5, <2>6, NothingDue
<1> QED
  BY <1>4, <1>5

\* withdrawProceedsFromLongTermSwap.
LEMMA WithdrawImplements ==
  ASSUME BookInv, BookRight, BookRight', FairStep,
         NEW sender \in Account, NEW id \in 0 .. orderId - 1,
         WithdrawProceedsFromLongTermSwap(sender, id)
  PROVE  OrderBook!Withdraw(id)
<1> DEFINE x        == ExecuteUntil(expiries, block)
           o        == orderMap[id]
           sell     == o.sellTokenId
           buy      == o.buyTokenId
           proceeds == TotalReward(x.pool[sell], id, block)
           open     == ~(o.expirationBlock <= block)
<1>1. /\ orderIdStatusMap[id] /\ x.ok /\ CanWithdraw(x.pool[sell], id, block)
      /\ proceeds > 0 /\ balance[buy] >= proceeds
      /\ orderMap' = [orderMap EXCEPT ![id] = Settle(@, SoldTo(orderMap[id], block), proceeds)]
      /\ orderIdStatusMap' = [orderIdStatusMap EXCEPT ![id] = open]
      /\ balance' = [balance EXCEPT ![buy] = @ - proceeds]
      /\ orderId' = orderId
  BY DEF WithdrawProceedsFromLongTermSwap, SoldTo
<1>2. /\ o \in Order /\ id \in OrderId /\ sell \in Token /\ buy \in Token /\ buy # sell
      /\ block \in Nat /\ o.submitBlock <= block /\ o.submitBlock <= o.expirationBlock
      /\ o.expirationBlock \in Nat /\ o.submitBlock \in Nat
  BY EntryTypes DEF BookInv
<1>3. x.pool[sell] \in Pool
  <2>1. expiries \in SUBSET Block /\ expiries \subseteq expiries /\ Claims
    BY DEF BookInv, Claims, Bookkeeping, TypeOK
  <2> QED
    BY <1>1, <1>2, <2>1, Executes
<1>4. proceeds \in Nat
  BY <1>1, <1>2, <1>3, WithdrawProceedsType
<1>5. Due(id)' = 0
  BY NothingDueAfter
<1> HIDE DEF proceeds, x
<1>6. balance \in [Token -> Nat]
  BY DEF BookInv, Claims, Bookkeeping, TypeOK
<1>7. balance' = [balance EXCEPT ![buy] = @ - proceeds, ![sell] = @ - 0]
  <2>1. balance[sell] - 0 = balance[sell]
    BY <1>2, <1>6
  <2> QED
    BY <1>1, <1>2, <1>6, <2>1
<1>8. proceeds <= balance[buy] /\ 0 <= balance[sell] /\ 0 < proceeds + 0
  BY <1>1, <1>2, <1>4, <1>6
<1>9. /\ SoldBy(o, SoldTo(o, block)) + 0 <= SoldBy(o, o.expirationBlock)
      /\ ~open => SoldTo(o, block) = o.expirationBlock
  <2>1. /\ SoldTo(o, block) \in Nat /\ o.submitBlock <= SoldTo(o, block)
        /\ SoldTo(o, block) <= o.expirationBlock
        /\ ~open => SoldTo(o, block) = o.expirationBlock
    BY <1>2 DEF SoldTo
  <2>2. /\ SoldBy(o, SoldTo(o, block)) \in Nat
        /\ SoldBy(o, SoldTo(o, block)) <= SoldBy(o, o.expirationBlock)
    BY <1>2, <2>1, SoldByGrows
  <2> QED
    BY <2>1, <2>2
<1>10. open \in BOOLEAN /\ 0 \in Nat
  OBVIOUS
<1> HIDE DEF open
<1>11. /\ OrderBook!Settle(id, 0)
       /\ Book'[id].open = open
       /\ Book'[id].sold = SoldBy(o, SoldTo(o, block))
  BY <1>1, <1>4, <1>5, <1>7, <1>8, <1>9, <1>10, EntrySettled, ZenonT(60)
<1>12. Book[id].offered = SoldBy(o, o.expirationBlock)
  BY DEF BookRight, BookEntry
<1> QED
  BY <1>9, <1>11, <1>12 DEF OrderBook!Withdraw

\* What an order sells in all is at most what it was placed with.
LEMMA OfferedAtMost ==
  ASSUME NEW amount \in Nat, NEW d \in Nat \ {0}
  PROVE  LET rate == (amount * RATE_PRECISION) \div d
         IN  rate \in Nat /\ (d * rate) \div RATE_PRECISION <= amount
<1> DEFINE all == amount * RATE_PRECISION
           rate == all \div d
<1>1. all \in Nat /\ RATE_PRECISION \in Nat \ {0}
  BY PoolAssumption, MulNat
<1>2. all \div RATE_PRECISION = amount
  BY <1>1
<1> HIDE DEF all
<1>3. rate \in Nat /\ d * rate <= all
  BY <1>1
<1> HIDE DEF rate
<1>4. d * rate \in Nat
  BY <1>3, MulNat
<1>5. (d * rate) \div RATE_PRECISION <= all \div RATE_PRECISION
  BY <1>1, <1>3, <1>4, DivMono, Zenon
<1> QED
  BY <1>2, <1>3, <1>5 DEF rate, all

\* What depositOrder records of the order.
LEMMA DepositOrderFields ==
  ASSUME NEW p \in Pool, NEW id \in OrderId, NEW rate \in Nat, NEW e \in Block
  PROVE  LET q == DepositOrder(p, id, rate, e)
         IN  /\ q.orderExpiry[id] = e
             /\ q.rewardFactorAtSubmission[id] = q.rewardFactor
BY DEF DepositOrder, Pool

\* performLongTermSwap.
LEMMA PlaceImplements ==
  ASSUME BookInv, BookRight, BookRight', FairStep,
         NEW from \in Token, NEW sender \in Account, NEW amount \in Amount,
         NEW n \in BlockIntervals, PerformLongTermSwap(from, sender, amount, n)
  PROVE  OrderBook!Place
<1> DEFINE expiry == OrderExpiry(block, n)
           rate   == (amount * RATE_PRECISION) \div (expiry - block)
           tree   == expiries \cup {expiry}
           x      == ExecuteUntil(tree, block)
           q      == DepositOrder(x.pool[from], orderId, rate, expiry)
           placed == [submitBlock |-> block,
                      expirationBlock |-> expiry,
                      saleRate |-> rate,
                      sellAmount |-> 0,
                      buyAmount |-> 0,
                      owner |-> sender,
                      sellTokenId |-> from,
                      buyTokenId |-> Other(from)]
<1>1. /\ block \in Block /\ block \in Nat /\ orderId \in Nat /\ orderId \in OrderId
      /\ amount \in Nat /\ n \in Nat /\ expiries \in SUBSET Block /\ Claims
      /\ orderIdStatusMap \in [OrderId -> BOOLEAN] /\ \A i \in 0 .. orderId - 1 : i \in OrderId
  <2>1. /\ block \in Block /\ orderId \in 0 .. MaxOrders /\ expiries \subseteq Block
        /\ orderIdStatusMap \in [OrderId -> BOOLEAN] /\ Claims
    BY DEF BookInv, Claims, Bookkeeping, TypeOK
  <2>2. orderId < MaxOrders
    BY DEF PerformLongTermSwap
  <2> QED
    BY <2>1, <2>2, BlockNat, OrdersAssumption, PoolAssumption DEF OrderId
<1>2. expiry \in Nat /\ expiry > block /\ expiry \in Block
  <2>1. expiry \in Nat /\ expiry > block
    BY <1>1, ExpiryAhead
  <2>2. expiry < MaxBlock
    BY DEF PerformLongTermSwap
  <2> QED
    BY <2>1, <2>2, PoolAssumption DEF Block
<1>3. /\ x.ok /\ lastVirtualOrderBlock' = x.last
      /\ OrderPoolMap' = [x.pool EXCEPT ![from] = q]
      /\ orderMap' = [i \in 0 .. orderId |-> IF i < orderId THEN orderMap[i] ELSE placed]
      /\ orderIdStatusMap' = [orderIdStatusMap EXCEPT ![orderId] = TRUE]
      /\ orderId' = orderId + 1
      /\ balance' = [balance EXCEPT ![from] = @ + amount]
  BY DEF PerformLongTermSwap, Commit
<1> HIDE DEF expiry
<1>4. /\ rate \in Nat
      /\ ((expiry - block) * rate) \div RATE_PRECISION <= amount
  <2>1. expiry - block \in Nat \ {0}
    BY <1>1, <1>2
  <2> QED
    BY <1>1, <2>1, OfferedAtMost, Zenon
<1> HIDE DEF rate
<1>5. x.last = block /\ x.pool \in [Token -> Pool] /\ x.pool[from] \in Pool
  <2>1. tree \in SUBSET Block /\ expiries \subseteq tree
    BY <1>1, <1>2
  <2> HIDE DEF tree
  <2> QED
    BY <1>1, <1>3, <2>1, Executes
<1> HIDE DEF tree, x
<1>6. /\ q \in Pool /\ q.orderExpiry[orderId] = expiry
      /\ q.rewardFactorAtSubmission[orderId] = q.rewardFactor
  <2>1. q \in Pool
    BY <1>1, <1>2, <1>4, <1>5, DepositOrderType
  <2>2. /\ q.orderExpiry[orderId] = expiry
        /\ q.rewardFactorAtSubmission[orderId] = q.rewardFactor
    BY <1>1, <1>2, <1>4, <1>5, DepositOrderFields, ZenonT(60)
  <2> QED
    BY <2>1, <2>2
<1> HIDE DEF q
<1>7. OrderPoolMap'[from] = q
  BY <1>3, <1>5
<1>8. /\ orderMap'[orderId] = placed /\ orderIdStatusMap'[orderId] = TRUE
      /\ \A i \in 0 .. orderId - 1 : /\ orderMap'[i] = orderMap[i]
                                     /\ orderIdStatusMap'[i] = orderIdStatusMap[i]
                                     /\ i \in 0 .. orderId' - 1
  <2>1. orderId \in 0 .. orderId /\ ~(orderId < orderId)
    BY <1>1
  <2>2. \A i \in 0 .. orderId - 1 : /\ i \in 0 .. orderId /\ i < orderId /\ i # orderId
                                    /\ i \in 0 .. orderId' - 1 /\ i \in OrderId
    BY <1>1, <1>3
  <2> HIDE DEF placed
  <2>3. orderMap'[orderId] = placed /\ orderIdStatusMap'[orderId] = TRUE
    BY <1>1, <1>3, <2>1
  <2>4. \A i \in 0 .. orderId - 1 : orderMap'[i] = orderMap[i]
    BY <1>3, <2>2
  <2>5. \A i \in 0 .. orderId - 1 : orderIdStatusMap'[i] = orderIdStatusMap[i]
    BY <1>1, <1>3, <2>2
  <2> QED
    BY <2>2, <2>3, <2>4, <2>5
<1>9. PICK id \in OrderId : id = orderId
  <2>1. orderId \in OrderId
    BY <1>1
  <2> QED
    BY <2>1, Zenon
<1>10. Due(id)' = 0
  <2>1. orderMap'[id].sellTokenId = from
    BY <1>8, <1>9
  <2>2. ~(lastVirtualOrderBlock' >= q.orderExpiry[id])
    BY <1>1, <1>2, <1>3, <1>5, <1>6, <1>9
  <2> QED
    BY <1>6, <1>7, <1>9, <2>1, <2>2, NothingDue
<1>11. /\ DOMAIN Book = 0 .. orderId - 1
       /\ DOMAIN Book' = (0 .. orderId - 1) \cup {id}
       /\ id \in DOMAIN Book' \ DOMAIN Book
       /\ Book'[id] = BookEntry(id)'
  <2>1. DOMAIN Book = 0 .. orderId - 1 /\ DOMAIN Book' = 0 .. orderId' - 1
    BY DEF BookRight
  <2>2. 0 .. orderId' - 1 = (0 .. orderId - 1) \cup {id} /\ id \notin 0 .. orderId - 1
    BY <1>1, <1>3, <1>9
  <2>3. Book'[id] = BookEntry(id)'
    <3>1. Book' = [i \in 0 .. orderId' - 1 |-> BookEntry(i)']
      BY DEF BookRight
    <3>2. id \in 0 .. orderId' - 1
      BY <1>1, <1>3, <1>9
    <3> QED
      BY <3>1, <3>2
  <2> QED
    BY <2>1, <2>2, <2>3
<1>12. \A i \in DOMAIN Book : OrderBook!GoesOn(i)
  <2> SUFFICES ASSUME NEW i \in 0 .. orderId - 1 PROVE OrderBook!GoesOn(i)
    BY <1>11
  <2> QED
    BY <1>8, RecordGoesOn
<1> DEFINE offered == ((expiry - block) * rate) \div RATE_PRECISION
<1>13. Book'[id] = [owner |-> sender, sells |-> from, buys |-> Other(from), open |-> TRUE,
                    offered |-> offered, sold |-> 0, paid |-> 0, due |-> 0]
  <2>1. /\ orderMap'[id].owner = sender
        /\ orderMap'[id].sellTokenId = from
        /\ orderMap'[id].buyTokenId = Other(from)
        /\ orderMap'[id].submitBlock = block
        /\ orderMap'[id].expirationBlock = expiry
        /\ orderMap'[id].saleRate = rate
        /\ orderMap'[id].sellAmount = 0
        /\ orderMap'[id].buyAmount = 0
        /\ orderIdStatusMap'[id] = TRUE
    BY <1>8, <1>9
  <2>2. SoldBy(orderMap'[id], orderMap'[id].expirationBlock) = offered
    BY <2>1 DEF SoldBy
  <2> HIDE DEF offered
  <2> QED
    BY <1>10, <1>11, <2>1, <2>2 DEF BookEntry
<1> HIDE DEF offered
<1>14. Book'[id].offered = offered
  BY <1>13
<1> DEFINE buys == Other(from)
<1>15. buys \in Token /\ from # buys /\ offered <= amount
  BY <1>4, TokenOther DEF offered
<1>16. Book'[id] = [owner |-> sender, sells |-> from, buys |-> buys, open |-> TRUE,
                    offered |-> Book'[id].offered, sold |-> 0, paid |-> 0, due |-> 0]
  BY <1>13, <1>14
<1>17. DOMAIN Book' = DOMAIN Book \cup {id} /\ Book'[id].offered <= amount
  BY <1>11, <1>14, <1>15
<1> HIDE DEF buys
<1> QED
  BY <1>3, <1>11, <1>12, <1>15, <1>16, <1>17, Zenon DEF OrderBook!Place
-----------------------------------------------------------------------------
\* Every step of the pair is a step of the book, or leaves it as it was.
LEMMA NextImplements ==
  BookInv /\ BookRight /\ BookRight' /\ [Next]_vars => [OrderBook!Next]_OrderBook!vars
<1> SUFFICES ASSUME BookInv, BookRight, BookRight', [Next]_vars
             PROVE  [OrderBook!Next]_OrderBook!vars
  OBVIOUS
<1>1. FairStep
  BY NextSold
<1>2. DOMAIN Book = 0 .. orderId - 1
  BY DEF BookRight
<1>3. ASSUME UNCHANGED <<orderId, orderMap, orderIdStatusMap, balance>>
      PROVE  OrderBook!Next
  BY <1>1, <1>3, QuietTrade DEF OrderBook!Next
<1>4. CASE Tick
  BY <1>3, <1>4 DEF Tick
<1>5. CASE \E from \in Token, sender \in Account, amount \in Amount,
             n \in BlockIntervals : PerformLongTermSwap(from, sender, amount, n)
  BY <1>1, <1>5, PlaceImplements DEF OrderBook!Next
<1>6. CASE \E sender \in Account, id \in 0 .. orderId - 1 :
             CancelLongTermSwap(sender, id)
  BY <1>1, <1>2, <1>6, CancelImplements DEF OrderBook!Next
<1>7. CASE \E sender \in Account, id \in 0 .. orderId - 1 :
             WithdrawProceedsFromLongTermSwap(sender, id)
  BY <1>1, <1>2, <1>7, WithdrawImplements DEF OrderBook!Next
<1>8. CASE \E n \in Block : ExecuteVirtualOrders(n)
  BY <1>3, <1>8 DEF ExecuteVirtualOrders
<1>9. CASE UNCHANGED vars
  BY <1>3, <1>9 DEF vars
<1> QED
  BY <1>4, <1>5, <1>6, <1>7, <1>8, <1>9 DEF Next

\* A pair keeps what the owners of its orders are promised: LongTermOrders
\* implements OrderBook, whatever calls come, in whatever order and block.
THEOREM BookCorrect == Spec => ImplementsOrderBook
<1>1. Init => OrderBook!Init
  <2> SUFFICES ASSUME Init PROVE OrderBook!Init
    OBVIOUS
  <2>1. Book = <<>>
    BY DEF Init, Deployed, Book
  <2>2. balance \in [Token -> Nat]
    BY OrdersAssumption DEF Init
  <2> QED
    BY <2>1, <2>2 DEF OrderBook!Init
<1>2. [](BookInv => BookRight)
  BY BookIsRight, PTL
<1>3. BookInv /\ BookRight /\ BookRight' /\ [Next]_vars => [OrderBook!Next]_OrderBook!vars
  BY NextImplements
<1> QED
  BY <1>1, <1>2, <1>3, SpecBook, PTL DEF Spec, ImplementsOrderBook, OrderBook!Spec
=============================================================================
