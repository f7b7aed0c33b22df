----------------------------- MODULE Pair_proofs -----------------------------
(***************************************************************************)
(* Proofs about Pair: with liquidity that comes and goes, instant swaps    *)
(* and the protocol's fee switched on and off, the shares have reserves    *)
(* behind them, a share loses no value, the protocol gets no more than its *)
(* part of the growth, and the pair still holds what it owes to the orders.*)
(***************************************************************************)
EXTENDS Pair, Solvency_proofs

-----------------------------------------------------------------------------
(***************************************************************************)
(* The root of the product of the reserves.                                *)
(***************************************************************************)

\* Every natural number has a root, rounded down.
LEMMA RootExists ==
  \A m \in Nat : \E r \in Nat : r * r <= m /\ m < (r + 1) * (r + 1)
<1> DEFINE S == {m \in Nat : \E r \in Nat : r * r <= m /\ m < (r + 1) * (r + 1)}
<1>1. 0 \in S
  <2>1. 0 * 0 <= 0 /\ 0 < (0 + 1) * (0 + 1)
    OBVIOUS
  <2> QED
    BY <2>1
<1>2. ASSUME NEW m \in Nat, m \in S PROVE m + 1 \in S
  <2>1. PICK r \in Nat : r * r <= m /\ m < (r + 1) * (r + 1)
    BY <1>2
  <2>2. /\ (r + 1) * (r + 1) \in Nat /\ r * r \in Nat
        /\ ((r + 1) + 1) * ((r + 1) + 1) = (r + 1) * (r + 1) + 2 * r + 3
    OBVIOUS
  <2>3. CASE m + 1 < (r + 1) * (r + 1)
    BY <2>1, <2>2, <2>3
  <2>4. CASE ~(m + 1 < (r + 1) * (r + 1))
    <3>1. m + 1 = (r + 1) * (r + 1) /\ r + 1 \in Nat
      BY <2>1, <2>2, <2>4
    <3>2. m + 1 < ((r + 1) + 1) * ((r + 1) + 1)
      BY <2>2, <3>1
    <3> DEFINE q == r + 1
    <3>3. q \in Nat /\ q * q <= m + 1 /\ m + 1 < (q + 1) * (q + 1)
      BY <2>2, <3>1, <3>2
    <3> HIDE DEF q
    <3> QED
      BY <3>3
  <2> QED
    BY <2>3, <2>4
<1>3. Nat \subseteq S
  <2> HIDE DEF S
  <2> QED
    BY <1>1, <1>2, NatSetInduction, Zenon
<1> QED
  BY <1>3

\* What PRBMath's root promises.
LEMMA SqrtFacts ==
  ASSUME NEW n \in Nat
  PROVE  /\ Sqrt(n) \in Nat
         /\ Sqrt(n) * Sqrt(n) <= n * SCALE * SCALE
         /\ n * SCALE * SCALE < (Sqrt(n) + 1) * (Sqrt(n) + 1)
<1>1. SCALE \in Nat \ {0} /\ n * SCALE * SCALE \in Nat /\ n * SCALE \in Nat
  BY PoolAssumption, MulNat
<1>2. PICK r \in Nat : r * r <= n * SCALE * SCALE /\ n * SCALE * SCALE < (r + 1) * (r + 1)
  BY <1>1, RootExists
<1>3. r <= n * SCALE
  <2> DEFINE k == n * SCALE
  <2>1. k \in Nat /\ n <= n * n /\ n * n \in Nat /\ SCALE * SCALE \in Nat
    BY <1>1, MulNat
  <2>2. n * (SCALE * SCALE) <= (n * n) * (SCALE * SCALE)
    BY <2>1, MulMono
  <2>3. n * (SCALE * SCALE) = n * SCALE * SCALE /\ (n * n) * (SCALE * SCALE) = k * k
    BY <1>1
  <2>4. n * SCALE * SCALE <= k * k
    BY <2>2, <2>3
  <2> HIDE DEF k
  <2> SUFFICES ASSUME k + 1 <= r PROVE FALSE
    BY <2>1 DEF k
  <2>5. (k + 1) * (k + 1) <= r * r
    BY <2>1, MulMono2
  <2>6. (k + 1) * (k + 1) = k * k + 2 * k + 1 /\ k * k \in Nat /\ r * r \in Nat
    BY <2>1
  <2> QED
    BY <1>1, <1>2, <2>1, <2>4, <2>5, <2>6
<1>4. \E q \in 0 .. n * SCALE :
        q * q <= n * SCALE * SCALE /\ n * SCALE * SCALE < (q + 1) * (q + 1)
  <2>1. r \in 0 .. n * SCALE
    BY <1>1, <1>3
  <2> QED
    BY <1>2, <2>1
<1>5. /\ Sqrt(n) \in 0 .. n * SCALE
      /\ Sqrt(n) * Sqrt(n) <= n * SCALE * SCALE
      /\ n * SCALE * SCALE < (Sqrt(n) + 1) * (Sqrt(n) + 1)
  BY <1>4, Zenon DEF Sqrt
<1> QED
  BY <1>1, <1>5

\* The root that is measured is a natural number, and not 0 if there are reserves.
LEMMA RootKType ==
  ASSUME NEW reserve \in [Token -> Nat]
  PROVE  /\ RootK(reserve) \in Nat
         /\ (\A t \in Token : reserve[t] > 0) => RootK(reserve) > 0
<1> DEFINE p == Sqrt(reserve["A"])
           q == Sqrt(reserve["B"])
           h == SCALE \div 2
           m == p * q + h
<1>1. /\ SCALE \in Nat \ {0} /\ h \in Nat /\ SCALE * SCALE \in Nat
      /\ reserve["A"] \in Nat /\ reserve["B"] \in Nat
  BY PoolAssumption, MulNat DEF Token
<1>2. p \in Nat /\ q \in Nat
  BY <1>1, SqrtFacts
<1>3. m \in Nat
  BY <1>1, <1>2, MulNat
<1>4. RootK(reserve) = (m \div SCALE) \div SCALE
  BY DEF RootK
<1>5. ASSUME NEW n \in Nat, n > 0 PROVE SCALE <= Sqrt(n)
  <2> DEFINE r == Sqrt(n)
  <2>1. r \in Nat /\ n * SCALE * SCALE < (r + 1) * (r + 1)
    BY SqrtFacts
  <2> HIDE DEF r
  <2>2. 1 * (SCALE * SCALE) <= n * (SCALE * SCALE)
    BY <1>1, <1>5, MulMono
  <2>3. n * (SCALE * SCALE) = n * SCALE * SCALE
    BY <1>1
  <2>4. SCALE * SCALE < (r + 1) * (r + 1)
    BY <1>1, <2>1, <2>2, <2>3
  <2> SUFFICES ASSUME r + 1 <= SCALE PROVE FALSE
    BY <1>1, <2>1 DEF r
  <2>5. (r + 1) * (r + 1) <= SCALE * SCALE
    BY <1>1, <2>1, MulMono2
  <2> QED
    BY <1>1, <2>1, <2>4, <2>5
<1>6. ASSUME \A t \in Token : reserve[t] > 0 PROVE RootK(reserve) > 0
  <2>1. SCALE <= p /\ SCALE <= q
    BY <1>1, <1>5, <1>6 DEF Token
  <2> HIDE DEF p, q, h
  <2>2. SCALE * SCALE <= p * q
    BY <1>1, <1>2, <2>1, MulMono2
  <2>3. SCALE * SCALE <= m /\ (SCALE * SCALE) \div SCALE = SCALE /\ SCALE \div SCALE = 1
    BY <1>1, <1>2, <2>2, MulNat
  <2> HIDE DEF m
  <2>4. m \div SCALE \in Nat /\ SCALE <= m \div SCALE
    BY <1>1, <1>3, <2>3, DivMono
  <2>5. 1 <= (m \div SCALE) \div SCALE
    BY <1>1, <2>3, <2>4, DivMono
  <2> QED
    BY <1>1, <1>4, <2>4, <2>5, DivNat
<1> HIDE DEF m
<1>7. RootK(reserve) \in Nat
  BY <1>1, <1>3, <1>4, DivNat
<1> QED
  BY <1>6, <1>7

\* Two roots of products, the first one not the larger, are measured one apart
\* at most, as long as the second pair of reserves is within the precision of
\* the fixed-point numbers.
LEMMA RootKClose ==
  ASSUME NEW old \in [Token -> Nat], NEW new \in [Token -> Nat],
         old["A"] * old["B"] <= new["A"] * new["B"],
         \A t \in Token : 4 * new[t] <= SCALE * SCALE
  PROVE  RootK(old) <= RootK(new) + 1
<1> DEFINE p == Sqrt(old["A"])
           q == Sqrt(old["B"])
           u == Sqrt(new["A"])
           v == Sqrt(new["B"])
           a == old["A"]
           b == old["B"]
           c == new["A"]
           d == new["B"]
           h == SCALE \div 2
           s == SCALE * SCALE
<1>1. /\ SCALE \in Nat \ {0} /\ h \in Nat /\ s \in Nat
      /\ a \in Nat /\ b \in Nat /\ c \in Nat /\ d \in Nat
      /\ a * b <= c * d /\ 4 * c <= s /\ 4 * d <= s
  BY PoolAssumption, MulNat DEF Token
<1>2. /\ p \in Nat /\ q \in Nat /\ u \in Nat /\ v \in Nat
      /\ p * p <= a * SCALE * SCALE /\ q * q <= b * SCALE * SCALE
      /\ c * SCALE * SCALE < (u + 1) * (u + 1) /\ d * SCALE * SCALE < (v + 1) * (v + 1)
      /\ u * u <= c * SCALE * SCALE /\ v * v <= d * SCALE * SCALE
  BY <1>1, SqrtFacts
<1>3. \A n \in Nat : n * SCALE * SCALE = n * s
  BY <1>1
<1>4. /\ RootK(old) = ((p * q + h) \div SCALE) \div SCALE
      /\ RootK(new) = ((u * v + h) \div SCALE) \div SCALE
  BY DEF RootK
<1> HIDE DEF p, q, u, v, a, b, c, d, h, s
<1>5. /\ p * p <= a * s /\ q * q <= b * s
      /\ c * s < (u + 1) * (u + 1) /\ d * s < (v + 1) * (v + 1)
      /\ u * u <= c * s /\ v * v <= d * s
  BY <1>1, <1>2, <1>3
<1>6. p * q < (u + 1) * (v + 1)
  <2> DEFINE w == (u + 1) * (v + 1)
             z == p * q
  <2>1. w \in Nat /\ z \in Nat
    BY <1>2, MulNat
  <2>2. z * z <= (a * b) * (s * s)
    <3>1. (p * p) * (q * q) <= (a * s) * (b * s)
      BY <1>1, <1>2, <1>5, MulNat, MulMono2
    <3>2. (p * p) * (q * q) = z * z /\ (a * s) * (b * s) = (a * b) * (s * s)
      BY <1>1, <1>2
    <3> QED
      BY <3>1, <3>2
  <2>3. (a * b) * (s * s) <= (c * d) * (s * s)
    BY <1>1, MulNat, MulMono
  <2>4. (c * d) * (s * s) < w * w
    <3> DEFINE e == (u + 1) * (u + 1)
               f == (v + 1) * (v + 1)
               g == c * s
               k == d * s
    <3>1. /\ e \in Nat /\ f \in Nat /\ g \in Nat /\ k \in Nat
          /\ g + 1 <= e /\ k + 1 <= f
      BY <1>1, <1>2, <1>5, MulNat
    <3>2. e * f = w * w /\ g * k = (c * d) * (s * s)
      BY <1>1, <1>2
    <3> HIDE DEF e, f, g, k, w
    <3>3. (g + 1) * (k + 1) <= e * f
      BY <3>1, MulMono2
    <3>4. (g + 1) * (k + 1) = g * k + g + k + 1 /\ g * k \in Nat /\ e * f \in Nat
      BY <3>1
    <3>5. g * k < e * f
      BY <3>1, <3>3, <3>4
    <3> QED
      BY <3>2, <3>5
  <2>5. z * z < w * w
    <3>1. /\ z * z \in Nat /\ w * w \in Nat
          /\ (a * b) * (s * s) \in Nat /\ (c * d) * (s * s) \in Nat
      BY <1>1, <2>1, MulNat
    <3> QED
      BY <2>2, <2>3, <2>4, <3>1
  <2> HIDE DEF w, z
  <2> SUFFICES ASSUME w <= z PROVE FALSE
    BY <2>1 DEF w, z
  <2>6. w * w <= z * z /\ w * w \in Nat /\ z * z \in Nat
    BY <2>1, MulMono2
  <2> QED
    BY <2>5, <2>6
<1>7. ASSUME NEW n \in Nat, NEW r \in Nat, 4 * n <= s, r * r <= n * s PROVE 2 * r <= s
  <2> SUFFICES ASSUME s + 1 <= 2 * r PROVE FALSE
    BY <1>1, <1>7
  <2>1. (s + 1) * (s + 1) <= (2 * r) * (2 * r)
    BY <1>1, <1>7, MulMono2
  <2>2. (4 * n) * s <= s * s
    BY <1>1, <1>7, MulMono
  <2>3. /\ (2 * r) * (2 * r) = 4 * (r * r) /\ (4 * n) * s = 4 * (n * s)
        /\ (s + 1) * (s + 1) = s * s + 2 * s + 1
        /\ r * r \in Nat /\ n * s \in Nat /\ s * s \in Nat
    BY <1>1, <1>7, MulNat
  <2> QED
    BY <1>1, <1>7, <2>1, <2>2, <2>3
<1>8. p * q + h <= (u * v + h) + s
  <2>1. 2 * u <= s /\ 2 * v <= s
    BY <1>1, <1>2, <1>5, <1>7
  <2>2. (u + 1) * (v + 1) = u * v + u + v + 1 /\ u * v \in Nat /\ p * q \in Nat
    BY <1>2, MulNat
  <2> QED
    BY <1>1, <1>2, <1>6, <2>1, <2>2
<1>9. /\ p * q + h \in Nat /\ u * v + h \in Nat
  BY <1>1, <1>2, MulNat
<1> DEFINE m == p * q + h
           n == u * v + h
<1> HIDE DEF m, n
<1>10. (n + s) \div SCALE = (n \div SCALE) + SCALE
  BY <1>1, <1>9 DEF n, s
<1>11. ((n \div SCALE) + SCALE) \div SCALE = ((n \div SCALE) \div SCALE) + 1
  <2>1. n \div SCALE \in Nat
    BY <1>1, <1>9, DivNat DEF n
  <2> HIDE DEF n
  <2> QED
    BY <1>1, <2>1
<1>12. m \in Nat /\ n \in Nat /\ m <= n + s /\ n + s \in Nat
  BY <1>1, <1>8, <1>9 DEF m, n
<1>13. /\ m \div SCALE \in Nat /\ (n + s) \div SCALE \in Nat
       /\ m \div SCALE <= (n + s) \div SCALE
  BY <1>1, <1>12, DivMono
<1>14. (m \div SCALE) \div SCALE <= ((n + s) \div SCALE) \div SCALE
  BY <1>1, <1>13, DivMono
<1> QED
  BY <1>4, <1>10, <1>11, <1>14 DEF m, n
-----------------------------------------------------------------------------
(***************************************************************************)
(* The executions that the operations of the pair start with.              *)
(***************************************************************************)

\* An execution up to the block of the last one goes straight to its last step.
LEMMA NothingPassed ==
  ASSUME NEW n \in Nat, lastVirtualOrderBlock = n, NEW tree
  PROVE  ExecuteUntil(tree, n) = ExecuteVirtualTradesAndOrderExpiries(CurrentExecState, n)
<1> DEFINE U == {CurrentExecState}
<1>1. ASSUME NEW x \in U, NEW b \in Nat \ {0}
      PROVE  ExecuteListed(ExpiriesList(tree, lastVirtualOrderBlock, n), x, b, n) \in U
  <2>1. CurrentExecState.last = n /\ x = CurrentExecState
    BY DEF CurrentExecState
  <2>2. ~(b > n /\ b < n)
    OBVIOUS
  <2> QED
    BY <2>1, <2>2 DEF ExecuteListed
<1>2. PICK f \in [Nat -> U] :
        ExecuteUntil(tree, n) = ExecuteVirtualTradesAndOrderExpiries(f[n], n)
  BY <1>1, ExecuteUntilLoop
<1> QED
  BY <1>2

\* A pair without liquidity and orders has nothing to execute with: the call
\* reverts.
LEMMA UnfundedReverts ==
  ASSUME NEW n \in Nat, lastVirtualOrderBlock \in Nat, NEW tree \in SUBSET Block,
         OrderPoolMap = [t \in Token |-> EmptyPool],
         reserveMap = [t \in Token |-> 0]
  PROVE  ~ExecuteUntil(tree, n).ok
<1> DEFINE U == {CurrentExecState}
           x == CurrentExecState
<1>1. /\ x = [ok |-> TRUE, last |-> lastVirtualOrderBlock, reserve |-> reserveMap,
              pool |-> OrderPoolMap]
      /\ \A t \in Token : x.reserve[t] = 0 /\ x.pool[t] = EmptyPool
  BY DEF CurrentExecState
<1>2. ASSUME NEW y \in U, NEW b \in Nat \ {0}
      PROVE  ExecuteListed(ExpiriesList(tree, lastVirtualOrderBlock, n), y, b, n) \in U
  <2>1. b \in Block => \A t \in Token : y.pool[t].salesRateEndingPerBlock[b] = 0
    BY <1>1 DEF EmptyPool
  <2>2. b \in ExpiriesList(tree, lastVirtualOrderBlock, n) => b \in Block
    BY DEF ExpiriesList
  <2> QED
    BY <2>1, <2>2 DEF ExecuteListed
<1>3. PICK f \in [Nat -> U] :
        ExecuteUntil(tree, n) = ExecuteVirtualTradesAndOrderExpiries(f[n], n)
  BY <1>2, ExecuteUntilLoop
<1>4. f[n] = x
  OBVIOUS
<1>5. ~ExecuteVirtualTradesAndOrderExpiries(x, n).ok
  <2> DEFINE in == [t \in Token |-> (x.pool[t].currentSalesRate * (n - x.last))
                                       \div RATE_PRECISION]
  <2>1. in["A"] = 0 /\ "A" \in Token
    <3>1. x.pool["A"].currentSalesRate = 0 /\ x.last \in Nat /\ "A" \in Token
      BY <1>1 DEF EmptyPool, Token
    <3>2. 0 * (n - x.last) = 0 /\ 0 \div RATE_PRECISION = 0
      BY <3>1, PoolAssumption
    <3> QED
      BY <3>1, <3>2
  <2> HIDE DEF in
  <2>2. ~(\A t \in Token : x.reserve[t] + in[t] > 0)
    BY <1>1, <2>1
  <2>3. ExecuteVirtualTradesAndOrderExpiries(x, n) = [x EXCEPT !.ok = FALSE]
    BY <2>2 DEF ExecuteVirtualTradesAndOrderExpiries, in
  <2> QED
    BY <1>1, <2>3
<1> QED
  BY <1>3, <1>4, <1>5

\* An execution of a block that was just executed, and at which no orders end,
\* changes nothing.
LEMMA SecondExecution ==
  ASSUME NEW n \in Block, NEW x \in ExecutedBy(n), x.last = n,
         \A t \in Token : x.pool[t].salesRateEndingPerBlock[n] = 0,
         \A t \in Token : x.pool[t].rewardFactorAtBlock[n] = x.pool[t].rewardFactor,
         ExecuteVirtualTradesAndOrderExpiries(x, n).ok
  PROVE  ExecuteVirtualTradesAndOrderExpiries(x, n) = x
<1> DEFINE y == ExecuteVirtualTradesAndOrderExpiries(x, n)
<1>1. n \in Nat /\ x.last <= n /\ n <= n
  BY BlockNat
<1>2. y \in ExecutedBy(n) /\ y.last = n
  BY <1>1, ExecuteStep
<1>3. /\ x.ok
      /\ \E in, out \in [Token -> Nat] : \A t \in Token : Traded(x, y, in, out, t)
  BY <1>1, TradeFacts
<1>4. PICK in \in [Token -> Nat], out \in [Token -> Nat] :
        \A t \in Token : Traded(x, y, in, out, t)
  BY <1>3
<1>5. y.ok
  OBVIOUS
<1> HIDE DEF y
<1>6. \A t \in Token : /\ y.pool[t].rewardFactor = x.pool[t].rewardFactor
                      /\ y.reserve[t] = x.reserve[t]
  <2>1. y.last = x.last
    BY <1>2
  <2> SUFFICES ASSUME NEW t \in Token
               PROVE  /\ y.pool[t].rewardFactor = x.pool[t].rewardFactor
                      /\ y.reserve[t] = x.reserve[t]
    OBVIOUS
  <2> QED
    BY <1>4, <2>1, NoBlocksNoTrade, SMTT(60)
<1>7. /\ x \in ExecState /\ y \in ExecState
  BY <1>2 DEF ExecutedBy
<1>8. ASSUME NEW t \in Token PROVE y.pool[t] = x.pool[t]
  <2> DEFINE p == x.pool[t]
             q == y.pool[t]
  <2>1. p \in Pool /\ q \in Pool
    BY <1>7 DEF ExecState
  <2>2. /\ q.currentSalesRate = p.currentSalesRate - p.salesRateEndingPerBlock[n]
        /\ q.rewardFactorAtBlock = [p.rewardFactorAtBlock EXCEPT ![n] = q.rewardFactor]
        /\ SameOrders(p, q)
    BY <1>2, <1>4 DEF Traded
  <2>3. /\ q.rewardFactor = p.rewardFactor
        /\ p.salesRateEndingPerBlock[n] = 0
        /\ p.rewardFactorAtBlock[n] = p.rewardFactor
    BY <1>6
  <2> HIDE DEF p, q
  <2>4. q.currentSalesRate = p.currentSalesRate
    BY <2>1, <2>2, <2>3 DEF Pool
  <2>5. q.rewardFactorAtBlock = p.rewardFactorAtBlock
    <3>1. p.rewardFactorAtBlock \in [Block -> Nat]
      BY <2>1 DEF Pool
    <3> QED
      BY <2>2, <2>3, <3>1
  <2>6. q = p
    BY <2>1, <2>2, <2>3, <2>4, <2>5 DEF Pool, SameOrders
  <2> QED
    BY <2>6 DEF p, q
<1>9. y.pool = x.pool /\ y.reserve = x.reserve
  <2>1. /\ y.pool \in [Token -> Pool] /\ x.pool \in [Token -> Pool]
        /\ y.reserve \in [Token -> Nat] /\ x.reserve \in [Token -> Nat]
    BY <1>7 DEF ExecState
  <2> QED
    BY <1>6, <1>8, <2>1
<1>10. y = x
  BY <1>2, <1>3, <1>5, <1>7, <1>9 DEF ExecState
<1> QED
  BY <1>10 DEF y

\* What an operation of the pair knows of the execution that it starts with.
PairExecuted(x) ==
  /\ x \in ExecutedBy(block)
  /\ x.reserve \in [Token -> Nat \ {0}]
  /\ x.pool \in [Token -> Pool]
  /\ reserveMap["A"] * reserveMap["B"] <= x.reserve["A"] * x.reserve["B"]
  /\ \A t \in Token : SameOrders(OrderPoolMap[t], x.pool[t])
  /\ \A t \in Token : PoolClaims(x.pool[t], block)
  /\ \A t \in Token :
       PoolBooked(x.pool[t], block, TrimTree(expiries, lastVirtualOrderBlock, block))
  /\ PoolsSound(balance, x.reserve, x.pool, block)
  /\ lastVirtualOrderBlock = block => x.reserve = reserveMap

\* The types that the operations of a pair with liquidity start from.
LEMMA OrderlyTypes ==
  ASSUME Orderly
  PROVE  /\ block \in Block /\ block \in Nat
         /\ lastVirtualOrderBlock \in Nat /\ lastVirtualOrderBlock <= block
         /\ expiries \in SUBSET Block /\ expiries \subseteq expiries
         /\ \A e \in expiries : OnInterval(e)
         /\ reserveMap \in [Token -> Nat \ {0}]
         /\ balance \in [Token -> Nat]
         /\ OrderPoolMap \in [Token -> Pool]
<1>1. TypeOK /\ ExpiriesOnInterval
  BY DEF Orderly, Claims, Bookkeeping
<1>2. block \in Nat
  BY <1>1, BlockNat DEF TypeOK
<1> QED
  BY <1>1, <1>2 DEF TypeOK, ExpiriesOnInterval

\* An execution of the current block finds the reserves as they are, if it is
\* not the first one.
LEMMA SecondReserves ==
  ASSUME NEW n \in Block, NEW x \in ExecutedBy(n), x.last = n,
         ExecuteVirtualTradesAndOrderExpiries(x, n).ok
  PROVE  ExecuteVirtualTradesAndOrderExpiries(x, n).reserve = x.reserve
<1> DEFINE y == ExecuteVirtualTradesAndOrderExpiries(x, n)
<1>1. n \in Nat /\ x.last <= n /\ n <= n
  BY BlockNat
<1>2. y \in ExecutedBy(n) /\ y.last = n
  BY <1>1, ExecuteStep
<1>3. \E in, out \in [Token -> Nat] : \A t \in Token : Traded(x, y, in, out, t)
  BY <1>1, TradeFacts
<1>4. PICK in \in [Token -> Nat], out \in [Token -> Nat] :
        \A t \in Token : Traded(x, y, in, out, t)
  BY <1>3
<1> HIDE DEF y
<1>5. y.last = x.last
  BY <1>2
<1>6. ASSUME NEW t \in Token PROVE y.reserve[t] = x.reserve[t]
  BY <1>4, <1>5, NoBlocksNoTrade, SMTT(60)
<1>7. y.reserve \in [Token -> Nat] /\ x.reserve \in [Token -> Nat]
  BY <1>2 DEF ExecutedBy, ExecState
<1>8. y.reserve = x.reserve
  BY <1>6, <1>7
<1> QED
  BY <1>8 DEF y

\* The execution that an operation of the pair makes up to the current block.
LEMMA PairExecution ==
  ASSUME Orderly, ~Reexecutes, block' = block, lastVirtualOrderBlock' = block,
         ExecuteUntil(expiries, block).ok
  PROVE  /\ PairExecuted(ExecuteUntil(expiries, block))
         /\ ExecuteUntil(expiries, block).last = block
<1> DEFINE x == ExecuteUntil(expiries, block)
           left == TrimTree(expiries, lastVirtualOrderBlock, block)
<1>1. /\ block \in Block /\ block \in Nat /\ block <= block
      /\ lastVirtualOrderBlock \in Nat /\ lastVirtualOrderBlock <= block
      /\ expiries \in SUBSET Block /\ expiries \subseteq expiries
      /\ \A e \in expiries : OnInterval(e)
      /\ reserveMap \in [Token -> Nat \ {0}]
  BY OrderlyTypes
<1>2. Claims /\ Bookkeeping /\ TypeOK
  BY DEF Orderly, Claims, Bookkeeping
<1>3. x \in ExecutedBy(block) /\ x.last = block
  BY <1>1, <1>2, ExecuteUntilType, ZenonT(60)
<1>4. /\ x.reserve \in [Token -> Nat \ {0}]
      /\ x.pool \in [Token -> Pool]
      /\ \A t \in Token : SameOrders(OrderPoolMap[t], x.pool[t])
      /\ \A t \in Token : PoolBooked(x.pool[t], block, left)
  BY <1>1, <1>2, Execution, ZenonT(60)
<1>5. /\ reserveMap["A"] * reserveMap["B"] <= x.reserve["A"] * x.reserve["B"]
      /\ \A t \in Token : PoolClaims(x.pool[t], block)
  BY <1>1, <1>2, ClaimsExecution, ZenonT(60)
<1>6. PoolsSound(balance, x.reserve, x.pool, x.last)
  BY <1>1, OrderlyExecution, ZenonT(60)
<1>7. ASSUME lastVirtualOrderBlock = block PROVE x.reserve = reserveMap
  <2> DEFINE c == CurrentExecState
  <2>1. /\ c.last = block /\ c.reserve = reserveMap
    BY <1>7 DEF CurrentExecState
  <2>2. c \in ExecutedBy(block)
    <3>1. \A t \in Token : /\ reserveMap[t] > 0
                          /\ SameOrders(OrderPoolMap[t], OrderPoolMap[t])
      BY <1>1 DEF SameOrders
    <3>2. c \in ExecState
      BY <1>1, <1>2, <1>7 DEF CurrentExecState, ExecState, TypeOK
    <3> QED
      BY <1>1, <1>7, <3>1, <3>2 DEF ExecutedBy, CurrentExecState
  <2>3. x = ExecuteVirtualTradesAndOrderExpiries(c, block)
    BY <1>1, <1>7, NothingPassed
  <2>4. ExecuteVirtualTradesAndOrderExpiries(c, block).ok
    BY <2>3
  <2>5. ExecuteVirtualTradesAndOrderExpiries(c, block).reserve = c.reserve
    <3> HIDE DEF c, x
    <3> QED
      BY <1>1, <2>1, <2>2, <2>4, SecondReserves, ZenonT(60)
  <2> QED
    BY <2>1, <2>3, <2>5
<1> HIDE DEF x
<1>8. PairExecuted(x)
  BY <1>3, <1>4, <1>5, <1>6, <1>7 DEF PairExecuted
<1> QED
  BY <1>3, <1>8 DEF x

\* An operation that takes an execution and then moves as much of each token
\* into or out of the pair as into or out of its reserves leaves the orders'
\* side of the pair in order.
LEMMA LiquidityOrderly ==
  ASSUME Orderly, NEW x, PairExecuted(x), NEW left,
         TrimTree(expiries, lastVirtualOrderBlock, block) = left,
         UNCHANGED <<block, orderVars>>,
         lastVirtualOrderBlock' = block, OrderPoolMap' = x.pool,
         expiries' \subseteq left, \A b \in left : b > block => b \in expiries',
         reserveMap' \in [Token -> Nat \ {0}], balance' \in [Token -> Nat],
         \A t \in Token : balance'[t] - reserveMap'[t] = balance[t] - x.reserve[t]
  PROVE  Orderly'
<1>1. /\ block \in Block /\ block \in Nat
      /\ expiries \in SUBSET Block /\ left \subseteq expiries
      /\ \A e \in expiries : OnInterval(e)
      /\ balance \in [Token -> Nat]
  BY OrderlyTypes DEF TrimTree
<1>2. Claims /\ Bookkeeping /\ TypeOK
  BY DEF Orderly, Claims, Bookkeeping
<1>3. /\ block' = block /\ orderId' = orderId /\ orderMap' = orderMap
      /\ orderIdMap' = orderIdMap /\ orderIdStatusMap' = orderIdStatusMap
  BY DEF orderVars
<1>4. /\ x.reserve \in [Token -> Nat \ {0}]
      /\ x.pool \in [Token -> Pool]
      /\ \A t \in Token : SameOrders(OrderPoolMap[t], x.pool[t])
      /\ \A t \in Token : PoolClaims(x.pool[t], block)
      /\ \A t \in Token : PoolBooked(x.pool[t], block, left)
      /\ PoolsSound(balance, x.reserve, x.pool, block)
  BY DEF PairExecuted
<1>5. expiries' \subseteq expiries
  BY <1>1
<1>6. Bookkeeping'
  <2>1. TypeOK'
    BY <1>1, <1>2, <1>3, <1>4, <1>5 DEF TypeOK
  <2>2. SubmitBlocks'
    BY <1>2, <1>3 DEF Bookkeeping, SubmitBlocks
  <2>3. UnusedIds' /\ OrderRecordsAgree'
    BY <1>2, <1>3, <1>4, OrderFrame
  <2>4. EndingRatesMatchOrders' /\ EveryExpiryScheduled'
    BY <1>4 DEF PoolBooked, EndingRatesMatchOrders, EveryExpiryScheduled
  <2> QED
    BY <2>1, <2>2, <2>3, <2>4 DEF Bookkeeping
<1>7. Claims'
  BY <1>1, <1>4, <1>5, <1>6 DEF Claims, ExpiriesOnInterval
<1>8. PoolsSound(balance', reserveMap', OrderPoolMap', lastVirtualOrderBlock')
  <2> SUFFICES ASSUME NEW t \in Token
               PROVE  /\ RateLive(x.pool[t], block)
                      /\ Covered(balance'[t], reserveMap'[t], x.pool[t],
                                 x.pool[Other(t)], block)
    BY DEF PoolsSound
  <2> DEFINE r == RATE_PRECISION
             s == SCALE
             h == balance[t]
             g == balance'[t]
             v == x.reserve[t]
             w == reserveMap'[t]
             c == SCALE * UnsoldBy(x.pool[t], block) + UnpaidBy(x.pool[Other(t)], block)
  <2>1. /\ RateLive(x.pool[t], block)
        /\ Covered(h, v, x.pool[t], x.pool[Other(t)], block)
    BY <1>4 DEF PoolsSound
  <2>2. /\ h \in Nat /\ g \in Nat /\ v \in Nat /\ w \in Nat
        /\ g - w = h - v /\ r \in Nat /\ s \in Nat
    BY <1>1, <1>4, PoolAssumption
  <2>3. c \in Nat
    <3>1. UnsoldBy(x.pool[t], block) \in Nat /\ UnpaidBy(x.pool[Other(t)], block) \in Nat
      BY <1>1, <1>4, TokenOther, SoldTypes, UnpaidType
    <3> QED
      BY <2>2, <3>1, MulNat
  <2>4. r * s * h >= r * s * v + c
    <3>1. UnsoldBy(x.pool[t], block) \in Nat /\ UnpaidBy(x.pool[Other(t)], block) \in Nat
      BY <1>1, <1>4, TokenOther, SoldTypes, UnpaidType
    <3> QED
      BY <2>1, <2>2, <3>1 DEF Covered
  <2> HIDE DEF c, g, w, h, v
  <2>5. r * s * g >= r * s * w + c
    <3> DEFINE k == r * s
    <3>1. k \in Nat /\ k * h >= k * v + c
      BY <2>2, <2>4, MulNat
    <3> HIDE DEF k
    <3>2. k * (g - w) = k * (h - v)
      BY <2>2
    <3>3. k * (g - w) = k * g - k * w /\ k * (h - v) = k * h - k * v
      BY <2>2, <3>1
    <3>4. k * g \in Nat /\ k * w \in Nat /\ k * h \in Nat /\ k * v \in Nat
      BY <2>2, <3>1, MulNat
    <3>5. k * g >= k * w + c
      BY <2>3, <3>1, <3>2, <3>3, <3>4
    <3> QED
      BY <3>5 DEF k
  <2>6. Covered(g, w, x.pool[t], x.pool[Other(t)], block)
    <3>1. UnsoldBy(x.pool[t], block) \in Nat /\ UnpaidBy(x.pool[Other(t)], block) \in Nat
      BY <1>1, <1>4, TokenOther, SoldTypes, UnpaidType
    <3> QED
      BY <2>2, <2>5, <3>1 DEF Covered, c
  <2> QED
    BY <2>1, <2>6 DEF g, w
<1> QED
  BY <1>7, <1>8, OrderlyNext
-----------------------------------------------------------------------------
(***************************************************************************)
(* The shares, and what they are worth.                                    *)
(***************************************************************************)
ShareTypes ==
  /\ totalSupply \in Nat
  /\ balanceOf \in [Holder -> Nat]
  /\ rootKLast \in Nat
  /\ feeTo \in {NoAddress, Collector}
  /\ feeArg \in Nat

\* What mintFee mints, and that it is a part of the growth.
LEMMA FeeSharesFacts ==
  ASSUME ShareTypes, NEW reserve \in [Token -> Nat]
  PROVE  /\ FeeShares(reserve) \in Nat
         /\ (~FeeOn \/ rootKLast = 0) => FeeShares(reserve) = 0
         /\ FeeShares(reserve) > 0 =>
              /\ FeeOn /\ rootKLast < RootK(reserve)
              /\ FeeShares(reserve) * (RootK(reserve) * feeArg + rootKLast)
                   <= totalSupply * (RootK(reserve) - rootKLast)
<1> DEFINE k == RootK(reserve)
           a == totalSupply * (k - rootKLast)
           c == k * feeArg + rootKLast
<1>1. /\ k \in Nat /\ rootKLast \in Nat /\ totalSupply \in Nat /\ feeArg \in Nat
  BY RootKType DEF ShareTypes
<1>2. ASSUME FeeOn, rootKLast # 0, k > rootKLast
      PROVE  /\ FeeShares(reserve) \in Nat
             /\ FeeShares(reserve) * c <= a
  <2>1. FeeShares(reserve) = a \div c
    BY <1>2 DEF FeeShares
  <2> HIDE DEF k
  <2>2. k - rootKLast \in Nat /\ k * feeArg \in Nat
    BY <1>1, <1>2, MulNat
  <2>3. a \in Nat /\ c \in Nat \ {0}
    BY <1>1, <1>2, <2>2, MulNat
  <2> HIDE DEF a, c
  <2>4. a \div c \in Nat /\ c * (a \div c) <= a
    BY <2>3, DivFloor
  <2> QED
    BY <2>1, <2>3, <2>4
<1>3. ASSUME ~(FeeOn /\ rootKLast # 0 /\ k > rootKLast) PROVE FeeShares(reserve) = 0
  BY <1>3 DEF FeeShares
<1> QED
  BY <1>1, <1>2, <1>3

\* The holders' shares after mintFee: only the fee's receiver has more.
LEMMA SharesWithFeeFacts ==
  ASSUME ShareTypes, NEW reserve \in [Token -> Nat]
  PROVE  /\ SharesWithFee(reserve) \in [Holder -> Nat]
         /\ \A h \in Holder : /\ balanceOf[h] <= SharesWithFee(reserve)[h]
                              /\ SharesWithFee(reserve)[h]
                                   <= balanceOf[h] + FeeShares(reserve)
<1>1. FeeShares(reserve) \in Nat
  BY FeeSharesFacts
<1>2. balanceOf \in [Holder -> Nat]
  BY DEF ShareTypes
<1> QED
  BY <1>1, <1>2 DEF SharesWithFee

\* What some shares are worth, rounded down.
LEMMA WorthFacts ==
  ASSUME totalSupply \in Nat \ {0}, NEW lp \in Nat, NEW reserve \in [Token -> Nat \ {0}]
  PROVE  /\ Worth(lp, reserve) \in [Token -> Nat]
         /\ \A t \in Token :
              /\ totalSupply * Worth(lp, reserve)[t] <= lp * reserve[t]
              /\ lp * reserve[t] < totalSupply * (Worth(lp, reserve)[t] + 1)
              /\ lp < totalSupply => Worth(lp, reserve)[t] < reserve[t]
<1> DEFINE w == Worth(lp, reserve)
<1>1. ASSUME NEW t \in Token
      PROVE  /\ w[t] \in Nat
             /\ totalSupply * w[t] <= lp * reserve[t]
             /\ lp * reserve[t] < totalSupply * (w[t] + 1)
             /\ lp < totalSupply => w[t] < reserve[t]
  <2> DEFINE r == reserve[t]
             a == lp * r
             q == w[t]
  <2>1. r \in Nat \ {0} /\ a \in Nat /\ q = a \div totalSupply
    BY MulNat DEF Worth
  <2> HIDE DEF a, q, r, w
  <2>2. q \in Nat /\ totalSupply * q <= a /\ a < totalSupply * (q + 1)
    BY <2>1, DivNat
  <2>3. ASSUME lp < totalSupply PROVE q < r
    <3> SUFFICES ASSUME r <= q PROVE FALSE
      BY <2>1, <2>2
    <3>1. r * totalSupply <= q * totalSupply
      BY <2>1, <2>2, MulMono
    <3>2. (lp + 1) * r <= totalSupply * r
      BY <2>1, <2>3, MulMono
    <3>3. (lp + 1) * r = a + r
      BY <2>1 DEF a
    <3>4. /\ r * totalSupply = totalSupply * r /\ q * totalSupply = totalSupply * q
          /\ totalSupply * r \in Nat /\ totalSupply * q \in Nat
      BY <2>1, <2>2, MulNat
    <3> QED
      BY <2>1, <2>2, <3>1, <3>2, <3>3, <3>4
  <2>4. a = lp * reserve[t] /\ q = w[t] /\ r = reserve[t]
    BY DEF a, q, r
  <2> QED
    BY <2>2, <2>3, <2>4
<1>2. w = [t \in Token |-> w[t]]
  BY DEF Worth
<1> HIDE DEF w
<1>3. w \in [Token -> Nat]
  BY <1>1, <1>2
<1> QED
  BY <1>1, <1>3 DEF w

\* The root that was measured last is the root of reserves that were not worth
\* more than those of now.
Measured ==
  \/ rootKLast = 0
  \/ \E m \in [Token -> Nat] :
       /\ rootKLast = RootK(m)
       /\ m["A"] * m["B"] <= reserveMap["A"] * reserveMap["B"]

\* A pair that has liquidity.
Funded ==
  /\ Orderly
  /\ ShareTypes
  /\ totalSupply > 0
  /\ Measured

\* What a deposit does, to reserves that trading left no worse than it found
\* them; what a withdrawal does; and what every other operation leaves alone.
TradedTo(reserve) ==
  /\ reserve \in [Token -> Nat \ {0}]
  /\ reserveMap["A"] * reserveMap["B"] <= reserve["A"] * reserve["B"]
  /\ lastVirtualOrderBlock = block => reserve = reserveMap

Deposited(reserve, to, lp) ==
  /\ TradedTo(reserve)
  /\ reserveMap' = [t \in Token |-> reserve[t] + Worth(lp, reserve)[t]]
  /\ totalSupply' = (totalSupply + FeeShares(reserve)) + lp
  /\ balanceOf' = [SharesWithFee(reserve) EXCEPT ![to] = @ + lp]
  /\ rootKLast' = RootKLastAfter(reserveMap')
  /\ UNCHANGED feeVars

Withdrawn(reserve, from, lp) ==
  /\ TradedTo(reserve)
  /\ CanBurn(SharesWithFee(reserve), from, lp)
  /\ reserveMap' = [t \in Token |-> reserve[t] - Worth(lp, reserve)[t]]
  /\ totalSupply' = totalSupply + (FeeShares(reserve) - lp)
  /\ balanceOf' = [SharesWithFee(reserve) EXCEPT ![from] = @ - lp]
  /\ rootKLast' = RootKLastAfter(reserveMap')
  /\ UNCHANGED feeVars

TradedOnly ==
  /\ reserveMap["A"] * reserveMap["B"] <= reserveMap'["A"] * reserveMap'["B"]
  /\ UNCHANGED shareVars
  /\ feeTo' \in {NoAddress, Collector} /\ feeArg' \in Nat

\* addLiquidity.
LEMMA AddLiquidityStep ==
  ASSUME Funded, ~Reexecutes, ~OrdersEndAt(block),
         NEW sender \in Account, NEW lp \in Nat, AddLiquidity(sender, lp)
  PROVE  /\ Orderly'
         /\ \E reserve : Deposited(reserve, sender, lp)
<1> DEFINE x == ExecuteUntil(expiries, block)
           left == TrimTree(expiries, lastVirtualOrderBlock, block)
           y == ExecuteVirtualTradesAndOrderExpiries(x, block)
<1>1. /\ Orderly /\ ShareTypes /\ totalSupply \in Nat \ {0}
  BY DEF Funded, ShareTypes
<1>2. /\ y.ok /\ lp > 0
      /\ lastVirtualOrderBlock' = y.last
      /\ OrderPoolMap' = y.pool
      /\ reserveMap' = [t \in Token |-> y.reserve[t] + Worth(lp, y.reserve)[t]]
      /\ expiries' = TrimTree(left, block, block)
      /\ totalSupply' = totalSupply + FeeShares(y.reserve) + lp
      /\ balanceOf' = [SharesWithFee(y.reserve) EXCEPT ![sender] = @ + lp]
      /\ rootKLast' = RootKLastAfter([t \in Token |->
                                        y.reserve[t] + Worth(lp, y.reserve)[t]])
      /\ balance' = [t \in Token |-> balance[t] + Worth(lp, x.reserve)[t]]
      /\ block' = block /\ UNCHANGED orderVars /\ UNCHANGED feeVars
  BY DEF AddLiquidity, ProvideLiquidity, Taken
<1>3. /\ block \in Block /\ block \in Nat /\ block <= block
      /\ lastVirtualOrderBlock \in Nat /\ lastVirtualOrderBlock <= block
      /\ expiries \in SUBSET Block /\ balance \in [Token -> Nat]
  BY <1>1, OrderlyTypes
<1>4. x \in ExecutedBy(block) /\ (x.ok => x.last = block)
  <2>1. TypeOK
    BY <1>1 DEF Orderly, Claims, Bookkeeping
  <2> QED
    BY <1>3, <2>1, ExecuteUntilType, ZenonT(60)
<1>5. x.ok /\ x.last = block
  <2>1. x.last <= block
    BY <1>4 DEF ExecutedBy
  <2> HIDE DEF x
  <2>2. x.ok
    BY <1>2, <1>3, <1>4, <2>1, TradeFacts
  <2> QED
    BY <1>4, <2>2
<1>6. lastVirtualOrderBlock' = block
  <2>1. block \in Block /\ x.last <= block /\ block <= block
    BY <1>3, <1>5
  <2>2. y.last = block
    <3> HIDE DEF x
    <3> QED
      BY <1>2, <1>4, <2>1, ExecuteStep
  <2> QED
    BY <1>2, <2>2
<1>7. PairExecuted(x)
  BY <1>1, <1>2, <1>5, <1>6, PairExecution
<1>8. y = x
  <2>1. /\ \A t \in Token : SameOrders(OrderPoolMap[t], x.pool[t])
        /\ \A t \in Token : PoolClaims(x.pool[t], block)
        /\ \A t \in Token : x.pool[t] \in Pool /\ OrderPoolMap[t] \in Pool
    BY <1>1, <1>7, OrderlyTypes DEF PairExecuted
  <2>2. \A t \in Token : x.pool[t].salesRateEndingPerBlock[block] = 0
    <3>1. \A t \in Token : OrderPoolMap[t].salesRateEndingPerBlock[block] \in Nat
      BY <1>3, <2>1 DEF Pool
    <3> QED
      BY <2>1, <3>1 DEF OrdersEndAt, SameOrders
  <2>3. \A t \in Token : x.pool[t].rewardFactorAtBlock[block] = x.pool[t].rewardFactor
    BY <2>1 DEF PoolClaims
  <2> HIDE DEF x
  <2> QED
    BY <1>2, <1>3, <1>4, <1>5, <2>2, <2>3, SecondExecution, ZenonT(60)
<1> HIDE DEF x, y
<1>9. x.reserve \in [Token -> Nat \ {0}] /\ x.pool \in [Token -> Pool]
  BY <1>7 DEF PairExecuted
<1>10. Worth(lp, x.reserve) \in [Token -> Nat]
  BY <1>1, <1>9, WorthFacts
<1>11. Orderly'
  <2>1. /\ reserveMap' \in [Token -> Nat \ {0}] /\ balance' \in [Token -> Nat]
        /\ \A t \in Token : balance'[t] - reserveMap'[t] = balance[t] - x.reserve[t]
    BY <1>2, <1>3, <1>8, <1>9, <1>10
  <2>2. expiries' \subseteq left /\ \A b \in left : b > block => b \in expiries'
    <3>1. \A b \in left : b > block => ~(b <= LastExpiryBlock(block))
      <4>1. left \subseteq Block
        BY <1>3 DEF TrimTree
      <4>2. LastExpiryBlock(block) \in Nat /\ LastExpiryBlock(block) <= block
        BY <1>3, LastExpiryBlockBelow
      <4> HIDE DEF left
      <4> QED
        BY <1>3, <4>1, <4>2, BlockNat
    <3> QED
      BY <1>2, <3>1 DEF TrimTree, ExpiriesList
  <2>3. UNCHANGED <<block, orderVars>> /\ OrderPoolMap' = x.pool
    BY <1>2, <1>8
  <2> QED
    BY <1>1, <1>6, <1>7, <2>1, <2>2, <2>3, LiquidityOrderly, ZenonT(60)
<1>12. Deposited(x.reserve, sender, lp)
  <2>1. TradedTo(x.reserve)
    BY <1>7 DEF PairExecuted, TradedTo
  <2> QED
    BY <1>2, <1>8, <2>1 DEF Deposited
<1> QED
  BY <1>11, <1>12

\* removeLiquidity.
LEMMA RemoveLiquidityStep ==
  ASSUME Funded, ~Reexecutes,
         NEW from \in Holder, NEW lp \in Nat, RemoveLiquidity(from, lp)
  PROVE  /\ Orderly'
         /\ \E reserve : Withdrawn(reserve, from, lp)
<1> DEFINE x == ExecuteUntil(expiries, block)
           left == TrimTree(expiries, lastVirtualOrderBlock, block)
<1>1. /\ Orderly /\ ShareTypes /\ totalSupply \in Nat \ {0}
  BY DEF Funded, ShareTypes
<1>2. /\ x.ok
      /\ CanBurn(SharesWithFee(x.reserve), from, lp)
      /\ \A t \in Token : balance[t] >= Worth(lp, x.reserve)[t]
      /\ lastVirtualOrderBlock' = x.last
      /\ OrderPoolMap' = x.pool
      /\ reserveMap' = [t \in Token |-> x.reserve[t] - Worth(lp, x.reserve)[t]]
      /\ expiries' = left
      /\ balance' = [t \in Token |-> balance[t] - Worth(lp, x.reserve)[t]]
      /\ totalSupply' = totalSupply + (FeeShares(x.reserve) - lp)
      /\ balanceOf' = [SharesWithFee(x.reserve) EXCEPT ![from] = @ - lp]
      /\ rootKLast' = RootKLastAfter([t \in Token |->
                                        x.reserve[t] - Worth(lp, x.reserve)[t]])
      /\ block' = block /\ UNCHANGED orderVars /\ UNCHANGED feeVars
  BY DEF RemoveLiquidity
<1>3. /\ block \in Block /\ block \in Nat /\ lastVirtualOrderBlock <= block
      /\ expiries \in SUBSET Block /\ balance \in [Token -> Nat]
  BY <1>1, OrderlyTypes
<1>4. lastVirtualOrderBlock' = block
  <2>1. TypeOK
    BY <1>1 DEF Orderly, Claims, Bookkeeping
  <2>2. x.ok => x.last = block
    BY <1>3, <2>1, ExecuteUntilType, ZenonT(60)
  <2> QED
    BY <1>2, <2>2
<1>5. PairExecuted(x)
  BY <1>1, <1>2, <1>4, PairExecution
<1> HIDE DEF x
<1>6. x.reserve \in [Token -> Nat \ {0}] /\ x.pool \in [Token -> Pool]
  BY <1>5 DEF PairExecuted
<1>7. /\ Worth(lp, x.reserve) \in [Token -> Nat]
      /\ \A t \in Token : Worth(lp, x.reserve)[t] < x.reserve[t]
  BY <1>1, <1>2, <1>6, WorthFacts DEF CanBurn
<1>8. Orderly'
  <2>1. /\ reserveMap' \in [Token -> Nat \ {0}] /\ balance' \in [Token -> Nat]
        /\ \A t \in Token : balance'[t] - reserveMap'[t] = balance[t] - x.reserve[t]
    BY <1>2, <1>3, <1>6, <1>7
  <2>2. expiries' \subseteq left /\ \A b \in left : b > block => b \in expiries'
    BY <1>2
  <2>3. UNCHANGED <<block, orderVars>> /\ OrderPoolMap' = x.pool
    BY <1>2
  <2> QED
    BY <1>1, <1>4, <1>5, <2>1, <2>2, <2>3, LiquidityOrderly, ZenonT(60)
<1>9. Withdrawn(x.reserve, from, lp)
  <2>1. TradedTo(x.reserve)
    BY <1>5 DEF PairExecuted, TradedTo
  <2> QED
    BY <1>2, <2>1 DEF Withdrawn
<1> QED
  BY <1>8, <1>9

\* A trade by the constant product formula, less the fee, takes neither the
\* product nor a reserve away.
LEMMA SwapKeepsProduct ==
  ASSUME NEW s \in Nat \ {0}, NEW w \in Nat \ {0}, NEW a \in Nat,
         NEW out \in Nat, out <= (s * a) \div (w + a)
  PROVE  out < s /\ s * w <= (s - out) * (w + a)
<1> DEFINE q == (s * a) \div (w + a)
<1>1. s * a \in Nat /\ w + a \in Nat \ {0}
  BY MulNat
<1>2. q \in Nat /\ s * w <= (s - q) * (w + a)
  BY <1>1, DivNat, QuotientKept
<1> HIDE DEF q
<1>3. q < s
  <2> SUFFICES ASSUME s - q <= 0 PROVE FALSE
    BY <1>2
  <2>1. q - s \in Nat /\ (q - s) * (w + a) \in Nat
    BY <1>1, <1>2, MulNat
  <2>2. (s - q) * (w + a) = 0 - (q - s) * (w + a)
    BY <1>1, <1>2
  <2>3. s * w \in Nat \ {0}
    OBVIOUS
  <2> QED
    BY <1>2, <2>1, <2>2, <2>3
<1>4. (s - q) * (w + a) <= (s - out) * (w + a)
  <2>1. s - q \in Nat /\ s - out \in Nat /\ s - q <= s - out
    BY <1>2, <1>3 DEF q
  <2> QED
    BY <1>1, <2>1, MulMono
<1>5. s * w \in Int /\ (s - q) * (w + a) \in Int /\ (s - out) * (w + a) \in Int
  BY <1>1, <1>2
<1> QED
  BY <1>2, <1>3, <1>4, <1>5 DEF q

\* performInstantSwap.
LEMMA InstantSwapStep ==
  ASSUME Funded, ~Reexecutes,
         NEW from \in Token, NEW amountIn \in Nat, InstantSwap(from, amountIn)
  PROVE  Orderly' /\ TradedOnly
<1> DEFINE x == ExecuteUntil(expiries, block)
           left == TrimTree(expiries, lastVirtualOrderBlock, block)
           to == Other(from)
           held == [balance EXCEPT ![from] = @ + amountIn]
           out == (AmountOut(x.reserve, from, amountIn) * (FEE_BASE - LP_FEE)) \div FEE_BASE
<1>1. Orderly /\ ShareTypes
  BY DEF Funded
<1>2. /\ amountIn > 0 /\ x.ok
      /\ x.reserve[to] >= out /\ held[to] >= out
      /\ lastVirtualOrderBlock' = x.last
      /\ OrderPoolMap' = x.pool
      /\ reserveMap' = [x.reserve EXCEPT ![from] = @ + amountIn, ![to] = @ - out]
      /\ expiries' = left
      /\ balance' = [held EXCEPT ![to] = @ - out]
      /\ block' = block /\ UNCHANGED orderVars /\ UNCHANGED shareVars
      /\ UNCHANGED feeVars
  BY DEF InstantSwap, PerformInstantSwap
<1>3. /\ block \in Block /\ block \in Nat /\ lastVirtualOrderBlock <= block
      /\ expiries \in SUBSET Block /\ balance \in [Token -> Nat]
      /\ to \in Token /\ to # from
  BY <1>1, OrderlyTypes, TokenOther
<1>4. lastVirtualOrderBlock' = block
  <2>1. TypeOK
    BY <1>1 DEF Orderly, Claims, Bookkeeping
  <2>2. x.ok => x.last = block
    BY <1>3, <2>1, ExecuteUntilType, ZenonT(60)
  <2> QED
    BY <1>2, <2>2
<1>5. PairExecuted(x)
  BY <1>1, <1>2, <1>4, PairExecution
<1> HIDE DEF x
<1> DEFINE s == x.reserve[to]
           w == x.reserve[from]
<1>6. /\ x.reserve \in [Token -> Nat \ {0}] /\ x.pool \in [Token -> Pool]
      /\ s \in Nat \ {0} /\ w \in Nat \ {0}
      /\ reserveMap["A"] * reserveMap["B"] <= x.reserve["A"] * x.reserve["B"]
  BY <1>3, <1>5 DEF PairExecuted
<1>7. out \in Nat /\ out <= (s * amountIn) \div (w + amountIn)
  <2> DEFINE a == (s * amountIn) \div (w + amountIn)
  <2>1. a \in Nat
    <3> HIDE DEF s, w
    <3>1. s * amountIn \in Nat /\ w + amountIn \in Nat \ {0}
      BY <1>6, MulNat
    <3> QED
      BY <3>1, DivNat
  <2>2. out = Net(a)
    BY DEF AmountOut, Net
  <2> HIDE DEF a, out
  <2>3. Fee(a) \in Nat /\ Net(a) \in Nat /\ Fee(a) + Net(a) <= a
    BY <2>1, FeeAndNet
  <2> QED
    BY <2>1, <2>2, <2>3 DEF a
<1> HIDE DEF out
<1>8. out < s /\ s * w <= (s - out) * (w + amountIn)
  <2> HIDE DEF s, w
  <2> QED
    BY <1>6, <1>7, SwapKeepsProduct
<1>9. /\ reserveMap'[to] = s - out /\ reserveMap'[from] = w + amountIn
      /\ balance'[to] = balance[to] - out /\ balance'[from] = balance[from] + amountIn
      /\ balance[to] >= out
      /\ DOMAIN reserveMap' = Token /\ DOMAIN balance' = Token
      /\ reserveMap' = [t \in Token |-> reserveMap'[t]]
      /\ balance' = [t \in Token |-> balance'[t]]
  BY <1>2, <1>3, <1>6
<1>10. \A t \in Token : t = to \/ t = from
  BY <1>3 DEF Token, Other
<1> HIDE DEF s, w
<1>11. Orderly'
  <2>1. \A t \in Token : reserveMap'[t] \in Nat \ {0} /\ balance'[t] \in Nat
    BY <1>3, <1>6, <1>7, <1>8, <1>9, <1>10
  <2>2. reserveMap' \in [Token -> Nat \ {0}] /\ balance' \in [Token -> Nat]
    BY <1>9, <2>1
  <2>3. \A t \in Token : balance'[t] - reserveMap'[t] = balance[t] - x.reserve[t]
    BY <1>3, <1>6, <1>7, <1>9, <1>10 DEF s, w
  <2>4. expiries' \subseteq left /\ \A b \in left : b > block => b \in expiries'
    BY <1>2
  <2>5. UNCHANGED <<block, orderVars>> /\ OrderPoolMap' = x.pool
    BY <1>2
  <2> QED
    BY <1>1, <1>4, <1>5, <2>2, <2>3, <2>4, <2>5, LiquidityOrderly, ZenonT(60)
<1>12. reserveMap["A"] * reserveMap["B"] <= reserveMap'["A"] * reserveMap'["B"]
  <2>1. reserveMap \in [Token -> Nat \ {0}]
    BY <1>1, OrderlyTypes
  <2>2. x.reserve["A"] * x.reserve["B"] = s * w
    <3>1. CASE from = "A"
      <4>1. s = x.reserve["B"] /\ w = x.reserve["A"]
        BY <3>1 DEF s, w, Other
      <4> QED
        BY <1>6, <4>1
    <3>2. CASE from = "B"
      <4>1. s = x.reserve["A"] /\ w = x.reserve["B"]
        BY <3>2 DEF s, w, Other
      <4> QED
        BY <1>6, <4>1
    <3> QED
      BY <3>1, <3>2 DEF Token
  <2>3. reserveMap'["A"] * reserveMap'["B"] = (s - out) * (w + amountIn)
    <3>1. s - out \in Int /\ w + amountIn \in Int
      BY <1>6, <1>7
    <3>2. CASE from = "A"
      BY <1>9, <3>1, <3>2 DEF Other
    <3>3. CASE from = "B"
      BY <1>9, <3>1, <3>3 DEF Other
    <3> QED
      BY <3>2, <3>3 DEF Token
  <2>4. /\ reserveMap["A"] * reserveMap["B"] \in Int
        /\ s * w \in Int /\ (s - out) * (w + amountIn) \in Int
    BY <1>6, <1>7, <2>1 DEF Token
  <2> QED
    BY <1>6, <1>8, <2>2, <2>3, <2>4
<1>13. feeTo' \in {NoAddress, Collector} /\ feeArg' \in Nat
  BY <1>1, <1>2 DEF ShareTypes, feeVars
<1> QED
  BY <1>2, <1>11, <1>12, <1>13 DEF TradedOnly
-----------------------------------------------------------------------------
(***************************************************************************)
(* Every step.                                                             *)
(***************************************************************************)

\* The steps of the orders and of the factory's owner do not touch the shares.
LEMMA OrdersStep ==
  ASSUME Funded, [Next /\ ~Reexecutes]_vars, UNCHANGED shareVars,
         feeTo' \in {NoAddress, Collector}, feeArg' \in Nat
  PROVE  Orderly' /\ TradedOnly
<1>1. Orderly /\ Claims
  BY DEF Funded, Orderly
<1>2. Orderly'
  BY <1>1, NextOrderly
<1>3. FairStep
  BY <1>1, NextFair
<1>4. /\ reserveMap \in [Token -> Nat \ {0}]
      /\ reserveMap["A"] * reserveMap["B"] \in Int
  <2>1. reserveMap \in [Token -> Nat \ {0}]
    BY <1>1, OrderlyTypes
  <2> QED
    BY <2>1 DEF Token
<1>5. reserveMap' \in [Token -> Nat \ {0}] /\ reserveMap'["A"] * reserveMap'["B"] \in Int
  <2>1. reserveMap' \in [Token -> Nat \ {0}]
    BY <1>2 DEF Orderly, Claims, Bookkeeping, TypeOK
  <2> QED
    BY <2>1 DEF Token
<1> QED
  BY <1>2, <1>3, <1>4, <1>5 DEF FairStep, TradedOnly

\* A step of a pair with liquidity deposits, withdraws, or trades only.
LEMMA FundedStep ==
  ASSUME Funded, [OrderlyPairNext]_pairVars
  PROVE  /\ Orderly'
         /\ \/ \E to \in Account, lp \in Nat : \E reserve : Deposited(reserve, to, lp)
            \/ \E from \in Holder, lp \in Nat : \E reserve : Withdrawn(reserve, from, lp)
            \/ TradedOnly
<1>1. /\ ShareTypes /\ totalSupply # 0
      /\ feeTo \in {NoAddress, Collector} /\ feeArg \in Nat
  BY DEF Funded, ShareTypes
<1>2. ASSUME Next, ~Reexecutes, UNCHANGED <<shareVars, feeVars>>
      PROVE  Orderly' /\ TradedOnly
  <2>1. UNCHANGED shareVars /\ feeTo' = feeTo /\ feeArg' = feeArg
    BY <1>2 DEF feeVars
  <2> QED
    BY <1>1, <1>2, <2>1, OrdersStep
<1>3. ASSUME NEW to \in Account, NEW amount \in InitialAmounts,
             AddInitialLiquidity(to, amount)
      PROVE  FALSE
  BY <1>1, <1>3 DEF AddInitialLiquidity, ProvideInitialLiquidity
<1>4. ASSUME ~Reexecutes, ~DepositReexecutes, NEW sender \in Account,
             NEW lp \in LpAmount, AddLiquidity(sender, lp)
      PROVE  Orderly' /\ \E reserve : Deposited(reserve, sender, lp)
  <2>1. ~OrdersEndAt(block)
    BY <1>4 DEF DepositReexecutes
  <2>2. lp \in Nat
    BY PairAssumption
  <2> QED
    BY <1>4, <2>1, <2>2, AddLiquidityStep
<1>5. ASSUME ~Reexecutes, NEW sender \in Holder, NEW lp \in LpAmount,
             WithdrawLiquidity(sender, lp)
      PROVE  Orderly' /\ \E reserve : Withdrawn(reserve, sender, lp)
  <2>1. lp \in Nat /\ RemoveLiquidity(sender, lp)
    BY <1>5, PairAssumption DEF WithdrawLiquidity
  <2> QED
    BY <1>5, <2>1, RemoveLiquidityStep
<1>6. ASSUME ~Reexecutes, NEW from \in Token, NEW amountIn \in SwapAmount,
             InstantSwap(from, amountIn)
      PROVE  Orderly' /\ TradedOnly
  <2>1. amountIn \in Nat
    BY PairAssumption
  <2> QED
    BY <1>6, <2>1, InstantSwapStep
<1>7. ASSUME NEW to \in {NoAddress, Collector}, SetFeeTo(to)
      PROVE  Orderly' /\ TradedOnly
  <2>1. UNCHANGED vars /\ UNCHANGED shareVars /\ feeTo' = to /\ feeArg' = feeArg
    BY <1>7 DEF SetFeeTo
  <2> QED
    BY <1>1, <2>1, OrdersStep
<1>8. ASSUME NEW arg \in FeeArg, SetFeeArg(arg)
      PROVE  Orderly' /\ TradedOnly
  <2>1. UNCHANGED vars /\ UNCHANGED shareVars /\ feeTo' = feeTo /\ feeArg' = arg
    BY <1>8 DEF SetFeeArg
  <2> QED
    BY <1>1, <2>1, OrdersStep, PairAssumption
<1>9. ASSUME UNCHANGED pairVars PROVE Orderly' /\ TradedOnly
  <2>1. UNCHANGED vars /\ UNCHANGED shareVars /\ feeTo' = feeTo /\ feeArg' = feeArg
    BY <1>9 DEF pairVars, feeVars
  <2> QED
    BY <1>1, <2>1, OrdersStep
<1>10. CASE UNCHANGED pairVars
  BY <1>9, <1>10
<1>11. CASE OrderlyPairNext
  <2> SUFFICES ASSUME ~SetFee
               PROVE  /\ Orderly'
                      /\ \/ \E to \in Account, lp \in Nat : \E reserve : Deposited(reserve, to, lp)
                         \/ \E from \in Holder, lp \in Nat : \E reserve : Withdrawn(reserve, from, lp)
                         \/ TradedOnly
    BY <1>7, <1>8 DEF SetFee
  <2>1. PairNext /\ ~Reexecutes /\ ~DepositReexecutes
    BY <1>11 DEF OrderlyPairNext
  <2>2. CASE Next /\ UNCHANGED <<shareVars, feeVars>>
    BY <1>2, <2>1, <2>2
  <2>3. CASE \E to \in Account, amount \in InitialAmounts : AddInitialLiquidity(to, amount)
    BY <1>3, <2>3
  <2>4. CASE \E sender \in Account, lp \in LpAmount : AddLiquidity(sender, lp)
    <3>1. PICK sender \in Account, lp \in LpAmount : AddLiquidity(sender, lp)
      BY <2>4
    <3>2. Orderly' /\ \E reserve : Deposited(reserve, sender, lp)
      BY <1>4, <2>1, <3>1
    <3>3. lp \in Nat
      BY PairAssumption
    <3> QED
      BY <3>2, <3>3
  <2>5. CASE \E sender \in Holder, lp \in LpAmount : WithdrawLiquidity(sender, lp)
    <3>1. PICK sender \in Holder, lp \in LpAmount : WithdrawLiquidity(sender, lp)
      BY <2>5
    <3>2. Orderly' /\ \E reserve : Withdrawn(reserve, sender, lp)
      BY <1>5, <2>1, <3>1
    <3>3. lp \in Nat
      BY PairAssumption
    <3> QED
      BY <3>2, <3>3
  <2>6. CASE \E from \in Token, amountIn \in SwapAmount : InstantSwap(from, amountIn)
    BY <1>6, <2>1, <2>6
  <2> QED
    BY <2>1, <2>2, <2>3, <2>4, <2>5, <2>6 DEF PairNext
<1> QED
  BY <1>10, <1>11

\* What a deposit leaves of the shares: the fee's receiver gets the fee at most.
LEMMA DepositFacts ==
  ASSUME Funded, Orderly', NEW to \in Account, NEW lp \in Nat, NEW reserve,
         Deposited(reserve, to, lp)
  PROVE  /\ reserve \in [Token -> Nat \ {0}] /\ FeeShares(reserve) \in Nat
         /\ totalSupply' \in Nat /\ totalSupply' >= totalSupply
         /\ balanceOf' \in [Holder -> Nat]
         /\ balanceOf'[Collector] <= balanceOf[Collector] + FeeShares(reserve)
<1>1. /\ reserve \in [Token -> Nat \ {0}] /\ reserve \in [Token -> Nat]
      /\ totalSupply' = (totalSupply + FeeShares(reserve)) + lp
      /\ balanceOf' = [SharesWithFee(reserve) EXCEPT ![to] = @ + lp]
      /\ ShareTypes /\ totalSupply \in Nat
  BY DEF Deposited, TradedTo, Funded, ShareTypes
<1>2. /\ FeeShares(reserve) \in Nat
      /\ SharesWithFee(reserve) \in [Holder -> Nat]
      /\ \A h \in Holder : SharesWithFee(reserve)[h] <= balanceOf[h] + FeeShares(reserve)
  BY <1>1, FeeSharesFacts, SharesWithFeeFacts
<1>3. to \in Holder /\ Collector \in Holder /\ Collector # to
  BY PairAssumption DEF Holder
<1> QED
  BY <1>1, <1>2, <1>3

\* The same of a withdrawal: it leaves shares.
LEMMA WithdrawalFacts ==
  ASSUME Funded, NEW from \in Holder, NEW lp \in Nat, NEW reserve,
         Withdrawn(reserve, from, lp)
  PROVE  /\ reserve \in [Token -> Nat \ {0}] /\ FeeShares(reserve) \in Nat
         /\ lp < totalSupply
         /\ totalSupply' \in Nat /\ totalSupply' > 0
         /\ balanceOf' \in [Holder -> Nat]
         /\ balanceOf'[Collector] <= balanceOf[Collector] + FeeShares(reserve)
<1>1. /\ reserve \in [Token -> Nat \ {0}] /\ reserve \in [Token -> Nat]
      /\ totalSupply' = totalSupply + (FeeShares(reserve) - lp)
      /\ balanceOf' = [SharesWithFee(reserve) EXCEPT ![from] = @ - lp]
      /\ lp < totalSupply /\ SharesWithFee(reserve)[from] >= lp
      /\ ShareTypes /\ totalSupply \in Nat
  BY DEF Withdrawn, TradedTo, CanBurn, Funded, ShareTypes
<1>2. /\ FeeShares(reserve) \in Nat
      /\ SharesWithFee(reserve) \in [Holder -> Nat]
      /\ \A h \in Holder : SharesWithFee(reserve)[h] <= balanceOf[h] + FeeShares(reserve)
  BY <1>1, FeeSharesFacts, SharesWithFeeFacts
<1>3. Collector \in Holder /\ balanceOf[Collector] \in Nat
  BY <1>1 DEF Holder, ShareTypes
<1> DEFINE s == SharesWithFee(reserve)
           fee == FeeShares(reserve)
<1> HIDE DEF s, fee
<1>4. /\ s \in [Holder -> Nat] /\ s[from] - lp \in Nat
      /\ s[Collector] <= balanceOf[Collector] + fee /\ fee \in Nat
      /\ balanceOf' = [s EXCEPT ![from] = s[from] - lp]
  BY <1>1, <1>2, <1>3 DEF s, fee
<1>5. balanceOf' \in [Holder -> Nat]
  BY <1>4
<1>6. balanceOf'[Collector] <= s[Collector]
  <2>1. s[Collector] \in Nat /\ s[from] \in Nat
    BY <1>3, <1>4
  <2>2. balanceOf'[Collector] = IF Collector = from THEN s[from] - lp ELSE s[Collector]
    BY <1>3, <1>4
  <2> QED
    BY <2>1, <2>2
<1>7. balanceOf'[Collector] <= balanceOf[Collector] + fee
  <2>1. s[Collector] \in Nat /\ balanceOf'[Collector] \in Nat
    BY <1>3, <1>4, <1>5
  <2> QED
    BY <1>3, <1>4, <1>6, <2>1
<1>8. totalSupply' \in Nat /\ totalSupply' > 0
  BY <1>1, <1>2
<1> QED
  BY <1>1, <1>2, <1>5, <1>7, <1>8 DEF fee

\* A measurement of the reserves as they are is no larger than they are.
LEMMA JustMeasured ==
  ASSUME Orderly', ShareTypes, rootKLast' = RootKLastAfter(reserveMap')
  PROVE  Measured' /\ rootKLast' \in Nat
<1>1. reserveMap' \in [Token -> Nat]
  BY DEF Orderly, Claims, Bookkeeping, TypeOK
<1>2. RootK(reserveMap') \in Nat
  BY <1>1, RootKType
<1>3. CASE FeeOn
  <2>1. rootKLast' = RootK(reserveMap')
    BY <1>3 DEF RootKLastAfter
  <2>2. reserveMap'["A"] * reserveMap'["B"] <= reserveMap'["A"] * reserveMap'["B"]
    BY <1>1 DEF Token
  <2> QED
    BY <1>1, <1>2, <2>1, <2>2 DEF Measured
<1>4. CASE ~FeeOn
  BY <1>4 DEF RootKLastAfter, Measured
<1> QED
  BY <1>3, <1>4

\* A pair with liquidity keeps it.
LEMMA FundedKept ==
  ASSUME Funded, [OrderlyPairNext]_pairVars
  PROVE  Funded'
<1>1. Orderly' /\ ShareTypes
  BY FundedStep DEF Funded
<1>2. ASSUME NEW to \in Account, NEW lp \in Nat, NEW reserve, Deposited(reserve, to, lp)
      PROVE  Funded'
  <2>1. /\ totalSupply' \in Nat /\ totalSupply' >= totalSupply
        /\ balanceOf' \in [Holder -> Nat]
    BY <1>1, <1>2, DepositFacts
  <2>2. Measured' /\ rootKLast' \in Nat
    BY <1>1, <1>2, JustMeasured DEF Deposited
  <2>3. feeTo' = feeTo /\ feeArg' = feeArg
    BY <1>2 DEF Deposited, feeVars
  <2> QED
    BY <1>1, <2>1, <2>2, <2>3 DEF Funded, ShareTypes
<1>3. ASSUME NEW from \in Holder, NEW lp \in Nat, NEW reserve, Withdrawn(reserve, from, lp)
      PROVE  Funded'
  <2>1. totalSupply' \in Nat /\ totalSupply' > 0 /\ balanceOf' \in [Holder -> Nat]
    BY <1>3, WithdrawalFacts
  <2>2. Measured' /\ rootKLast' \in Nat
    BY <1>1, <1>3, JustMeasured DEF Withdrawn
  <2>3. feeTo' = feeTo /\ feeArg' = feeArg
    BY <1>3 DEF Withdrawn, feeVars
  <2> QED
    BY <1>1, <2>1, <2>2, <2>3 DEF Funded, ShareTypes
<1>4. ASSUME TradedOnly PROVE Funded'
  <2>1. /\ totalSupply' = totalSupply /\ balanceOf' = balanceOf /\ rootKLast' = rootKLast
        /\ feeTo' \in {NoAddress, Collector} /\ feeArg' \in Nat
        /\ reserveMap["A"] * reserveMap["B"] <= reserveMap'["A"] * reserveMap'["B"]
    BY <1>4 DEF TradedOnly, shareVars
  <2>2. ASSUME NEW m \in [Token -> Nat], m["A"] * m["B"] <= reserveMap["A"] * reserveMap["B"]
        PROVE  m["A"] * m["B"] <= reserveMap'["A"] * reserveMap'["B"]
    <3>1. reserveMap \in [Token -> Nat \ {0}] /\ reserveMap' \in [Token -> Nat \ {0}]
      BY <1>1 DEF Funded, Orderly, Claims, Bookkeeping, TypeOK
    <3>2. /\ m["A"] * m["B"] \in Int /\ reserveMap["A"] * reserveMap["B"] \in Int
          /\ reserveMap'["A"] * reserveMap'["B"] \in Int
      BY <3>1 DEF Token
    <3> QED
      BY <2>1, <2>2, <3>2
  <2>3. Measured'
    BY <2>1, <2>2 DEF Funded, Measured
  <2> QED
    BY <1>1, <2>1, <2>3 DEF Funded, ShareTypes
<1> QED
  BY <1>2, <1>3, <1>4, FundedStep

\* A pair without liquidity: nothing has been executed since it was deployed.
Unfunded ==
  /\ block \in Block /\ DeployBlock <= block
  /\ lastVirtualOrderBlock = DeployBlock
  /\ OrderPoolMap = [t \in Token |-> EmptyPool]
  /\ expiries = {LastExpiryBlock(DeployBlock)}
  /\ orderId = 0
  /\ orderMap = <<>>
  /\ orderIdMap = [a \in Account |-> <<>>]
  /\ orderIdStatusMap = [i \in OrderId |-> FALSE]
  /\ reserveMap = [t \in Token |-> 0]
  /\ balance = [t \in Token |-> 0]
  /\ ShareTypes
  /\ totalSupply = 0
  /\ rootKLast = 0

\* The types that a pair without liquidity has.
LEMMA UnfundedTypes ==
  ASSUME Unfunded
  PROVE  /\ block \in Block /\ block \in Nat
         /\ lastVirtualOrderBlock \in Nat /\ lastVirtualOrderBlock <= block
         /\ expiries \in SUBSET Block
         /\ OrderPoolMap \in [Token -> Pool]
<1>1. block \in Block /\ block \in Nat /\ DeployBlock \in Nat /\ DeployBlock <= block
  BY OrdersAssumption, BlockNat DEF Unfunded
<1>2. expiries \in SUBSET Block
  <2>1. LastExpiryBlock(DeployBlock) \in Nat /\ LastExpiryBlock(DeployBlock) <= DeployBlock
    BY <1>1, LastExpiryBlockBelow
  <2>2. LastExpiryBlock(DeployBlock) \in Block
    BY <1>1, <2>1, PoolAssumption DEF Block
  <2> QED
    BY <2>2 DEF Unfunded
<1> QED
  BY <1>1, <1>2, EmptyPoolType DEF Unfunded

\* The pair is created without liquidity.
LEMMA PairInitUnfunded == PairInit => Unfunded
<1> SUFFICES ASSUME PairInit PROVE Unfunded
  OBVIOUS
<1>1. block \in Block /\ DeployBlock <= block /\ block = DeployBlock
  BY OrdersAssumption, BlockNat DEF PairInit, Deployed
<1>2. ShareTypes
  BY DEF PairInit, ShareTypes
<1> QED
  BY <1>1, <1>2 DEF PairInit, Deployed, Unfunded

\* Initial liquidity.
LEMMA AddInitialLiquidityStep ==
  ASSUME Unfunded, NEW to \in Account, NEW amount \in [Token -> Nat],
         AddInitialLiquidity(to, amount)
  PROVE  Funded' /\ balanceOf'[Collector] = balanceOf[Collector]
<1>1. /\ \A t \in Token : amount[t] > 0
      /\ reserveMap' = amount /\ totalSupply' = RootK(amount)
      /\ balanceOf' = [balanceOf EXCEPT ![to] = @ + RootK(amount)]
      /\ rootKLast' = RootKLastAfter(amount)
      /\ balance' = [t \in Token |-> balance[t] + amount[t]]
      /\ UNCHANGED <<lastVirtualOrderBlock, OrderPoolMap, expiries>>
      /\ UNCHANGED <<block, orderVars, feeVars>>
  BY DEF AddInitialLiquidity, ProvideInitialLiquidity
<1>2. /\ ShareTypes /\ balanceOf \in [Holder -> Nat]
      /\ \A t \in Token : balance[t] = 0
  BY DEF Unfunded, ShareTypes
<1>3. RootK(amount) \in Nat /\ RootK(amount) > 0
  BY <1>1, RootKType
<1>4. Orderly'
  <2>1. reserveMap' \in [Token -> Nat \ {0}]
    BY <1>1
  <2>2. balance' = reserveMap'
    BY <1>1, <1>2
  <2>3. Unused'
    BY <1>1, <2>1, <2>2 DEF Unfunded, Unused, orderVars
  <2> QED
    BY <2>3, UnusedOrderly, PTL
<1>5. Measured' /\ rootKLast' \in Nat
  BY <1>1, <1>2, <1>4, JustMeasured
<1>6. to \in Holder /\ Collector \in Holder /\ Collector # to
  BY PairAssumption DEF Holder
<1>7. balanceOf' \in [Holder -> Nat] /\ balanceOf'[Collector] = balanceOf[Collector]
  BY <1>1, <1>2, <1>3, <1>6
<1> QED
  BY <1>1, <1>2, <1>3, <1>4, <1>5, <1>7 DEF Funded, ShareTypes, feeVars

\* Nothing else can be done with a pair without liquidity, but to wait and to
\* change the fee.
LEMMA UnfundedStep ==
  ASSUME Unfunded, [OrderlyPairNext]_pairVars
  PROVE  /\ Unfunded' \/ Funded'
         /\ balanceOf'[Collector] = balanceOf[Collector]
<1>1. /\ block \in Nat /\ lastVirtualOrderBlock \in Nat
      /\ expiries \in SUBSET Block /\ ShareTypes
      /\ \A t \in Token : reserveMap[t] = 0
      /\ "A" \in Token
      /\ feeTo \in {NoAddress, Collector} /\ feeArg \in Nat
  BY UnfundedTypes DEF Unfunded, ShareTypes, Token
<1>2. \A n \in Nat, tree \in SUBSET Block : ~ExecuteUntil(tree, n).ok
  BY <1>1, UnfundedReverts DEF Unfunded
<1>3. ASSUME UNCHANGED <<lastVirtualOrderBlock, OrderPoolMap, expiries, orderId, orderMap,
                         orderIdMap, orderIdStatusMap, reserveMap, balance, shareVars>>,
             block' \in Block, DeployBlock <= block',
             feeTo' \in {NoAddress, Collector}, feeArg' \in Nat
      PROVE  Unfunded' /\ balanceOf' = balanceOf
  BY <1>3 DEF Unfunded, ShareTypes, shareVars
<1>4. ASSUME Next, UNCHANGED <<shareVars, feeVars>>
      PROVE  Unfunded' /\ balanceOf' = balanceOf
  <2>1. ASSUME NEW from \in Token, NEW sender \in Account, NEW amount \in Amount,
               NEW n \in BlockIntervals, PerformLongTermSwap(from, sender, amount, n)
        PROVE  FALSE
    BY <1>1, <2>1 DEF PerformLongTermSwap
  <2>2. ASSUME NEW id \in 0 .. orderId - 1 PROVE FALSE
    BY DEF Unfunded
  <2>3. ASSUME NEW n \in Block, ExecuteVirtualOrders(n) PROVE FALSE
    <3>1. ExecuteUntil(expiries, n).ok
      BY <2>3 DEF ExecuteVirtualOrders
    <3> QED
      BY <1>1, <1>2, <3>1, BlockNat
  <2>4. Tick
    BY <1>4, <2>1, <2>2, <2>3 DEF Next
  <2>5. block' \in Block /\ DeployBlock <= block'
    <3>1. /\ block < MaxBlock /\ block' = block + 1 /\ MaxBlock \in Nat
          /\ DeployBlock \in Nat /\ DeployBlock <= block
      BY <2>4, PoolAssumption, OrdersAssumption, BlockNat DEF Tick, Unfunded
    <3> QED
      BY <1>1, <3>1 DEF Block
  <2>6. feeTo' = feeTo /\ feeArg' = feeArg /\ UNCHANGED shareVars
    BY <1>4 DEF feeVars
  <2> QED
    BY <1>1, <1>3, <2>4, <2>5, <2>6 DEF Tick
<1>5. ASSUME UNCHANGED <<vars, shareVars>>,
             feeTo' \in {NoAddress, Collector}, feeArg' \in Nat
      PROVE  Unfunded' /\ balanceOf' = balanceOf
  <2>1. block' \in Block /\ DeployBlock <= block'
    BY <1>5 DEF Unfunded, vars
  <2> QED
    BY <1>3, <1>5, <2>1 DEF vars
<1>6. ASSUME NEW to \in Account, NEW amount \in InitialAmounts,
             AddInitialLiquidity(to, amount)
      PROVE  Funded' /\ balanceOf'[Collector] = balanceOf[Collector]
  BY <1>6, PairAssumption, AddInitialLiquidityStep
<1>7. ASSUME NEW sender \in Account, NEW lp \in LpAmount, AddLiquidity(sender, lp)
      PROVE  FALSE
  BY <1>7 DEF AddLiquidity, Unfunded
<1>8. ASSUME NEW sender \in Holder, NEW lp \in LpAmount, WithdrawLiquidity(sender, lp)
      PROVE  FALSE
  <2>1. lp > 0 /\ lp < totalSupply /\ lp \in Nat
    BY <1>8, PairAssumption DEF WithdrawLiquidity, RemoveLiquidity, CanBurn
  <2> QED
    BY <2>1 DEF Unfunded
<1>9. ASSUME NEW from \in Token, NEW amountIn \in SwapAmount, InstantSwap(from, amountIn)
      PROVE  FALSE
  BY <1>1, <1>9 DEF InstantSwap, PerformInstantSwap
<1>10. CASE UNCHANGED pairVars
  BY <1>1, <1>5, <1>10 DEF pairVars, feeVars
<1>11. CASE PairNext
  <2>1. CASE Next /\ UNCHANGED <<shareVars, feeVars>>
    BY <1>4, <2>1
  <2>2. CASE \E to \in {NoAddress, Collector} : SetFeeTo(to)
    BY <1>1, <1>5, <2>2 DEF SetFeeTo
  <2>3. CASE \E arg \in FeeArg : SetFeeArg(arg)
    BY <1>1, <1>5, <2>3, PairAssumption DEF SetFeeArg
  <2> QED
    BY <1>6, <1>7, <1>8, <1>9, <1>11, <2>1, <2>2, <2>3 DEF PairNext, SetFee
<1> QED
  BY <1>10, <1>11 DEF OrderlyPairNext
-----------------------------------------------------------------------------
(***************************************************************************)
(* What the properties say of a step.                                      *)
(***************************************************************************)

\* If each reserve per share, a of t, is not less than it was, p of s, then the
\* product per share squared is not.
LEMMA ValuePerShare ==
  ASSUME NEW a \in Nat, NEW b \in Nat, NEW p \in Nat, NEW q \in Nat,
         NEW u \in Nat, NEW v \in Nat, NEW s \in Nat, NEW t \in Nat,
         u * v <= p * q, p * t <= a * s, q * t <= b * s
  PROVE  a * b * s * s >= u * v * t * t
<1>1. (p * t) * (q * t) <= (a * s) * (b * s)
  BY MulNat, MulMono2
<1>2. (u * v) * (t * t) <= (p * q) * (t * t)
  BY MulNat, MulMono
<1>3. /\ (p * t) * (q * t) = (p * q) * (t * t)
      /\ (a * s) * (b * s) = a * b * s * s
      /\ (u * v) * (t * t) = u * v * t * t
  OBVIOUS
<1>4. /\ (p * q) * (t * t) \in Nat /\ a * b * s * s \in Nat /\ u * v * t * t \in Nat
  BY MulNat
<1> QED
  BY <1>1, <1>2, <1>3, <1>4

\* A deposit, a withdrawal and trading when no fee is due.
LEMMA ShareValueStep ==
  ASSUME Funded, [OrderlyPairNext]_pairVars, ~FeeOn \/ rootKLast = 0
  PROVE  LET d == IF totalSupply' > totalSupply THEN 1 ELSE 0
         IN  (reserveMap'["A"] + d) * (reserveMap'["B"] + d)
               * totalSupply * totalSupply
             >= reserveMap["A"] * reserveMap["B"]
                  * totalSupply' * totalSupply'
<1> DEFINE d == IF totalSupply' > totalSupply THEN 1 ELSE 0
<1> SUFFICES (reserveMap'["A"] + d) * (reserveMap'["B"] + d) * totalSupply * totalSupply
               >= reserveMap["A"] * reserveMap["B"] * totalSupply' * totalSupply'
  OBVIOUS
<1>1. /\ Orderly' /\ ShareTypes /\ totalSupply \in Nat \ {0}
      /\ reserveMap \in [Token -> Nat] /\ reserveMap' \in [Token -> Nat]
      /\ "A" \in Token /\ "B" \in Token
  BY FundedStep, SMTT(60) DEF Funded, ShareTypes, Orderly, Claims, Bookkeeping, TypeOK, Token
<1>2. ASSUME NEW to \in Account, NEW lp \in Nat, NEW reserve, Deposited(reserve, to, lp)
      PROVE  (reserveMap'["A"] + d) * (reserveMap'["B"] + d) * totalSupply * totalSupply
               >= reserveMap["A"] * reserveMap["B"] * totalSupply' * totalSupply'
  <2>1. /\ reserve \in [Token -> Nat \ {0}]
        /\ totalSupply' \in Nat /\ FeeShares(reserve) = 0
    BY <1>1, <1>2, DepositFacts, FeeSharesFacts
  <2>2. /\ totalSupply' = totalSupply + lp
        /\ reserveMap["A"] * reserveMap["B"] <= reserve["A"] * reserve["B"]
        /\ \A t \in Token : reserveMap'[t] = reserve[t] + Worth(lp, reserve)[t]
    BY <1>1, <1>2, <2>1 DEF Deposited, TradedTo
  <2>3. ASSUME NEW t \in Token
        PROVE  reserve[t] * totalSupply' <= (reserveMap'[t] + d) * totalSupply
    <3> DEFINE w == Worth(lp, reserve)[t]
               x == reserve[t]
    <3>1. w \in Nat /\ x \in Nat /\ lp * x < totalSupply * (w + 1)
          /\ totalSupply * w <= lp * x
      BY <1>1, <2>1, WorthFacts
    <3> HIDE DEF w, x
    <3>2. x * (totalSupply + lp) = totalSupply * x + lp * x
      BY <1>1, <3>1
    <3>3. CASE lp > 0
      <4>1. d = 1 /\ reserveMap'[t] = x + w
        BY <1>1, <2>2, <3>3 DEF x, w
      <4>2. ((x + w) + 1) * totalSupply = totalSupply * x + totalSupply * (w + 1)
        BY <1>1, <3>1
      <4>3. /\ lp * x \in Nat /\ totalSupply * x \in Nat /\ totalSupply * (w + 1) \in Nat
        BY <1>1, <3>1, MulNat
      <4>4. x * totalSupply' <= (reserveMap'[t] + d) * totalSupply
        BY <2>2, <3>1, <3>2, <4>1, <4>2, <4>3
      <4> QED
        BY <4>4 DEF x
    <3>4. CASE lp = 0
      <4>1. d = 0 /\ reserveMap'[t] = x + w /\ lp * x = 0
        BY <1>1, <2>2, <3>1, <3>4 DEF x, w
      <4>2. (x + w) * totalSupply = totalSupply * x + totalSupply * w
        BY <1>1, <3>1
      <4>3. totalSupply * x \in Nat /\ totalSupply * w \in Nat
        BY <1>1, <3>1, MulNat
      <4>4. x * totalSupply' <= (reserveMap'[t] + d) * totalSupply
        BY <1>1, <2>2, <3>1, <3>2, <4>1, <4>2, <4>3
      <4> QED
        BY <4>4 DEF x
    <3> QED
      BY <3>3, <3>4
  <2>4. /\ reserveMap'["A"] + d \in Nat /\ reserveMap'["B"] + d \in Nat
        /\ reserve["A"] \in Nat /\ reserve["B"] \in Nat
        /\ reserveMap["A"] \in Nat /\ reserveMap["B"] \in Nat /\ totalSupply \in Nat
    BY <1>1, <2>1
  <2> HIDE DEF d
  <2> QED
    BY <1>1, <2>1, <2>2, <2>3, <2>4, ValuePerShare
<1>3. ASSUME NEW from \in Holder, NEW lp \in Nat, NEW reserve, Withdrawn(reserve, from, lp)
      PROVE  (reserveMap'["A"] + d) * (reserveMap'["B"] + d) * totalSupply * totalSupply
               >= reserveMap["A"] * reserveMap["B"] * totalSupply' * totalSupply'
  <2>1. /\ reserve \in [Token -> Nat \ {0}] /\ lp < totalSupply
        /\ totalSupply' \in Nat /\ FeeShares(reserve) = 0
    BY <1>1, <1>3, WithdrawalFacts, FeeSharesFacts
  <2>2. /\ totalSupply' = totalSupply - lp /\ lp > 0
        /\ reserveMap["A"] * reserveMap["B"] <= reserve["A"] * reserve["B"]
        /\ \A t \in Token : reserveMap'[t] = reserve[t] - Worth(lp, reserve)[t]
    BY <1>1, <1>3, <2>1 DEF Withdrawn, TradedTo, CanBurn
  <2>3. d = 0
    BY <1>1, <2>1, <2>2
  <2> HIDE DEF d
  <2>4. ASSUME NEW t \in Token
        PROVE  reserve[t] * totalSupply' <= (reserveMap'[t] + d) * totalSupply
    <3> DEFINE w == Worth(lp, reserve)[t]
               x == reserve[t]
    <3>1. w \in Nat /\ x \in Nat /\ totalSupply * w <= lp * x
      BY <1>1, <2>1, WorthFacts
    <3>2. reserveMap'[t] = x - w
      BY <2>2
    <3> HIDE DEF w, x
    <3>3. /\ x * (totalSupply - lp) = totalSupply * x - lp * x
          /\ (x - w) * totalSupply = totalSupply * x - totalSupply * w
      BY <1>1, <3>1
    <3>4. totalSupply * x \in Nat /\ totalSupply * w \in Nat /\ lp * x \in Nat
      BY <1>1, <3>1, MulNat
    <3>5. (reserveMap'[t] + d) = x - w
      BY <2>3, <3>1, <3>2
    <3>6. x * totalSupply' <= (reserveMap'[t] + d) * totalSupply
      BY <2>2, <3>1, <3>3, <3>4, <3>5
    <3> QED
      BY <3>6 DEF x
  <2>5. /\ reserveMap'["A"] + d \in Nat /\ reserveMap'["B"] + d \in Nat
        /\ reserve["A"] \in Nat /\ reserve["B"] \in Nat
        /\ reserveMap["A"] \in Nat /\ reserveMap["B"] \in Nat /\ totalSupply \in Nat
    BY <1>1, <2>1, <2>3
  <2> QED
    BY <1>1, <2>1, <2>2, <2>4, <2>5, ValuePerShare
<1>4. ASSUME TradedOnly
      PROVE  (reserveMap'["A"] + d) * (reserveMap'["B"] + d) * totalSupply * totalSupply
               >= reserveMap["A"] * reserveMap["B"] * totalSupply' * totalSupply'
  <2>1. /\ totalSupply' = totalSupply
        /\ reserveMap["A"] * reserveMap["B"] <= reserveMap'["A"] * reserveMap'["B"]
    BY <1>4 DEF TradedOnly, shareVars
  <2>2. d = 0
    BY <1>1, <2>1
  <2> HIDE DEF d
  <2>3. /\ reserveMap'["A"] + d = reserveMap'["A"] /\ reserveMap'["B"] + d = reserveMap'["B"]
        /\ reserveMap'["A"] \in Nat /\ reserveMap'["B"] \in Nat
        /\ reserveMap["A"] \in Nat /\ reserveMap["B"] \in Nat /\ totalSupply \in Nat
    BY <1>1, <2>2
  <2>4. /\ reserveMap'["A"] * totalSupply <= reserveMap'["A"] * totalSupply
        /\ reserveMap'["B"] * totalSupply <= reserveMap'["B"] * totalSupply
    BY <2>3
  <2> QED
    BY <2>1, <2>3, <2>4, ValuePerShare
<1> QED
  BY <1>2, <1>3, <1>4, FundedStep

\* The fee that a step mints.
LEMMA FeeStep ==
  ASSUME Funded, [OrderlyPairNext]_pairVars, lastVirtualOrderBlock = block,
         balanceOf'[Collector] > balanceOf[Collector]
  PROVE  LET minted == balanceOf'[Collector] - balanceOf[Collector]
             rootK  == RootK(reserveMap)
         IN  minted * rootK * (feeArg + 1)
               <= (rootK - rootKLast) * (totalSupply + minted)
<1> DEFINE m == balanceOf'[Collector] - balanceOf[Collector]
           k == RootK(reserveMap)
           fee == FeeShares(reserveMap)
<1>1. /\ ShareTypes /\ totalSupply \in Nat /\ rootKLast \in Nat /\ feeArg \in Nat
      /\ reserveMap \in [Token -> Nat] /\ Collector \in Holder
      /\ balanceOf[Collector] \in Nat
  BY DEF Funded, ShareTypes, Orderly, Claims, Bookkeeping, TypeOK, Holder
<1>2. balanceOf'[Collector] \in Nat /\ balanceOf'[Collector] <= balanceOf[Collector] + fee
  <2>1. ASSUME NEW to \in Account, NEW lp \in Nat, NEW reserve, Deposited(reserve, to, lp)
        PROVE  /\ balanceOf'[Collector] \in Nat
               /\ balanceOf'[Collector] <= balanceOf[Collector] + fee
    <3>1. reserve = reserveMap
      BY <2>1 DEF Deposited, TradedTo
    <3>2. Orderly'
      BY FundedStep
    <3>3. /\ balanceOf' \in [Holder -> Nat]
          /\ balanceOf'[Collector] <= balanceOf[Collector] + FeeShares(reserve)
      BY <2>1, <3>2, DepositFacts
    <3> QED
      BY <1>1, <3>1, <3>3
  <2>2. ASSUME NEW from \in Holder, NEW lp \in Nat, NEW reserve, Withdrawn(reserve, from, lp)
        PROVE  /\ balanceOf'[Collector] \in Nat
               /\ balanceOf'[Collector] <= balanceOf[Collector] + fee
    <3>1. reserve = reserveMap
      BY <2>2 DEF Withdrawn, TradedTo
    <3>2. /\ balanceOf' \in [Holder -> Nat]
          /\ balanceOf'[Collector] <= balanceOf[Collector] + FeeShares(reserve)
      BY <2>2, WithdrawalFacts
    <3> QED
      BY <1>1, <3>1, <3>2
  <2>3. ~TradedOnly
    BY <1>1 DEF TradedOnly, shareVars
  <2> QED
    BY <2>1, <2>2, <2>3, FundedStep
<1>3. k \in Nat /\ fee \in Nat
  BY <1>1, RootKType, FeeSharesFacts
<1> HIDE DEF fee, k
<1>4. m \in Nat /\ m > 0 /\ m <= fee
  BY <1>1, <1>2, <1>3
<1> HIDE DEF m
<1>5. rootKLast < k /\ fee * (k * feeArg + rootKLast) <= totalSupply * (k - rootKLast)
  <2>1. FeeShares(reserveMap) > 0
    BY <1>3, <1>4 DEF fee
  <2> QED
    BY <1>1, <2>1, FeeSharesFacts DEF fee, k
<1> DEFINE c == k * feeArg + rootKLast
           g == k - rootKLast
<1>6. c \in Nat /\ g \in Nat
  BY <1>1, <1>3, <1>5, MulNat
<1>7. m * c <= fee * c
  BY <1>3, <1>4, <1>6, MulMono
<1>8. /\ m * k * (feeArg + 1) = m * c + m * g
      /\ g * (totalSupply + m) = totalSupply * g + m * g
  BY <1>1, <1>3, <1>4
<1>9. /\ m * c \in Nat /\ fee * c \in Nat /\ m * g \in Nat /\ totalSupply * g \in Nat
  BY <1>1, <1>3, <1>4, <1>6, MulNat
<1>10. fee * c <= totalSupply * g
  BY <1>5
<1> HIDE DEF c, g
<1>11. m * k * (feeArg + 1) <= g * (totalSupply + m)
  BY <1>7, <1>8, <1>9, <1>10
<1> QED
  BY <1>11 DEF m, k, g
-----------------------------------------------------------------------------
(***************************************************************************)
(* The theorems.                                                           *)
(***************************************************************************)

\* Every reachable state is one of a pair without liquidity, or of one with it.
THEOREM SpecFunded == OrderlyPairSpec => [](Unfunded \/ Funded)
<1>1. PairInit => Unfunded \/ Funded
  BY PairInitUnfunded
<1>2. (Unfunded \/ Funded) /\ [OrderlyPairNext]_pairVars => (Unfunded \/ Funded)'
  BY UnfundedStep, FundedKept
<1> QED
  BY <1>1, <1>2, PTL DEF OrderlyPairSpec

\* The types of the pair.
THEOREM PairTypeCorrect == OrderlyPairSpec => []PairTypeOK
<1>1. Funded => PairTypeOK
  <2> SUFFICES ASSUME Funded PROVE PairTypeOK
    OBVIOUS
  <2>1. TypeOK /\ ShareTypes
    BY DEF Funded, Orderly, Claims, Bookkeeping
  <2> QED
    BY <2>1 DEF TypeOK, ShareTypes, PairTypeOK
<1>2. Unfunded => PairTypeOK
  <2> SUFFICES ASSUME Unfunded PROVE PairTypeOK
    OBVIOUS
  <2>1. ShareTypes /\ reserveMap \in [Token -> Nat] /\ balance \in [Token -> Nat]
    BY DEF Unfunded
  <2>2. lastVirtualOrderBlock \in 0 .. block
    BY UnfundedTypes
  <2> QED
    BY <2>1, <2>2, UnfundedTypes DEF ShareTypes, PairTypeOK
<1> QED
  BY <1>1, <1>2, SpecFunded, PTL

\* There are reserves of both tokens exactly as long as there are shares: no
\* withdrawal, swap or execution uses a reserve up, and burning never ends at
\* no shares (Pair.sol, removeLiquidity).
THEOREM ReservesBehindShares == OrderlyPairSpec => []SharesMeanReserves
<1>1. Funded => SharesMeanReserves
  BY OrderlyTypes DEF Funded, SharesMeanReserves
<1>2. Unfunded => SharesMeanReserves
  BY DEF Unfunded, SharesMeanReserves
<1> QED
  BY <1>1, <1>2, SpecFunded, PTL

\* The pair holds what it owes to the orders, and its reserves, through
\* deposits, withdrawals and instant swaps as well.
THEOREM PairSolvent == OrderlyPairSpec => []Solvent
<1>1. Funded => Solvent
  BY DEF Funded, Orderly
<1>2. Unfunded => Solvent
  <2> SUFFICES ASSUME Unfunded, NEW t \in Token
               PROVE  RATE_PRECISION * SCALE * balance[t]
                        >= RATE_PRECISION * SCALE * reserveMap[t]
                             + SCALE * Unsold(OrderPoolMap[t]) + Unpaid(OrderPoolMap[Other(t)])
    BY DEF Solvent
  <2>1. /\ OrderPoolMap[t] = EmptyPool /\ OrderPoolMap[Other(t)] = EmptyPool
        /\ balance[t] = 0 /\ reserveMap[t] = 0
    BY TokenOther DEF Unfunded
  <2>2. lastVirtualOrderBlock \in Nat /\ lastVirtualOrderBlock \in Block
    BY UnfundedTypes, OrdersAssumption DEF Unfunded
  <2>3. Unsold(EmptyPool) = 0 /\ Unpaid(EmptyPool) = 0
    BY <2>2, NoOrders, SumsOfProperties
  <2>4. RATE_PRECISION * SCALE * 0 = 0 /\ SCALE * 0 = 0
    BY PoolAssumption
  <2> QED
    BY <2>1, <2>3, <2>4
<1> QED
  BY <1>1, <1>2, SpecFunded, PTL

\* A pair that has liquidity is never locked: every operation starts with an
\* execution of the current block, and that succeeds.
THEOREM PairNeverLocked == OrderlyPairSpec => []FundedNeverLocked
<1>1. Funded => FundedNeverLocked
  BY OrderlyUnlocked DEF Funded, FundedNeverLocked
<1>2. Unfunded => FundedNeverLocked
  BY DEF Unfunded, FundedNeverLocked
<1> QED
  BY <1>1, <1>2, SpecFunded, PTL

\* The reserves are within the precision of the fixed-point numbers: at 18
\* decimals, less than 2.5 * 10^35 units.
WithinPrecision == \A t \in Token : 4 * reserveMap[t] <= SCALE * SCALE

\* The root measured last is never ahead of the reserves but for one unit of
\* rounding: mintFee pays for growth by trading only.
THEOREM RootMeasured == OrderlyPairSpec /\ []WithinPrecision => []RootKLastNotAhead
<1>1. Funded /\ WithinPrecision => RootKLastNotAhead
  <2> SUFFICES ASSUME Funded, WithinPrecision PROVE rootKLast <= RootK(reserveMap) + 1
    BY DEF RootKLastNotAhead
  <2>1. reserveMap \in [Token -> Nat] /\ RootK(reserveMap) \in Nat
    <3>1. reserveMap \in [Token -> Nat]
      BY DEF Funded, Orderly, Claims, Bookkeeping, TypeOK
    <3> QED
      BY <3>1, RootKType
  <2>2. CASE rootKLast = 0
    BY <2>1, <2>2
  <2>3. ASSUME NEW old \in [Token -> Nat], rootKLast = RootK(old),
               old["A"] * old["B"] <= reserveMap["A"] * reserveMap["B"]
        PROVE  rootKLast <= RootK(reserveMap) + 1
    BY <2>1, <2>3, RootKClose DEF WithinPrecision
  <2> QED
    BY <2>2, <2>3 DEF Funded, Measured
<1>2. Unfunded => RootKLastNotAhead
  <2> SUFFICES ASSUME Unfunded PROVE rootKLast <= RootK(reserveMap) + 1
    BY DEF RootKLastNotAhead
  <2>1. reserveMap \in [Token -> Nat] /\ rootKLast = 0
    BY DEF Unfunded
  <2>2. RootK(reserveMap) \in Nat
    BY <2>1, RootKType
  <2> QED
    BY <2>1, <2>2
<1> QED
  BY <1>1, <1>2, SpecFunded, PTL

\* While no fee is due, no operation of anybody takes from the value of a
\* share, but for the two roundings of a deposit.
THEOREM ShareValueCorrect == OrderlyPairSpec => ShareValueKept
<1> DEFINE Step ==
      (totalSupply > 0 /\ (~FeeOn \/ rootKLast = 0))
      => LET d == IF totalSupply' > totalSupply THEN 1 ELSE 0
         IN  (reserveMap'["A"] + d) * (reserveMap'["B"] + d)
               * totalSupply * totalSupply
             >= reserveMap["A"] * reserveMap["B"]
                  * totalSupply' * totalSupply'
<1>1. (Unfunded \/ Funded) /\ [OrderlyPairNext]_pairVars => Step
  BY ShareValueStep DEF Unfunded
<1> HIDE DEF Step
<1>2. OrderlyPairSpec => [][Step]_pairVars
  BY <1>1, SpecFunded, PTL DEF OrderlyPairSpec
<1> QED
  BY <1>2 DEF Step, ShareValueKept

\* The protocol gets at most one part in feeArg + 1 of the growth of the root
\* since it was measured (Pair.sol, line 82), in every operation that mints.
THEOREM FeeCorrect == OrderlyPairSpec => FeeIsPartOfGrowth
<1> DEFINE Step ==
      (lastVirtualOrderBlock = block /\ balanceOf'[Collector] > balanceOf[Collector])
      => LET minted == balanceOf'[Collector] - balanceOf[Collector]
             rootK  == RootK(reserveMap)
         IN  minted * rootK * (feeArg + 1)
               <= (rootK - rootKLast) * (totalSupply + minted)
<1>1. Funded /\ [OrderlyPairNext]_pairVars => Step
  BY FeeStep
<1>2. Unfunded /\ [OrderlyPairNext]_pairVars => Step
  <2> SUFFICES ASSUME Unfunded, [OrderlyPairNext]_pairVars
               PROVE  ~(balanceOf'[Collector] > balanceOf[Collector])
    OBVIOUS
  <2>1. balanceOf'[Collector] = balanceOf[Collector] /\ balanceOf[Collector] \in Nat
    BY UnfundedStep DEF Unfunded, ShareTypes, Holder
  <2> QED
    BY <2>1
<1> HIDE DEF Step
<1>3. OrderlyPairSpec => [][Step]_pairVars
  BY <1>1, <1>2, SpecFunded, PTL DEF OrderlyPairSpec
<1> QED
  BY <1>3 DEF Step, FeeIsPartOfGrowth
=============================================================================
