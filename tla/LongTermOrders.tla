--------------------------- MODULE LongTermOrders ---------------------------
(***************************************************************************)
(* contracts/libraries/LongTermOrders.sol: the life of the long-term       *)
(* orders of one pair, with the virtual execution of all of them up to a   *)
(* block.  The state is the LongTermOrders struct, the reserveMap that     *)
(* every function of the library is passed, and the two things around the  *)
(* library that it depends on: the block number and the pair's token       *)
(* balances.                                                               *)
(*                                                                         *)
(* A transaction is atomic: each action is one call of an entry point, and *)
(* a call that would revert (a failed require, a division by zero or a     *)
(* checked subtraction below zero) has no step.                            *)
(*                                                                         *)
(* The tree of expiry blocks is the set of its values here (Expiries);     *)
(* ExpiryTree models the tree itself, and its runs show that the loop      *)
(* below visits the values of the set in ascending order.                  *)
(***************************************************************************)
EXTENDS OrderPool, Expiries, Sums, Sequences

CONSTANTS
  Account,            \* users of the pair
  Amount,             \* bound: the amounts that users offer for sale
  BlockIntervals,     \* bound: the values of numberOfBlockIntervals
  LP_FEE,             \* fee of the liquidity providers, out of FEE_BASE
  FEE_BASE,           \* the literal 10000 in the fee computation
  DeployBlock,        \* block in which the pair is deployed and funded
  InitialReserve      \* reserves after the initial liquidity

VARIABLES
  block,                  \* block.number
  lastVirtualOrderBlock,
  OrderPoolMap,           \* token -> the pool of the orders selling it
  expiries,               \* expiryBlockTreeSinceLastExecution, as a set
  orderId,                \* next order id
  orderMap,               \* order id -> Order
  orderIdMap,             \* account -> its order ids
  orderIdStatusMap,       \* order id -> active?
  reserveMap,             \* token -> reserve of the embedded AMM
  balance                 \* token -> what the pair holds of it (IERC20)

vars == <<block, lastVirtualOrderBlock, OrderPoolMap, expiries, orderId,
          orderMap, orderIdMap, orderIdStatusMap, reserveMap, balance>>

Token == {"A", "B"}
Other(t) == IF t = "A" THEN "B" ELSE "A"

ASSUME OrdersAssumption ==
  /\ Amount \subseteq Nat
  /\ BlockIntervals \subseteq Nat
  /\ FEE_BASE \in Nat \ {0}
  /\ LP_FEE \in 0 .. FEE_BASE
  /\ DeployBlock \in Block
  /\ InitialReserve \in [Token -> Nat \ {0}]

Order == [submitBlock : Block,
          expirationBlock : Block,
          saleRate : Nat,
          sellAmount : Nat,
          buyAmount : Nat,
          owner : Account,
          sellTokenId : Token,
          buyTokenId : Token]
-----------------------------------------------------------------------------
(***************************************************************************)
(* Virtual execution works on a copy of the part of the state it changes.  *)
(* ok says that nothing has reverted so far.                               *)
(***************************************************************************)
ExecState == [ok : BOOLEAN,
              last : Block,
              reserve : [Token -> Nat],
              pool : [Token -> Pool]]

CurrentExecState == [ok |-> TRUE,
                     last |-> lastVirtualOrderBlock,
                     reserve |-> reserveMap,
                     pool |-> OrderPoolMap]

\* What the traders of the opposite side are paid in token t, before the fee.
ComputeVirtualOutRoundedUp(reserve, in, t) ==
  ((reserve[t] + in[t]) * in[Other(t)] + reserve[Other(t)] + in[Other(t)] - 1)
     \div (reserve[Other(t)] + in[Other(t)])

ComputeVirtualOut(reserve, in, t) ==
  ((reserve[t] + in[t]) * in[Other(t)])
     \div (reserve[Other(t)] + in[Other(t)])

(***************************************************************************)
(* executeVirtualTradesAndOrderExpiries: all orders sell from the last     *)
(* executed block up to block b, the pools share the proceeds, and the     *)
(* orders that end at b leave.                                             *)
(***************************************************************************)
ExecuteVirtualTradesAndOrderExpiries(x, b) ==
  LET in   == [t \in Token |-> (x.pool[t].currentSalesRate * (b - x.last))
                                  \div RATE_PRECISION]
      out  == [t \in Token |-> ComputeVirtualOut(x.reserve, in, t)]
      fee  == [t \in Token |-> (out[t] * LP_FEE) \div FEE_BASE]
      net  == [t \in Token |-> (out[t] * (FEE_BASE - LP_FEE)) \div FEE_BASE]
      paid == [t \in Token |-> DistributePayment(x.pool[t], net[Other(t)])]
  IN  IF /\ x.ok
         /\ \A t \in Token : x.reserve[t] + in[t] > 0
         /\ \A t \in Token : CanExpire(paid[t], b)
      THEN [ok |-> TRUE,
            last |-> b,
            reserve |-> [t \in Token |->
                           x.reserve[t] + in[t] - out[t] + fee[t]],
            pool |-> [t \in Token |-> UpdateStateFromBlockExpiry(paid[t], b)]]
      ELSE [x EXCEPT !.ok = FALSE]

\* The body of the loop over the expiry list, for a block b.
ExecuteListedOfA(list, x, b, blockNumber) ==
  IF /\ b \in list
     /\ x.pool["A"].salesRateEndingPerBlock[b] > 0
     /\ b > x.last
     /\ b < blockNumber
  THEN ExecuteVirtualTradesAndOrderExpiries(x, b)
  ELSE x

ExecuteListedToEnd(list, x, b, blockNumber) ==
  IF /\ b \in list
     /\ \E t \in Token : x.pool[t].salesRateEndingPerBlock[b] > 0
     /\ b > x.last
     /\ b <= blockNumber
  THEN ExecuteVirtualTradesAndOrderExpiries(x, b)
  ELSE x

ExecuteListed(list, x, b, blockNumber) ==
  IF /\ b \in list
     /\ \E t \in Token : x.pool[t].salesRateEndingPerBlock[b] > 0
     /\ b > x.last
     /\ b < blockNumber
  THEN ExecuteVirtualTradesAndOrderExpiries(x, b)
  ELSE x

(***************************************************************************)
(* executeVirtualOrdersUntilSpecifiedBlock, with the tree given (an order  *)
(* being placed has been inserted already).  The list is ascending: the    *)
(* loop visits the blocks in turn and acts on the listed ones.             *)
(***************************************************************************)
ExecuteUntil(tree, blockNumber) ==
  LET list == ExpiriesList(tree, lastVirtualOrderBlock, blockNumber)
      after[b \in Nat] ==
        IF b = 0 THEN CurrentExecState
        ELSE ExecuteListed(list, after[b - 1], b, blockNumber)
  IN  ExecuteVirtualTradesAndOrderExpiries(after[blockNumber], blockNumber)

\* The library's state after an execution that ended in x, with the pools as
\* the caller leaves them.
Commit(x, pools) ==
  /\ lastVirtualOrderBlock' = x.last
  /\ reserveMap' = x.reserve
  /\ OrderPoolMap' = pools
-----------------------------------------------------------------------------
\* The constructor of the pair, apart from its reserves.
Deployed ==
  /\ block = DeployBlock
  /\ lastVirtualOrderBlock = DeployBlock
  /\ OrderPoolMap = [t \in Token |-> EmptyPool]
  /\ expiries = {LastExpiryBlock(DeployBlock)}
  /\ orderId = 0
  /\ orderMap = <<>>
  /\ orderIdMap = [a \in Account |-> <<>>]
  /\ orderIdStatusMap = [i \in OrderId |-> FALSE]

\* A pair that gets its liquidity in the block of its deployment.
Init ==
  /\ Deployed
  /\ reserveMap = InitialReserve
  /\ balance = InitialReserve

\* A block is mined.
Tick ==
  /\ block < MaxBlock
  /\ block' = block + 1
  /\ UNCHANGED <<lastVirtualOrderBlock, OrderPoolMap, expiries, orderId,
                 orderMap, orderIdMap, orderIdStatusMap, reserveMap, balance>>

(***************************************************************************)
(* An account sells `amount' of token `from' until an expiry block.  The   *)
(* caller (TWAMM.longTermSwapTokenToToken) has just moved the amount to    *)
(* the pair.                                                               *)
(***************************************************************************)
PerformLongTermSwap(from, sender, amount, n) ==
  LET expiry == OrderExpiry(block, n)
      rate   == (amount * RATE_PRECISION) \div (expiry - block)
      tree   == expiries \cup {expiry}
      x      == ExecuteUntil(tree, block)
  IN  /\ orderId < MaxOrders /\ expiry < MaxBlock   \* bounds of the model
      /\ \A t \in Token : reserveMap[t] > 0
      /\ amount > 0
      /\ x.ok
      /\ Commit(x, [x.pool EXCEPT ![from] =
                      DepositOrder(@, orderId, rate, expiry)])
      /\ expiries' = TrimTree(tree, lastVirtualOrderBlock, block)
      /\ orderMap' = [i \in 0 .. orderId |->
                        IF i < orderId THEN orderMap[i]
                        ELSE [submitBlock |-> block,
                              expirationBlock |-> expiry,
                              saleRate |-> rate,
                              sellAmount |-> 0,
                              buyAmount |-> 0,
                              owner |-> sender,
                              sellTokenId |-> from,
                              buyTokenId |-> Other(from)]]
      /\ orderIdMap' = [orderIdMap EXCEPT ![sender] = Append(@, orderId)]
      /\ orderIdStatusMap' = [orderIdStatusMap EXCEPT ![orderId] = TRUE]
      /\ orderId' = orderId + 1
      /\ balance' = [balance EXCEPT ![from] = @ + amount]
      /\ UNCHANGED block

\* The owner of an order is paid what it bought, having sold until a block.
SettleForgetsEarlier(order, soldTo, bought) ==
  [order EXCEPT
     !.sellAmount = ((soldTo - order.submitBlock) * order.saleRate) \div RATE_PRECISION,
     !.buyAmount = bought]

Settle(order, soldTo, bought) ==
  [order EXCEPT
     !.sellAmount = ((soldTo - order.submitBlock) * order.saleRate) \div RATE_PRECISION,
     !.buyAmount = @ + bought]

\* No order of either pool ends at block e.
NothingEndsInSomePool(pools, e) ==
  \E t \in Token : pools[t].salesRateEndingPerBlock[e] = 0

NothingEndsAt(pools, e) ==
  \A t \in Token : pools[t].salesRateEndingPerBlock[e] = 0

(***************************************************************************)
(* cancelLongTermSwap: the unsold and the purchased tokens are paid out.   *)
(***************************************************************************)
CancelLongTermSwap(sender, id) ==
  LET x         == ExecuteUntil(expiries, block)
      order     == orderMap[id]
      sell      == order.sellTokenId
      buy       == order.buyTokenId
      unsold    == UnsoldAmount(x.pool[sell], id, block)
      purchased == PurchasedAmount(x.pool[sell], id)
      pools     == [x.pool EXCEPT ![sell] = CancelOrder(@, id)]
  IN  /\ orderIdStatusMap[id]
      /\ order.owner = sender
      /\ x.ok
      /\ CanCancel(x.pool[sell], id, block)
      /\ unsold > 0 \/ purchased > 0
      /\ balance[buy] >= purchased /\ balance[sell] >= unsold
      /\ Commit(x, pools)
      /\ expiries' = TrimTree(expiries, lastVirtualOrderBlock, block) \
                     {e \in {order.expirationBlock} : NothingEndsAt(pools, e)}
      /\ orderMap' = [orderMap EXCEPT ![id] = Settle(@, block, purchased)]
      /\ orderIdStatusMap' = [orderIdStatusMap EXCEPT ![id] = FALSE]
      /\ balance' = [balance EXCEPT ![buy] = @ - purchased,
                                    ![sell] = @ - unsold]
      /\ UNCHANGED <<block, orderId, orderIdMap>>

(***************************************************************************)
(* withdrawProceedsFromLongTermSwap: the proceeds so far are paid out; an  *)
(* expired order is closed.                                                *)
(***************************************************************************)
WithdrawProceedsFromLongTermSwap(sender, id) ==
  LET x        == ExecuteUntil(expiries, block)
      order    == orderMap[id]
      sell     == order.sellTokenId
      buy      == order.buyTokenId
      proceeds == TotalReward(x.pool[sell], id, block)
      expired  == order.expirationBlock <= block
      soldTo   == IF expired THEN order.expirationBlock ELSE block
  IN  /\ orderIdStatusMap[id]
      /\ order.owner = sender
      /\ x.ok
      /\ CanWithdraw(x.pool[sell], id, block)
      /\ proceeds > 0
      /\ balance[buy] >= proceeds
      /\ Commit(x, [x.pool EXCEPT ![sell] = WithdrawProceeds(@, id, block)])
      /\ expiries' = TrimTree(expiries, lastVirtualOrderBlock, block)
      /\ orderMap' = [orderMap EXCEPT ![id] = Settle(@, soldTo, proceeds)]
      /\ orderIdStatusMap' = [orderIdStatusMap EXCEPT ![id] = ~expired]
      /\ balance' = [balance EXCEPT ![buy] = @ - proceeds]
      /\ UNCHANGED <<block, orderId, orderIdMap>>

\* Pair.executeVirtualOrders: anyone may advance the orders to a past block.
ExecuteVirtualOrders(blockNumber) ==
  LET x == ExecuteUntil(expiries, blockNumber)
  IN  /\ blockNumber <= block
      /\ blockNumber >= lastVirtualOrderBlock
      /\ x.ok
      /\ Commit(x, x.pool)
      /\ expiries' = TrimTree(expiries, lastVirtualOrderBlock, blockNumber)
      /\ UNCHANGED <<block, orderId, orderMap, orderIdMap, orderIdStatusMap,
                     balance>>

Next ==
  \/ Tick
  \/ \E from \in Token, sender \in Account, amount \in Amount,
        n \in BlockIntervals : PerformLongTermSwap(from, sender, amount, n)
  \/ \E sender \in Account, id \in 0 .. orderId - 1 :
        \/ CancelLongTermSwap(sender, id)
        \/ WithdrawProceedsFromLongTermSwap(sender, id)
  \/ \E blockNumber \in Block : ExecuteVirtualOrders(blockNumber)

Spec == Init /\ [][Next]_vars
-----------------------------------------------------------------------------
(***************************************************************************)
(* The properties.                                                         *)
(***************************************************************************)
TypeOK ==
  /\ block \in Block
  /\ lastVirtualOrderBlock \in 0 .. block
  /\ OrderPoolMap \in [Token -> Pool]
  /\ expiries \subseteq Block
  /\ orderId \in 0 .. MaxOrders
  /\ orderMap \in [0 .. orderId - 1 -> Order]
  /\ orderIdMap \in [Account -> Seq(0 .. orderId - 1)]
  /\ orderIdStatusMap \in [OrderId -> BOOLEAN]
  /\ reserveMap \in [Token -> Nat \ {0}]
  /\ balance \in [Token -> Nat]

\* The sales rates of the orders of pool p that end at a block, or after it.
RateEndingAt(p, b) ==
  SumUpTo([i \in OrderId |-> IF p.orderExpiry[i] = b THEN p.salesRate[i] ELSE 0],
          MaxOrders)

RateEndingAfter(p, b) ==
  SumUpTo([i \in OrderId |-> IF p.orderExpiry[i] > b THEN p.salesRate[i] ELSE 0],
          MaxOrders)

(***************************************************************************)
(* What will leave a pool at a block to come is what the orders ending     *)
(* there sell: no deposit, cancellation or withdrawal of any order leaves  *)
(* a difference behind (OrderPool.salesRateEndingPerBlock).                *)
(***************************************************************************)
EndingRatesMatchOrders ==
  \A t \in Token, b \in Block :
    b > lastVirtualOrderBlock =>
      OrderPoolMap[t].salesRateEndingPerBlock[b] = RateEndingAt(OrderPoolMap[t], b)

(***************************************************************************)
(* A block to come at which orders end is in the tree of expiries, however *)
(* orders of both pools that share the block come and go: otherwise the    *)
(* execution would walk past the block and the orders sell on.             *)
(***************************************************************************)
EveryExpiryScheduled ==
  \A t \in Token, b \in Block :
    /\ b > lastVirtualOrderBlock
    /\ OrderPoolMap[t].salesRateEndingPerBlock[b] > 0
    => b \in expiries

(***************************************************************************)
(* The three records of an order agree: an active order has its stake and  *)
(* its expiry in the pool of the token it sells, a closed one has no stake *)
(* left in either pool, so nothing is paid twice.                          *)
(***************************************************************************)
OrderRecordsAgree ==
  \A id \in 0 .. orderId - 1 :
    LET order == orderMap[id]
        pool  == OrderPoolMap[order.sellTokenId]
    IN  /\ orderIdStatusMap[id] => /\ pool.salesRate[id] = order.saleRate
                                   /\ pool.orderExpiry[id] = order.expirationBlock
        /\ ~orderIdStatusMap[id] => pool.salesRate[id] = 0
        /\ OrderPoolMap[order.buyTokenId].salesRate[id] = 0

\* The reward factor up to which an order of pool p has sold.
ClaimFactor(p, id) ==
  IF p.orderExpiry[id] <= lastVirtualOrderBlock
  THEN p.rewardFactorAtBlock[p.orderExpiry[id]]
  ELSE p.rewardFactor

(***************************************************************************)
(* The proceeds of an order with a stake can always be computed: the       *)
(* checkpoint taken for the block at which it ended lies between the       *)
(* factor it was entered with and today's, whichever calls executed in     *)
(* between.  (The rate of a small amount over many blocks rounds to 0:     *)
(* nobody stops at the end of such an order, but withdrawProceeds requires *)
(* a stake before it computes anything.)                                   *)
(***************************************************************************)
CheckpointsOrdered ==
  \A id \in 0 .. orderId - 1 :
    LET pool == OrderPoolMap[orderMap[id].sellTokenId]
    IN  orderIdStatusMap[id] /\ pool.salesRate[id] > 0 =>
          /\ pool.rewardFactorAtSubmission[id] <= ClaimFactor(pool, id)
          /\ ClaimFactor(pool, id) <= pool.rewardFactor

(***************************************************************************)
(* What an order has been paid and what it can still claim never becomes   *)
(* less, through the steps of its owner and of everybody else.             *)
(***************************************************************************)
Received(id) ==
  LET pool == OrderPoolMap[orderMap[id].sellTokenId]
  IN  orderMap[id].buyAmount + Earned(pool, id, ClaimFactor(pool, id))

ProceedsNeverShrink ==
  [][\A id \in 0 .. orderId - 1 : Received(id)' >= Received(id)]_vars

(***************************************************************************)
(* Virtual trades never take from the liquidity providers: the product of  *)
(* the reserves does not fall, over every rounding of the code.            *)
(***************************************************************************)
ProductNeverFalls ==
  [][reserveMap'["A"] * reserveMap'["B"] >= reserveMap["A"] * reserveMap["B"]]_vars

(***************************************************************************)
(* OrderPool.sol, line 17: the current rate that tokens are being sold.    *)
(* It is the rate of the orders that have not ended.  See NoReexecution.   *)
(***************************************************************************)
SalesRateIsOfLiveOrders ==
  \A t \in Token :
    OrderPoolMap[t].currentSalesRate
      = RateEndingAfter(OrderPoolMap[t], lastVirtualOrderBlock)

(***************************************************************************)
(* The pair holds what it owes: the reserves, the unsold part of every     *)
(* order and the proceeds not yet paid out, counted exactly (in units of   *)
(* 1 / (RATE_PRECISION * SCALE) token), so that no roundings add up to a   *)
(* debt.                                                                   *)
(***************************************************************************)
Unsold(p) ==
  SumUpTo([i \in OrderId |-> IF p.orderExpiry[i] > lastVirtualOrderBlock
             THEN (p.orderExpiry[i] - lastVirtualOrderBlock) * p.salesRate[i]
             ELSE 0], MaxOrders)

Unpaid(p) ==
  SumUpTo([i \in OrderId |->
             (ClaimFactor(p, i) - p.rewardFactorAtSubmission[i]) * p.salesRate[i]],
          MaxOrders)

Solvent ==
  \A t \in Token :
    RATE_PRECISION * SCALE * balance[t]
      >= RATE_PRECISION * SCALE * reserveMap[t]
           + SCALE * Unsold(OrderPoolMap[t]) + Unpaid(OrderPoolMap[Other(t)])

(***************************************************************************)
(* What the owners of orders are promised (OrderBook): the steps of the    *)
(* others only add to what is due to an order, a withdrawal pays all that  *)
(* is due exactly once, a cancellation returns what has not been sold,     *)
(* what an owner gets is what leaves the pair, and a closed order is       *)
(* closed.                                                                 *)
(***************************************************************************)
Book ==
  [id \in 0 .. orderId - 1 |->
     LET order == orderMap[id]
         pool  == OrderPoolMap[order.sellTokenId]
     IN  [owner   |-> order.owner,
          sells   |-> order.sellTokenId,
          buys    |-> order.buyTokenId,
          open    |-> orderIdStatusMap[id],
          offered |-> ((order.expirationBlock - order.submitBlock) * order.saleRate)
                         \div RATE_PRECISION,
          sold    |-> order.sellAmount,
          paid    |-> order.buyAmount,
          due     |-> Earned(pool, id, ClaimFactor(pool, id))]]

OrderBook == INSTANCE OrderBook WITH book <- Book, vault <- balance

ImplementsOrderBook == OrderBook!Spec

-----------------------------------------------------------------------------
(***************************************************************************)
(* The code executes the block it has just executed again when a second    *)
(* call comes in the same block; if orders end at that block, their rate   *)
(* is subtracted a second time (LongTermOrders.sol, line 369).  The        *)
(* properties on the rates hold as long as that does not happen:           *)
(* OrderlySpec leaves those steps out, and nothing else.                   *)
(***************************************************************************)
OrdersEndAt(b) ==
  \E t \in Token : OrderPoolMap[t].salesRateEndingPerBlock[b] > 0

Reexecutes == /\ block' = block
              /\ lastVirtualOrderBlock' = lastVirtualOrderBlock
              /\ OrdersEndAt(lastVirtualOrderBlock)

OrderlySpec == Init /\ [][Next /\ ~Reexecutes]_vars

(***************************************************************************)
(* The pair is never locked: an execution up to the current block, which   *)
(* every other operation starts with, does not revert, unless it is such a *)
(* second execution itself.                                                *)
(***************************************************************************)
NeverLocked ==
  (lastVirtualOrderBlock = block => ~OrdersEndAt(block))
    => ExecuteUntil(expiries, block).ok
=============================================================================
