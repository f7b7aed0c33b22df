----------------------------- MODULE OrderPool -----------------------------
(***************************************************************************)
(* contracts/libraries/OrderPool.sol: a pool of long-term orders that sell *)
(* one token.  The library has no state of its own: each function works on *)
(* the OrderPool struct it is given, so here each is an operator from pool *)
(* records to pool records.  A mapping is a total function (Solidity's     *)
(* mappings are 0 where nothing was written).                              *)
(*                                                                         *)
(* Sales rates are tokens per block times RATE_PRECISION (10000 in the     *)
(* code); reward factors are fixed-point numbers with SCALE units per      *)
(* token (1e18, PRBMathUD60x18).                                           *)
(***************************************************************************)
EXTENDS Integers

CONSTANTS
  RATE_PRECISION,  \* the literal 10000 that sales rates are multiplied by
  SCALE,           \* PRBMath's fixed-point unit
  MaxBlock,        \* bound: the last block number of the model
  MaxOrders        \* bound: the number of orders of the model

ASSUME PoolAssumption ==
  /\ RATE_PRECISION \in Nat \ {0}
  /\ SCALE \in Nat \ {0}
  /\ MaxBlock \in Nat
  /\ MaxOrders \in Nat

Block   == 0 .. MaxBlock
OrderId == 0 .. (MaxOrders - 1)

Pool == [currentSalesRate : Nat,
         rewardFactor : Nat,
         salesRateEndingPerBlock : [Block -> Nat],
         orderExpiry : [OrderId -> Block],
         salesRate : [OrderId -> Nat],
         rewardFactorAtSubmission : [OrderId -> Nat],
         rewardFactorAtBlock : [Block -> Nat]]

EmptyPool == [currentSalesRate |-> 0,
              rewardFactor |-> 0,
              salesRateEndingPerBlock |-> [b \in Block |-> 0],
              orderExpiry |-> [i \in OrderId |-> 0],
              salesRate |-> [i \in OrderId |-> 0],
              rewardFactorAtSubmission |-> [i \in OrderId |-> 0],
              rewardFactorAtBlock |-> [b \in Block |-> 0]]
-----------------------------------------------------------------------------
(***************************************************************************)
(* Proceeds of the orders still selling: the amount per unit of sales rate *)
(* is added to the reward factor (fixed-point division rounds down).       *)
(***************************************************************************)
DistributePaymentRoundedUp(p, amount) ==
  IF p.currentSalesRate # 0
  THEN [p EXCEPT !.rewardFactor =
          @ + (amount * SCALE * RATE_PRECISION + p.currentSalesRate - 1)
                \div p.currentSalesRate]
  ELSE p

DistributePayment(p, amount) ==
  IF p.currentSalesRate # 0
  THEN [p EXCEPT !.rewardFactor =
          @ + (amount * SCALE * RATE_PRECISION) \div p.currentSalesRate]
  ELSE p

DepositOrder(p, id, amountPerBlock, expiry) ==
  [p EXCEPT !.currentSalesRate = @ + amountPerBlock,
            !.rewardFactorAtSubmission[id] = p.rewardFactor,
            !.orderExpiry[id] = expiry,
            !.salesRate[id] = amountPerBlock,
            !.salesRateEndingPerBlock[expiry] = @ + amountPerBlock]

\* The orders that end at a block leave the pool's rate, and the reward factor
\* reached is kept for them.  The subtraction is checked (Solidity 0.8):
\* CanExpire says that it does not revert.
CanExpireUnchecked(p, b) == b \in Block

CanExpire(p, b) == p.salesRateEndingPerBlock[b] <= p.currentSalesRate

UpdateStateWithoutCheckpoint(p, b) ==
  [p EXCEPT !.currentSalesRate = @ - p.salesRateEndingPerBlock[b]]

UpdateStateFromBlockExpiry(p, b) ==
  [p EXCEPT !.currentSalesRate = @ - p.salesRateEndingPerBlock[b],
            !.rewardFactorAtBlock[b] = p.rewardFactor]

\* What an order has earned when the reward factor is `factor'.  Only the last
\* two divisions of the code's chain (by 10000 and by 1e18) can round.
Earned(p, id, factor) ==
  (((factor - p.rewardFactorAtSubmission[id]) * p.salesRate[id])
     \div RATE_PRECISION) \div SCALE
-----------------------------------------------------------------------------
\* cancelOrder: what it returns, when it does not revert, what it stores.
UnsoldAmount(p, id, now) ==
  ((p.orderExpiry[id] - now) * p.salesRate[id]) \div RATE_PRECISION

PurchasedAmount(p, id) == Earned(p, id, p.rewardFactor)

CanCancel(p, id, now) ==
  /\ p.orderExpiry[id] > now
  /\ p.rewardFactor >= p.rewardFactorAtSubmission[id]
  /\ p.currentSalesRate >= p.salesRate[id]
  /\ p.salesRateEndingPerBlock[p.orderExpiry[id]] >= p.salesRate[id]

CancelOrderStillEnds(p, id) ==
  [p EXCEPT !.currentSalesRate = @ - p.salesRate[id],
            !.salesRate[id] = 0,
            !.orderExpiry[id] = 0]

CancelOrder(p, id) ==
  [p EXCEPT !.currentSalesRate = @ - p.salesRate[id],
            !.salesRate[id] = 0,
            !.orderExpiry[id] = 0,
            !.salesRateEndingPerBlock[p.orderExpiry[id]] = @ - p.salesRate[id]]
-----------------------------------------------------------------------------
\* withdrawProceeds, before the expiry or after it.
WithdrawFactor(p, id, now) ==
  IF now >= p.orderExpiry[id]
  THEN p.rewardFactorAtBlock[p.orderExpiry[id]]
  ELSE p.rewardFactor

CanWithdraw(p, id, now) ==
  /\ p.salesRate[id] > 0
  /\ WithdrawFactor(p, id, now) >= p.rewardFactorAtSubmission[id]

TotalReward(p, id, now) == Earned(p, id, WithdrawFactor(p, id, now))

WithdrawProceedsAfterExpiry(p, id, now) ==
  IF now > p.orderExpiry[id]
  THEN [p EXCEPT !.salesRate[id] = 0]
  ELSE [p EXCEPT !.rewardFactorAtSubmission[id] = p.rewardFactor]

WithdrawProceedsPaysAgain(p, id, now) ==
  IF now >= p.orderExpiry[id]
  THEN [p EXCEPT !.salesRate[id] = 0]
  ELSE p

WithdrawProceeds(p, id, now) ==
  IF now >= p.orderExpiry[id]
  THEN [p EXCEPT !.salesRate[id] = 0]
  ELSE [p EXCEPT !.rewardFactorAtSubmission[id] = p.rewardFactor]
=============================================================================
