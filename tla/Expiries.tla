------------------------------ MODULE Expiries ------------------------------
(***************************************************************************)
(* What LongTermOrders.sol asks of its tree of expiry blocks when it       *)
(* executes from block `last' up to block `blockNumber': the blocks to     *)
(* visit, and the tree without them.  The tree is the set of its values.   *)
(***************************************************************************)
EXTENDS Integers

CONSTANT orderBlockInterval   \* blocks between two expiry blocks (5 in Pair.sol)

ASSUME IntervalAssumption == orderBlockInterval \in Nat \ {0}

\* The last block at or before b that is eligible for expiry.
LastExpiryBlock(b) == b - (b % orderBlockInterval)

\* The block at which an order placed at block b for n more intervals ends.
OrderExpiry(b, n) == orderBlockInterval * (n + 1) + LastExpiryBlock(b)

ExpiriesList(tree, last, blockNumber) ==
  {e \in tree : LastExpiryBlock(last) <= e /\ e <= LastExpiryBlock(blockNumber)}

TrimTree(tree, last, blockNumber) ==
  tree \ ExpiriesList(tree, last, blockNumber)
=============================================================================
