-------------------------- MODULE MCLongTermOrders --------------------------
(***************************************************************************)
(* Instances of LongTermOrders for TLC.                                    *)
(***************************************************************************)
EXTENDS LongTermOrders, TLC

CONSTANTS
  alice, bob,        \* two users
  Reserve            \* of either token, after the initial liquidity

Symmetry == Permutations(Account)

MCInitialReserve == [t \in Token |-> Reserve]
=============================================================================
