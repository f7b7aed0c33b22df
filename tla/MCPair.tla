------------------------------- MODULE MCPair -------------------------------
(***************************************************************************)
(* Instances of Pair for TLC.  Shares and swaps can go back and forth for  *)
(* ever, so the number of calls is bounded here.                           *)
(***************************************************************************)
EXTENDS Pair

CONSTANTS
  ReserveA, ReserveB,    \* amounts of the initial liquidity
  MaxCalls               \* bound: transactions, of users and of feeToSetter

VARIABLE calls

mcVars == <<pairVars, calls>>

\* Not used: the pair of the model starts without liquidity.
MCInitialReserve == [t \in Token |-> 1]

MCInitialAmounts == {[t \in Token |-> IF t = "A" THEN ReserveA ELSE ReserveB]}

Counted == IF block' = block
           THEN calls < MaxCalls /\ calls' = calls + 1
           ELSE UNCHANGED calls

MCInit == PairInit /\ calls = 0

MCOrderlySpec == MCInit /\ [][OrderlyPairNext /\ Counted]_mcVars

MCOneCallSpec == MCInit /\ [][OneCallNext /\ Counted]_mcVars
=============================================================================
