------------------------------ MODULE MCScripts ------------------------------
(***************************************************************************)
(* Instances of ScriptRuns: pools to start from, and who runs what.        *)
(***************************************************************************)
EXTENDS ScriptRuns

NoPair == {NoPool}

\* A pair that others have funded, with none or one order of theirs.
Funded == [Created(NoPool) EXCEPT !.supply = 10]

WithOrder(p, mine) ==
  [p EXCEPT !.orders = Append(@, [mine |-> mine, sells |-> 0, state |-> "open"])]

SharedPairs == {NoPool, Funded, WithOrder(Funded, FALSE)}

\* A pair of which the account has shares, with and without orders of its own.
Owned == [Funded EXCEPT !.supply = 210, !.shares = 200]

OwnPairs == {Owned, WithOrder(WithOrder(Owned, TRUE), TRUE)}

NoPairOrOwn == NoPair \cup OwnPairs

\* The scripts that wait for every order, and the ones that do not.
WaitingScripts(p) == {"SampleRunGoerli", "SampleRunRinkeby", "TermSwap"}

HastyScripts(p) ==
  {"SampleRun", "AddLiquidity", "TermSwap", "TestId"}

\* What makes sense for the account, alone in the pool.
SensibleScripts(p) ==
  {"SampleRunRinkeby", "AddLiquidity", "AddInitialLiquidity", "AddInitialLiquidityETH"}
  \cup IF p.supply = 0 THEN {} ELSE
         {"TermSwap", "ExecuteVirtualOrders", "Orders", "OrderStatusCheck"}
  \cup IF p.shares >= 100 /\ p.supply > 100 THEN {"WithdrawLiquidity"} ELSE {}

SampleRunGoerliOnly(p) == {"SampleRunGoerli"}
==============================================================================
