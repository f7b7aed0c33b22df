------------------------------- MODULE Scripts -------------------------------
(***************************************************************************)
(* The scripts under scripts/ that work on a pool, as sequences of         *)
(* instructions: one for each thing a script waits for the node to do.     *)
(* What they print is left out but for the claims that something is done.  *)
(*                                                                         *)
(* An address left empty in a script is taken to be filled in.  `sleep'    *)
(* is no instruction: between any two instructions any time may pass, and  *)
(* nothing else is certain after a sleep either.                           *)
(***************************************************************************)
EXTENDS RouterCalls

(***************************************************************************)
(* An instruction: where to go on when it is done and when it throws, both *)
(* relative to it (0: the error leaves main), and what is printed when it  *)
(* is done.  Handles name the transactions that a script waits for.        *)
(***************************************************************************)
Instruction(op) ==
  [op |-> op, call |-> Deploy, gas |-> FALSE, tx |-> "none", back |-> 0,
   next |-> 1, catch |-> 0, says |-> "none"]

\* The timestamp and the number of the latest block.
ReadClock == Instruction("clock")

\* View calls of the pair, which fail if it is not deployed.
ReadPair == Instruction("pair")

\* The reserves and the supply, for amounts in proportion to them.
ReadRatio == Instruction("ratio")

\* userIdsCheck; its caller uses the length of the list only.
ReadIds == Instruction("ids")

\* The details of the order at the given place from the end of the list.
LookUp(back) == [Instruction("lookup") EXCEPT !.back = back]

\* Send a transaction, after the estimate of its gas or with a gas limit.
Submit(call) == [Instruction("submit") EXCEPT !.call = call]
SubmitAs(tx, call) == [Submit(call) EXCEPT !.tx = tx]
WithGas(send) == [send EXCEPT !.gas = TRUE]

Wait(tx) == [Instruction("wait") EXCEPT !.tx = tx]

SubmitOnly(call) == <<SubmitAs("tx", call)>>
SubmitAndWait(call) == <<SubmitAs("tx", call), Wait("tx")>>
SubmitWithGasOnly(call) == <<WithGas(SubmitAs("tx", call))>>
SubmitWithGasAndWait(call) == <<WithGas(SubmitAs("tx", call)), Wait("tx")>>

\* The last instruction of s is followed by the message that `what' is done.
Saying(what, s) == [s EXCEPT ![Len(s)].says = what]

\* The handler runs in any case.
TryFinally(body, handler) ==
  [i \in 1 .. Len(body) |-> [body[i] EXCEPT !.catch = Len(body) + 1 - i]] \o handler

\* try { body } catch { handler }
Try(body, handler) ==
  [i \in 1 .. Len(body) |->
     [body[i] EXCEPT !.catch = Len(body) + 1 - i,
                     !.next = IF i = Len(body) THEN 1 + Len(handler) ELSE @]]
  \o handler

TryCreatePair(by) == Try(<<Submit(CreatePairWrapper(by))>>, <<>>)

ApproveBoth(a) == SubmitAndWait(Approve(0, a)) \o SubmitAndWait(Approve(1, a))
-----------------------------------------------------------------------------
\* The end of sample-run-goerli.js and sample-run-rinkeby.js.
WithdrawLast(by) ==
  <<ReadIds>> \o SubmitWithGasAndWait(WithdrawProceeds(0, by)) \o <<ReadPair>>
-----------------------------------------------------------------------------
(***************************************************************************)
(* sample-run.js: provide liquidity, swap, place an order and cancel it.   *)
(***************************************************************************)
ProvideInHaste ==
  TryCreatePair(1)
  \o Try(Saying("initial", ApproveBoth(10) \o <<Submit(AddInitialLiquidity(10, 3))>>),
         <<ReadRatio, Submit(Approve(0, 3)), Submit(Approve(1, 3)),
           Submit(AddLiquidityExactly(3, 5))>>)

InstantSwapOf(token) == <<Submit(Approve(token, 1)), Submit(InstantSwap(0, 1, 7))>>

PlaceThenCancel(token) ==
  <<ReadIds, Submit(Approve(token, 1)), WithGas(Submit(LongTermSwap(0, 1, 9))),
    ReadIds, ReadClock, WithGas(Submit(CancelTermSwap(0, 1)))>>

SampleRunApprovingOther ==
  <<ReadClock>> \o ProvideInHaste \o InstantSwapOf(0) \o PlaceThenCancel(1)

SampleRun ==
  <<ReadClock>> \o ProvideInHaste \o InstantSwapOf(0) \o PlaceThenCancel(0)


ProvideInSteps ==
  <<ReadClock>>
  \o Try(SubmitAndWait(CreatePairWrapper(1)), <<>>)
  \o Try(Saying("initial", <<ReadPair>> \o ApproveBoth(10)
                           \o SubmitAndWait(AddInitialLiquidity(10, 3))),
         ApproveBoth(100) \o <<Submit(AddLiquidity(1, 5))>>)
  \o <<ReadPair>>

SampleRunGoerli ==
  ProvideInSteps \o InstantSwapOf(0)
  \o <<SubmitAs("tx", Approve(0, 1)), SubmitAs("tx2", Approve(1, 1)),
       Wait("tx"), Wait("tx2")>>
  \o SubmitWithGasAndWait(LongTermSwap(0, 1, 11))
  \o WithdrawLast(5)

SampleRunRinkeby ==
  ProvideInSteps
  \o SubmitAndWait(Approve(0, 1))
  \o SubmitAndWait(LongTermSwap(0, 1, 3))
  \o <<ReadIds>> \o SubmitAndWait(WithdrawProceeds(0, 5)) \o <<ReadPair>>


\* termSwap.js: an order in each direction, and their details.
TermSwap ==
  <<ReadClock>>
  \o SubmitAndWait(Approve(0, 10))
  \o SubmitWithGasAndWait(LongTermSwap(0, 10, 60))
  \o SubmitAndWait(Approve(1, 10))
  \o SubmitWithGasAndWait(LongTermSwap(1, 10, 60))
  \o <<ReadIds, LookUp(1), LookUp(2)>>

\* test-id.js and sample-reserve-display.js: an order, and the list of ids.
PlaceAndList ==
  <<ReadClock>> \o TryCreatePair(1)
  \o <<ReadIds, Submit(Approve(0, 1)), Submit(LongTermSwap(0, 1, 9)), ReadIds>>

TestId == PlaceAndList

SampleReserveDisplay == PlaceAndList

\* orders.js: the last twelve orders; the other one shows the eleventh.
Orders == <<ReadClock, ReadIds>> \o [back \in 1 .. 12 |-> LookUp(back)]

OrderStatusCheck == <<ReadClock, ReadIds, LookUp(11)>>
-----------------------------------------------------------------------------
\* addLiquidity.js, and the initial liquidity of it alone.
TryInitialLiquidity(call) ==
  Try(Saying("initial", ApproveBoth(10) \o <<Submit(call)>>), <<>>)

AddLiquidityScript ==
  <<ReadClock>> \o TryCreatePair(500)
  \o TryInitialLiquidity(AddInitialLiquidity(10, 100))
  \o ApproveBoth(100)
  \o SubmitWithGasAndWait(AddLiquidity(10, 100))

(***************************************************************************)
(* The scripts that deploy tokens of their own.  A call of a contract that *)
(* has just been deployed waits for the deployment.                        *)
(***************************************************************************)
AddInitialLiquidityScript ==
  <<SubmitAs("token0", Deploy), SubmitAs("token1", Deploy), ReadClock>>
  \o TryCreatePair(500)
  \o Try(Saying("initial",
           <<Wait("token0")>> \o SubmitAndWait(Approve(0, 10))
           \o <<Wait("token1")>> \o SubmitAndWait(Approve(1, 10))
           \o <<Submit(AddInitialLiquidity(10, 100))>>),
         <<>>)

AddInitialLiquidityETHScript ==
  <<SubmitAs("token0", Deploy), ReadClock>>
  \o TryCreatePair(500)
  \o Try(Saying("initial",
           <<Wait("token0")>> \o ApproveBoth(10)
           \o <<Submit(AddInitialLiquidityETH(10, 100))>>),
         <<>>)

WithdrawLiquidityScript ==
  <<ReadClock>> \o SubmitWithGasAndWait(WithdrawLiquidity(100, 60))

\* The block up to which to execute is the latest one when the script starts.
ExecuteVirtualOrdersScript ==
  <<ReadClock>> \o SubmitWithGasAndWait(ExecuteVirtualOrders)
-----------------------------------------------------------------------------
Program ==
  [SampleRun |-> SampleRun,
   SampleRunGoerli |-> SampleRunGoerli,
   SampleRunRinkeby |-> SampleRunRinkeby,
   TermSwap |-> TermSwap,
   TestId |-> TestId,
   SampleReserveDisplay |-> SampleReserveDisplay,
   Orders |-> Orders,
   OrderStatusCheck |-> OrderStatusCheck,
   AddLiquidity |-> AddLiquidityScript,
   AddInitialLiquidity |-> AddInitialLiquidityScript,
   AddInitialLiquidityETH |-> AddInitialLiquidityETHScript,
   WithdrawLiquidity |-> WithdrawLiquidityScript,
   ExecuteVirtualOrders |-> ExecuteVirtualOrdersScript]

Script == DOMAIN Program

\* Scripts that work on a pool of new tokens, not on the common one.
OwnPool == {"AddInitialLiquidity", "AddInitialLiquidityETH"}
==============================================================================
