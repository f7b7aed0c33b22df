----------------------------- MODULE ScriptRuns ------------------------------
(***************************************************************************)
(* The scripts of module Scripts against a chain: an account runs one      *)
(* after the other, a script sends transactions, a block that comes later  *)
(* includes them in the order of their nonces, and other accounts use the  *)
(* pool in between.  A script may be killed at any point; what it has sent *)
(* stays with the node, and it may be run again.                           *)
(***************************************************************************)
EXTENDS Scripts, FiniteSets

CONSTANTS Runnable(_),   \* the scripts that are run on a common pool
          Events,        \* what happens besides: see Start, Kill and Others
          Views,         \* the states a node may estimate a call on
          Delays,        \* how much later a block may come
          FirstPools,    \* what the common pool may be like at first
          MaxRuns, MaxTime, MaxPrice, MaxOrders     \* bounds of the model

ASSUME DelaysAssumption == Delays \subseteq Nat /\ 0 \in Delays
ASSUME ViewsAssumption == Views # {} /\ Views \subseteq {"latest", "pending"}
ASSUME PoolsAssumption == \A p \in FirstPools : p \in Pool /\ p.shares <= p.supply
ASSUME RunnableAssumption == \A p \in FirstPools : Runnable(p) \subseteq Script
ASSUME BoundsAssumption == MaxRuns \in Nat /\ MaxTime \in Nat

VARIABLES time,    \* of the latest block
          pools,   \* at 0 the common pool, at r the one of run r
          sent,    \* the transactions of the account, by nonce
          mined,   \* how many of them a block has included
          proc,    \* the script that runs, or the last one that has
          before   \* the pool of that script when it started

vars == <<time, pools, sent, mined, proc, before>>

Handle == {"none", "tx", "tx2", "token0", "token1"}

NoRun == [script |-> "none", run |-> 0, pc |-> 1, stamp |-> 0, price |-> 0,
          executions |-> 0, ids |-> 0, shown |-> {}, tx |-> [h \in Handle |-> 0],
          said |-> {}, exit |-> "0"]

Home(p) == IF p.script \in OwnPool THEN p.run ELSE 0

Running == proc.exit = "running"

ScriptPool == pools[Home(proc)]

I == Program[proc.script][proc.pc]

Own(p) == {i \in DOMAIN p.orders : p.orders[i].mine}

Init ==
  /\ time = 0
  /\ \E p \in FirstPools : pools = [r \in 0 .. MaxRuns |-> IF r = 0 THEN p ELSE NoPool]
  /\ sent = <<>>
  /\ mined = 0
  /\ proc = NoRun
  /\ before = NoPool

\* In a hurry, a script is started while transactions of the last one pend.
Start(script) ==
  /\ ~Running
  /\ script \in Runnable(pools[0])
  /\ "hurry" \in Events \/ mined = Len(sent)
  /\ proc.run < MaxRuns
  /\ proc' = [NoRun EXCEPT !.script = script, !.run = proc.run + 1, !.exit = "running"]
  /\ before' = pools[Home(proc')]
  /\ UNCHANGED <<time, pools, sent, mined>>
-----------------------------------------------------------------------------
(***************************************************************************)
(* One instruction of the script.  main() resolves after the last one, and *)
(* the process exits with 0; an error that leaves main() makes it exit     *)
(* with 1.                                                                 *)
(***************************************************************************)
Advance(p, by) ==
  [p EXCEPT !.pc = @ + by,
            !.exit = IF p.pc + by > Len(Program[p.script]) THEN "0" ELSE @]

Done(p) ==
  Advance([p EXCEPT !.said = @ \cup ({I.says} \ {"none"})], I.next)

Throw(p) ==
  IF I.catch = 0 THEN [p EXCEPT !.exit = "1"] ELSE Advance(p, I.catch)

OnlyScript == UNCHANGED <<time, pools, sent, mined, before>>

DoReadClock ==
  /\ I.op = "clock"
  /\ proc' = Done([proc EXCEPT !.stamp = time, !.executions = ScriptPool.executions])
  /\ OnlyScript

DoReadPair ==
  /\ I.op = "pair"
  /\ proc' = IF ScriptPool.created THEN Done(proc) ELSE Throw(proc)
  /\ OnlyScript

\* A supply of zero is divided by.
DoReadRatio ==
  /\ I.op = "ratio"
  /\ proc' = IF ScriptPool.supply > 0
             THEN Done([proc EXCEPT !.price = ScriptPool.price]) ELSE Throw(proc)
  /\ OnlyScript

DoReadIds ==
  /\ I.op = "ids"
  /\ proc' = IF ScriptPool.created
             THEN Done([proc EXCEPT !.ids = Cardinality(Own(ScriptPool))])
             ELSE Throw(proc)
  /\ OnlyScript

\* The key of an entry of the list, not the entry, is taken for the id.
DoLookUp ==
  /\ I.op = "lookup"
  /\ proc' = IF I.back <= proc.ids
             THEN Done([proc EXCEPT !.shown = @ \cup {proc.ids - I.back}])
             ELSE Throw(proc)
  /\ OnlyScript
-----------------------------------------------------------------------------
\* What the pools may be once all that is sent is mined.
PendingPools ==
  LET After[k \in mined .. Len(sent)] ==
        IF k = mined THEN {pools}
        ELSE LET x == sent[k] IN
          UNION {{[ps EXCEPT ![x.pool] = Apply(@, x, ok)] :
                    ok \in Outcomes(ps[x.pool], x, time)} : ps \in After[k - 1]}
  IN After[Len(sent)]

Viewed(view) == IF view = "latest" THEN {pools} ELSE PendingPools

Transaction(call) ==
  [fn |-> call.fn, token |-> call.token, amount |-> call.amount,
   exact |-> call.exact, deadline |-> proc.stamp + call.by,
   price |-> proc.price, executions |-> proc.executions,
   id |-> IF TakesOrder(call) THEN proc.ids - 1 ELSE 0,
   pool |-> Home(proc), run |-> proc.run, status |-> "pending"]

\* What an estimate of the gas may find the call to do.
Estimates(x) ==
  UNION {Outcomes(ps[x.pool], x, time) : ps \in UNION {Viewed(view) : view \in Views}}

\* A call with a limit of its gas is sent without an estimate.
Estimated(x) == I.gas \/ TRUE \in Estimates(x)

Refused(x) == ~I.gas /\ FALSE \in Estimates(x)

HasArguments == TakesOrder(I.call) => proc.ids > 0

\* The handle of the transaction after the one that is sent.
DoSubmitOneOff ==
  /\ I.op = "submit"
  /\ HasArguments
  /\ LET x == Transaction(I.call) IN
       /\ Estimated(x)
       /\ sent' = Append(sent, x)
       /\ proc' = Done([proc EXCEPT !.tx[I.tx] = Len(sent) + 2])
  /\ UNCHANGED <<time, pools, mined, before>>

DoSubmit ==
  /\ I.op = "submit"
  /\ HasArguments
  /\ LET x == Transaction(I.call) IN
       /\ Estimated(x)
       /\ sent' = Append(sent, x)
       /\ proc' = Done([proc EXCEPT !.tx[I.tx] = Len(sent) + 1])
  /\ UNCHANGED <<time, pools, mined, before>>

FailToSubmit ==
  /\ I.op = "submit"
  /\ HasArguments => Refused(Transaction(I.call))
  /\ proc' = Throw(proc)
  /\ OnlyScript

\* A transaction that reverts is waited for for ever.
DoWaitForSuccess ==
  /\ I.op = "wait"
  /\ proc.tx[I.tx] <= mined
  /\ sent[proc.tx[I.tx]].status = "ok"
  /\ proc' = Done(proc)
  /\ OnlyScript

DoWait ==
  /\ I.op = "wait"
  /\ proc.tx[I.tx] <= mined
  /\ proc' = IF sent[proc.tx[I.tx]].status = "ok" THEN Done(proc) ELSE Throw(proc)
  /\ OnlyScript

ScriptStep ==
  /\ Running
  /\ \/ DoReadClock \/ DoReadPair \/ DoReadRatio \/ DoReadIds \/ DoLookUp
     \/ DoSubmit \/ FailToSubmit \/ DoWait

\* The process is stopped from outside.
Kill ==
  /\ "kill" \in Events
  /\ Running
  /\ proc' = [proc EXCEPT !.exit = "killed"]
  /\ OnlyScript
-----------------------------------------------------------------------------
\* A block with the next transaction, which leaves nothing behind if it
\* reverts.  An order gets the next id.
Include(delay) ==
  /\ mined < Len(sent)
  /\ time + delay <= MaxTime
  /\ LET x == sent[mined + 1]
         p == pools[x.pool]
         now == time + delay IN
       \E ok \in Outcomes(p, x, now) :
         /\ time' = now
         /\ mined' = mined + 1
         /\ pools' = [pools EXCEPT ![x.pool] = Apply(p, x, ok)]
         /\ sent' = [sent EXCEPT ![mined + 1] =
              [x EXCEPT !.status = IF ok THEN "ok" ELSE "reverted",
                        !.id = IF Fn(x, {"longTermSwapTokenToToken"})
                               THEN Len(p.orders) ELSE @]]
  /\ UNCHANGED <<proc, before>>

SomeBlock == \E delay \in Delays : Include(delay)

\* A block without a transaction of the account.
Pass(delay) ==
  /\ delay > 0
  /\ time + delay <= MaxTime
  /\ time' = time + delay
  /\ UNCHANGED <<pools, sent, mined, proc, before>>

(***************************************************************************)
(* Other accounts, in the common pool.  An order ends by itself.           *)
(***************************************************************************)
OthersDo(event, p) ==
  /\ event \in Events
  /\ pools' = [pools EXCEPT ![0] = p]
  /\ UNCHANGED <<time, sent, mined, proc, before>>

OthersCreate == ~pools[0].created /\ OthersDo("create", Created(pools[0]))

OthersFund ==
  /\ pools[0].supply = 0
  /\ OthersDo("fund", [Created(pools[0]) EXCEPT !.supply = 10])

OthersTrade ==
  /\ pools[0].supply > 0
  /\ pools[0].price < MaxPrice
  /\ OthersDo("trade", [Executed(pools[0]) EXCEPT !.price = @ + 1])

OthersOrder(token) ==
  /\ pools[0].supply > 0
  /\ Len(pools[0].orders) < MaxOrders
  /\ OthersDo("order", [Executed(pools[0]) EXCEPT
       !.orders = Append(@, [mine |-> FALSE, sells |-> token, state |-> "open"])])

OrderEnds(i) ==
  /\ i \in DOMAIN pools[0].orders
  /\ pools[0].orders[i].state = "open"
  /\ OthersDo("end", [pools[0] EXCEPT !.orders[i].state = "ended"])

Others ==
  \/ OthersCreate \/ OthersFund \/ OthersTrade
  \/ \E token \in Token : OthersOrder(token)
  \/ \E i \in DOMAIN pools[0].orders : OrderEnds(i)
-----------------------------------------------------------------------------
Next ==
  \/ \E script \in Script : Start(script)
  \/ ScriptStep
  \/ Kill
  \/ SomeBlock
  \/ \E delay \in Delays : Pass(delay)
  \/ Others

(***************************************************************************)
(* A script that is not waiting goes on, and blocks with what is sent come *)
(* sooner or later: the chain is a public one, or a node of its own, that  *)
(* goes on without the script.  Nobody has to start or to kill a script.   *)
(***************************************************************************)
Fairness == WF_vars(ScriptStep) /\ WF_vars(SomeBlock)

Spec == Init /\ [][Next]_vars /\ Fairness
-----------------------------------------------------------------------------
ScriptsTypeOK ==
  /\ time \in 0 .. MaxTime
  /\ DOMAIN pools = 0 .. MaxRuns
  /\ \A r \in 0 .. MaxRuns :
       /\ pools[r].supply \in Nat /\ pools[r].shares \in 0 .. pools[r].supply
       /\ pools[r].allowance \in [Token -> Nat]
       /\ \A i \in DOMAIN pools[r].orders : pools[r].orders[i].state \in OrderState
  /\ mined \in 0 .. Len(sent)
  /\ \A k \in DOMAIN sent : sent[k].status = "pending" <=> k > mined
  /\ proc.run \in 0 .. MaxRuns
  /\ proc.exit \in {"running", "0", "1", "killed"}
  /\ \A h \in Handle : proc.tx[h] \in 0 .. Len(sent)

OfRun(r, names) == {k \in DOMAIN sent : sent[k].run = r /\ Fn(sent[k], names)}

TermSwaps(r) == OfRun(r, {"longTermSwapTokenToToken"})

Initials(r) == OfRun(r, {"addInitialLiquidity", "addInitialLiquidityETH"})

(***************************************************************************)
(* Every script approves each amount by itself, most of them without       *)
(* waiting, and an approval replaces the one before it.  Whatever was      *)
(* killed or still pends, the next transaction of the account does not     *)
(* fail for want of an allowance.                                          *)
(***************************************************************************)
AllowanceCoversNext ==
  mined < Len(sent) =>
    LET x == sent[mined + 1] IN Covered(pools[x.pool], x)

(***************************************************************************)
(* A script that waits for what it is for and exits with 0 has done it: the *)
(* account has the orders and the shares, whatever others did meanwhile.   *)
(***************************************************************************)
Gain ==
  [script \in {"SampleRunGoerli", "SampleRunRinkeby", "TermSwap", "AddLiquidity"} |->
     CASE script = "TermSwap" -> [orders |-> 2, shares |-> 0]
       [] script = "AddLiquidity" -> [orders |-> 0, shares |-> 10]
       [] OTHER -> [orders |-> 1, shares |-> 0]]

SuccessMeansEffect ==
  proc.script \in DOMAIN Gain /\ proc.exit = "0" =>
    /\ Cardinality(Own(ScriptPool)) >= Cardinality(Own(before)) + Gain[proc.script].orders
    /\ ScriptPool.shares >= before.shares + Gain[proc.script].shares

(***************************************************************************)
(* The message that the initial liquidity is provided is not printed by a  *)
(* run of which the transaction then reverts.                              *)
(***************************************************************************)
CompletedMeansDone ==
  "initial" \in proc.said =>
    \A k \in Initials(proc.run) : sent[k].status # "reverted"

(***************************************************************************)
(* The sample runs provide liquidity either initially or, if that fails,   *)
(* by addLiquidity: never by both in one run.                              *)
(***************************************************************************)
ProvidesOnce ==
  \A r \in 1 .. proc.run :
    Cardinality({k \in Initials(r) \cup OfRun(r, {"addLiquidity"}) :
                   sent[k].status = "ok"}) <= 1

(***************************************************************************)
(* The order that a run cancels, withdraws from or shows is one that it    *)
(* has placed itself.                                                      *)
(***************************************************************************)
UsesItsOwnOrders ==
  /\ \A k \in DOMAIN sent : TakesOrder(sent[k]) =>
       \E j \in TermSwaps(sent[k].run) :
         j < k /\ sent[j].status = "ok" /\ sent[j].id = sent[k].id
  /\ proc.script = "TermSwap" /\ proc.exit = "0" =>
       proc.shown = {sent[k].id : k \in TermSwaps(proc.run)}

\* An order that a script names to the pair is the account's.
IdIsOwn ==
  \A k \in DOMAIN sent : TakesOrder(sent[k]) =>
    LET p == pools[sent[k].pool] IN
      sent[k].id < Len(p.orders) /\ Order(p, sent[k].id).mine



(***************************************************************************)
(* No transaction of the account changes an order of another, although the *)
(* scripts take positions in a list of orders for their ids.               *)
(***************************************************************************)
OthersOrdersUntouched ==
  [][\A i \in DOMAIN pools[0].orders :
       mined' # mined /\ ~pools[0].orders[i].mine =>
         pools'[0].orders[i] = pools[0].orders[i]]_vars

\* A script that runs ends.
RunEnds == Running ~> ~Running
==============================================================================
