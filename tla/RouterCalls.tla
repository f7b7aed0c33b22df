----------------------------- MODULE RouterCalls -----------------------------
(***************************************************************************)
(* The router (contracts/TWAMM.sol) as the scripts under scripts/ meet it: *)
(* which calls a pool of two tokens accepts, and what they change of what  *)
(* the scripts can tell apart.  A pool is seen by one account, the one     *)
(* that runs the scripts: its allowances to the router, its shares, and    *)
(* which orders are its own.                                               *)
(*                                                                         *)
(* Amounts are in whole tokens, times in hundreds of seconds.  The price   *)
(* and the executions of virtual orders are counters: two readings are the *)
(* same only if nothing happened in between.                               *)
(***************************************************************************)
EXTENDS Naturals, Sequences

Token == {0, 1}

OrderState == {"open", "ended", "closed"}

Pool == [created : BOOLEAN,             \* the pair is deployed
         supply : Nat,                  \* shares of everybody
         shares : Nat,                  \* shares of the account
         allowance : [Token -> Nat],    \* of the account, to the router
         price : Nat,                   \* how often the reserves' ratio moved
         executions : Nat,              \* how often lastVirtualOrderBlock moved
         orders : Seq([mine : BOOLEAN, sells : Token, state : OrderState])]

NoPool == [created |-> FALSE, supply |-> 0, shares |-> 0,
           allowance |-> [t \in Token |-> 0], price |-> 0, executions |-> 0,
           orders |-> <<>>]

\* Order ids count from 0.
Order(p, id) == p.orders[id + 1]
-----------------------------------------------------------------------------
(***************************************************************************)
(* The calls.  `by' is the deadline, counted from the time that the script *)
(* read from the chain.                                                    *)
(***************************************************************************)
Call(fn, token, amount, by) ==
  [fn |-> fn, token |-> token, amount |-> amount, by |-> by, exact |-> FALSE]

Deploy                       == Call("deploy", 0, 0, 0)
Approve(t, a)                == Call("approve", t, a, 0)
CreatePairWrapper(by)        == Call("createPairWrapper", 0, 0, by)
AddInitialLiquidity(a, by)   == Call("addInitialLiquidity", 0, a, by)
AddInitialLiquidityETH(a, by) == Call("addInitialLiquidityETH", 0, a, by)
AddLiquidity(lp, by)         == Call("addLiquidity", 0, lp, by)
\* The maxima are what the script has computed from the reserves it read.
AddLiquidityExactly(lp, by)  == [AddLiquidity(lp, by) EXCEPT !.exact = TRUE]
WithdrawLiquidity(lp, by)    == Call("withdrawLiquidity", 0, lp, by)
InstantSwap(t, a, by)        == Call("instantSwapTokenToToken", t, a, by)
LongTermSwap(t, a, by)       == Call("longTermSwapTokenToToken", t, a, by)
CancelTermSwap(t, by)        == Call("cancelTermSwapTokenToToken", t, 0, by)
WithdrawProceeds(t, by)      == Call("withdrawProceedsFromTermSwapTokenToToken", t, 0, by)
ExecuteVirtualOrders         == Call("executeVirtualOrdersWrapper", 0, 0, 0)

Fn(c, names) == c.fn \in names

IsInitial(c)   == Fn(c, {"addInitialLiquidity", "addInitialLiquidityETH"})
TakesOrder(c)  == Fn(c, {"cancelTermSwapTokenToToken",
                         "withdrawProceedsFromTermSwapTokenToToken"})
HasDeadline(c) == ~Fn(c, {"deploy", "approve", "executeVirtualOrdersWrapper"})
\* The calls that execute virtual orders first.
Executes(c)    == TakesOrder(c) \/
  Fn(c, {"addLiquidity", "withdrawLiquidity", "instantSwapTokenToToken",
         "longTermSwapTokenToToken", "executeVirtualOrdersWrapper"})

\* What the router moves from the account with transferFrom.
Needs(c) ==
  [t \in Token |->
     IF \/ Fn(c, {"addInitialLiquidity", "addLiquidity"})
        \/ c.token = t /\ Fn(c, {"addInitialLiquidityETH",
                                 "instantSwapTokenToToken",
                                 "longTermSwapTokenToToken"})
     THEN c.amount ELSE 0]

Covered(p, c) == \A t \in Token : Needs(c)[t] <= p.allowance[t]

(***************************************************************************)
(* A transaction is a call with what it was given when it was sent: its    *)
(* deadline, the pool, and what the script had read (the id of an order,   *)
(* the price and the number of executions then).                           *)
(***************************************************************************)
OrderAccepted(p, x, owned) ==
  /\ x.id < Len(p.orders)
  /\ Order(p, x.id).sells = x.token
  /\ Order(p, x.id).state # "closed"
  /\ Order(p, x.id).mine \/ ~owned
  /\ Fn(x, {"cancelTermSwapTokenToToken"}) => Order(p, x.id).state = "open"

\* A proportional amount has moved by the time of the call if an order is
\* open, for the call executes it first.
RatioMoved(p, x) ==
  p.price # x.price \/ \E i \in DOMAIN p.orders : p.orders[i].state = "open"

\* What a call requires.  Of an empty pool an execution divides by the reserves.
AcceptsIf(p, x, now, owned) ==
  /\ HasDeadline(x) => now <= x.deadline
  /\ Covered(p, x)
  /\ Fn(x, {"createPairWrapper"}) => ~p.created
  /\ IsInitial(x) => p.supply = 0
  /\ Executes(x) => p.supply > 0
  /\ x.exact => ~RatioMoved(p, x)
  /\ Fn(x, {"withdrawLiquidity"}) => x.amount <= p.shares /\ x.amount < p.supply
  /\ TakesOrder(x) => OrderAccepted(p, x, owned)
  /\ Fn(x, {"executeVirtualOrdersWrapper"}) =>
       p.created /\ x.executions = p.executions

AcceptsOthersOrders(p, x, now) == AcceptsIf(p, x, now, FALSE)

Accepts(p, x, now) == AcceptsIf(p, x, now, TRUE)

(***************************************************************************)
(* What may revert all the same, for reasons too fine for this view of a   *)
(* pool.  A block where orders end takes their sales rate off the current  *)
(* one each time that it is executed, and addLiquidity executes a block    *)
(* twice: the second time may underflow.  And an order must have something *)
(* to pay: none has in the block that places it, say.                      *)
(***************************************************************************)
MayRevert(p, x) ==
  \/ Executes(x) /\ \E i \in DOMAIN p.orders : p.orders[i].state # "open"
  \/ TakesOrder(x)

Outcomes(p, x, now) ==
  {ok \in BOOLEAN : IF ok THEN Accepts(p, x, now)
                    ELSE ~Accepts(p, x, now) \/ MayRevert(p, x)}

Spent(p, c) == [p EXCEPT !.allowance = [t \in Token |-> @[t] - Needs(c)[t]]]

Created(p) ==
  IF p.created THEN p ELSE [p EXCEPT !.created = TRUE, !.executions = @ + 1]

Executed(p) == [p EXCEPT !.executions = @ + 1]

\* withdrawProceeds closes an order that has ended, cancel any.
Taken(x, order) ==
  IF Fn(x, {"cancelTermSwapTokenToToken"}) \/ order.state = "ended"
  THEN [order EXCEPT !.state = "closed"]
  ELSE order

Effect(p, x) ==
  CASE Fn(x, {"deploy"}) -> p
    [] Fn(x, {"approve"}) -> [p EXCEPT !.allowance[x.token] = x.amount]
    [] Fn(x, {"createPairWrapper"}) -> Created(p)
    [] IsInitial(x) ->
         [Spent(Created(p), x) EXCEPT !.supply = x.amount, !.shares = @ + x.amount]
    [] Fn(x, {"addLiquidity"}) ->
         [Executed(Spent(p, x)) EXCEPT !.supply = @ + x.amount,
                                       !.shares = @ + x.amount]
    [] Fn(x, {"withdrawLiquidity"}) ->
         [Executed(p) EXCEPT !.supply = @ - x.amount, !.shares = @ - x.amount]
    [] Fn(x, {"instantSwapTokenToToken"}) ->
         [Executed(Spent(p, x)) EXCEPT !.price = @ + 1]
    [] Fn(x, {"longTermSwapTokenToToken"}) ->
         [Executed(Spent(p, x)) EXCEPT
            !.orders = Append(@, [mine |-> TRUE, sells |-> x.token, state |-> "open"])]
    [] TakesOrder(x) ->
         [Executed(p) EXCEPT !.orders[x.id + 1] = Taken(x, @)]
    [] Fn(x, {"executeVirtualOrdersWrapper"}) -> Executed(p)

\* A transaction that reverts leaves nothing behind.
Apply(p, x, ok) == IF ok THEN Effect(p, x) ELSE p
==============================================================================
