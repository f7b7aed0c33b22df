------------------------------- MODULE Router --------------------------------
(***************************************************************************)
(* The router (contracts/TWAMM.sol) as a custodian: every transaction as   *)
(* the sequence of transfers that it makes, one external call at a time.   *)
(* The tokens of the pair are A and B, A the one with the lower address;   *)
(* one of them is WETH.  What the pair computes is left open, only that it *)
(* pays what it takes off its books and books what it is told.             *)
(***************************************************************************)
EXTENDS Integers, Sequences

CONSTANTS WETH,        \* "A" or "B"
          Amount,      \* amounts of a transaction
          Wealth,      \* of the user, in each asset
          Gifts        \* tokens that lie at the router, sent by mistake

ASSUME WETHAssumption == WETH \in {"A", "B"}
ASSUME AmountAssumption == Amount \subseteq Nat /\ Wealth \in Nat /\ Gifts \subseteq Nat

VARIABLES bal,      \* balances, and the ether behind WETH
          books,    \* of the pair: what it holds for reserves and orders
          todo,     \* the calls that are left of the transaction
          call,     \* the limits of the last transaction
          saved     \* the state to go back to if it reverts

vars == <<bal, books, todo, call, saved>>

Token == {"A", "B"}

Asset == Token \cup {"ETH"}

Holder == {"user", "router", "pair", "weth"}

Other(t) == IF t = "A" THEN "B" ELSE "A"

Init ==
  /\ \E gift \in [Token -> Gifts] :
       bal = [h \in Holder |-> [a \in Asset |->
                CASE h = "user" -> Wealth
                  [] h = "router" /\ a # "ETH" -> gift[a]
                  [] h = "pair" /\ a # "ETH" -> 2
                  [] h = "weth" /\ a = "ETH" -> Wealth + gift[WETH] + 2
                  [] OTHER -> 0]]
  /\ books = [t \in Token |-> 2]
  /\ todo = <<>>
  /\ call = [max |-> [a \in Asset |-> 0], min |-> [a \in Asset |-> 0]]
  /\ saved = <<bal, books>>

Idle == todo = <<>>
-----------------------------------------------------------------------------
(***************************************************************************)
(* Calls that a transaction consists of.                                   *)
(***************************************************************************)
Do(kind, asset, from, to, amount) ==
  [kind |-> kind, asset |-> asset, from |-> from, to |-> to, amount |-> amount]

Transfer(asset, from, to, amount) == <<Do("transfer", asset, from, to, amount)>>

Ignore(condition) == <<>>

Require(condition) == IF condition THEN <<>> ELSE <<Do("revert", "", "", "", 0)>>

\* The balance of the router is checked before it pays.
Holds(asset, amount) == <<Do("holds", asset, "router", "", amount)>>

Deposit(amount) == <<Do("deposit", "ETH", "router", "weth", amount)>>
Unwrap(amount) == <<Do("unwrap", WETH, "router", "weth", amount)>>

Book(t, amount) == <<Do("book", t, "", "", amount)>>

ByEther(eth, t) == eth /\ t = WETH

PayIn(eth, t, amount) ==
  IF ByEther(eth, t)
  THEN Deposit(amount) \o Transfer(t, "router", "pair", amount)
  ELSE Transfer(t, "user", "pair", amount)

PayOut(eth, t, amount) ==
  IF ByEther(eth, t)
  THEN Unwrap(amount) \o Transfer("ETH", "router", "user", amount)
  ELSE Transfer(t, "router", "user", amount)

\* The ether goes last, for with it goes control.
PayOutInOrder(eth, t, amount, amountOther) ==
  PayOut(eth, t, amount) \o PayOut(eth, Other(t), amountOther)

PayOutBoth(eth, t, amount, amountOther) ==
  IF ByEther(eth, t)
  THEN PayOut(eth, Other(t), amountOther) \o PayOut(eth, t, amount)
  ELSE PayOut(eth, t, amount) \o PayOut(eth, Other(t), amountOther)

PairPays(t, amount) == Book(t, -amount) \o Transfer(t, "pair", "router", amount)

NoRefund(eth, value, amount) == <<>>

Refund(eth, value, amount) ==
  IF eth /\ value > amount
  THEN Transfer("ETH", "router", "user", value - amount) ELSE <<>>

\* The pair takes and returns amounts of A and of B.
SortAmountsNot(t, amount, amountOther) == <<amount, amountOther>>

SortAmounts(t, amount, amountOther) ==
  IF t = "A" THEN <<amount, amountOther>> ELSE <<amountOther, amount>>

BookBoth(sorted) == Book("A", sorted[1]) \o Book("B", sorted[2])
-----------------------------------------------------------------------------
(***************************************************************************)
(* The transactions.  t is the token that is named first, value the ether  *)
(* that comes with the call (none with a call that is not payable).        *)
(***************************************************************************)
Limits(max, min) == [max |-> max, min |-> min]

Nothing == [a \in Asset |-> 0]

Of(eth, t, amount) ==
  [Nothing EXCEPT ![IF ByEther(eth, t) THEN "ETH" ELSE t] = amount]

Both(eth, t, amount, amountOther) ==
  [a \in Asset |-> Of(eth, t, amount)[a] + Of(eth, Other(t), amountOther)[a]]

Begin(value, limits, calls) ==
  /\ Idle
  /\ value <= bal["user"]["ETH"]
  /\ todo' = Transfer("ETH", "user", "router", value) \o calls
  /\ call' = limits
  /\ saved' = <<bal, books>>
  /\ UNCHANGED <<bal, books>>

\* The part of a payment that is made in ether.
EtherIn(t, amount, amountOther) == IF t = WETH THEN amount ELSE amountOther

\* addInitialLiquidity and addInitialLiquidityETH.
AddInitialLiquidity(eth, t, value, amount, amountOther) ==
  /\ eth => t # WETH
  /\ Begin(value, Limits(Both(eth, t, amount, amountOther), Nothing),
       PayIn(eth, t, amount) \o PayIn(eth, Other(t), amountOther)
       \o BookBoth(SortAmounts(t, amount, amountOther))
       \o Refund(eth, value, EtherIn(t, amount, amountOther)))

\* addLiquidity and addLiquidityETH: the pair books the amounts it computes.
AddLiquidity(eth, t, value, sorted, max, maxOther) ==
  LET amounts == SortAmounts(t, sorted[1], sorted[2]) IN
  /\ eth => t # WETH
  /\ Begin(value, Limits(Both(eth, t, max, maxOther), Nothing),
       Require(amounts[1] <= max /\ amounts[2] <= maxOther)
       \o PayIn(eth, t, amounts[1]) \o PayIn(eth, Other(t), amounts[2])
       \o BookBoth(sorted)
       \o Refund(eth, value, EtherIn(t, amounts[1], amounts[2])))

\* withdrawLiquidity and withdrawLiquidityETH.
WithdrawLiquidity(eth, t, sorted, min, minOther) ==
  LET amounts == SortAmounts(t, sorted[1], sorted[2]) IN
  /\ eth => t # WETH
  /\ Begin(0, Limits(Nothing, Both(eth, t, min, minOther)),
       PairPays("A", sorted[1]) \o PairPays("B", sorted[2])
       \o Require(amounts[1] >= min /\ amounts[2] >= minOther)
       \o Holds(t, amounts[1]) \o Holds(Other(t), amounts[2])
       \o PayOutBoth(eth, t, amounts[1], amounts[2]))

\* instantSwapTokenToToken, instantSwapTokenToETH and instantSwapETHToToken.
InstantSwap(eth, t, value, amount, out, min) ==
  Begin(value, Limits(Of(eth, t, amount), Of(eth, Other(t), min)),
    PayIn(eth, t, amount) \o Book(t, amount) \o PairPays(Other(t), out)
    \o Require(out >= min) \o Holds(Other(t), out)
    \o PayOut(eth, Other(t), out)
    \o Refund(ByEther(eth, t), value, amount))

\* longTermSwapTokenToToken, longTermSwapTokenToETH and longTermSwapETHToToken.
LongTermSwap(eth, t, value, amount) ==
  Begin(value, Limits(Of(eth, t, amount), Nothing),
    PayIn(eth, t, amount) \o Book(t, amount)
    \o Refund(ByEther(eth, t), value, amount))

\* cancelTermSwap..: the pair pays what is bought first.
CancelTermSwap(eth, t, unsold, purchased) ==
  Begin(0, Limits(Nothing, Both(eth, t, unsold, purchased)),
    PairPays(Other(t), purchased) \o PairPays(t, unsold)
    \o Holds(t, unsold) \o Holds(Other(t), purchased)
    \o PayOutBoth(eth, t, unsold, purchased))

\* withdrawProceedsFromTermSwap..
WithdrawProceeds(eth, t, proceeds) ==
  Begin(0, Limits(Nothing, Of(eth, Other(t), proceeds)),
    PairPays(Other(t), proceeds) \o Holds(Other(t), proceeds)
    \o PayOut(eth, Other(t), proceeds))

Transaction ==
  \E eth \in BOOLEAN, t \in Token, x, y \in Amount :
    \/ \E value \in IF eth THEN Amount ELSE {0} :
         \/ AddInitialLiquidity(eth, t, value, x, y)
         \/ \E max, maxOther \in Amount : AddLiquidity(eth, t, value, <<x, y>>, max, maxOther)
    \/ \E value \in IF ByEther(eth, t) THEN Amount ELSE {0} :
         \/ \E min \in Amount : InstantSwap(eth, t, value, x, y, min)
         \/ LongTermSwap(eth, t, value, x)
    \/ \E min, minOther \in Amount : WithdrawLiquidity(eth, t, <<x, y>>, min, minOther)
    \/ CancelTermSwap(eth, t, x, y)
    \/ WithdrawProceeds(eth, t, x)
-----------------------------------------------------------------------------
(***************************************************************************)
(* One call of a transaction.  One that fails reverts all of them.         *)
(***************************************************************************)
Balance(h, asset) == bal[h][asset]

SucceedsInAnyCase(c) ==
  CASE c.kind = "revert" -> FALSE
    [] c.kind = "book" -> books[c.asset] + c.amount >= 0
    [] OTHER -> TRUE

Succeeds(c) ==
  CASE c.kind = "revert" -> FALSE
    [] c.kind = "book" -> books[c.asset] + c.amount >= 0
    [] OTHER -> Balance(c.from, c.asset) >= c.amount

Moved(from, to, asset, amount) ==
  [h \in Holder |-> [a \in Asset |->
     IF a # asset THEN bal[h][a]
     ELSE bal[h][a] - (IF h = from THEN amount ELSE 0)
                    + (IF h = to THEN amount ELSE 0)]]

BalancesAfter(c) ==
  CASE c.kind = "transfer" -> Moved(c.from, c.to, c.asset, c.amount)
    [] c.kind = "deposit" ->
         [Moved("router", "weth", "ETH", c.amount) EXCEPT !["router"][WETH] = @ + c.amount]
    [] c.kind = "unwrap" ->
         [Moved("weth", "router", "ETH", c.amount) EXCEPT !["router"][WETH] = @ - c.amount]
    [] OTHER -> bal

NextCall ==
  /\ ~Idle
  /\ Succeeds(Head(todo))
  /\ bal' = BalancesAfter(Head(todo))
  /\ books' = IF Head(todo).kind = "book"
              THEN [books EXCEPT ![Head(todo).asset] = @ + Head(todo).amount] ELSE books
  /\ todo' = Tail(todo)
  /\ UNCHANGED <<call, saved>>

\* Also when the pair refuses, the deadline is over or the gas runs out.
Revert ==
  /\ ~Idle
  /\ bal' = saved[1]
  /\ books' = saved[2]
  /\ todo' = <<>>
  /\ call' = Limits(Nothing, Nothing)
  /\ UNCHANGED saved

Next == Transaction \/ NextCall \/ Revert

Spec == Init /\ [][Next]_vars
-----------------------------------------------------------------------------
RouterTypeOK ==
  /\ \A h \in Holder, a \in Asset : bal[h][a] \in Nat
  /\ \A t \in Token : books[t] \in Nat

(***************************************************************************)
(* Between transactions the router holds nothing but gifts, of which it    *)
(* never pays anybody: saved is from before the last transaction.          *)
(***************************************************************************)
RouterKeepsNothing ==
  Idle => bal["router"] = saved[1]["router"] /\ bal["router"]["ETH"] = 0

(***************************************************************************)
(* The pair books what the router says it has sent, without a look at its  *)
(* balance: it has been sent exactly that, in the tokens it takes it for.  *)
(***************************************************************************)
PairBacked == Idle => \A t \in Token : bal["pair"][t] = books[t]

(***************************************************************************)
(* A user pays no more than the maxima of the call and gets no less than   *)
(* the minima, ether that was sent along included.                         *)
(***************************************************************************)
LimitsKept ==
  Idle => \A a \in Asset :
    bal["user"][a] >= saved[1]["user"][a] - call.max[a] + call.min[a]

(***************************************************************************)
(* Sending ether calls its receiver, who may call the router again: at     *)
(* this moment the router has paid everything else and holds nothing of    *)
(* the transaction.                                                        *)
(***************************************************************************)
EmptyWhenCalledBack ==
  [][ \A a \in Asset :
        NextCall /\ Head(todo).asset = "ETH" /\ Head(todo).to = "user" =>
          bal'["router"][a] = saved[1]["router"][a] ]_vars
==============================================================================
