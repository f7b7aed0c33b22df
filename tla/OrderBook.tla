----------------------------- MODULE OrderBook ------------------------------
(***************************************************************************)
(* What a pair promises to the users who place long-term orders, with      *)
(* nothing of pools, sales rates, reward factors and expiry blocks: an     *)
(* order sells what it offers, what it buys is due to its owner until it   *)
(* is paid, and the pair's tokens move only between the pair and the owner *)
(* of the order that is placed or settled.                                 *)
(***************************************************************************)
EXTENDS Integers

CONSTANTS
  Account,   \* users of the pair
  Token,     \* the two tokens
  Amount     \* bound: the amounts that users bring

VARIABLES
  book,      \* order id -> Entry
  vault      \* token -> what the pair holds of it

vars == <<book, vault>>

Entry == [owner : Account,
          sells : Token,
          buys : Token,
          open : BOOLEAN,
          offered : Nat,   \* what the order sells in all, if it is not cancelled
          sold : Nat,      \* what it had sold when it was settled last
          paid : Nat,      \* what its owner has been paid for that
          due : Nat]       \* what it has bought since, not yet paid

\* Trades add to what is due to an open order, and nothing else happens to it;
\* a closed order is never touched again.
GoesOn(id) ==
  /\ book'[id] = [book[id] EXCEPT !.due = book'[id].due]
  /\ book'[id].due >= book[id].due
  /\ book'[id].due # book[id].due => book[id].open

\* An order is settled: its owner is paid at least what was due, nothing stays
\* due, and what the owner gets is exactly what leaves the pair.
Settle(id, refund) ==
  LET old == book[id]
      new == book'[id]
      pay == new.paid - old.paid
  IN  /\ old.open
      /\ DOMAIN book' = DOMAIN book
      /\ \A i \in DOMAIN book \ {id} : GoesOn(i)
      /\ new = [old EXCEPT !.open = new.open, !.sold = new.sold,
                           !.paid = new.paid, !.due = 0]
      /\ old.sold <= new.sold /\ new.sold + refund <= old.offered
      /\ old.due <= pay /\ 0 < pay + refund
      /\ pay <= vault[old.buys] /\ refund <= vault[old.sells]
      /\ vault' = [vault EXCEPT ![old.buys] = @ - pay, ![old.sells] = @ - refund]
-----------------------------------------------------------------------------
Init ==
  /\ book = <<>>
  /\ vault \in [Token -> Nat]

\* A user brings an amount, and a new order offers it (or a little less).
Place ==
  \E id \in DOMAIN book' \ DOMAIN book, owner \in Account, sells, buys \in Token,
     amount \in Amount :
    /\ sells # buys
    /\ DOMAIN book' = DOMAIN book \cup {id}
    /\ \A i \in DOMAIN book : GoesOn(i)
    /\ book'[id].offered <= amount
    /\ book'[id] = [owner |-> owner, sells |-> sells, buys |-> buys, open |-> TRUE,
                    offered |-> book'[id].offered, sold |-> 0, paid |-> 0, due |-> 0]
    /\ vault' = [vault EXCEPT ![sells] = @ + amount]

Trade ==
  /\ DOMAIN book' = DOMAIN book
  /\ \A id \in DOMAIN book : GoesOn(id)
  /\ UNCHANGED vault

\* The owner of an order is paid; an order closes when it has sold what it offered.
Withdraw(id) ==
  /\ Settle(id, 0)
  /\ ~book'[id].open => book'[id].sold = book[id].offered

\* An order closes before: what it has not sold is returned, but for the rounding
\* of one unit.
Cancel(id) ==
  LET refund == vault[book[id].sells] - vault'[book[id].sells]
  IN  /\ 0 <= refund
      /\ Settle(id, refund)
      /\ ~book'[id].open
      /\ book[id].offered <= book'[id].sold + refund + 1

Next ==
  \/ Place
  \/ Trade
  \/ \E id \in DOMAIN book : Withdraw(id) \/ Cancel(id)

Spec == Init /\ [][Next]_vars
=============================================================================
