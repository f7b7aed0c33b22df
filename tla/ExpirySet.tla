----------------------------- MODULE ExpirySet ------------------------------
(***************************************************************************)
(* What the execution of long-term orders relies on: a set of the blocks   *)
(* at which orders end, from which each execution gets, in ascending       *)
(* order, the blocks that it has passed since the last one.                *)
(***************************************************************************)
EXTENDS Expiries, Sequences

CONSTANTS
  DeployBlock,
  MaxBlock,          \* bound: the last block number of the model
  MaxOrders,         \* bound: the number of orders placed
  BlockIntervals     \* bound: the values of numberOfBlockIntervals

VARIABLES
  block,     \* block.number
  orderId,   \* next order id
  last,      \* lastVirtualOrderBlock
  expiries,  \* the blocks at which orders end
  due        \* the blocks that the last execution was given to visit

vars == <<block, orderId, last, expiries, due>>

Ascending(s) == \A i, j \in 1 .. Len(s) : i < j => s[i] < s[j]

\* An execution up to block n, given the expiries in tree.
Execute(tree, n) ==
  LET list == {e \in ExpiriesList(tree, last, n) : e > last}
  IN  /\ due' \in Seq(list)
      /\ {due'[i] : i \in DOMAIN due'} = list
      /\ Ascending(due')
      /\ last' = n
      /\ UNCHANGED block

Init ==
  /\ block = DeployBlock
  /\ orderId = 0
  /\ last = DeployBlock
  /\ expiries = {LastExpiryBlock(DeployBlock)}
  /\ due = <<>>

Tick ==
  /\ block < MaxBlock
  /\ block' = block + 1
  /\ UNCHANGED <<orderId, last, expiries, due>>

\* An order is placed: its expiry is there before the execution.
Place(n) ==
  LET tree == expiries \cup {OrderExpiry(block, n)}
  IN  /\ orderId < MaxOrders
      /\ orderId' = orderId + 1
      /\ Execute(tree, block)
      /\ expiries' = TrimTree(tree, last, block)

\* The last order ending at e is cancelled, after the execution.
Cancel(e) ==
  /\ e > block
  /\ UNCHANGED orderId
  /\ Execute(expiries, block)
  /\ expiries' = TrimTree(expiries, last, block) \ {e}

\* Any other call, up to the current block or an earlier one.
Advance(n) ==
  /\ n \in last .. block
  /\ UNCHANGED orderId
  /\ Execute(expiries, n)
  /\ expiries' = TrimTree(expiries, last, n)

Next ==
  \/ Tick
  \/ \E n \in BlockIntervals : Place(n)
  \/ \E e \in expiries : Cancel(e)
  \/ \E n \in last .. block : Advance(n)

Spec == Init /\ [][Next]_vars
=============================================================================
