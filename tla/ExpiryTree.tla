----------------------------- MODULE ExpiryTree -----------------------------
(***************************************************************************)
(* contracts/libraries/BinarySearchTree.sol, driven as LongTermOrders.sol  *)
(* drives it.  The tree is a storage struct; a function of the library is  *)
(* an operator from trees to trees.  A node is stored under its value, and *)
(* 0 stands for no node.                                                   *)
(***************************************************************************)
EXTENDS Expiries, Sequences

CONSTANTS
  TIME_EXTENSION,    \* how far ahead future expiries are listed (50400)
  DeployBlock,
  MaxBlock,          \* bound: the last block number of the model
  MaxOrders,         \* bound: the number of orders placed
  BlockIntervals     \* bound: the values of numberOfBlockIntervals

VARIABLES
  block,   \* block.number
  orderId, \* next order id
  last,    \* lastVirtualOrderBlock
  tree,    \* expiryBlockTreeSinceLastExecution
  due      \* the entries of getExpiriesList that the last execution acts on

vars == <<block, orderId, last, tree, due>>

ASSUME TreeAssumption ==
  /\ TIME_EXTENSION \in Nat \ {0}
  /\ BlockIntervals \subseteq Nat
  /\ \E n \in BlockIntervals : \A m \in BlockIntervals : m <= n
  /\ MaxOrders \in Nat
  /\ DeployBlock \in orderBlockInterval .. MaxBlock
  /\ MaxBlock \in Nat

MaxValue == orderBlockInterval + MaxBlock
              + orderBlockInterval * CHOOSE n \in BlockIntervals :
                                       \A m \in BlockIntervals : m <= n

Value == 0 .. MaxValue

NodeType == [parent : Value, value : Value, left : Value, right : Value]

Nodes == [Value -> NodeType]

Node(parent, value, left, right) ==
  [parent |-> parent, value |-> value, left |-> left, right |-> right]

NoNode == Node(0, 0, 0, 0)

EmptyTree == [root |-> 0,
              rootLast |-> 0,
              nodes |-> [v \in Value |-> NoNode],
              rootToList |-> [v \in Value |-> <<>>],
              futureExpiries |-> [v \in Value |-> <<>>]]

(***************************************************************************)
(* Where a loop, or a function that calls itself last, is after n rounds.  *)
(* A round goes on with a child or takes a node out of the tree, or else   *)
(* changes nothing any more, so that MaxValue rounds are always enough.    *)
(***************************************************************************)
Iterate(step, x, n) ==
  LET at[k \in Nat] == IF k = 0 THEN x ELSE step[at[k - 1]] IN at[n]

\* The child of node n on the side of v.
Toward(n, v) == IF v < n.value THEN n.left ELSE n.right

\* The node at which a search for v from node id ends: v, or the one that
\* has no child on the side of v.
Search(nodes, v, id) ==
  Iterate([i \in Value |-> IF i = v \/ Toward(nodes[i], v) = 0
                           THEN i ELSE Toward(nodes[i], v)], id, MaxValue)
-----------------------------------------------------------------------------
\* The parent of node `cur' gets `new' in its place.
Replace(nodes, cur, new) ==
  IF cur.parent = 0 THEN nodes
  ELSE IF cur.value < cur.parent THEN [nodes EXCEPT ![cur.parent].left = new]
  ELSE [nodes EXCEPT ![cur.parent].right = new]

InsertHelper(nodes, new, id) ==
  LET leaf == Node(Search(nodes, new, id), new, 0, 0)
  IN  IF leaf.parent = new THEN nodes
      ELSE [Replace(nodes, leaf, new) EXCEPT ![new] = leaf]

Insert(t, new) ==
  IF t.root = 0
  THEN [t EXCEPT !.root = new,
                 !.rootLast = new,
                 !.nodes[new] = Node(0, new, 0, 0),
                 !.futureExpiries[new] = Append(@, new)]
  ELSE [t EXCEPT !.nodes = InsertHelper(t.nodes, new, t.root)]
-----------------------------------------------------------------------------
\* The values that the in-order walk of returnListHelperEx from node id meets.
Visited(nodes, start, extension, id) ==
  LET visited[i \in Value] ==
        LET n == nodes[i]
        IN  IF n.value = 0 THEN <<>>
            ELSE (IF n.value > start THEN visited[n.left] ELSE <<>>)
                 \o <<n.value>>
                 \o (IF n.value < extension THEN visited[n.right] ELSE <<>>)
  IN  visited[id]

\* Append, unless it is the last entry already.
Push(list, v) ==
  IF list # <<>> /\ list[Len(list)] = v THEN list ELSE Append(list, v)

\* The list after those of the values that lie in range have been pushed.
PushAll(list, values, range) ==
  LET pushed[k \in Nat] ==
        IF k = 0 THEN list
        ELSE IF values[k] \in range THEN Push(pushed[k - 1], values[k])
        ELSE pushed[k - 1]
  IN  pushed[Len(values)]

ReturnListHelper(t, start, end, id, extension) ==
  LET values == Visited(t.nodes, start, extension, id)
  IN  IF start > end \/ end >= extension THEN t
      ELSE [t EXCEPT
             !.rootToList[t.root] = PushAll(@, values, start .. end),
             !.futureExpiries[t.root] = PushAll(@, values, end + 1 .. extension)]
-----------------------------------------------------------------------------
AdoptForgotten(nodes, child, parent) == nodes

\* A right subtree that moves under another node (none if child is 0).
Adopt(nodes, child, parent) ==
  IF child = 0 THEN nodes ELSE [nodes EXCEPT ![child].parent = parent]

Rightmost(nodes, id) ==
  Iterate([i \in Value |-> IF nodes[i].right = 0 THEN i ELSE nodes[i].right],
          id, MaxValue)

(***************************************************************************)
(* deleteLeaf: the nodes without node id, and the node that takes its      *)
(* place: the largest on its left if there is one, else its right child.   *)
(* The largest is first deleted from its own place by a call of            *)
(* deleteNodeHelper, which calls deleteLeaf again, for a smaller value; so *)
(* the calls are at most `depth' deep.                                     *)
(***************************************************************************)
DeleteBy(nested, nodes, id) ==
  LET cur    == nodes[id]
      new    == IF cur.left = 0 THEN cur.right ELSE Rightmost(nodes, cur.left)
      linked == Adopt(Replace(nodes, cur, new), cur.right,
                      IF cur.left = 0 THEN cur.parent ELSE new)
      moved  == [linked EXCEPT ![cur.left].parent = new]
      rest   == IF Search(moved, new, cur.left) = new
                THEN nested[moved][new].nodes ELSE moved
      after  == IF cur.left = 0 THEN linked
                ELSE IF new # cur.left
                     THEN [rest EXCEPT ![new] = [cur EXCEPT !.value = new]]
                ELSE [linked EXCEPT ![new].parent = cur.parent,
                                    ![new].right = cur.right]
  IN  [nodes |-> [after EXCEPT ![id] = NoNode], new |-> new]

DeleteWithin[depth \in Nat] ==
  [nodes \in Nodes |-> [id \in Value |->
    IF depth = 0 THEN [nodes |-> nodes, new |-> 0]
    ELSE DeleteBy(DeleteWithin[depth - 1], nodes, id)]]

DeleteLeaf(nodes, id) == DeleteWithin[id][nodes][id]

DeleteNodeHelper(nodes, v, id) ==
  IF Search(nodes, v, id) = v THEN DeleteLeaf(nodes, v).nodes ELSE nodes

DeleteNode(t, v) ==
  LET deleted == DeleteLeaf(t.nodes, t.root)
  IN  IF v # t.root
      THEN [t EXCEPT !.nodes = DeleteNodeHelper(t.nodes, v, t.root)]
      ELSE [t EXCEPT !.nodes = deleted.nodes, !.root = deleted.new]
-----------------------------------------------------------------------------
\* Go on below a node that is not between start and end, and delete one that is.
TrimTreeHelper(nodes, start, end, id) ==
  LET step == [s \in [nodes : Nodes, new : Value] |->
        LET cur == s.nodes[s.new]
        IN  IF cur.value = 0 THEN s
            ELSE IF cur.value < start THEN [s EXCEPT !.new = cur.right]
            ELSE IF cur.value > end THEN [s EXCEPT !.new = cur.left]
            ELSE DeleteLeaf(s.nodes, s.new)]
  IN  IF start > end THEN nodes
      ELSE Iterate(step, [nodes |-> nodes, new |-> id], MaxValue).nodes

Trim(t, start, end) ==
  LET step == [s \in [nodes : Nodes, new : Value] |->
        IF s.nodes[s.new].value \in (start .. end) \ {0}
        THEN DeleteLeaf(s.nodes, s.new) ELSE s]
      top  == Iterate(step, [nodes |-> t.nodes, new |-> t.root], MaxValue)
      root == top.nodes[top.new]
      below(child) == TrimTreeHelper(top.nodes, start, end, child)
  IN  IF start > end THEN t
      ELSE [t EXCEPT !.root = top.new,
                     !.nodes = IF root.value = 0 THEN top.nodes
                               ELSE IF root.value < start THEN below(root.right)
                               ELSE below(root.left)]

ProcessExpiriesListNTrimTree(t, start, end) ==
  LET fresh  == [t EXCEPT !.futureExpiries[t.root] = <<end>>,
                          !.rootToList[t.root] =
                             IF t.root = t.rootLast THEN <<>> ELSE @]
      listed == ReturnListHelper(fresh, start, end, t.root, end + TIME_EXTENSION)
  IN  IF t.root = 0 THEN t
      ELSE Trim([listed EXCEPT !.rootLast = t.root], start, end)

GetExpiriesListOfRoot(t) == t.rootToList[t.root]
GetExpiriesList(t) == t.rootToList[t.rootLast]

GetFutureExpiriesListOfRoot(t) == t.futureExpiries[t.root]
GetFutureExpiriesList(t) == t.futureExpiries[t.rootLast]
-----------------------------------------------------------------------------
(***************************************************************************)
(* The calls of LongTermOrders.sol.  The loop over the list skips what is  *)
(* not after the last executed block: entries of earlier executions.       *)
(***************************************************************************)
Process(t, n) ==
  ProcessExpiriesListNTrimTree(t, LastExpiryBlock(last), LastExpiryBlock(n))

\* The entries of a list that are after block b.
After(list, b) ==
  LET kept[k \in Nat] == IF k = 0 THEN <<>>
                         ELSE IF list[k] > b THEN Append(kept[k - 1], list[k])
                         ELSE kept[k - 1]
  IN  kept[Len(list)]

ExecuteToExpiry(t, n) ==
  /\ due' = After(GetExpiriesList(Process(t, n)), last)
  /\ last' = LastExpiryBlock(n)
  /\ UNCHANGED block

Execute(t, n) ==
  /\ due' = After(GetExpiriesList(Process(t, n)), last)
  /\ last' = n
  /\ UNCHANGED block

\* The values in the tree below each node.
Below(nodes) ==
  LET below[id \in Value] ==
        IF id = 0 THEN {}
        ELSE {id} \cup below[nodes[id].left] \cup below[nodes[id].right]
  IN  below

\* The values that a search from the root can meet.
Values(t) == Below(t.nodes)[t.root]

Init ==
  /\ block = DeployBlock
  /\ orderId = 0
  /\ last = DeployBlock
  /\ tree = Insert(EmptyTree, LastExpiryBlock(DeployBlock))
  /\ due = <<>>

Tick ==
  /\ block < MaxBlock
  /\ block' = block + 1
  /\ UNCHANGED <<orderId, last, tree, due>>

Place(n) ==
  LET t == Insert(tree, OrderExpiry(block, n))
  IN  /\ orderId < MaxOrders
      /\ orderId' = orderId + 1
      /\ Execute(t, block)
      /\ tree' = Process(t, block)

Cancel(e) ==
  /\ e > block
  /\ UNCHANGED orderId
  /\ Execute(tree, block)
  /\ tree' = DeleteNode(Process(tree, block), e)

Advance(n) ==
  /\ n \in last .. block
  /\ UNCHANGED orderId
  /\ Execute(tree, n)
  /\ tree' = Process(tree, n)

Next ==
  \/ Tick
  \/ \E n \in BlockIntervals : Place(n)
  \/ \E e \in Values(tree) : Cancel(e)
  \/ \E n \in last .. block : Advance(n)

Spec == Init /\ [][Next]_vars
-----------------------------------------------------------------------------
TypeOK ==
  /\ block \in DeployBlock .. MaxBlock
  /\ orderId \in 0 .. MaxOrders
  /\ last \in DeployBlock .. block
  /\ tree.root \in Value /\ tree.rootLast \in Value
  /\ tree.nodes \in Nodes
  /\ \A v \in Value : tree.nodes[v].value \in {0, v}
  /\ tree.rootToList \in [Value -> Seq(Value)]
  /\ tree.futureExpiries \in [Value -> Seq(Value)]
  /\ due \in Seq(Value)

(***************************************************************************)
(* The nodes make a search tree from which nothing is lost: children point *)
(* to their parent and lie on their side of it, and every node written and *)
(* not deleted is met from the root (deleteLeaf relinks up to five nodes). *)
(***************************************************************************)
WellFormed ==
  /\ tree.nodes[tree.root].parent = 0
  /\ \A v \in Value \ {0} : (tree.nodes[v].value = v) <=> v \in Values(tree)
  /\ \A v \in Values(tree) :
       LET n == tree.nodes[v]
       IN  /\ \A w \in Below(tree.nodes)[n.left] : w < v
           /\ \A w \in Below(tree.nodes)[n.right] : w > v
           /\ \A c \in {n.left, n.right} \ {0} : tree.nodes[c].parent = v

(***************************************************************************)
(* The list of future expiries that the views report misses none of those  *)
(* within TIME_EXTENSION of the last execution (it may hold cancelled      *)
(* ones: deleteNode leaves the list alone).                                *)
(***************************************************************************)
FutureExpiriesListed ==
  LET list == GetFutureExpiriesList(tree)
  IN  \A v \in Values(tree) :
        v <= LastExpiryBlock(last) + TIME_EXTENSION
          => v \in {list[i] : i \in DOMAIN list}

(***************************************************************************)
(* The tree does what a set of expiry blocks would: no execution misses a  *)
(* block, is given one twice, or is given them out of order.               *)
(***************************************************************************)
ExpirySet == INSTANCE ExpirySet WITH expiries <- Values(tree)

ImplementsExpirySet == ExpirySet!Spec
=============================================================================
