-------------------------- MODULE ExpiryTree_proofs --------------------------
(***************************************************************************)
(* Proofs about ExpiryTree: the linked nodes are a search tree after every *)
(* sequence of calls, its lists are what they should be, and it implements *)
(* ExpirySet, for every interval, horizon and number of orders.            *)
(*                                                                         *)
(* D gives for each node the values in the tree below it.  It is not known *)
(* to the code; what an operation does to the links is compared with what  *)
(* it does to D.                                                           *)
(***************************************************************************)
EXTENDS ExpiryTree, Sums_proofs

\* Every value of the model is a natural number.
LEMMA ValueFacts ==
  /\ MaxValue \in Nat /\ Value \subseteq Nat /\ 0 \in Value
  /\ IsFiniteSet(Value)
  /\ \A v \in Value \ {0} : v \in 1 .. MaxValue
<1>1. PICK n \in BlockIntervals : \A m \in BlockIntervals : m <= n
  BY TreeAssumption
<1> DEFINE big == CHOOSE k \in BlockIntervals : \A m \in BlockIntervals : m <= k
<1>2. big \in BlockIntervals
  BY <1>1
<1>3. big \in Nat
  BY <1>2, TreeAssumption
<1>4. MaxValue = orderBlockInterval + MaxBlock + orderBlockInterval * big
  BY DEF MaxValue
<1> HIDE DEF big
<1>5. orderBlockInterval * big \in Nat
  BY <1>3, IntervalAssumption
<1>6. MaxValue \in Nat
  BY <1>4, <1>5, IntervalAssumption, TreeAssumption
<1>7. IsFiniteSet(0 .. MaxValue)
  <2>1. 0 \in Int /\ MaxValue \in Int
    BY <1>6
  <2> QED
    BY <2>1, FS_Interval, Zenon
<1> QED
  BY <1>6, <1>7 DEF Value

\* Where a loop is after each number of rounds.
Rounds(at, step, x) ==
  /\ at[0] = x
  /\ \A n \in Nat : at[n + 1] = step[at[n]]
  /\ \A n \in Nat : Iterate(step, x, n) = at[n]

\* The rounds of a loop.
LEMMA IterateSteps ==
  ASSUME NEW V, NEW step \in [V -> V], NEW x \in V
  PROVE  \E at \in [Nat -> V] : Rounds(at, step, x)
<1> DEFINE g == [k \in Nat |-> step]
           Body(a) == [k \in Nat |-> IF k = 0 THEN x ELSE step[a[k - 1]]]
           c == CHOOSE a : a = Body(a)
<1>1. PICK h \in [Nat -> V] : Follows(h, x, g)
  <2>1. g \in [Nat -> [V -> V]]
    OBVIOUS
  <2> HIDE DEF g
  <2> QED
    BY <2>1, RecursionExists, Zenon
<1>2. h[0] = x /\ \A n \in Nat : h[n + 1] = step[h[n]]
  BY <1>1 DEF Follows
<1>3. h = Body(h)
  <2> SUFFICES ASSUME NEW k \in Nat, k # 0 PROVE h[k] = step[h[k - 1]]
    BY <1>2
  <2>1. k - 1 \in Nat /\ (k - 1) + 1 = k
    OBVIOUS
  <2> QED
    BY <1>2, <2>1
<1>4. c = Body(c)
  <2> HIDE DEF Body
  <2> QED
    BY <1>3
<1>5. \A n \in Nat : Iterate(step, x, n) = c[n]
  BY DEF Iterate
<1> HIDE DEF c, g
<1>6. c[0] = x /\ \A n \in Nat : c[n + 1] = step[c[n]]
  <2>1. \A k \in Nat : c[k] = IF k = 0 THEN x ELSE step[c[k - 1]]
    BY <1>4
  <2>2. ASSUME NEW n \in Nat PROVE c[n + 1] = step[c[n]]
    <3>1. n + 1 \in Nat /\ n + 1 # 0 /\ (n + 1) - 1 = n
      OBVIOUS
    <3>2. c[n + 1] = step[c[(n + 1) - 1]]
      BY <2>1, <3>1
    <3> QED
      BY <3>1, <3>2
  <2> QED
    BY <2>1, <2>2
<1>7. \A n \in Nat : c[n] \in V
  <2> DEFINE S == {n \in Nat : c[n] \in V}
  <2>1. 0 \in S
    BY <1>6
  <2>2. \A n \in Nat : n \in S => n + 1 \in S
    BY <1>6
  <2> HIDE DEF S
  <2>3. Nat \subseteq S
    BY <2>1, <2>2, NatSetInduction, Zenon
  <2> QED
    BY <2>3 DEF S
<1>8. c \in [Nat -> V]
  <2>1. c = [k \in Nat |-> c[k]]
    BY <1>4
  <2> QED
    BY <1>7, <2>1
<1> QED
  BY <1>5, <1>6, <1>8 DEF Rounds
-----------------------------------------------------------------------------
Children(n) == {n.left, n.right} \ {0}

\* The nodes from id on are a search tree, and D is what lies below each.
SearchTree(nodes, D, id) ==
  /\ D[0] = {}
  /\ id # 0 => id \in D[id]
  /\ D[id] \subseteq Value \ {0}
  /\ \A v \in D[id] :
       /\ nodes[v].value = v
       /\ v \in D[v] /\ \A w \in D[v] : D[w] \subseteq D[v]
       /\ D[v] = {v} \cup D[nodes[v].left] \cup D[nodes[v].right]
       /\ \A w \in D[nodes[v].left] : w < v
       /\ \A w \in D[nodes[v].right] : w > v
       /\ \A c \in Children(nodes[v]) : c \in D[v] /\ nodes[c].parent = v
       /\ \A w \in D[v] \ {v} : /\ nodes[w].parent \in D[v]
                                /\ w \in Children(nodes[nodes[w].parent])

Belows == [Value -> SUBSET Value]

\* What hangs below a node of a search tree is one.
LEMMA SubtreeOf ==
  ASSUME NEW nodes \in Nodes, NEW D \in Belows, NEW id \in Value,
         SearchTree(nodes, D, id), NEW v \in D[id]
  PROVE  /\ v \in Value \ {0}
         /\ SearchTree(nodes, D, v)
         /\ SearchTree(nodes, D, nodes[v].left)
         /\ SearchTree(nodes, D, nodes[v].right)
         /\ \A c \in Children(nodes[v]) :
              /\ c \in Value \ {0} /\ c \in D[v] /\ c \in D[c]
              /\ D[c] \subseteq D[v] \ {v}
              /\ c # v /\ nodes[c].parent = v
         /\ nodes[v].left # 0 => nodes[v].left < v
         /\ nodes[v].right # 0 => nodes[v].right > v
         /\ D[nodes[v].left] \cap D[nodes[v].right] = {}
<1>1. v \in Value \ {0} /\ v \in Nat
  BY ValueFacts DEF SearchTree
<1>2. /\ D[v] \subseteq D[id] /\ v \in D[v] /\ D[0] = {}
      /\ \A w \in D[v] : D[w] \subseteq D[v]
      /\ D[v] = {v} \cup D[nodes[v].left] \cup D[nodes[v].right]
      /\ \A w \in D[nodes[v].left] : w < v
      /\ \A w \in D[nodes[v].right] : w > v
      /\ \A c \in Children(nodes[v]) : c \in D[v] /\ nodes[c].parent = v
  BY DEF SearchTree
<1>3. ASSUME NEW u \in D[id] PROVE SearchTree(nodes, D, u)
  <2>1. D[u] \subseteq D[id] /\ u \in D[u] /\ D[u] \subseteq Value \ {0}
    BY DEF SearchTree
  <2> QED
    BY <2>1 DEF SearchTree
<1>4. \A c \in Children(nodes[v]) : c \in D[id] /\ c \in D[c] /\ D[c] \subseteq D[v]
  BY <1>2 DEF SearchTree
<1>5. v \notin D[nodes[v].left] /\ v \notin D[nodes[v].right]
  BY <1>1, <1>2
<1>6. \A w \in D[v] : w \in Nat
  BY <1>2, ValueFacts DEF SearchTree
<1>7. \A c \in Children(nodes[v]) : c # v /\ v \notin D[c]
  BY <1>4, <1>5 DEF Children
<1>8. SearchTree(nodes, D, 0)
  BY <1>2 DEF SearchTree
<1>9. SearchTree(nodes, D, nodes[v].left) /\ SearchTree(nodes, D, nodes[v].right)
  BY <1>3, <1>4, <1>8 DEF Children
<1>10. D[nodes[v].left] \cap D[nodes[v].right] = {}
  <2> SUFFICES ASSUME NEW w, w \in D[nodes[v].left], w \in D[nodes[v].right]
               PROVE  FALSE
    OBVIOUS
  <2>1. w < v /\ w > v /\ w \in Nat
    BY <1>2, <1>6
  <2> QED
    BY <2>1, <1>1
<1>11. /\ nodes[v].left # 0 => nodes[v].left < v
       /\ nodes[v].right # 0 => nodes[v].right > v
  BY <1>2, <1>4 DEF Children
<1>12. \A c \in Children(nodes[v]) : c \in Value \ {0} /\ D[c] \subseteq D[v] \ {v}
  BY <1>4, <1>7 DEF SearchTree
<1> QED
  BY <1>1, <1>2, <1>3, <1>4, <1>7, <1>9, <1>10, <1>11, <1>12

\* How many values are below a node: as many at most as there are values, and fewer below
\* those that are below it.
LEMMA Sizes ==
  ASSUME NEW nodes \in Nodes, NEW D \in Belows, NEW id \in Value,
         SearchTree(nodes, D, id)
  PROVE  /\ IsFiniteSet(D[id]) /\ Cardinality(D[id]) \in 0 .. MaxValue
         /\ \A v \in D[id] : /\ IsFiniteSet(D[v])
                             /\ Cardinality(D[v]) \in 1 .. MaxValue
                             /\ \A T \in SUBSET (D[v] \ {v}) :
                                  /\ IsFiniteSet(T)
                                  /\ Cardinality(T) \in 0 .. Cardinality(D[v]) - 1
<1>1. /\ IsFiniteSet(Value \ {0})
      /\ Cardinality(Value \ {0}) = MaxValue
  <2>1. Value \ {0} = 1 .. MaxValue
    BY ValueFacts DEF Value
  <2>2. 1 \in Int /\ MaxValue \in Int /\ MaxValue \in Nat
    BY ValueFacts
  <2>3. IsFiniteSet(1 .. MaxValue)
        /\ Cardinality(1 .. MaxValue) = IF 1 > MaxValue THEN 0 ELSE MaxValue - 1 + 1
    BY <2>2, FS_Interval, Zenon
  <2>4. Cardinality(1 .. MaxValue) = MaxValue
    BY <2>2, <2>3
  <2> QED
    BY <2>1, <2>3, <2>4
<1>2. ASSUME NEW T, T \subseteq Value \ {0}
      PROVE  IsFiniteSet(T) /\ Cardinality(T) \in 0 .. MaxValue
  <2>1. IsFiniteSet(T) /\ Cardinality(T) <= MaxValue
    BY <1>1, <1>2, FS_Subset
  <2>2. Cardinality(T) \in Nat
    BY <2>1, FS_CardinalityType, Zenon
  <2> QED
    BY <2>1, <2>2, ValueFacts
<1>3. D[id] \subseteq Value \ {0}
  BY DEF SearchTree
<1>4. ASSUME NEW v \in D[id]
      PROVE  /\ IsFiniteSet(D[v])
             /\ Cardinality(D[v]) \in 1 .. MaxValue
             /\ \A T \in SUBSET (D[v] \ {v}) :
                  /\ IsFiniteSet(T)
                  /\ Cardinality(T) \in 0 .. Cardinality(D[v]) - 1
  <2>1. v \in D[v] /\ D[v] \subseteq Value \ {0}
    BY DEF SearchTree
  <2>2. IsFiniteSet(D[v]) /\ Cardinality(D[v]) \in 0 .. MaxValue
    BY <1>2, <2>1
  <2>3. ASSUME NEW T \in SUBSET (D[v] \ {v})
        PROVE  IsFiniteSet(T) /\ Cardinality(T) \in 0 .. Cardinality(D[v]) - 1
    <3>1. IsFiniteSet(T) /\ Cardinality(T) \in 0 .. MaxValue
      <4>1. T \subseteq Value \ {0}
        BY <2>1
      <4> QED
        BY <4>1, <1>2
    <3>2. /\ T \subseteq D[v] /\ T # D[v]
      BY <2>1
    <3>3. /\ Cardinality(T) <= Cardinality(D[v])
          /\ Cardinality(T) = Cardinality(D[v]) => T = D[v]
      BY <3>2, <2>2, FS_Subset, Zenon
    <3> QED
      BY <3>1, <3>2, <3>3, <2>2, ValueFacts
  <2>4. Cardinality({}) = 0 /\ {} \in SUBSET (D[v] \ {v})
    BY FS_EmptySet
  <2>5. 0 \in 0 .. Cardinality(D[v]) - 1
    BY <2>3, <2>4
  <2> QED
    BY <2>2, <2>3, <2>5, ValueFacts
<1> QED
  BY <1>2, <1>3, <1>4

\* Two nodes are not below each other.
LEMMA NotBelowEachOther ==
  ASSUME NEW nodes \in Nodes, NEW D \in Belows, NEW id \in Value,
         SearchTree(nodes, D, id), NEW v \in D[id], NEW w \in D[v] \ {v}
  PROVE  v \notin D[w] /\ w \in D[id]
<1>1. /\ v \notin D[nodes[v].left] /\ v \notin D[nodes[v].right]
      /\ D[v] = {v} \cup D[nodes[v].left] \cup D[nodes[v].right]
  <2>1. v \in Nat
    BY ValueFacts DEF SearchTree
  <2>2. /\ D[v] = {v} \cup D[nodes[v].left] \cup D[nodes[v].right]
        /\ \A u \in D[nodes[v].left] : u < v
        /\ \A u \in D[nodes[v].right] : u > v
    BY DEF SearchTree
  <2> QED
    BY <2>1, <2>2
<1>2. D[v] \subseteq D[id]
  BY DEF SearchTree
<1>3. ASSUME NEW c \in Value, SearchTree(nodes, D, c), w \in D[c], v \notin D[c]
      PROVE  v \notin D[w]
  <2>1. c # 0
    BY <1>3 DEF SearchTree
  <2>2. D[w] \subseteq D[c]
    BY <1>3, <2>1 DEF SearchTree
  <2> QED
    BY <2>2, <1>3
<1>4. /\ SearchTree(nodes, D, nodes[v].left) /\ nodes[v].left \in Value
      /\ SearchTree(nodes, D, nodes[v].right) /\ nodes[v].right \in Value
  <2>1. v \in Value
    BY <1>2 DEF SearchTree
  <2> QED
    BY <2>1, SubtreeOf DEF Nodes, NodeType
<1> QED
  BY <1>1, <1>2, <1>3, <1>4

\* A walk that goes on with a child, or stays where it is, and that does not leave S ends
\* in S, at a node where it stays.
LEMMA Descend ==
  ASSUME NEW nodes \in Nodes, NEW D \in Belows, NEW id \in Value \ {0},
         SearchTree(nodes, D, id), NEW step \in [Value -> Value],
         NEW S, id \in S,
         \A i \in D[id] \cap S : \/ step[i] = i
                                 \/ step[i] \in Children(nodes[i]) \cap S
  PROVE  /\ Iterate(step, id, MaxValue) \in D[id] \cap S
         /\ step[Iterate(step, id, MaxValue)] = Iterate(step, id, MaxValue)
<1> PICK at \in [Nat -> Value] : Rounds(at, step, id)
  <2>1. id \in Value
    OBVIOUS
  <2> QED
    BY <2>1, IterateSteps, Zenon
<1> USE DEF Rounds
<1> DEFINE Bounded(n) == \/ step[at[n]] = at[n]
                         \/ Cardinality(D[at[n]]) + n <= MaxValue
           T == {n \in Nat : at[n] \in D[id] \cap S /\ Bounded(n)}
<1>1. 0 \in T
  <2>1. id \in D[id]
    BY DEF SearchTree
  <2>2. Cardinality(D[id]) \in 1 .. MaxValue
    BY <2>1, Sizes
  <2> QED
    BY <2>1, <2>2, ValueFacts
<1>2. \A n \in Nat : n \in T => n + 1 \in T
  <2> SUFFICES ASSUME NEW n \in Nat, at[n] \in D[id] \cap S, Bounded(n)
               PROVE  at[n + 1] \in D[id] \cap S /\ Bounded(n + 1)
    OBVIOUS
  <2>1. at[n + 1] = step[at[n]] /\ n + 1 \in Nat
    OBVIOUS
  <2>2. CASE step[at[n]] = at[n]
    BY <2>1, <2>2
  <2>3. CASE step[at[n]] # at[n]
    <3>1. at[n + 1] \in Children(nodes[at[n]]) \cap S
      BY <2>1, <2>3
    <3>2. /\ at[n + 1] \in D[at[n]] /\ D[at[n]] \subseteq D[id]
          /\ D[at[n + 1]] \subseteq D[at[n]] \ {at[n]}
      <4>1. at[n + 1] \in D[at[n]] /\ D[at[n + 1]] \subseteq D[at[n]] \ {at[n]}
        BY <3>1, SubtreeOf
      <4>2. D[at[n]] \subseteq D[id]
        BY DEF SearchTree
      <4> QED
        BY <4>1, <4>2
    <3>3. /\ Cardinality(D[at[n + 1]]) \in 0 .. Cardinality(D[at[n]]) - 1
          /\ Cardinality(D[at[n]]) \in 1 .. MaxValue
      BY <3>2, Sizes
    <3>4. Cardinality(D[at[n]]) + n <= MaxValue
      BY <2>3
    <3>5. Cardinality(D[at[n + 1]]) + (n + 1) <= MaxValue
      BY <3>3, <3>4, ValueFacts
    <3> QED
      BY <3>1, <3>2, <3>5
  <2> QED
    BY <2>2, <2>3
<1>3. Nat \subseteq T
  <2> HIDE DEF T
  <2> QED
    BY <1>1, <1>2, NatSetInduction, Zenon
<1>4. at[MaxValue] \in D[id] \cap S /\ Bounded(MaxValue) /\ MaxValue \in Nat
  BY <1>3, ValueFacts
<1>5. step[at[MaxValue]] = at[MaxValue]
  <2>1. Cardinality(D[at[MaxValue]]) \in 1 .. MaxValue
    BY <1>4, Sizes
  <2> QED
    BY <1>4, <2>1
<1> QED
  BY <1>4, <1>5
-----------------------------------------------------------------------------

\* The types of what a search and a walk to the right go through.
LEMMA WalkTypes ==
  ASSUME NEW nodes \in Nodes
  PROVE  /\ \A i, v \in Value : Toward(nodes[i], v) \in Value
         /\ \A id, v \in Value : Search(nodes, v, id) \in Value
         /\ \A id \in Value : Rightmost(nodes, id) \in Value
<1>1. \A i, v \in Value : Toward(nodes[i], v) \in Value
  BY DEF Toward, Nodes, NodeType
<1>2. ASSUME NEW step \in [Value -> Value], NEW id \in Value
      PROVE  Iterate(step, id, MaxValue) \in Value
  <2> PICK at \in [Nat -> Value] : Rounds(at, step, id)
    BY IterateSteps, Zenon
  <2> QED
    BY ValueFacts DEF Rounds
<1>3. ASSUME NEW id \in Value, NEW v \in Value
      PROVE  Search(nodes, v, id) \in Value
  <2> DEFINE step == [i \in Value |-> IF i = v \/ Toward(nodes[i], v) = 0
                                      THEN i ELSE Toward(nodes[i], v)]
  <2>1. step \in [Value -> Value]
    BY <1>1
  <2>2. Search(nodes, v, id) = Iterate(step, id, MaxValue)
    BY DEF Search
  <2> HIDE DEF step
  <2> QED
    BY <1>2, <2>1, <2>2
<1>4. ASSUME NEW id \in Value
      PROVE  Rightmost(nodes, id) \in Value
  <2> DEFINE step == [i \in Value |-> IF nodes[i].right = 0 THEN i ELSE nodes[i].right]
  <2>1. step \in [Value -> Value]
    BY DEF Nodes, NodeType
  <2>2. Rightmost(nodes, id) = Iterate(step, id, MaxValue)
    BY DEF Rightmost
  <2> HIDE DEF step
  <2> QED
    BY <1>2, <2>1, <2>2
<1> QED
  BY <1>1, <1>3, <1>4

\* A value below a node is below its child on the side of the value.
LEMMA TowardIt ==
  ASSUME NEW nodes \in Nodes, NEW D \in Belows, NEW id \in Value,
         SearchTree(nodes, D, id), NEW i \in D[id], NEW v \in Value
  PROVE  /\ v \in D[i] /\ v # i => v \in D[Toward(nodes[i], v)]
         /\ Toward(nodes[i], v) # 0 => Toward(nodes[i], v) \in Children(nodes[i])
<1>1. nodes[i].value = i /\ i \in Nat /\ v \in Nat
  BY ValueFacts DEF SearchTree
<1>2. /\ D[i] = {i} \cup D[nodes[i].left] \cup D[nodes[i].right]
      /\ \A w \in D[nodes[i].left] : w < i
      /\ \A w \in D[nodes[i].right] : w > i
  BY DEF SearchTree
<1>3. v \in D[i] /\ v # i => v \in D[Toward(nodes[i], v)]
  <2> SUFFICES ASSUME v \in D[i], v # i
               PROVE  v \in D[Toward(nodes[i], v)]
    OBVIOUS
  <2>1. CASE v \in D[nodes[i].left]
    <3>1. v < nodes[i].value
      BY <1>1, <1>2, <2>1
    <3> QED
      BY <2>1, <3>1 DEF Toward
  <2>2. CASE v \in D[nodes[i].right]
    <3>1. v > i
      BY <1>2, <2>2
    <3>2. ~ (v < nodes[i].value)
      BY <1>1, <3>1
    <3> QED
      BY <2>2, <3>2 DEF Toward
  <2> QED
    BY <1>2, <2>1, <2>2
<1>4. Toward(nodes[i], v) # 0 => Toward(nodes[i], v) \in Children(nodes[i])
  BY DEF Toward, Children
<1> QED
  BY <1>3, <1>4

\* A search finds a value that is in the tree.
LEMMA SearchFinds ==
  ASSUME NEW nodes \in Nodes, NEW D \in Belows, NEW id \in Value,
         SearchTree(nodes, D, id), NEW v \in D[id]
  PROVE  Search(nodes, v, id) = v
<1> DEFINE step == [i \in Value |-> IF i = v \/ Toward(nodes[i], v) = 0
                                    THEN i ELSE Toward(nodes[i], v)]
           S    == {i \in Value : v \in D[i]}
           r    == Iterate(step, id, MaxValue)
<1>1. v \in Value \ {0} /\ id \in Value \ {0} /\ id \in S
  BY DEF SearchTree
<1>2. step \in [Value -> Value]
  BY <1>1, WalkTypes
<1>3. ASSUME NEW i \in D[id] \cap S, i # v
      PROVE  /\ step[i] \in Children(nodes[i]) \cap S
             /\ step[i] # i
  <2>1. v \in D[i] /\ i \in Value
    OBVIOUS
  <2>2. v \in D[Toward(nodes[i], v)]
    BY <1>1, <1>3, <2>1, TowardIt
  <2>3. Toward(nodes[i], v) # 0
    BY <2>2 DEF SearchTree
  <2>4. step[i] = Toward(nodes[i], v)
    BY <1>3, <2>1, <2>3
  <2>5. Toward(nodes[i], v) \in Children(nodes[i])
    BY <1>1, <2>1, <2>3, TowardIt
  <2>6. Toward(nodes[i], v) \in Value /\ Toward(nodes[i], v) # i
    BY <2>5, SubtreeOf
  <2> QED
    BY <2>2, <2>4, <2>5, <2>6
<1>4. \A i \in D[id] \cap S : step[i] = i \/ step[i] \in Children(nodes[i]) \cap S
  <2>1. v \in S => step[v] = v
    BY <1>1
  <2> HIDE DEF step, S
  <2> QED
    BY <1>3, <2>1
<1>5. r \in D[id] \cap S /\ step[r] = r
  <2> HIDE DEF step, S
  <2> QED
    BY <1>1, <1>2, <1>4, Descend
<1>6. r = v
  <2> HIDE DEF step, S, r
  <2> QED
    BY <1>3, <1>5
<1> QED
  BY <1>6 DEF Search

\* A search for a value that is not in the tree ends where it would be inserted: at a node
\* that has no child on its side, below the child on its side of each node on the way.
LEMMA SearchMisses ==
  ASSUME NEW nodes \in Nodes, NEW D \in Belows, NEW id \in Value \ {0},
         SearchTree(nodes, D, id), NEW v \in Value, v \notin D[id]
  PROVE  LET r == Search(nodes, v, id)
         IN  /\ r \in D[id] /\ r # v /\ Toward(nodes[r], v) = 0
             /\ \A u \in D[id] : r \in D[u] /\ u # r => r \in D[Toward(nodes[u], v)]
<1> DEFINE step == [i \in Value |-> IF i = v \/ Toward(nodes[i], v) = 0
                                    THEN i ELSE Toward(nodes[i], v)]
           S    == {i \in D[id] :
                      \A u \in D[id] :
                        i \in D[u] /\ u # i => i \in D[Toward(nodes[u], v)]}
           r    == Iterate(step, id, MaxValue)
<1>1. id \in D[id] /\ D[id] \subseteq Value \ {0}
  BY DEF SearchTree
<1>2. id \in S
  <2> SUFFICES ASSUME NEW u \in D[id], id \in D[u], u # id PROVE FALSE
    BY <1>1
  <2>1. u \in D[id] \ {id}
    OBVIOUS
  <2> QED
    BY <1>1, <2>1, NotBelowEachOther
<1>3. step \in [Value -> Value]
  BY WalkTypes
<1>4. ASSUME NEW i \in D[id] \cap S, Toward(nodes[i], v) # 0
      PROVE  /\ step[i] \in Children(nodes[i]) \cap S
             /\ step[i] # i
  <2> DEFINE c == Toward(nodes[i], v)
  <2>1. i # v /\ i \in Value /\ i \in D[id]
    BY <1>1
  <2>2. step[i] = c
    BY <1>4, <2>1
  <2>3. c \in Children(nodes[i])
    BY <1>4, TowardIt
  <2>4. /\ c \in Value /\ c # i /\ c \in D[i] /\ c \in D[c] /\ nodes[c].parent = i
    BY <2>1, <2>3, SubtreeOf
  <2>5. c \in D[id]
    BY <2>1, <2>4 DEF SearchTree
  <2> HIDE DEF c
  <2>6. ASSUME NEW u \in D[id], c \in D[u], u # c
        PROVE  c \in D[Toward(nodes[u], v)]
    <3>1. nodes[c].parent \in D[u]
      BY <2>6 DEF SearchTree
    <3>2. i \in D[u]
      BY <2>4, <3>1
    <3>3. CASE u = i
      BY <2>4, <3>3 DEF c
    <3>4. CASE u # i
      <4>1. i \in D[Toward(nodes[u], v)]
        BY <3>2, <3>4
      <4>2. Toward(nodes[u], v) # 0
        BY <4>1 DEF SearchTree
      <4>3. Toward(nodes[u], v) \in Children(nodes[u])
        BY <4>2, TowardIt
      <4>4. Toward(nodes[u], v) \in D[id]
        <5>1. Toward(nodes[u], v) \in D[u]
          BY <4>3 DEF SearchTree
        <5> QED
          BY <5>1 DEF SearchTree
      <4>5. D[i] \subseteq D[Toward(nodes[u], v)]
        BY <4>1, <4>4 DEF SearchTree
      <4> QED
        BY <2>4, <4>5
    <3> QED
      BY <3>3, <3>4
  <2> QED
    BY <2>2, <2>3, <2>4, <2>5, <2>6
<1>5. \A i \in D[id] \cap S : step[i] = i \/ step[i] \in Children(nodes[i]) \cap S
  <2>1. ASSUME NEW i \in D[id] \cap S, Toward(nodes[i], v) = 0
        PROVE  step[i] = i
    BY <1>1, <2>1
  <2> HIDE DEF step, S
  <2> QED
    BY <1>4, <2>1
<1>6. r \in D[id] \cap S /\ step[r] = r
  <2> HIDE DEF step, S
  <2> QED
    BY <1>2, <1>3, <1>5, Descend
<1>7. Toward(nodes[r], v) = 0
  <2> HIDE DEF step, S, r
  <2> QED
    BY <1>4, <1>6
<1>8. Search(nodes, v, id) = r
  BY DEF Search
<1> HIDE DEF r
<1> QED
  BY <1>6, <1>7, <1>8

\* A walk to the right ends at the largest value, which has nothing on its right.
LEMMA RightmostIsLargest ==
  ASSUME NEW nodes \in Nodes, NEW D \in Belows, NEW id \in Value \ {0},
         SearchTree(nodes, D, id)
  PROVE  LET r == Rightmost(nodes, id)
         IN  /\ r \in D[id] /\ nodes[r].right = 0
             /\ \A w \in D[id] : w <= r
<1> DEFINE step == [i \in Value |-> IF nodes[i].right = 0 THEN i ELSE nodes[i].right]
           S    == {i \in D[id] : \A w \in D[id] : w <= i \/ w \in D[i]}
           r    == Iterate(step, id, MaxValue)
<1>1. id \in D[id] /\ D[id] \subseteq Value \ {0} /\ D[0] = {}
  BY DEF SearchTree
<1>2. id \in S
  BY <1>1
<1>3. step \in [Value -> Value]
  BY DEF Nodes, NodeType
<1>4. ASSUME NEW i \in D[id] \cap S
      PROVE  /\ i \in Value /\ i \in Nat
             /\ D[i] = {i} \cup D[nodes[i].left] \cup D[nodes[i].right]
             /\ \A w \in D[nodes[i].left] : w < i
             /\ \A w \in D[nodes[i].right] : w > i
             /\ \A w \in D[id] : w \in Nat /\ (w <= i \/ w \in D[i])
  BY <1>1, ValueFacts DEF SearchTree
<1>5. ASSUME NEW i \in D[id] \cap S, nodes[i].right # 0
      PROVE  /\ step[i] \in Children(nodes[i]) \cap S
             /\ step[i] # i
  <2> DEFINE c == nodes[i].right
  <2>1. step[i] = c
    BY <1>4, <1>5
  <2>2. c \in Children(nodes[i])
    BY <1>5 DEF Children
  <2>3. c \in D[i] /\ c # i /\ c > i /\ c \in Nat
    <3>1. i \in D[id] /\ id \in Value
      OBVIOUS
    <3>2. /\ c \in D[i] /\ c # i /\ c \in Value
          /\ nodes[i].right > i
      BY <1>5, <2>2, <3>1, SubtreeOf
    <3> QED
      BY <3>2, ValueFacts
  <2>4. c \in D[id]
    BY <2>3 DEF SearchTree
  <2>5. ASSUME NEW w \in D[id] PROVE w <= c \/ w \in D[c]
    <3>1. w \in Nat /\ (w <= i \/ w \in D[i])
      BY <1>4
    <3>2. CASE w <= i
      BY <1>4, <2>3, <3>1, <3>2
    <3>3. CASE w \in D[i]
      <4>1. w = i \/ w < i \/ w \in D[c]
        BY <1>4, <3>3
      <4> QED
        BY <1>4, <2>3, <3>1, <4>1
    <3> QED
      BY <3>1, <3>2, <3>3
  <2> QED
    BY <2>1, <2>2, <2>3, <2>4, <2>5
<1>6. \A i \in D[id] \cap S : step[i] = i \/ step[i] \in Children(nodes[i]) \cap S
  <2>1. ASSUME NEW i \in D[id] \cap S, nodes[i].right = 0
        PROVE  step[i] = i
    BY <1>1, <2>1
  <2> HIDE DEF step, S
  <2> QED
    BY <1>5, <2>1
<1>7. r \in D[id] \cap S /\ step[r] = r
  <2> HIDE DEF step, S
  <2> QED
    BY <1>2, <1>3, <1>6, Descend
<1>8. nodes[r].right = 0
  <2> HIDE DEF step, S, r
  <2> QED
    BY <1>5, <1>7
<1>9. Rightmost(nodes, id) = r
  BY DEF Rightmost
<1> HIDE DEF r
<1>10. \A w \in D[id] : w <= r
  <2> SUFFICES ASSUME NEW w \in D[id] PROVE w <= r
    OBVIOUS
  <2>1. w \in Nat /\ r \in Nat /\ (w <= r \/ w = r \/ w < r)
    BY <1>1, <1>4, <1>7, <1>8
  <2> QED
    BY <2>1
<1> QED
  BY <1>7, <1>8, <1>9, <1>10

\* Two nodes that have a value below both are one below the other.
LEMMA Nested ==
  ASSUME NEW nodes \in Nodes, NEW D \in Belows, NEW id \in Value,
         SearchTree(nodes, D, id),
         NEW v \in D[id], NEW w \in D[id], NEW x \in D[v] \cap D[w]
  PROVE  v \in D[w] \/ w \in D[v]
<1> DEFINE Both(i) == v \in D[i] /\ w \in D[i]
           step == [i \in Value |-> IF Both(nodes[i].left) THEN nodes[i].left
                                    ELSE IF Both(nodes[i].right) THEN nodes[i].right
                                    ELSE i]
           S    == {i \in D[id] : Both(i)}
           r    == Iterate(step, id, MaxValue)
<1>1. id \in D[id] /\ D[id] \subseteq Value \ {0} /\ D[0] = {}
  BY DEF SearchTree
<1>2. id \in S /\ id \in Value \ {0}
  BY <1>1
<1>3. step \in [Value -> Value]
  BY DEF Nodes, NodeType
<1>4. ASSUME NEW i \in D[id], NEW c \in {nodes[i].left, nodes[i].right}, Both(c)
      PROVE  c \in Children(nodes[i]) /\ c \in S /\ c # i
  <2>1. c # 0
    BY <1>1, <1>4
  <2>2. c \in Children(nodes[i])
    BY <2>1 DEF Children
  <2>3. c \in D[i] /\ c # i
    BY <2>2, SubtreeOf
  <2>4. c \in D[id]
    BY <2>3 DEF SearchTree
  <2> QED
    BY <1>4, <2>2, <2>3, <2>4
<1>5. ASSUME NEW i \in D[id] \cap S
      PROVE  /\ step[i] = i => ~ Both(nodes[i].left) /\ ~ Both(nodes[i].right)
             /\ step[i] = i \/ step[i] \in Children(nodes[i]) \cap S
  <2>1. i \in Value
    BY <1>1
  <2>2. step[i] = IF Both(nodes[i].left) THEN nodes[i].left
                  ELSE IF Both(nodes[i].right) THEN nodes[i].right ELSE i
    BY <2>1
  <2> HIDE DEF Both, step, S
  <2> QED
    BY <1>4, <2>2
<1>6. r \in D[id] \cap S /\ step[r] = r
  <2> HIDE DEF step, S
  <2> QED
    BY <1>2, <1>3, <1>5, Descend
<1>7. /\ r \in D[id] /\ v \in D[r] /\ w \in D[r]
      /\ ~ Both(nodes[r].left) /\ ~ Both(nodes[r].right)
  <2>1. r \in D[id] /\ v \in D[r] /\ w \in D[r]
    BY <1>6
  <2> HIDE DEF step, S, r, Both
  <2> QED
    BY <1>5, <1>6, <2>1
<1> HIDE DEF r, step, S
<1>8. D[r] = {r} \cup D[nodes[r].left] \cup D[nodes[r].right]
  BY <1>7 DEF SearchTree
<1>9. D[nodes[r].left] \cap D[nodes[r].right] = {}
  BY <1>7, SubtreeOf
<1>10. \A c \in {nodes[r].left, nodes[r].right} : \A u \in D[c] : D[u] \subseteq D[c]
  <2> SUFFICES ASSUME NEW c \in {nodes[r].left, nodes[r].right}, c # 0
               PROVE  \A u \in D[c] : D[u] \subseteq D[c]
    BY <1>1
  <2>1. c \in Children(nodes[r])
    BY DEF Children
  <2>2. c \in D[r]
    BY <1>7, <2>1, SubtreeOf
  <2>3. c \in D[id]
    BY <1>7, <2>2 DEF SearchTree
  <2> QED
    BY <2>3 DEF SearchTree
<1>11. x \in D[v] /\ x \in D[w]
  OBVIOUS
<1> QED
  BY <1>7, <1>8, <1>9, <1>10, <1>11

-----------------------------------------------------------------------------
\* A subtree stays one when it hangs under another node.
LEMMA SameSubtree ==
  ASSUME NEW nodes \in Nodes, NEW D \in Belows, NEW id \in Value,
         SearchTree(nodes, D, id),
         NEW n2 \in Nodes, NEW E \in Belows,
         \A v \in D[id] : /\ n2[v].value = nodes[v].value
                          /\ n2[v].left = nodes[v].left
                          /\ n2[v].right = nodes[v].right
                          /\ v # id => n2[v].parent = nodes[v].parent,
         \A v \in D[id] \cup {0} : E[v] = D[v]
  PROVE  SearchTree(n2, E, id) /\ E[id] = D[id]
<1>1. E[id] = D[id] /\ E[0] = {}
  BY DEF SearchTree
<1>2. /\ id # 0 => id \in E[id]
      /\ E[id] \subseteq Value \ {0}
  BY <1>1 DEF SearchTree
<1>3. ASSUME NEW v \in D[id]
      PROVE  /\ n2[v].value = v
             /\ v \in E[v] /\ \A w \in E[v] : E[w] \subseteq E[v]
             /\ E[v] = {v} \cup E[n2[v].left] \cup E[n2[v].right]
             /\ \A w \in E[n2[v].left] : w < v
             /\ \A w \in E[n2[v].right] : w > v
             /\ \A c \in Children(n2[v]) : c \in E[v] /\ n2[c].parent = v
             /\ \A w \in E[v] \ {v} : /\ n2[w].parent \in E[v]
                                      /\ w \in Children(n2[n2[w].parent])
  <2>1. /\ nodes[v].value = v
        /\ v \in D[v] /\ \A w \in D[v] : D[w] \subseteq D[v]
        /\ D[v] = {v} \cup D[nodes[v].left] \cup D[nodes[v].right]
        /\ \A w \in D[nodes[v].left] : w < v
        /\ \A w \in D[nodes[v].right] : w > v
        /\ \A c \in Children(nodes[v]) : c \in D[v] /\ nodes[c].parent = v
        /\ \A w \in D[v] \ {v} : /\ nodes[w].parent \in D[v]
                                 /\ w \in Children(nodes[nodes[w].parent])
    BY DEF SearchTree
  <2>2. /\ n2[v].value = nodes[v].value /\ n2[v].left = nodes[v].left
        /\ n2[v].right = nodes[v].right /\ Children(n2[v]) = Children(nodes[v])
    BY DEF Children
  <2>3. D[v] \subseteq D[id] /\ E[v] = D[v]
    BY DEF SearchTree
  <2>4. \A c \in Children(nodes[v]) : c \in D[id] /\ c # v /\ c \in D[v]
    BY <2>1, <2>3, SubtreeOf
  <2>5. E[n2[v].left] = D[nodes[v].left] /\ E[n2[v].right] = D[nodes[v].right]
    BY <2>2, <2>4 DEF Children
  <2>6. ASSUME NEW w \in D[v] \ {v} PROVE w # id /\ w \in D[id]
    BY <2>6, <2>3, NotBelowEachOther
  <2>7. \A c \in Children(n2[v]) : c \in E[v] /\ n2[c].parent = v
    BY <2>1, <2>2, <2>3, <2>4, <2>6
  <2>8. ASSUME NEW w \in E[v] \ {v}
        PROVE  /\ n2[w].parent \in E[v]
               /\ w \in Children(n2[n2[w].parent])
    <3>1. w \in D[v] \ {v} /\ w # id /\ w \in D[id]
      BY <2>3, <2>6
    <3>2. n2[w].parent = nodes[w].parent
      BY <3>1
    <3>3. nodes[w].parent \in D[v] /\ w \in Children(nodes[nodes[w].parent])
      BY <2>1, <3>1
    <3>4. nodes[w].parent \in D[id]
      BY <2>3, <3>3
    <3>5. Children(n2[nodes[w].parent]) = Children(nodes[nodes[w].parent])
      BY <3>4 DEF Children
    <3> QED
      BY <2>3, <3>2, <3>3, <3>5
  <2>9. \A w \in E[v] : E[w] \subseteq E[v]
    BY <2>1, <2>3
  <2> QED
    BY <2>1, <2>2, <2>3, <2>5, <2>7, <2>8, <2>9
<1> QED
  BY <1>1, <1>2, <1>3 DEF SearchTree

\* Two search trees and a value between them make one.
LEMMA JoinTrees ==
  ASSUME NEW nodes \in Nodes, NEW D \in Belows, NEW x \in Value \ {0},
         SearchTree(nodes, D, nodes[x].left), SearchTree(nodes, D, nodes[x].right),
         nodes[x].value = x,
         \A w \in D[nodes[x].left] : w < x,
         \A w \in D[nodes[x].right] : w > x,
         \A c \in Children(nodes[x]) : nodes[c].parent = x,
         NEW E \in Belows, E[x] = {x} \cup D[nodes[x].left] \cup D[nodes[x].right],
         \A v \in Value \ {x} : E[v] = D[v]
  PROVE  SearchTree(nodes, E, x)
<1> DEFINE L == D[nodes[x].left]
           R == D[nodes[x].right]
<1>1. /\ L \subseteq Value \ {0} /\ R \subseteq Value \ {0} /\ D[0] = {}
      /\ nodes[x].left # 0 => nodes[x].left \in L
      /\ nodes[x].right # 0 => nodes[x].right \in R
  BY DEF SearchTree
<1>2. x \notin L /\ x \notin R /\ nodes[x].left # x /\ nodes[x].right # x
  <2>1. x \in Nat
    BY ValueFacts
  <2> QED
    BY <1>1, <2>1
<1>3. /\ \A w \in L \cup R : E[w] = D[w]
      /\ E[nodes[x].left] = L /\ E[nodes[x].right] = R /\ E[0] = {}
  <2>1. nodes[x].left \in Value /\ nodes[x].right \in Value /\ 0 \in Value
    BY ValueFacts DEF Nodes, NodeType
  <2> QED
    BY <1>1, <1>2, <2>1
<1>4. ASSUME NEW v \in L \cup R
      PROVE  /\ nodes[v].value = v
             /\ v \in E[v] /\ \A w \in E[v] : E[w] \subseteq E[v]
             /\ E[v] = {v} \cup E[nodes[v].left] \cup E[nodes[v].right]
             /\ \A w \in E[nodes[v].left] : w < v
             /\ \A w \in E[nodes[v].right] : w > v
             /\ \A c \in Children(nodes[v]) : c \in E[v] /\ nodes[c].parent = v
             /\ \A w \in E[v] \ {v} : /\ nodes[w].parent \in E[v]
                                      /\ w \in Children(nodes[nodes[w].parent])
             /\ E[v] \subseteq L \cup R
             /\ v \in L => E[v] \subseteq L
             /\ v \in R => E[v] \subseteq R
  <2>1. PICK s \in {nodes[x].left, nodes[x].right} : v \in D[s]
    OBVIOUS
  <2>2. SearchTree(nodes, D, s) /\ D[s] \subseteq L \cup R /\ s \in Value
    BY DEF Nodes, NodeType
  <2>3. /\ nodes[v].value = v
        /\ v \in D[v] /\ \A w \in D[v] : D[w] \subseteq D[v]
        /\ D[v] = {v} \cup D[nodes[v].left] \cup D[nodes[v].right]
        /\ \A w \in D[nodes[v].left] : w < v
        /\ \A w \in D[nodes[v].right] : w > v
        /\ \A c \in Children(nodes[v]) : c \in D[v] /\ nodes[c].parent = v
        /\ \A w \in D[v] \ {v} : /\ nodes[w].parent \in D[v]
                                 /\ w \in Children(nodes[nodes[w].parent])
    BY <2>1, <2>2 DEF SearchTree
  <2>4. D[v] \subseteq D[s]
    BY <2>1, <2>2 DEF SearchTree
  <2>5. E[v] = D[v] /\ \A w \in D[v] : E[w] = D[w]
    BY <1>3, <2>2, <2>4
  <2>6. \A c \in Children(nodes[v]) \cup {0} : E[c] = D[c]
    BY <1>1, <1>3, <2>3, <2>5
  <2>7. E[nodes[v].left] = D[nodes[v].left] /\ E[nodes[v].right] = D[nodes[v].right]
    BY <2>6 DEF Children
  <2>8. v \in L => D[v] \subseteq L
    <3>1. CASE nodes[x].left = 0
      BY <1>1, <3>1
    <3>2. CASE nodes[x].left # 0
      BY <3>2 DEF SearchTree
    <3> QED
      BY <3>1, <3>2
  <2>9. v \in R => D[v] \subseteq R
    <3>1. CASE nodes[x].right = 0
      BY <1>1, <3>1
    <3>2. CASE nodes[x].right # 0
      BY <3>2 DEF SearchTree
    <3> QED
      BY <3>1, <3>2
  <2> HIDE DEF L, R
  <2> QED
    BY <2>2, <2>3, <2>4, <2>5, <2>7, <2>8, <2>9
<1>5. \A c \in Children(nodes[x]) : c \in L \cup R
  BY <1>1 DEF Children
<1>6. E[x] = {x} \cup L \cup R
  OBVIOUS
<1>7. ASSUME NEW w \in E[x] \ {x}
      PROVE  /\ nodes[w].parent \in E[x]
             /\ w \in Children(nodes[nodes[w].parent])
  <2>1. CASE w \in Children(nodes[x])
    <3>1. nodes[w].parent = x
      BY <2>1
    <3> QED
      BY <2>1, <3>1, <1>6
  <2>2. CASE w \notin Children(nodes[x])
    <3>1. PICK s \in {nodes[x].left, nodes[x].right} : w \in D[s]
      BY <1>6, <1>7
    <3>2. SearchTree(nodes, D, s) /\ D[s] \subseteq L \cup R /\ s # 0
      BY <3>1, <1>1
    <3>3. w # s
      BY <2>2, <3>2 DEF Children
    <3>4. /\ s \in D[s]
          /\ nodes[w].parent \in D[s] /\ w \in Children(nodes[nodes[w].parent])
      BY <3>1, <3>2, <3>3 DEF SearchTree
    <3> QED
      BY <1>6, <3>2, <3>4
  <2> QED
    BY <2>1, <2>2
<1>8. \A w \in E[x] : E[w] \subseteq E[x]
  <2> HIDE DEF L, R
  <2> QED
    BY <1>4, <1>6
<1>9. /\ E[0] = {} /\ x \in E[x] /\ E[x] \subseteq Value \ {0}
      /\ \A v \in E[x] : v = x \/ v \in L \cup R
  BY <1>1, <1>3, <1>6
<1>10. /\ \A w \in E[nodes[x].left] : w < x
       /\ \A w \in E[nodes[x].right] : w > x
       /\ E[x] = {x} \cup E[nodes[x].left] \cup E[nodes[x].right]
  BY <1>3, <1>6
<1>11. \A c \in Children(nodes[x]) : c \in E[x] /\ nodes[c].parent = x
  BY <1>5, <1>6
<1>12. ASSUME NEW v \in E[x]
       PROVE  /\ nodes[v].value = v
              /\ v \in E[v] /\ \A w \in E[v] : E[w] \subseteq E[v]
              /\ E[v] = {v} \cup E[nodes[v].left] \cup E[nodes[v].right]
              /\ \A w \in E[nodes[v].left] : w < v
              /\ \A w \in E[nodes[v].right] : w > v
              /\ \A c \in Children(nodes[v]) : c \in E[v] /\ nodes[c].parent = v
              /\ \A w \in E[v] \ {v} : /\ nodes[w].parent \in E[v]
                                       /\ w \in Children(nodes[nodes[w].parent])
  <2> HIDE DEF L, R
  <2>1. CASE v = x
    BY <2>1, <1>7, <1>8, <1>9, <1>10, <1>11
  <2>2. CASE v \in L \cup R
    BY <2>2, <1>4
  <2> QED
    BY <1>9, <2>1, <2>2
<1> HIDE DEF L, R
<1> QED
  BY <1>9, <1>12 DEF SearchTree

-----------------------------------------------------------------------------
\* Node id is gone from the nodes, and new is in its place.
Deleted(nodes, D, id, new, n2, D2) ==
  /\ SearchTree(n2, D2, new)
  /\ D2[new] = D[id] \ {id}
  /\ new # 0 => n2[new].parent = nodes[id].parent
  /\ n2[id] = NoNode
  /\ \A v \in Value \ D[id] : /\ n2[v] = Replace(nodes, nodes[id], new)[v]
                              /\ D2[v] = D[v]

\* In the nodes a, the parent of cur has another child in its place.
Replaced(a, nodes, cur, new) ==
  /\ a \in Nodes
  /\ \A v \in Value : a[v].value = nodes[v].value /\ a[v].parent = nodes[v].parent
  /\ \A v \in Value : v # cur.parent \/ v = 0 => a[v] = nodes[v]
  /\ cur.parent # 0 /\ cur.value < cur.parent =>
       a[cur.parent].left = new /\ a[cur.parent].right = nodes[cur.parent].right
  /\ cur.parent # 0 /\ ~ (cur.value < cur.parent) =>
       a[cur.parent].left = nodes[cur.parent].left /\ a[cur.parent].right = new

\* The parent of a node gets another child in its place.
LEMMA ReplaceAt ==
  ASSUME NEW nodes \in Nodes, NEW cur \in NodeType, NEW new \in Value
  PROVE  Replaced(Replace(nodes, cur, new), nodes, cur, new)
<1> USE DEF Replaced
<1>1. cur.parent \in Value
  BY DEF NodeType
<1>2. CASE cur.parent = 0
  BY <1>2 DEF Replace
<1>3. CASE cur.parent # 0 /\ cur.value < cur.parent
  <2>1. Replace(nodes, cur, new) = [nodes EXCEPT ![cur.parent].left = new]
    BY <1>3 DEF Replace
  <2> QED
    BY <1>1, <1>3, <2>1 DEF Nodes, NodeType
<1>4. CASE cur.parent # 0 /\ ~ (cur.value < cur.parent)
  <2>1. Replace(nodes, cur, new) = [nodes EXCEPT ![cur.parent].right = new]
    BY <1>4 DEF Replace
  <2> QED
    BY <1>1, <1>4, <2>1 DEF Nodes, NodeType
<1> QED
  BY <1>2, <1>3, <1>4

\* What a deletion below the root of a tree does to the tree.
LEMMA DeleteBelow ==
  ASSUME NEW nodes \in Nodes, NEW D \in Belows, NEW root \in Value,
         SearchTree(nodes, D, root), NEW id \in D[root], id # root,
         NEW n2 \in Nodes, NEW D2 \in Belows, NEW new \in Value,
         Deleted(nodes, D, id, new, n2, D2)
  PROVE  \E E \in Belows :
           /\ SearchTree(n2, E, root)
           /\ E[root] = D[root] \ {id}
           /\ E[new] = D[id] \ {id}
           /\ n2[root].parent = nodes[root].parent
           /\ n2[id] = NoNode
           /\ \A v \in Value \ D[root] : n2[v] = nodes[v] /\ E[v] = D[v]
<1> DEFINE E == [v \in Value |-> IF v \in D[id] THEN D2[v]
                                 ELSE IF v \in D[root] THEN D[v] \ {id}
                                 ELSE D[v]]
           p == nodes[id].parent
           R == Replace(nodes, nodes[id], new)
<1>1. /\ id \in Value \ {0} /\ root \in Value \ {0} /\ D[0] = {}
      /\ D[root] \subseteq Value \ {0} /\ root \in D[root]
      /\ \A v \in D[root] : D[v] \subseteq D[root]
      /\ \A v \in D[root] : v \in D[v] /\ v \in Nat
      /\ \A v \in D[root] : \A w \in D[v] : D[w] \subseteq D[v]
  BY ValueFacts DEF SearchTree
<1>2. /\ p \in D[root] /\ id \in Children(nodes[p]) /\ p # id /\ p \in Value \ {0}
      /\ p \notin D[id] /\ nodes[id].value = id
  <2>1. id \in D[root] \ {root} /\ root \in D[root]
    BY <1>1
  <2>2. p \in D[root] /\ id \in Children(nodes[p]) /\ nodes[id].value = id
    BY <2>1 DEF SearchTree
  <2>3. id # p /\ id \in D[p]
    BY <2>2, SubtreeOf
  <2>4. p \notin D[id]
    BY <2>2, <2>3, NotBelowEachOther
  <2> QED
    BY <1>1, <2>2, <2>3, <2>4
<1>3. /\ R \in Nodes
      /\ \A v \in Value : /\ R[v].value = nodes[v].value
                          /\ R[v].parent = nodes[v].parent
      /\ \A v \in Value \ {p} : R[v] = nodes[v]
      /\ id < p => R[p].left = new /\ R[p].right = nodes[p].right
      /\ ~ (id < p) => R[p].left = nodes[p].left /\ R[p].right = new
  <2>1. nodes[id] \in NodeType
    BY <1>1 DEF Nodes
  <2>2. /\ R \in Nodes
        /\ \A v \in Value : R[v].value = nodes[v].value /\ R[v].parent = nodes[v].parent
        /\ \A v \in Value : v # p \/ v = 0 => R[v] = nodes[v]
        /\ p # 0 /\ nodes[id].value < p =>
             R[p].left = new /\ R[p].right = nodes[p].right
        /\ p # 0 /\ ~ (nodes[id].value < p) =>
             R[p].left = nodes[p].left /\ R[p].right = new
    BY <2>1, ReplaceAt, SMTT(60) DEF Replaced
  <2> HIDE DEF p, R
  <2> QED
    BY <1>2, <2>2
<1>4. /\ SearchTree(n2, D2, new) /\ D2[new] = D[id] \ {id}
      /\ new # 0 => n2[new].parent = p
      /\ n2[id] = NoNode
      /\ \A v \in Value \ D[id] : n2[v] = R[v] /\ D2[v] = D[v]
      /\ D2[0] = {}
  BY DEF Deleted, SearchTree
<1>5. \A v \in D2[new] : D2[v] \subseteq D2[new]
  BY <1>4 DEF SearchTree
<1>6. E \in Belows
  BY DEF Belows
<1> HIDE DEF R
<1>7. E[new] = D[id] \ {id} /\ E[0] = {}
  <2>1. 0 \notin D[id] /\ 0 \notin D[root] /\ 0 \in Value
    BY <1>1, ValueFacts
  <2>2. E[0] = {}
    BY <1>1, <2>1
  <2>3. CASE new = 0
    BY <1>4, <2>2, <2>3
  <2>4. CASE new # 0
    <3>1. new \in D2[new]
      BY <1>4, <2>4 DEF SearchTree
    <3>2. new \in D[id]
      BY <1>4, <3>1
    <3>3. E[new] = D2[new]
      BY <3>2
    <3> QED
      BY <1>4, <2>2, <3>3
  <2> QED
    BY <2>2, <2>3, <2>4
<1>8. ASSUME NEW v \in Value \ D[root]
      PROVE  n2[v] = nodes[v] /\ E[v] = D[v] /\ v \notin D[id]
  <2>1. v \notin D[id]
    BY <1>1
  <2> QED
    BY <1>2, <1>3, <1>4, <2>1
<1>9. E[root] = D[root] \ {id} /\ root \notin D[id]
  <2>1. id \in D[root] \ {root}
    OBVIOUS
  <2>2. root \notin D[id]
    BY <1>1, <2>1, NotBelowEachOther
  <2> QED
    BY <1>1, <2>2
<1>10. n2[root].parent = nodes[root].parent
  BY <1>1, <1>3, <1>4, <1>9
<1>11. ASSUME NEW v \in D[id] \ {id}
       PROVE  /\ E[v] = D2[v] /\ E[v] \subseteq D[id] \ {id}
              /\ \A w \in E[v] : E[w] = D2[w]
              /\ v \in D2[new] /\ D2[v] \subseteq D2[new]
  <2>1. v \in D2[new] /\ v \in Value
    BY <1>1, <1>4
  <2>2. D2[v] \subseteq D2[new]
    BY <1>5, <2>1
  <2> QED
    BY <1>1, <1>4, <2>1, <2>2
<1>12. ASSUME NEW v \in D[root] \ D[id]
       PROVE  /\ E[v] = D[v] \ {id} /\ n2[v] = R[v] /\ v \in Value
              /\ v # p => n2[v] = nodes[v]
  BY <1>1, <1>3, <1>4
<1> HIDE DEF E
\* The nodes that were below the deleted one.
<1>13. ASSUME NEW v \in D[id] \ {id}
       PROVE  /\ n2[v].value = v
              /\ v \in E[v] /\ \A w \in E[v] : E[w] \subseteq E[v]
              /\ E[v] = {v} \cup E[n2[v].left] \cup E[n2[v].right]
              /\ \A w \in E[n2[v].left] : w < v
              /\ \A w \in E[n2[v].right] : w > v
              /\ \A c \in Children(n2[v]) : c \in E[v] /\ n2[c].parent = v
              /\ \A w \in E[v] \ {v} : /\ n2[w].parent \in E[v]
                                       /\ w \in Children(n2[n2[w].parent])
  <2>1. v \in D2[new]
    BY <1>11
  <2>2. /\ n2[v].value = v
        /\ v \in D2[v] /\ \A w \in D2[v] : D2[w] \subseteq D2[v]
        /\ D2[v] = {v} \cup D2[n2[v].left] \cup D2[n2[v].right]
        /\ \A w \in D2[n2[v].left] : w < v
        /\ \A w \in D2[n2[v].right] : w > v
        /\ \A c \in Children(n2[v]) : c \in D2[v] /\ n2[c].parent = v
        /\ \A w \in D2[v] \ {v} : /\ n2[w].parent \in D2[v]
                                  /\ w \in Children(n2[n2[w].parent])
    BY <1>4, <2>1 DEF SearchTree
  <2>3. E[v] = D2[v] /\ \A w \in E[v] : E[w] = D2[w]
    BY <1>11
  <2>4. \A c \in Children(n2[v]) \cup {0} : E[c] = D2[c]
    BY <1>4, <1>7, <2>2, <2>3
  <2>5. E[n2[v].left] = D2[n2[v].left] /\ E[n2[v].right] = D2[n2[v].right]
    BY <2>4 DEF Children
  <2> QED
    BY <2>2, <2>3, <2>5
\* The others, of which only the parent of the deleted one has changed.
<1>14. ASSUME NEW v \in D[root] \ D[id]
       PROVE  /\ n2[v].value = v
              /\ v \in E[v] /\ \A w \in E[v] : E[w] \subseteq E[v]
              /\ E[v] = {v} \cup E[n2[v].left] \cup E[n2[v].right]
              /\ \A w \in E[n2[v].left] : w < v
              /\ \A w \in E[n2[v].right] : w > v
              /\ \A c \in Children(n2[v]) : c \in E[v] /\ n2[c].parent = v
              /\ \A w \in E[v] \ {v} : /\ n2[w].parent \in E[v]
                                       /\ w \in Children(n2[n2[w].parent])
  <2>1. /\ E[v] = D[v] \ {id} /\ n2[v] = R[v] /\ v \in Value
        /\ v # p => n2[v] = nodes[v]
    BY <1>12
  <2>2. /\ nodes[v].value = v
        /\ v \in D[v] /\ \A w \in D[v] : D[w] \subseteq D[v]
        /\ D[v] = {v} \cup D[nodes[v].left] \cup D[nodes[v].right]
        /\ \A w \in D[nodes[v].left] : w < v
        /\ \A w \in D[nodes[v].right] : w > v
        /\ \A c \in Children(nodes[v]) : c \in D[v] /\ nodes[c].parent = v
        /\ \A w \in D[v] \ {v} : /\ nodes[w].parent \in D[v]
                                 /\ w \in Children(nodes[nodes[w].parent])
    BY DEF SearchTree
  <2>3. v # id
    BY <1>1
  <2>4. n2[v].value = v
    BY <1>3, <2>1, <2>2
  <2>5. ASSUME NEW w \in D[v] \cap D[id] PROVE id \in D[v] /\ D[id] \subseteq D[v]
    <3>1. v \in D[id] \/ id \in D[v]
      BY <2>5, Nested
    <3> QED
      BY <3>1, <2>2
  <2>6. ASSUME NEW w \in E[v] PROVE E[w] \subseteq E[v]
    <3>1. w \in D[v] /\ w # id /\ w \in D[root] /\ D[w] \subseteq D[v]
      BY <1>1, <2>1, <2>2, <2>6
    <3>2. CASE w \in D[id]
      BY <3>1, <3>2, <2>1, <2>5, <1>11
    <3>3. CASE w \notin D[id]
      BY <3>1, <3>3, <2>1, <1>12
    <3> QED
      BY <3>2, <3>3
  <2>7. ASSUME NEW c \in Children(nodes[v]), c # id
        PROVE  /\ c \in D[root] \ D[id] /\ c \in Value
               /\ E[c] = D[c] \ {id} /\ n2[c].parent = v /\ c \in E[v]
    <3>1. c \in D[v] /\ nodes[c].parent = v /\ c \in D[root]
      BY <1>1, <2>2
    <3>2. c \notin D[id]
      <4> SUFFICES ASSUME c \in D[id] PROVE FALSE
        OBVIOUS
      <4>1. nodes[c].parent \in D[id]
        BY <2>7 DEF SearchTree
      <4> QED
        BY <3>1, <4>1
    <3>3. E[c] = D[c] \ {id} /\ n2[c] = R[c] /\ c \in Value
      BY <1>12, <3>1, <3>2
    <3> QED
      BY <1>3, <2>1, <2>7, <3>1, <3>2, <3>3
  <2>8. ASSUME v = p
        PROVE  /\ E[v] = {v} \cup E[n2[v].left] \cup E[n2[v].right]
               /\ \A w \in E[n2[v].left] : w < v
               /\ \A w \in E[n2[v].right] : w > v
               /\ \A c \in Children(n2[v]) : c \in E[v] /\ n2[c].parent = v
    <3> DEFINE c == IF id < p THEN nodes[p].right ELSE nodes[p].left
    <3>1. /\ nodes[p].left # 0 => nodes[p].left < p
          /\ nodes[p].right # 0 => nodes[p].right > p
      BY <1>2, SubtreeOf
    <3>2. /\ id < p => id = nodes[p].left
          /\ ~ (id < p) => id = nodes[p].right
      <4>1. id \in Nat /\ p \in Nat
        BY <1>1, <1>2
      <4> QED
        BY <1>2, <3>1, <4>1 DEF Children
    <3>3. c = 0 \/ (c \in Children(nodes[v]) /\ c # id)
      <4>1. id \in Nat /\ p \in Nat
        BY <1>1, <1>2
      <4> QED
        BY <2>8, <3>1, <3>2, <4>1 DEF Children
    <3>4. E[c] = D[c] \ {id}
      BY <1>1, <1>7, <2>7, <3>3
    <3>5. /\ id < p => n2[v].left = new /\ n2[v].right = c
                       /\ nodes[v].left = id /\ nodes[v].right = c
          /\ ~ (id < p) => n2[v].left = c /\ n2[v].right = new
                           /\ nodes[v].left = c /\ nodes[v].right = id
      BY <1>3, <2>1, <2>8, <3>2
    <3> HIDE DEF c
    <3>6. E[v] = {v} \cup E[n2[v].left] \cup E[n2[v].right]
      BY <1>7, <2>1, <2>2, <2>3, <3>4, <3>5
    <3>7. /\ \A w \in E[n2[v].left] : w < v
          /\ \A w \in E[n2[v].right] : w > v
      BY <1>7, <2>2, <3>4, <3>5
    <3>8. ASSUME NEW d \in Children(n2[v]) PROVE d \in E[v] /\ n2[d].parent = v
      <4>1. (d = new /\ new # 0) \/ (d = c /\ c # 0)
        BY <3>5, <3>8 DEF Children
      <4>2. CASE d = new /\ new # 0
        <5>1. new \in D2[new]
          BY <4>2, <1>4 DEF SearchTree
        <5>2. new \in E[new]
          BY <1>4, <1>7, <5>1
        <5> QED
          BY <4>2, <5>2, <1>4, <2>8, <3>5, <3>6
      <4>3. CASE d = c /\ c # 0
        BY <4>3, <2>7, <3>3
      <4> QED
        BY <4>1, <4>2, <4>3
    <3> QED
      BY <3>6, <3>7, <3>8
  <2>9. ASSUME v # p
        PROVE  /\ E[v] = {v} \cup E[n2[v].left] \cup E[n2[v].right]
               /\ \A w \in E[n2[v].left] : w < v
               /\ \A w \in E[n2[v].right] : w > v
               /\ \A c \in Children(n2[v]) : c \in E[v] /\ n2[c].parent = v
    <3>1. n2[v] = nodes[v]
      BY <2>1, <2>9
    <3>2. id \notin Children(nodes[v])
      BY <2>2, <2>9
    <3>3. \A c \in Children(nodes[v]) \cup {0} : E[c] = D[c] \ {id}
      BY <1>1, <1>7, <2>7, <3>2
    <3>4. /\ E[nodes[v].left] = D[nodes[v].left] \ {id}
          /\ E[nodes[v].right] = D[nodes[v].right] \ {id}
      BY <3>3 DEF Children
    <3>5. E[v] = {v} \cup E[nodes[v].left] \cup E[nodes[v].right]
      BY <2>1, <2>2, <2>3, <3>4
    <3>6. /\ \A w \in E[nodes[v].left] : w < v
          /\ \A w \in E[nodes[v].right] : w > v
      BY <2>2, <3>4
    <3>7. \A c \in Children(nodes[v]) : c \in E[v] /\ n2[c].parent = v
      BY <2>7, <3>2
    <3> QED
      BY <3>1, <3>5, <3>6, <3>7
  <2>10. ASSUME NEW w \in E[v] \ {v}
         PROVE  /\ n2[w].parent \in E[v]
                /\ w \in Children(n2[n2[w].parent])
    <3>1. w \in D[v] /\ w # v /\ w # id /\ w \in D[root] /\ w \in Value
      BY <1>1, <2>1
    <3>2. CASE w \in D[id] /\ w = new
      <4>1. id \in D[v]
        BY <3>1, <3>2, <2>5
      <4>2. nodes[id].parent \in D[v]
        BY <2>2, <2>3, <4>1
      <4>3. n2[w].parent = p /\ p \in E[v]
        BY <1>1, <1>2, <1>4, <2>1, <3>1, <3>2, <4>2
      <4>4. p \in D[root] \ D[id]
        BY <1>2
      <4>5. n2[p] = R[p]
        BY <1>12, <4>4
      <4>6. new \in Children(n2[p])
        <5>1. new # 0
          BY <1>1, <3>1, <3>2
        <5> QED
          BY <1>3, <4>5, <5>1 DEF Children
      <4> QED
        BY <3>2, <4>3, <4>6
    <3>3. CASE w \in D[id] /\ w # new
      <4>1. w \in D2[new] \ {new} /\ new # 0
        BY <1>4, <3>1, <3>3 DEF SearchTree
      <4>2. new \in D2[new]
        BY <1>4, <4>1 DEF SearchTree
      <4>3. n2[w].parent \in D2[new] /\ w \in Children(n2[n2[w].parent])
        BY <1>4, <4>1, <4>2 DEF SearchTree
      <4>4. D[id] \ {id} \subseteq E[v]
        BY <2>1, <2>5, <3>1, <3>3
      <4> QED
        BY <1>4, <4>3, <4>4
    <3>4. CASE w \notin D[id]
      <4> DEFINE q == nodes[w].parent
      <4>1. q \in D[v] /\ w \in Children(nodes[q]) /\ q \in D[root]
        BY <1>1, <2>2, <3>1
      <4>2. n2[w].parent = q
        BY <1>3, <1>12, <3>1, <3>4
      <4>3. q \notin D[id]
        <5> SUFFICES ASSUME q \in D[id] PROVE FALSE
          OBVIOUS
        <5>1. w \in D[q]
          BY <4>1, SubtreeOf
        <5> QED
          BY <1>1, <3>4, <5>1
      <4>4. q # id /\ q \in E[v]
        BY <1>1, <2>1, <4>1, <4>3
      <4> HIDE DEF q
      <4>5. w \in Children(n2[q])
        <5>1. CASE q # p
          BY <5>1, <1>12, <4>1, <4>3
        <5>2. CASE q = p
          <6>1. n2[p] = R[p]
            BY <5>2, <1>12, <4>1, <4>3
          <6>2. /\ nodes[p].left # 0 => nodes[p].left < p
                /\ nodes[p].right # 0 => nodes[p].right > p
            BY <1>2, SubtreeOf
          <6>3. /\ id < p => id = nodes[p].left
                /\ ~ (id < p) => id = nodes[p].right
            <7>1. id \in Nat /\ p \in Nat
              BY <1>1, <1>2
            <7> QED
              BY <1>2, <6>2, <7>1 DEF Children
          <6> QED
            BY <1>3, <3>1, <4>1, <5>2, <6>1, <6>3 DEF Children
        <5> QED
          BY <5>1, <5>2
      <4> QED
        BY <4>2, <4>4, <4>5
    <3> QED
      BY <3>2, <3>3, <3>4
  <2>11. v \in E[v]
    BY <2>1, <2>2, <2>3
  <2>12. /\ E[v] = {v} \cup E[n2[v].left] \cup E[n2[v].right]
         /\ \A w \in E[n2[v].left] : w < v
         /\ \A w \in E[n2[v].right] : w > v
         /\ \A c \in Children(n2[v]) : c \in E[v] /\ n2[c].parent = v
    BY <2>8, <2>9
  <2> QED
    BY <2>4, <2>6, <2>10, <2>11, <2>12
<1>15. SearchTree(n2, E, root)
  <2>1. \A v \in E[root] : v \in D[id] \ {id} \/ v \in D[root] \ D[id]
    BY <1>9
  <2>2. E[root] \subseteq Value \ {0} /\ root \in E[root]
    BY <1>1, <1>9
  <2> HIDE DEF p
  <2> QED
    BY <1>7, <1>13, <1>14, <2>1, <2>2 DEF SearchTree
<1> QED
  BY <1>4, <1>6, <1>7, <1>8, <1>9, <1>10, <1>15

-----------------------------------------------------------------------------
\* The functions that take nodes and an id to the nodes without it and what replaces it.
Removals == [Nodes -> [Value -> [nodes : Nodes, new : Value]]]

\* In the nodes a, the child has another parent.
Adopted(a, nodes, child, parent) ==
  /\ a \in Nodes
  /\ \A v \in Value : v # child \/ v = 0 => a[v] = nodes[v]
  /\ \A v \in Value : /\ a[v].value = nodes[v].value
                      /\ a[v].left = nodes[v].left
                      /\ a[v].right = nodes[v].right
  /\ child # 0 => a[child].parent = parent

\* A node gets another parent.
LEMMA AdoptAt ==
  ASSUME NEW nodes \in Nodes, NEW child \in Value, NEW parent \in Value
  PROVE  Adopted(Adopt(nodes, child, parent), nodes, child, parent)
BY DEF Adopt, Adopted, Nodes, NodeType

\* deleteLeaf gives nodes and a node.
LEMMA DeleteByType ==
  ASSUME NEW f \in Removals, NEW nodes \in Nodes, NEW id \in Value
  PROVE  DeleteBy(f, nodes, id) \in [nodes : Nodes, new : Value]
<1> DEFINE cur    == nodes[id]
           new    == IF cur.left = 0 THEN cur.right ELSE Rightmost(nodes, cur.left)
           linked == Adopt(Replace(nodes, cur, new), cur.right,
                           IF cur.left = 0 THEN cur.parent ELSE new)
           moved  == [linked EXCEPT ![cur.left].parent = new]
           rest   == IF Search(moved, new, cur.left) = new
                     THEN f[moved][new].nodes ELSE moved
           joined == [rest EXCEPT ![new] = [cur EXCEPT !.value = new]]
           beside == [linked EXCEPT ![new].parent = cur.parent,
                                    ![new].right = cur.right]
           after  == IF cur.left = 0 THEN linked
                     ELSE IF new # cur.left THEN joined ELSE beside
<1>1. DeleteBy(f, nodes, id) = [nodes |-> [after EXCEPT ![id] = NoNode], new |-> new]
  BY DEF DeleteBy
<1>2. cur \in NodeType
  BY DEF Nodes
<1>3. cur.parent \in Value /\ cur.left \in Value /\ cur.right \in Value
  BY <1>2 DEF NodeType
<1> HIDE DEF cur
<1>4. new \in Value
  BY <1>3, WalkTypes
<1> HIDE DEF new
<1>5. linked \in Nodes
  <2>1. Replace(nodes, cur, new) \in Nodes
    BY <1>2, <1>4, ReplaceAt DEF Replaced
  <2>2. \A p \in Value : Adopt(Replace(nodes, cur, new), cur.right, p) \in Nodes
    BY <1>3, <2>1, AdoptAt DEF Adopted
  <2> QED
    BY <1>3, <1>4, <2>2
<1> HIDE DEF linked
<1>6. moved \in Nodes
  BY <1>3, <1>4, <1>5 DEF Nodes, NodeType
<1> HIDE DEF moved
<1>7. rest \in Nodes
  BY <1>4, <1>6 DEF Removals
<1> HIDE DEF rest
<1>8. joined \in Nodes
  <2>1. [cur EXCEPT !.value = new] \in NodeType
    BY <1>2, <1>4 DEF NodeType
  <2> QED
    BY <1>4, <1>7, <2>1 DEF Nodes
<1>9. beside \in Nodes
  <2> DEFINE half == [linked EXCEPT ![new].parent = cur.parent]
  <2>1. half \in Nodes
    BY <1>3, <1>4, <1>5 DEF Nodes, NodeType
  <2>2. beside = [half EXCEPT ![new].right = cur.right]
    OBVIOUS
  <2> HIDE DEF half, beside
  <2>3. [half EXCEPT ![new].right = cur.right] \in Nodes
    BY <1>3, <1>4, <2>1 DEF Nodes, NodeType
  <2> QED
    BY <2>2, <2>3
<1>10. after \in Nodes
  BY <1>5, <1>8, <1>9
<1> HIDE DEF after
<1>11. NoNode \in NodeType
  BY ValueFacts DEF NoNode, Node, NodeType
<1>12. [after EXCEPT ![id] = NoNode] \in Nodes
  BY <1>10, <1>11 DEF Nodes
<1> QED
  BY <1>1, <1>4, <1>12

\* A deletion that may be nested one level deeper.
LEMMA DeleteSteps ==
  /\ DeleteWithin \in [Nat -> Removals]
  /\ \A n \in Nat, nodes \in Nodes, id \in Value :
       DeleteWithin[n + 1][nodes][id] = DeleteBy(DeleteWithin[n], nodes, id)
<1> DEFINE none == [nodes \in Nodes |-> [id \in Value |-> [nodes |-> nodes, new |-> 0]]]
           G(f) == [nodes \in Nodes |-> [id \in Value |-> DeleteBy(f, nodes, id)]]
           g == [k \in Nat |-> [f \in Removals |-> G(f)]]
           Body(a) == [depth \in Nat |->
                         [nodes \in Nodes |-> [id \in Value |->
                           IF depth = 0 THEN [nodes |-> nodes, new |-> 0]
                           ELSE DeleteBy(a[depth - 1], nodes, id)]]]
           c == CHOOSE a : a = Body(a)
<1>1. none \in Removals
  BY ValueFacts DEF Removals
<1>2. ASSUME NEW f \in Removals PROVE G(f) \in Removals
  BY DeleteByType DEF Removals
<1>3. PICK h \in [Nat -> Removals] : Follows(h, none, g)
  <2>1. g \in [Nat -> [Removals -> Removals]]
    <3> HIDE DEF G
    <3> QED
      BY <1>2
  <2> HIDE DEF g, none
  <2> QED
    BY <1>1, <2>1, RecursionExists, Zenon
<1>4. h[0] = none /\ \A n \in Nat : h[n + 1] = G(h[n])
  <2> HIDE DEF G, none
  <2> QED
    BY <1>3 DEF Follows
<1>5. h = Body(h)
  <2>1. ASSUME NEW k \in Nat
        PROVE  h[k] = [nodes \in Nodes |-> [id \in Value |->
                         IF k = 0 THEN [nodes |-> nodes, new |-> 0]
                         ELSE DeleteBy(h[k - 1], nodes, id)]]
    <3>1. CASE k = 0
      BY <1>4, <3>1
    <3>2. CASE k # 0
      <4>1. k - 1 \in Nat /\ (k - 1) + 1 = k
        BY <3>2
      <4>2. h[(k - 1) + 1] = G(h[k - 1])
        BY <1>4, <4>1
      <4>3. h[k] = G(h[k - 1])
        BY <4>1, <4>2
      <4> QED
        BY <3>2, <4>3
    <3> QED
      BY <3>1, <3>2
  <2> QED
    BY <2>1
<1>6. c = Body(c)
  <2> HIDE DEF Body
  <2> QED
    BY <1>5
<1>7. DeleteWithin = Body(DeleteWithin)
  <2>1. DeleteWithin = c
    BY DEF DeleteWithin
  <2> HIDE DEF c, Body
  <2> QED
    BY <1>6, <2>1
<1>8. DeleteWithin[0] = none
  <2>1. DeleteWithin[0] = Body(DeleteWithin)[0]
    BY <1>7
  <2> QED
    BY <2>1
<1>9. ASSUME NEW n \in Nat PROVE DeleteWithin[n + 1] = G(DeleteWithin[n])
  <2>1. n + 1 \in Nat /\ n + 1 # 0 /\ (n + 1) - 1 = n
    OBVIOUS
  <2>2. DeleteWithin[n + 1] = Body(DeleteWithin)[n + 1]
    BY <1>7
  <2>3. Body(DeleteWithin)[n + 1] = [nodes \in Nodes |-> [id \in Value |->
                            DeleteBy(DeleteWithin[(n + 1) - 1], nodes, id)]]
    BY <2>1
  <2> QED
    BY <2>1, <2>2, <2>3
<1>10. \A n \in Nat : DeleteWithin[n] \in Removals
  <2> DEFINE S == {n \in Nat : DeleteWithin[n] \in Removals}
  <2>1. 0 \in S
    BY <1>1, <1>8
  <2>2. \A n \in Nat : n \in S => n + 1 \in S
    <3> HIDE DEF G
    <3> QED
      BY <1>2, <1>9
  <2>3. Nat \subseteq S
    <3> HIDE DEF S
    <3> QED
      BY <2>1, <2>2, NatSetInduction, Zenon
  <2> QED
    BY <2>3
<1>11. DeleteWithin \in [Nat -> Removals]
  <2>1. DeleteWithin = [k \in Nat |-> DeleteWithin[k]]
    BY <1>7
  <2> QED
    BY <1>10, <2>1
<1>12. ASSUME NEW n \in Nat, NEW nodes \in Nodes, NEW id \in Value
       PROVE  DeleteWithin[n + 1][nodes][id] = DeleteBy(DeleteWithin[n], nodes, id)
  <2>1. DeleteWithin[n + 1] = G(DeleteWithin[n])
    BY <1>9
  <2> HIDE DEF Body, g, none
  <2>2. G(DeleteWithin[n])[nodes] = [i \in Value |-> DeleteBy(DeleteWithin[n], nodes, i)]
    OBVIOUS
  <2>3. G(DeleteWithin[n])[nodes][id] = DeleteBy(DeleteWithin[n], nodes, id)
    BY <2>2
  <2> HIDE DEF G
  <2> QED
    BY <2>1, <2>3
<1> HIDE DEF G, g, Body, none
<1> QED
  BY <1>11, <1>12

\* f deletes the nodes up to a limit from their trees.
Removes(f, limit) ==
  \A nodes \in Nodes, D \in Belows, id \in Value \ {0} :
    id <= limit /\ SearchTree(nodes, D, id) /\ nodes[id].parent \notin D[id] =>
      \E D2 \in Belows : Deleted(nodes, D, id, f[nodes][id].new, f[nodes][id].nodes, D2)

\* A node without a left child: its right child takes its place.
LEMMA DeleteNoLeft ==
  ASSUME NEW f \in Removals, NEW nodes \in Nodes, NEW D \in Belows,
         NEW id \in Value \ {0}, SearchTree(nodes, D, id),
         nodes[id].parent \notin D[id], nodes[id].left = 0
  PROVE  LET d == DeleteBy(f, nodes, id)
         IN  \E D2 \in Belows : Deleted(nodes, D, id, d.new, d.nodes, D2)
<1> DEFINE cur == nodes[id]
           r   == cur.right
           R   == Replace(nodes, cur, r)
           A   == Adopt(R, r, cur.parent)
           n2  == [A EXCEPT ![id] = NoNode]
<1>1. DeleteBy(f, nodes, id) = [nodes |-> n2, new |-> r]
  BY DEF DeleteBy
<1>2. cur \in NodeType /\ r \in Value /\ cur.parent \in Value
  BY DEF Nodes, NodeType
<1>3. id \in D[id] /\ D[id] \subseteq Value \ {0} /\ D[0] = {} /\ id \in Value
  BY DEF SearchTree
<1>4. /\ SearchTree(nodes, D, r) /\ D[id] = {id} \cup D[r] /\ id \notin D[r]
      /\ r # 0 => r \in D[r] /\ r # id
  <2>1. D[id] = {id} \cup D[0] \cup D[r]
    BY <1>3 DEF SearchTree
  <2>2. r # 0 => r \in Children(nodes[id])
    BY DEF Children
  <2>3. id \in D[id] /\ SearchTree(nodes, D, r)
    BY <1>3, SubtreeOf
  <2>4. r # 0 => r \in D[r] /\ r # id /\ id \notin D[r]
    BY <1>3, <2>2, SubtreeOf
  <2> QED
    BY <1>3, <2>1, <2>3, <2>4
<1>5. /\ R \in Nodes
      /\ \A v \in D[id] : R[v] = nodes[v]
  <2>1. Replaced(R, nodes, cur, r) /\ cur.parent \notin D[id]
    BY <1>2, ReplaceAt
  <2> HIDE DEF R, r, cur
  <2> QED
    BY <1>3, <2>1 DEF Replaced
<1>6. /\ A \in Nodes
      /\ \A v \in Value : v # r \/ v = 0 => A[v] = R[v]
      /\ \A v \in Value : /\ A[v].value = R[v].value
                          /\ A[v].left = R[v].left
                          /\ A[v].right = R[v].right
      /\ r # 0 => A[r].parent = cur.parent
  <2> HIDE DEF R, r, cur
  <2>1. Adopted(A, R, r, cur.parent)
    BY <1>2, <1>5, AdoptAt
  <2> HIDE DEF A
  <2> QED
    BY <2>1 DEF Adopted
<1> HIDE DEF cur, R, A, r
<1>7. /\ n2 \in Nodes /\ n2[id] = NoNode
      /\ \A v \in Value \ {id} : n2[v] = A[v]
  <2>1. NoNode \in NodeType
    BY ValueFacts DEF NoNode, Node, NodeType
  <2> QED
    BY <1>3, <1>6, <2>1 DEF Nodes
<1> HIDE DEF n2
<1>8. SearchTree(n2, D, r)
  <2>1. ASSUME NEW v \in D[r]
        PROVE  /\ n2[v].value = nodes[v].value
               /\ n2[v].left = nodes[v].left
               /\ n2[v].right = nodes[v].right
               /\ v # r => n2[v].parent = nodes[v].parent
    <3>1. v \in Value \ {id} /\ v \in D[id]
      BY <1>3, <1>4
    <3>2. n2[v] = A[v] /\ R[v] = nodes[v]
      BY <1>5, <1>7, <3>1
    <3> QED
      BY <1>6, <3>1, <3>2
  <2> QED
    BY <1>2, <1>4, <1>7, <2>1, SameSubtree
<1>9. ASSUME NEW v \in Value \ D[id]
      PROVE  n2[v] = R[v]
  <2>1. v # id /\ (v # r \/ v = 0)
    BY <1>3, <1>4
  <2> QED
    BY <1>6, <1>7, <2>1
<1>10. Deleted(nodes, D, id, r, n2, D)
  <2>1. r # 0 => n2[r].parent = cur.parent
    BY <1>2, <1>4, <1>6, <1>7
  <2>2. D[r] = D[id] \ {id}
    BY <1>4
  <2>3. \A v \in Value \ D[id] : n2[v] = Replace(nodes, nodes[id], r)[v] /\ D[v] = D[v]
    BY <1>9 DEF R, cur
  <2>4. r # 0 => n2[r].parent = nodes[id].parent
    BY <2>1 DEF cur
  <2> QED
    BY <1>7, <1>8, <2>2, <2>3, <2>4 DEF Deleted
<1> QED
  BY <1>1, <1>10

\* Node id has the children l and r, new is the largest below l, R the nodes in which it is
\* the child of id's parent, and A those in which it is also the parent of r.
Linked(nodes, D, id, l, r, new, R, A) ==
  /\ l \in Value \ {0} /\ r \in Value /\ new \in Value \ {0}
  /\ id \in Value /\ id \in D[id] /\ D[id] \subseteq Value \ {0} /\ D[0] = {}
  /\ SearchTree(nodes, D, l) /\ SearchTree(nodes, D, r)
  /\ D[id] = {id} \cup D[l] \cup D[r]
  /\ D[l] \cap D[r] = {} /\ id \notin D[l] /\ id \notin D[r]
  /\ l \in D[l] /\ nodes[l].parent = id
  /\ r # 0 => r \in D[r] /\ nodes[r].parent = id
  /\ new \in D[l] /\ nodes[new].right = 0 /\ \A w \in D[l] : w <= new
  /\ new < id /\ \A w \in D[r] : w > new
  /\ R \in Nodes /\ A \in Nodes
  /\ nodes[id].value = id /\ nodes[id] \in NodeType /\ nodes[id].parent \in Value
  /\ \A v \in D[id] : R[v] = nodes[v]
  /\ \A v \in Value : v # r \/ v = 0 => A[v] = R[v]
  /\ \A v \in Value : /\ A[v].value = R[v].value
                      /\ A[v].left = R[v].left
                      /\ A[v].right = R[v].right
  /\ r # 0 => A[r].parent = new

\* What the two deletions of a node with a left child have in common.
LEMMA DeleteLinked ==
  ASSUME NEW nodes \in Nodes, NEW D \in Belows,
         NEW id \in Value \ {0}, SearchTree(nodes, D, id),
         nodes[id].parent \notin D[id], nodes[id].left # 0
  PROVE  LET l   == nodes[id].left
             r   == nodes[id].right
             new == Rightmost(nodes, l)
             R   == Replace(nodes, nodes[id], new)
         IN  Linked(nodes, D, id, l, r, new, R, Adopt(R, r, new))
<1> DEFINE cur == nodes[id]
           l   == cur.left
           r   == cur.right
           new == Rightmost(nodes, l)
           R   == Replace(nodes, cur, new)
           A   == Adopt(R, r, new)
<1>1. cur \in NodeType /\ l \in Value \ {0} /\ r \in Value /\ cur.parent \in Value
  BY DEF Nodes, NodeType
<1>2. /\ id \in D[id] /\ D[id] \subseteq Value \ {0} /\ D[0] = {} /\ id \in Value
      /\ cur.value = id
      /\ D[id] = {id} \cup D[l] \cup D[r]
      /\ \A w \in D[l] : w < id
      /\ \A w \in D[r] : w > id
  BY DEF SearchTree
<1>3. /\ SearchTree(nodes, D, l) /\ SearchTree(nodes, D, r)
      /\ \A c \in Children(nodes[id]) : c \in D[c] /\ nodes[c].parent = id
      /\ D[l] \cap D[r] = {}
  BY <1>2, SubtreeOf
<1>4. /\ l \in D[l] /\ nodes[l].parent = id
      /\ r # 0 => r \in D[r] /\ nodes[r].parent = id
  BY <1>1, <1>3 DEF Children
<1>5. id \in Nat /\ \A v \in D[id] : v \in Nat
  BY <1>2, ValueFacts
<1>6. id \notin D[l] /\ id \notin D[r]
  BY <1>2, <1>5
<1> HIDE DEF cur, l, r
<1>7. new \in D[l] /\ nodes[new].right = 0 /\ \A w \in D[l] : w <= new
  BY <1>1, <1>3, RightmostIsLargest
<1>8. new \in Value \ {0} /\ new < id
  BY <1>2, <1>7
<1> HIDE DEF new
<1>9. \A w \in D[r] : w > new
  <2> SUFFICES ASSUME NEW w \in D[r] PROVE w > new
    OBVIOUS
  <2>1. w \in Nat /\ new \in Nat /\ w > id /\ new < id
    BY <1>2, <1>5, <1>7, <1>8
  <2> QED
    BY <2>1, <1>5
<1>10. R \in Nodes /\ \A v \in D[id] : R[v] = nodes[v]
  <2>1. cur.parent \notin D[id]
    BY DEF cur
  <2>2. Replaced(R, nodes, cur, new)
    BY <1>1, <1>8, ReplaceAt
  <2> HIDE DEF R
  <2> QED
    BY <1>2, <2>1, <2>2 DEF Replaced
<1> HIDE DEF R
<1>11. /\ A \in Nodes
       /\ \A v \in Value : v # r \/ v = 0 => A[v] = R[v]
       /\ \A v \in Value : /\ A[v].value = R[v].value
                           /\ A[v].left = R[v].left
                           /\ A[v].right = R[v].right
       /\ r # 0 => A[r].parent = new
  <2>1. Adopted(A, R, r, new)
    BY <1>1, <1>8, <1>10, AdoptAt
  <2> HIDE DEF A
  <2> QED
    BY <2>1 DEF Adopted
<1> QED
  BY <1>1, <1>2, <1>3, <1>4, <1>6, <1>7, <1>8, <1>9, <1>10, <1>11
     DEF cur, l, r, new, R, Linked

\* In the nodes n, one field of node x is set to y.
ParentSet(n, nodes, x, y) ==
  /\ n \in Nodes /\ \A v \in Value \ {x} : n[v] = nodes[v]
  /\ n[x].parent = y /\ n[x].value = nodes[x].value
  /\ n[x].left = nodes[x].left /\ n[x].right = nodes[x].right

RightSet(n, nodes, x, y) ==
  /\ n \in Nodes /\ \A v \in Value \ {x} : n[v] = nodes[v]
  /\ n[x].parent = nodes[x].parent /\ n[x].value = nodes[x].value
  /\ n[x].left = nodes[x].left /\ n[x].right = y

\* One field of one node is set.
LEMMA SetField ==
  ASSUME NEW nodes \in Nodes, NEW x \in Value, NEW y \in Value
  PROVE  /\ ParentSet([nodes EXCEPT ![x].parent = y], nodes, x, y)
         /\ RightSet([nodes EXCEPT ![x].right = y], nodes, x, y)
<1>1. nodes[x] \in NodeType
  BY DEF Nodes
<1>2. /\ [nodes[x] EXCEPT !.parent = y] \in NodeType
      /\ [nodes[x] EXCEPT !.right = y] \in NodeType
  BY <1>1 DEF NodeType
<1>3. /\ [nodes EXCEPT ![x].parent = y] \in Nodes
      /\ [nodes EXCEPT ![x].right = y] \in Nodes
  BY <1>2 DEF Nodes
<1>4. LET n == [nodes EXCEPT ![x].parent = y]
      IN  /\ \A v \in Value \ {x} : n[v] = nodes[v]
          /\ n[x].parent = y /\ n[x].value = nodes[x].value
          /\ n[x].left = nodes[x].left /\ n[x].right = nodes[x].right
  BY DEF Nodes, NodeType
<1>5. LET n == [nodes EXCEPT ![x].right = y]
      IN  /\ \A v \in Value \ {x} : n[v] = nodes[v]
          /\ n[x].parent = nodes[x].parent /\ n[x].value = nodes[x].value
          /\ n[x].left = nodes[x].left /\ n[x].right = y
  BY DEF Nodes, NodeType
<1>6. ParentSet([nodes EXCEPT ![x].parent = y], nodes, x, y)
  BY <1>3, <1>4 DEF ParentSet
<1>7. RightSet([nodes EXCEPT ![x].right = y], nodes, x, y)
  BY <1>3, <1>5 DEF RightSet
<1> QED
  BY <1>6, <1>7

\* A node whose left child has nothing on its right: the left child takes its place.
LEMMA DeleteAdjacent ==
  ASSUME NEW f \in Removals, NEW nodes \in Nodes, NEW D \in Belows,
         NEW id \in Value \ {0}, SearchTree(nodes, D, id),
         nodes[id].parent \notin D[id], nodes[id].left # 0,
         Rightmost(nodes, nodes[id].left) = nodes[id].left
  PROVE  LET d == DeleteBy(f, nodes, id)
         IN  \E D2 \in Belows : Deleted(nodes, D, id, d.new, d.nodes, D2)
<1> DEFINE cur == nodes[id]
           l   == cur.left
           r   == cur.right
           R   == Replace(nodes, cur, l)
           A   == Adopt(R, r, l)
           n1  == [A EXCEPT ![l].parent = cur.parent, ![l].right = r]
           n2  == [n1 EXCEPT ![id] = NoNode]
           D2  == [D EXCEPT ![l] = D[id] \ {id}]
<1>1. DeleteBy(f, nodes, id) = [nodes |-> n2, new |-> l]
  BY DEF DeleteBy
<1>2. Linked(nodes, D, id, l, r, l, R, A)
  <2>1. Linked(nodes, D, id, nodes[id].left, nodes[id].right,
               Rightmost(nodes, nodes[id].left),
               Replace(nodes, nodes[id], Rightmost(nodes, nodes[id].left)),
               Adopt(Replace(nodes, nodes[id], Rightmost(nodes, nodes[id].left)),
                     nodes[id].right, Rightmost(nodes, nodes[id].left)))
    BY DeleteLinked, Zenon
  <2> QED
    BY <2>1
<1> HIDE DEF cur, R, A, l, r
<1>3. DeleteBy(f, nodes, id).nodes = n2 /\ DeleteBy(f, nodes, id).new = l
  <2> HIDE DEF n2
  <2> QED
    BY <1>1
<1>4. /\ l \in Value \ {0} /\ r \in Value /\ id \in Value
      /\ id \in D[id] /\ D[id] \subseteq Value \ {0} /\ D[0] = {}
      /\ SearchTree(nodes, D, l) /\ SearchTree(nodes, D, r)
      /\ D[id] = {id} \cup D[l] \cup D[r]
      /\ D[l] \cap D[r] = {} /\ id \notin D[l] /\ id \notin D[r]
      /\ l \in D[l] /\ (r # 0 => r \in D[r])
      /\ nodes[l].right = 0 /\ l < id /\ \A w \in D[r] : w > l
      /\ R \in Nodes /\ A \in Nodes
      /\ \A v \in D[id] : R[v] = nodes[v]
      /\ \A v \in Value : v # r \/ v = 0 => A[v] = R[v]
      /\ \A v \in Value : /\ A[v].value = R[v].value
                          /\ A[v].left = R[v].left
                          /\ A[v].right = R[v].right
      /\ r # 0 => A[r].parent = l
  BY <1>2 DEF Linked
<1>5. cur.parent \in Value
  BY <1>2 DEF Linked, cur
<1>6. /\ n1 \in Nodes /\ \A v \in Value \ {l} : n1[v] = A[v]
      /\ n1[l].parent = cur.parent /\ n1[l].right = r
      /\ n1[l].value = A[l].value /\ n1[l].left = A[l].left
  <2> DEFINE half == [A EXCEPT ![l].parent = cur.parent]
  <2>1. /\ half \in Nodes /\ \A v \in Value \ {l} : half[v] = A[v]
        /\ half[l].parent = cur.parent
        /\ half[l].value = A[l].value /\ half[l].left = A[l].left
    <3>1. A \in Nodes /\ l \in Value /\ cur.parent \in Value
      BY <1>4, <1>5
    <3>2. ParentSet(half, A, l, cur.parent)
      BY <3>1, SetField, Zenon
    <3> HIDE DEF half
    <3> QED
      BY <3>2 DEF ParentSet
  <2>2. n1 = [half EXCEPT ![l].right = r]
    OBVIOUS
  <2> HIDE DEF half, n1
  <2>3. /\ n1 \in Nodes /\ \A v \in Value \ {l} : n1[v] = half[v]
        /\ n1[l].parent = half[l].parent /\ n1[l].right = r
        /\ n1[l].value = half[l].value /\ n1[l].left = half[l].left
    <3>1. half \in Nodes /\ l \in Value /\ r \in Value
      BY <1>4, <2>1
    <3>2. RightSet([half EXCEPT ![l].right = r], half, l, r)
      BY <3>1, SetField, Zenon
    <3>3. RightSet(n1, half, l, r)
      BY <2>2, <3>2, Zenon
    <3> QED
      BY <3>3 DEF RightSet
  <2> QED
    BY <2>1, <2>3
<1> HIDE DEF n1
<1>7. n2 \in Nodes /\ n2[id] = NoNode /\ \A v \in Value \ {id} : n2[v] = n1[v]
  <2>1. NoNode \in NodeType
    BY ValueFacts DEF NoNode, Node, NodeType
  <2> QED
    BY <1>4, <1>6, <2>1 DEF Nodes
<1> HIDE DEF n2
<1>8. l # id /\ (r # 0 => r # id /\ r # l)
  BY <1>4
<1>9. /\ nodes[l].value = l
      /\ D[l] = {l} \cup D[nodes[l].left]
      /\ \A w \in D[nodes[l].left] : w < l
      /\ SearchTree(nodes, D, nodes[l].left) /\ nodes[l].left \in Value
      /\ nodes[l].left # 0 => /\ nodes[l].left \in D[nodes[l].left]
                              /\ nodes[nodes[l].left].parent = l
      /\ l \notin D[nodes[l].left]
  <2>1. l \in D[l] /\ l \in Value /\ SearchTree(nodes, D, l)
    BY <1>4
  <2>2. /\ nodes[l].value = l
        /\ D[l] = {l} \cup D[nodes[l].left] \cup D[0]
        /\ \A w \in D[nodes[l].left] : w < l
    BY <1>4, <2>1 DEF SearchTree
  <2>3. SearchTree(nodes, D, nodes[l].left)
    BY <2>1, SubtreeOf
  <2>4. nodes[l].left # 0 => nodes[l].left \in Children(nodes[l])
    BY DEF Children
  <2>5. nodes[l].left # 0 => /\ nodes[l].left \in D[nodes[l].left]
                             /\ nodes[nodes[l].left].parent = l
                             /\ D[nodes[l].left] \subseteq D[l] \ {l}
    BY <2>1, <2>4, SubtreeOf
  <2>6. nodes[l].left \in Value
    BY <2>1 DEF Nodes, NodeType
  <2>7. l \notin D[nodes[l].left]
    BY <1>4, <2>5
  <2> QED
    BY <1>4, <2>2, <2>3, <2>5, <2>6, <2>7
<1>10. /\ n2[l].value = l /\ n2[l].left = nodes[l].left /\ n2[l].right = r
       /\ n2[l].parent = cur.parent
  <2>1. n2[l] = n1[l] /\ R[l] = nodes[l] /\ l \in Value
    BY <1>4, <1>7, <1>8
  <2>2. A[l].value = nodes[l].value /\ A[l].left = nodes[l].left
    BY <1>4, <2>1
  <2> QED
    BY <1>6, <1>9, <2>1, <2>2
<1>11. /\ SearchTree(n2, D, n2[l].left) /\ SearchTree(n2, D, n2[l].right)
       /\ \A c \in Children(n2[l]) : n2[c].parent = l
  <2>1. ASSUME NEW v \in D[nodes[l].left] PROVE n2[v] = nodes[v] /\ v # l
    <3>1. v \in Value /\ v # l /\ v # id /\ v # r /\ v \in D[id]
      BY <1>4, <1>9
    <3>2. n2[v] = n1[v] /\ n1[v] = A[v] /\ A[v] = R[v] /\ R[v] = nodes[v]
      BY <1>4, <1>6, <1>7, <3>1
    <3> QED
      BY <3>1, <3>2
  <2>2. SearchTree(n2, D, nodes[l].left)
    BY <1>7, <1>9, <2>1, SameSubtree
  <2>3. ASSUME NEW v \in D[r]
        PROVE  /\ n2[v].value = nodes[v].value
               /\ n2[v].left = nodes[v].left
               /\ n2[v].right = nodes[v].right
               /\ v # r => n2[v].parent = nodes[v].parent
    <3>1. v \in Value /\ v # l /\ v # id /\ v \in D[id]
      BY <1>4
    <3>2. n2[v] = A[v] /\ R[v] = nodes[v]
      BY <1>4, <1>6, <1>7, <3>1
    <3> QED
      BY <1>4, <3>1, <3>2
  <2>4. SearchTree(n2, D, r)
    BY <1>4, <1>7, <2>3, SameSubtree
  <2>5. r # 0 => n2[r].parent = l
    BY <1>4, <1>6, <1>7, <1>8
  <2>6. nodes[l].left # 0 => n2[nodes[l].left].parent = l
    BY <1>9, <2>1
  <2> QED
    BY <1>10, <2>2, <2>4, <2>5, <2>6 DEF Children
<1>12. /\ D2 \in Belows /\ D2[l] = {l} \cup D[n2[l].left] \cup D[n2[l].right]
       /\ \A v \in Value \ {l} : D2[v] = D[v]
       /\ D2[l] = D[id] \ {id}
  <2>1. D2[l] = D[id] \ {id} /\ \A v \in Value \ {l} : D2[v] = D[v]
    BY <1>4 DEF Belows
  <2>2. D[id] \ {id} = {l} \cup D[nodes[l].left] \cup D[r]
    BY <1>4, <1>9
  <2>3. D[id] \ {id} \in SUBSET Value
    BY <1>4
  <2>4. D2 \in Belows
    BY <2>3 DEF Belows
  <2> QED
    BY <1>10, <2>1, <2>2, <2>4
<1> HIDE DEF D2
<1>13. SearchTree(n2, D2, l)
  <2>1. /\ \A w \in D[n2[l].left] : w < l
        /\ \A w \in D[n2[l].right] : w > l
    BY <1>4, <1>9, <1>10
  <2> QED
    BY <1>4, <1>7, <1>10, <1>11, <1>12, <2>1, JoinTrees
<1>14. ASSUME NEW v \in Value \ D[id]
       PROVE  n2[v] = Replace(nodes, nodes[id], l)[v] /\ D2[v] = D[v]
  <2>1. v # id /\ v # l /\ (v # r \/ v = 0) /\ v \in Value
    BY <1>4
  <2>2. n2[v] = n1[v] /\ n1[v] = A[v] /\ A[v] = R[v]
    BY <1>4, <1>6, <1>7, <2>1
  <2> QED
    BY <1>12, <2>1, <2>2 DEF R, cur
<1>15. Deleted(nodes, D, id, l, n2, D2)
  BY <1>7, <1>10, <1>12, <1>13, <1>14 DEF Deleted, cur
<1> QED
  BY <1>3, <1>12, <1>15

\* A node with a left child that has something on its right: the largest value below the
\* left child is deleted from there and takes its place.
LEMMA DeleteNested ==
  ASSUME NEW f \in Removals, NEW limit \in Nat, Removes(f, limit),
         NEW nodes \in Nodes, NEW D \in Belows,
         NEW id \in Value \ {0}, id <= limit + 1, SearchTree(nodes, D, id),
         nodes[id].parent \notin D[id], nodes[id].left # 0,
         Rightmost(nodes, nodes[id].left) # nodes[id].left
  PROVE  LET d == DeleteBy(f, nodes, id)
         IN  \E D2 \in Belows : Deleted(nodes, D, id, d.new, d.nodes, D2)
<1> DEFINE cur == nodes[id]
           l   == cur.left
           r   == cur.right
           m   == Rightmost(nodes, l)
           R   == Replace(nodes, cur, m)
           A   == Adopt(R, r, m)
           moved == [A EXCEPT ![l].parent = m]
           rest0 == IF Search(moved, m, l) = m THEN f[moved][m].nodes ELSE moved
           top   == [cur EXCEPT !.value = m]
           n0    == [[rest0 EXCEPT ![m] = top] EXCEPT ![id] = NoNode]
<1>1. DeleteBy(f, nodes, id) = [nodes |-> n0, new |-> m]
  BY DEF DeleteBy
<1>2. Linked(nodes, D, id, l, r, m, R, A)
  BY DeleteLinked, Zenon
<1>3. m # l
  OBVIOUS
<1>4. /\ top \in NodeType /\ top.value = m /\ top.left = l /\ top.right = r
      /\ top.parent = nodes[id].parent
  <2>1. cur \in NodeType /\ m \in Value
    BY <1>2 DEF Linked
  <2> HIDE DEF m, cur
  <2>2. /\ top \in NodeType /\ top.value = m /\ top.left = cur.left
        /\ top.right = cur.right /\ top.parent = cur.parent
    BY <2>1 DEF NodeType
  <2> QED
    BY <2>2 DEF cur
<1> HIDE DEF cur, R, A, l, r, m, top
<1>5. /\ l \in Value \ {0} /\ r \in Value /\ id \in Value /\ m \in Value \ {0}
      /\ id \in D[id] /\ D[id] \subseteq Value \ {0} /\ D[0] = {}
      /\ SearchTree(nodes, D, l) /\ SearchTree(nodes, D, r)
      /\ D[id] = {id} \cup D[l] \cup D[r]
      /\ D[l] \cap D[r] = {} /\ id \notin D[l] /\ id \notin D[r]
      /\ l \in D[l] /\ (r # 0 => r \in D[r])
      /\ m \in D[l] /\ \A w \in D[l] : w <= m
      /\ m < id /\ \A w \in D[r] : w > m
      /\ R \in Nodes /\ A \in Nodes
      /\ \A v \in D[id] : R[v] = nodes[v]
      /\ \A v \in Value : v # r \/ v = 0 => A[v] = R[v]
      /\ \A v \in Value : /\ A[v].value = R[v].value
                          /\ A[v].left = R[v].left
                          /\ A[v].right = R[v].right
      /\ r # 0 => A[r].parent = m
  BY <1>2 DEF Linked
<1>6. l # id /\ m # id /\ (r # 0 => r # id /\ r # l /\ r # m)
  BY <1>5
<1>7. /\ moved \in Nodes /\ \A v \in Value \ {l} : moved[v] = A[v]
      /\ moved[l].parent = m
      /\ moved[l].value = A[l].value /\ moved[l].left = A[l].left
      /\ moved[l].right = A[l].right
  <2>1. A \in Nodes /\ l \in Value /\ m \in Value
    BY <1>5
  <2>2. ParentSet(moved, A, l, m)
    BY <2>1, SetField, Zenon
  <2> HIDE DEF moved
  <2> QED
    BY <2>2 DEF ParentSet
<1> HIDE DEF moved
<1>8. SearchTree(moved, D, l)
  <2>1. ASSUME NEW v \in D[l]
        PROVE  /\ moved[v].value = nodes[v].value
               /\ moved[v].left = nodes[v].left
               /\ moved[v].right = nodes[v].right
               /\ v # l => moved[v].parent = nodes[v].parent
    <3>1. v \in Value /\ v # r /\ v \in D[id]
      BY <1>5
    <3>2. A[v] = R[v] /\ R[v] = nodes[v]
      BY <1>5, <3>1
    <3> QED
      BY <1>7, <3>1, <3>2
  <2> QED
    BY <1>5, <1>7, <2>1, SameSubtree
<1>9. Search(moved, m, l) = m
  BY <1>5, <1>7, <1>8, SearchFinds
<1> DEFINE d == f[moved][m]
<1>10. rest0 = d.nodes /\ d.nodes \in Nodes /\ d.new \in Value
  BY <1>5, <1>7, <1>9 DEF Removals
<1> HIDE DEF d, rest0
<1>11. \E D2 \in Belows : Deleted(moved, D, m, d.new, d.nodes, D2)
  <2>1. SearchTree(moved, D, m)
    BY <1>5, <1>7, <1>8, SubtreeOf
  <2>2. m <= limit
    <3>1. m \in Nat /\ id \in Nat
      BY <1>5, ValueFacts
    <3> QED
      BY <1>5, <3>1
  <2>3. moved[m].parent \notin D[m]
    <3> DEFINE q == moved[m].parent
    <3>1. q \in D[l] /\ m \in Children(moved[q])
      BY <1>3, <1>5, <1>8 DEF SearchTree
    <3>2. m \in D[q] \ {q}
      BY <1>5, <1>7, <1>8, <3>1, SubtreeOf
    <3> HIDE DEF q
    <3> QED
      BY <1>5, <1>7, <1>8, <3>1, <3>2, NotBelowEachOther DEF q
  <2> QED
    BY <1>5, <1>7, <2>1, <2>2, <2>3 DEF Removes, d
<1> DEFINE rest == d.nodes
<1>12. PICK E \in Belows :
         /\ SearchTree(rest, E, l)
         /\ E[l] = D[l] \ {m}
         /\ rest[l].parent = moved[l].parent
         /\ \A v \in Value \ D[l] : rest[v] = moved[v] /\ E[v] = D[v]
  <2> HIDE DEF rest
  <2>1. PICK D2 \in Belows : Deleted(moved, D, m, d.new, rest, D2)
    BY <1>11 DEF rest
  <2>2. rest \in Nodes /\ d.new \in Value /\ l \in Value /\ m \in D[l] /\ m # l
    BY <1>3, <1>5, <1>10 DEF rest
  <2> QED
    BY <1>7, <1>8, <2>1, <2>2, DeleteBelow
<1> DEFINE n2 == [[rest EXCEPT ![m] = top] EXCEPT ![id] = NoNode]
           D3 == [E EXCEPT ![m] = D[id] \ {id}]
<1>13. DeleteBy(f, nodes, id).nodes = n2 /\ DeleteBy(f, nodes, id).new = m
  <2>1. n0 = n2
    BY <1>10
  <2> HIDE DEF n0, n2
  <2> QED
    BY <1>1, <2>1
<1>14. rest \in Nodes
  BY <1>10
<1> HIDE DEF rest, n0
<1>15. /\ n2 \in Nodes /\ n2[id] = NoNode /\ n2[m] = top
       /\ \A v \in Value \ {id, m} : n2[v] = rest[v]
  <2>1. NoNode \in NodeType
    BY ValueFacts DEF NoNode, Node, NodeType
  <2>2. n2[id] = NoNode /\ n2[m] = top /\ \A v \in Value \ {id, m} : n2[v] = rest[v]
    BY <1>5, <1>6, <1>14 DEF Nodes
  <2>3. n2 \in Nodes
    BY <1>4, <1>5, <1>14, <2>1 DEF Nodes
  <2> QED
    BY <2>2, <2>3
<1> HIDE DEF n2
<1>16. /\ SearchTree(n2, E, n2[m].left) /\ SearchTree(n2, E, n2[m].right)
       /\ E[n2[m].left] = D[l] \ {m} /\ E[n2[m].right] = D[r]
       /\ \A c \in Children(n2[m]) : n2[c].parent = m
  <2>1. ASSUME NEW v \in E[l] PROVE n2[v] = rest[v]
    <3>1. v \in Value \ {id, m}
      BY <1>5, <1>12
    <3> QED
      BY <1>15, <3>1
  <2>2. SearchTree(n2, E, l)
    BY <1>5, <1>12, <1>14, <1>15, <2>1, SameSubtree
  <2>3. ASSUME NEW v \in D[r]
        PROVE  /\ n2[v].value = nodes[v].value
               /\ n2[v].left = nodes[v].left
               /\ n2[v].right = nodes[v].right
               /\ v # r => n2[v].parent = nodes[v].parent
    <3>1. v \in Value \ {id, m} /\ v \notin D[l] /\ v # l /\ v \in D[id]
      BY <1>5
    <3>2. n2[v] = rest[v] /\ rest[v] = moved[v] /\ moved[v] = A[v] /\ R[v] = nodes[v]
      BY <1>5, <1>7, <1>12, <1>15, <3>1
    <3>3. n2[v] = A[v]
      BY <3>2
    <3> QED
      BY <1>5, <3>1, <3>2, <3>3
  <2>4. \A v \in D[r] \cup {0} : E[v] = D[v]
    <3> SUFFICES ASSUME NEW v \in D[r] \cup {0} PROVE v \in Value \ D[l]
      BY <1>12
    <3> QED
      BY <1>5, ValueFacts
  <2>5. SearchTree(n2, E, r) /\ E[r] = D[r]
    BY <1>5, <1>15, <2>3, <2>4, SameSubtree
  <2>6. n2[l].parent = m
    <3>1. l \in Value \ {id, m}
      BY <1>3, <1>5, <1>6
    <3> QED
      BY <1>7, <1>12, <1>15, <3>1
  <2>7. r # 0 => n2[r].parent = m
    <3> SUFFICES ASSUME r # 0 PROVE n2[r].parent = m
      OBVIOUS
    <3>1. r \in Value \ {id, m} /\ r \notin D[l] /\ r # l
      BY <1>5, <1>6
    <3>2. n2[r] = rest[r] /\ rest[r] = moved[r] /\ moved[r] = A[r]
      BY <1>7, <1>12, <1>15, <3>1
    <3> QED
      BY <1>5, <3>2
  <2>8. n2[m].left = l /\ n2[m].right = r
    BY <1>4, <1>15
  <2> QED
    BY <1>12, <2>2, <2>5, <2>6, <2>7, <2>8 DEF Children
<1>17. /\ D3 \in Belows /\ D3[m] = {m} \cup E[n2[m].left] \cup E[n2[m].right]
       /\ \A v \in Value \ {m} : D3[v] = E[v]
       /\ D3[m] = D[id] \ {id}
  <2>1. D3[m] = D[id] \ {id} /\ \A v \in Value \ {m} : D3[v] = E[v]
    BY <1>5 DEF Belows
  <2>2. D[id] \ {id} = {m} \cup (D[l] \ {m}) \cup D[r]
    BY <1>5
  <2>3. D[id] \ {id} \in SUBSET Value
    BY <1>5
  <2>4. D3 \in Belows
    BY <2>3 DEF Belows
  <2> QED
    BY <1>16, <2>1, <2>2, <2>4
<1> HIDE DEF D3
<1>18. SearchTree(n2, D3, m)
  <2>1. /\ \A w \in E[n2[m].left] : w < m
        /\ \A w \in E[n2[m].right] : w > m
    <3>1. \A w \in D[l] \ {m} : w < m
      <4> SUFFICES ASSUME NEW w \in D[l] \ {m} PROVE w < m
        OBVIOUS
      <4>1. w \in Nat /\ m \in Nat /\ w <= m /\ w # m
        BY <1>5, ValueFacts
      <4> QED
        BY <4>1
    <3> QED
      BY <1>5, <1>16, <3>1
  <2>2. n2[m].value = m
    BY <1>4, <1>15
  <2> QED
    BY <1>5, <1>15, <1>16, <1>17, <2>1, <2>2, JoinTrees
<1>19. ASSUME NEW v \in Value \ D[id]
       PROVE  n2[v] = Replace(nodes, nodes[id], m)[v] /\ D3[v] = D[v]
  <2>1. v \in Value \ {id, m} /\ v # l /\ (v # r \/ v = 0) /\ v \notin D[l]
    BY <1>5
  <2>2. n2[v] = rest[v] /\ rest[v] = moved[v] /\ moved[v] = A[v] /\ A[v] = R[v]
    BY <1>5, <1>7, <1>12, <1>15, <2>1
  <2> QED
    BY <1>12, <1>17, <2>1, <2>2 DEF R, cur
<1>20. Deleted(nodes, D, id, m, n2, D3)
  <2>1. n2[m].parent = nodes[id].parent
    BY <1>4, <1>15
  <2> QED
    BY <1>15, <1>17, <1>18, <1>19, <2>1 DEF Deleted
<1> QED
  BY <1>13, <1>17, <1>20

(***************************************************************************)
(* deleteLeaf (BinarySearchTree.sol:146), called for a node of a search    *)
(* tree whose parent lies above it, takes it and nothing else out of the   *)
(* tree, however deep the calls nest in which it deletes the nodes it      *)
(* promotes, and returns the node that takes its place.                    *)
(***************************************************************************)
LEMMA DeleteLeafCorrect ==
  ASSUME NEW nodes \in Nodes, NEW D \in Belows, NEW id \in Value \ {0},
         SearchTree(nodes, D, id), nodes[id].parent \notin D[id]
  PROVE  /\ DeleteLeaf(nodes, id) \in [nodes : Nodes, new : Value]
         /\ \E D2 \in Belows : Deleted(nodes, D, id, DeleteLeaf(nodes, id).new,
                                       DeleteLeaf(nodes, id).nodes, D2)
<1> DEFINE S == {n \in Nat : Removes(DeleteWithin[n], n)}
<1>1. 0 \in S
  <2>1. \A i \in Value \ {0} : ~ (i <= 0)
    BY ValueFacts
  <2> QED
    BY <2>1 DEF Removes
<1>2. \A n \in Nat : n \in S => n + 1 \in S
  <2> SUFFICES ASSUME NEW n \in Nat, Removes(DeleteWithin[n], n)
               PROVE  Removes(DeleteWithin[n + 1], n + 1)
    OBVIOUS
  <2>1. DeleteWithin[n] \in Removals
    BY DeleteSteps
  <2> SUFFICES ASSUME NEW ns \in Nodes, NEW C \in Belows, NEW i \in Value \ {0},
                      i <= n + 1, SearchTree(ns, C, i), ns[i].parent \notin C[i]
               PROVE  LET d == DeleteWithin[n + 1][ns][i]
                      IN  \E D2 \in Belows : Deleted(ns, C, i, d.new, d.nodes, D2)
    BY DEF Removes
  <2>2. DeleteWithin[n + 1][ns][i] = DeleteBy(DeleteWithin[n], ns, i)
    BY DeleteSteps
  <2> DEFINE d == DeleteBy(DeleteWithin[n], ns, i)
  <2>3. \E D2 \in Belows : Deleted(ns, C, i, d.new, d.nodes, D2)
    <3>1. CASE ns[i].left = 0
      BY <2>1, <3>1, DeleteNoLeft, Zenon
    <3>2. CASE ns[i].left # 0 /\ Rightmost(ns, ns[i].left) = ns[i].left
      BY <2>1, <3>2, DeleteAdjacent, Zenon
    <3>3. CASE ns[i].left # 0 /\ Rightmost(ns, ns[i].left) # ns[i].left
      BY <2>1, <3>3, DeleteNested, Zenon
    <3> QED
      BY <3>1, <3>2, <3>3
  <2> HIDE DEF d
  <2> QED
    BY <2>2, <2>3 DEF d
<1>3. Nat \subseteq S
  <2> HIDE DEF S
  <2> QED
    BY <1>1, <1>2, NatSetInduction, Zenon
<1>4. id \in Nat /\ id \in Value /\ id <= id
  BY ValueFacts
<1>5. Removes(DeleteWithin[id], id) /\ DeleteWithin[id] \in Removals
  BY <1>3, <1>4, DeleteSteps
<1>6. DeleteLeaf(nodes, id) = DeleteWithin[id][nodes][id]
  BY DEF DeleteLeaf
<1>7. DeleteWithin[id][nodes][id] \in [nodes : Nodes, new : Value]
  BY <1>4, <1>5 DEF Removals
<1>8. \E D2 \in Belows : Deleted(nodes, D, id, DeleteWithin[id][nodes][id].new,
                                 DeleteWithin[id][nodes][id].nodes, D2)
  BY <1>4, <1>5, Zenon DEF Removes
<1> QED
  BY <1>6, <1>7, <1>8
-----------------------------------------------------------------------------
\* The nodes that are there are those of a search tree from the root.
TreeOK(nodes, D, root) ==
  /\ SearchTree(nodes, D, root)
  /\ nodes[root].parent = 0
  /\ \A v \in Value \ D[root] : nodes[v] = NoNode

\* What hangs below a node that is deleted from a tree is a tree, without the node.
DeletedFrom(nodes, D, root, id, n2, new, r2, E) ==
  /\ TreeOK(n2, E, r2)
  /\ E[r2] = D[root] \ {id}
  /\ E[new] = D[id] \ {id}
  /\ new # 0 => new \in D[id] \ {id}
  /\ id # root => r2 = root
  /\ id = root => r2 = new

\* A deletion from a whole tree.
LEMMA DeleteFromTree ==
  ASSUME NEW nodes \in Nodes, NEW D \in Belows, NEW root \in Value,
         TreeOK(nodes, D, root), NEW id \in D[root]
  PROVE  LET d  == DeleteLeaf(nodes, id)
             r2 == IF id = root THEN d.new ELSE root
         IN  /\ d \in [nodes : Nodes, new : Value]
             /\ d.nodes \in Nodes /\ d.new \in Value /\ r2 \in Value
             /\ \E E \in Belows : DeletedFrom(nodes, D, root, id, d.nodes, d.new, r2, E)
<1> DEFINE d  == DeleteLeaf(nodes, id)
           r2 == IF id = root THEN d.new ELSE root
           n2 == d.nodes
           new == d.new
<1>1. /\ SearchTree(nodes, D, root) /\ nodes[root].parent = 0
      /\ \A v \in Value \ D[root] : nodes[v] = NoNode
  BY DEF TreeOK
<1>2. /\ D[root] \subseteq Value \ {0} /\ root \in D[root] /\ root # 0
      /\ id \in Value \ {0} /\ SearchTree(nodes, D, id) /\ D[0] = {}
      /\ D[id] \subseteq D[root]
  <2>1. D[root] \subseteq Value \ {0} /\ root # 0 /\ D[0] = {}
    BY <1>1 DEF SearchTree
  <2> QED
    BY <1>1, <2>1, SubtreeOf DEF SearchTree
<1>3. nodes[id].parent \notin D[id]
  <2>1. CASE id = root
    BY <1>1, <1>2, <2>1
  <2>2. CASE id # root
    <3>1. /\ nodes[id].parent \in D[root] /\ id \in Children(nodes[nodes[id].parent])
      BY <1>1, <1>2, <2>2 DEF SearchTree
    <3>2. id \in D[nodes[id].parent] \ {nodes[id].parent}
      BY <1>1, <3>1, SubtreeOf
    <3> QED
      BY <1>1, <3>1, <3>2, NotBelowEachOther
  <2> QED
    BY <2>1, <2>2
<1>4. /\ d \in [nodes : Nodes, new : Value]
      /\ \E D2 \in Belows : Deleted(nodes, D, id, new, n2, D2)
  BY <1>2, <1>3, DeleteLeafCorrect
<1>5. n2 \in Nodes /\ new \in Value
  BY <1>4
<1> HIDE DEF d
<1> HIDE DEF n2, new
<1>6. PICK D2 \in Belows : Deleted(nodes, D, id, new, n2, D2)
  BY <1>4
<1>7. new # 0 => new \in D[id] \ {id}
  BY <1>6 DEF Deleted, SearchTree
<1> DEFINE Result(r) == /\ r \in Value
                        /\ \E E \in Belows : DeletedFrom(nodes, D, root, id, n2, new, r, E)
<1>8. ASSUME id = root PROVE Result(new)
  <2>1. /\ SearchTree(n2, D2, new) /\ D2[new] = D[root] \ {root}
        /\ new # 0 => n2[new].parent = 0
        /\ n2[root] = NoNode
        /\ \A v \in Value \ D[root] : n2[v] = nodes[v]
    <3>1. \A v \in Value : Replace(nodes, nodes[id], new)[v] = nodes[v]
      BY <1>1, <1>8 DEF Replace
    <3> QED
      BY <1>1, <1>6, <1>8, <3>1 DEF Deleted
  <2>2. n2[0] = NoNode
    BY <1>1, <1>2, <2>1, ValueFacts
  <2>3. n2[new].parent = 0
    <3>1. NoNode.parent = 0
      BY DEF NoNode, Node
    <3> QED
      BY <2>1, <2>2, <3>1
  <2>4. \A v \in Value \ D2[new] : n2[v] = NoNode
    BY <1>1, <2>1
  <2>5. TreeOK(n2, D2, new)
    BY <2>1, <2>3, <2>4 DEF TreeOK
  <2>6. DeletedFrom(nodes, D, root, id, n2, new, new, D2)
    BY <1>8, <1>7, <2>1, <2>5 DEF DeletedFrom
  <2> QED
    BY <1>5, <1>8, <2>6
<1>9. ASSUME id # root PROVE Result(root)
  <2>1. PICK E \in Belows :
           /\ SearchTree(n2, E, root)
           /\ E[root] = D[root] \ {id}
           /\ E[new] = D[id] \ {id}
           /\ n2[root].parent = nodes[root].parent
           /\ n2[id] = NoNode
           /\ \A v \in Value \ D[root] : n2[v] = nodes[v] /\ E[v] = D[v]
    BY <1>1, <1>5, <1>6, <1>9, DeleteBelow
  <2>2. \A v \in Value \ E[root] : n2[v] = NoNode
    BY <1>1, <2>1
  <2>3. TreeOK(n2, E, root)
    BY <1>1, <2>1, <2>2 DEF TreeOK
  <2>4. DeletedFrom(nodes, D, root, id, n2, new, root, E)
    BY <1>9, <1>7, <2>1, <2>3 DEF DeletedFrom
  <2> QED
    BY <1>5, <1>9, <2>4
<1>10. Result(IF id = root THEN new ELSE root)
  <2> HIDE DEF Result
  <2> QED
    BY <1>8, <1>9
<1> HIDE DEF Result
<1>11. Result(r2)
  BY <1>10 DEF new
<1>12. /\ d \in [nodes : Nodes, new : Value]
       /\ d.nodes \in Nodes /\ d.new \in Value /\ r2 \in Value
       /\ \E E \in Belows : DeletedFrom(nodes, D, root, id, d.nodes, d.new, r2, E)
  <2>1. /\ r2 \in Value
        /\ \E E \in Belows : DeletedFrom(nodes, D, root, id, d.nodes, d.new, r2, E)
    BY <1>11 DEF Result, n2, new
  <2>2. d.nodes \in Nodes /\ d.new \in Value
    BY <1>5 DEF n2, new
  <2> HIDE DEF r2
  <2> QED
    BY <1>4, <2>1, <2>2
<1> QED
  BY <1>12, Zenon DEF d

-----------------------------------------------------------------------------
\* Where a loop over a tree is: its nodes, and the node it looks at.
Places == [nodes : Nodes, new : Value]

\* deleteLeaf gives nodes and a node.
LEMMA DeleteLeafType ==
  ASSUME NEW nodes \in Nodes, NEW id \in Value
  PROVE  DeleteLeaf(nodes, id) \in Places
<1>1. id \in Nat
  BY ValueFacts
<1>2. DeleteWithin[id] \in Removals
  BY <1>1, DeleteSteps
<1> QED
  BY <1>2 DEF DeleteLeaf, Removals, Places

\* The children of a node in a tree.
LEMMA TreeChildren ==
  ASSUME NEW nodes \in Nodes, NEW D \in Belows, NEW root \in Value,
         TreeOK(nodes, D, root), NEW id \in D[root]
  PROVE  /\ id \in Value \ {0} /\ id \in Nat /\ nodes[id].value = id
         /\ id \in D[id] /\ D[id] \subseteq D[root] /\ D[0] = {}
         /\ D[id] = {id} \cup D[nodes[id].left] \cup D[nodes[id].right]
         /\ \A w \in D[nodes[id].left] : w \in Nat /\ w < id
         /\ \A w \in D[nodes[id].right] : w \in Nat /\ w > id
         /\ \A c \in {nodes[id].left, nodes[id].right} :
              /\ c \in Value
              /\ c = 0 \/ c \in D[id] \ {id}
              /\ D[c] \subseteq D[id] \ {id}
         /\ id # root => root \notin D[id]
<1>1. SearchTree(nodes, D, root)
  BY DEF TreeOK
<1>2. /\ id \in Value \ {0} /\ nodes[id].value = id
      /\ id \in D[id] /\ D[id] \subseteq D[root] /\ D[0] = {}
      /\ D[id] = {id} \cup D[nodes[id].left] \cup D[nodes[id].right]
      /\ \A w \in D[nodes[id].left] : w < id
      /\ \A w \in D[nodes[id].right] : w > id
      /\ root # 0 => root \in D[root]
      /\ D[root] \subseteq Value \ {0}
  BY <1>1 DEF SearchTree
<1>3. id # root => root \notin D[id]
  <2> SUFFICES ASSUME id # root PROVE root \notin D[id]
    OBVIOUS
  <2>1. root \in D[root] /\ id \in D[root] \ {root}
    BY <1>2
  <2> QED
    BY <1>1, <2>1, NotBelowEachOther
<1>4. \A c \in {nodes[id].left, nodes[id].right} : c \in Value
  BY <1>2 DEF Nodes, NodeType
<1>5. \A c \in Children(nodes[id]) : c \in D[id] \ {id} /\ D[c] \subseteq D[id] \ {id}
  <2>1. SearchTree(nodes, D, root) /\ id \in D[root]
    BY <1>1
  <2>2. \A c \in Children(nodes[id]) : c \in D[id] /\ c # id /\ D[c] \subseteq D[id] \ {id}
    BY <2>1, SubtreeOf
  <2> QED
    BY <2>2
<1>6. \A c \in {nodes[id].left, nodes[id].right} :
        /\ c = 0 \/ c \in D[id] \ {id}
        /\ D[c] \subseteq D[id] \ {id}
  BY <1>2, <1>5 DEF Children
<1>7. \A w \in D[id] : w \in Nat
  BY <1>2, ValueFacts
<1>8. id \in Nat
  BY <1>2, <1>7
<1>9. /\ \A w \in D[nodes[id].left] : w \in Nat /\ w < id
      /\ \A w \in D[nodes[id].right] : w \in Nat /\ w > id
  BY <1>2, <1>7
<1> QED
  BY <1>2, <1>3, <1>4, <1>6, <1>8, <1>9

\* There is nothing at 0.
LEMMA NothingAtZero ==
  ASSUME NEW nodes \in Nodes, NEW D \in Belows, NEW root \in Value,
         TreeOK(nodes, D, root)
  PROVE  nodes[0] = NoNode /\ nodes[0].value = 0 /\ D[0] = {} /\ 0 \in Value
<1>1. 0 \in Value \ D[root] /\ D[0] = {}
  BY ValueFacts DEF TreeOK, SearchTree
<1> QED
  BY <1>1 DEF TreeOK, NoNode, Node

\* How many values are below a node of a tree.
LEMMA TreeSizes ==
  ASSUME NEW nodes \in Nodes, NEW D \in Belows, NEW root \in Value,
         TreeOK(nodes, D, root), NEW id \in D[root]
  PROVE  /\ Cardinality(D[id]) \in 1 .. MaxValue
         /\ \A T \in SUBSET (D[id] \ {id}) :
              Cardinality(T) \in 0 .. Cardinality(D[id]) - 1
BY Sizes DEF TreeOK

\* The values that are left of those of D when those that lie between start and end are
\* taken out, as far as the walk to node new has come.
Trimmed(D, root, id, start, end, s, E) ==
  /\ TreeOK(s.nodes, E, root)
  /\ s.new = 0 \/ s.new \in E[root] \ {root}
  /\ E[root] \subseteq D[root]
  /\ \A v \in D[root] \ E[root] : v \in D[id] /\ start <= v /\ v <= end
  /\ \A v \in D[id] \cap E[root] : start <= v /\ v <= end => v \in E[s.new]
  /\ E[s.new] \subseteq D[id]

\* trimTreeHelper deletes what is below a node and between start and end.
LEMMA TrimBelow ==
  ASSUME NEW nodes \in Nodes, NEW D \in Belows, NEW root \in Value,
         TreeOK(nodes, D, root), NEW id \in Value, id = 0 \/ id \in D[root] \ {root},
         NEW start \in Nat, NEW end \in Nat
  PROVE  LET n2 == TrimTreeHelper(nodes, start, end, id)
         IN  /\ n2 \in Nodes
             /\ \E E \in Belows : /\ TreeOK(n2, E, root)
                                  /\ E[root] = D[root] \ (D[id] \cap (start .. end))
<1>1. CASE start > end
  <2>1. TrimTreeHelper(nodes, start, end, id) = nodes
    BY <1>1 DEF TrimTreeHelper
  <2>2. D[root] = D[root] \ (D[id] \cap (start .. end))
    BY <1>1
  <2> QED
    BY <2>1, <2>2
<1>2. CASE ~ (start > end)
  <2> DEFINE step == [s \in [nodes : Nodes, new : Value] |->
                LET cur == s.nodes[s.new]
                IN  IF cur.value = 0 THEN s
                    ELSE IF cur.value < start THEN [s EXCEPT !.new = cur.right]
                    ELSE IF cur.value > end THEN [s EXCEPT !.new = cur.left]
                    ELSE DeleteLeaf(s.nodes, s.new)]
             x == [nodes |-> nodes, new |-> id]
  <2>1. TrimTreeHelper(nodes, start, end, id) = Iterate(step, x, MaxValue).nodes
    BY <1>2 DEF TrimTreeHelper
  <2>2. step \in [Places -> Places]
    <3>1. ASSUME NEW s \in Places PROVE step[s] \in Places
      <4>1. s \in [nodes : Nodes, new : Value] /\ s.nodes \in Nodes /\ s.new \in Value
        BY DEF Places
      <4>2. s.nodes[s.new].left \in Value /\ s.nodes[s.new].right \in Value
        BY <4>1 DEF Nodes, NodeType
      <4>3. /\ [s EXCEPT !.new = s.nodes[s.new].left] \in Places
            /\ [s EXCEPT !.new = s.nodes[s.new].right] \in Places
        BY <4>1, <4>2 DEF Places
      <4>4. DeleteLeaf(s.nodes, s.new) \in Places
        BY <4>1, DeleteLeafType
      <4> QED
        BY <4>1, <4>3, <4>4
    <3>2. step = [s \in Places |-> step[s]]
      BY DEF Places
    <3> HIDE DEF step
    <3> QED
      BY <3>1, <3>2
  <2>3. x \in Places /\ x.nodes = nodes /\ x.new = id
    BY DEF Places
  <2>4. PICK at \in [Nat -> Places] : Rounds(at, step, x)
    <3> HIDE DEF step, x
    <3> QED
      BY <2>2, <2>3, IterateSteps, Zenon
  <2>5. /\ at[0] = x /\ \A n \in Nat : at[n + 1] = step[at[n]]
        /\ \A n \in Nat : Iterate(step, x, n) = at[n]
    <3> HIDE DEF step, x
    <3> QED
      BY <2>4 DEF Rounds
  <2> DEFINE Done(s, n, E) == s.new = 0 \/ Cardinality(E[s.new]) + n <= MaxValue
             T == {n \in Nat : \E E \in Belows :
                     Trimmed(D, root, id, start, end, at[n], E) /\ Done(at[n], n, E)}
  <2>6. 0 \in T
    <3>1. Trimmed(D, root, id, start, end, x, D)
      <4> HIDE DEF x
      <4> QED
        BY <2>3 DEF Trimmed
    <3>2. Done(x, 0, D)
      <4>1. CASE id = 0
        BY <4>1
      <4>2. CASE id # 0
        <5>1. Cardinality(D[id]) \in 1 .. MaxValue
          BY <4>2, TreeSizes
        <5> QED
          BY <5>1, ValueFacts
      <4> QED
        BY <4>1, <4>2
    <3> HIDE DEF x, Done, step
    <3> QED
      BY <2>5, <3>1, <3>2
  <2>7. \A n \in Nat : n \in T => n + 1 \in T
    <3> SUFFICES ASSUME NEW n \in Nat, NEW E \in Belows,
                        Trimmed(D, root, id, start, end, at[n], E), Done(at[n], n, E)
                 PROVE  \E E2 \in Belows :
                          /\ Trimmed(D, root, id, start, end, at[n + 1], E2)
                          /\ Done(at[n + 1], n + 1, E2)
      <4> HIDE DEF step, Done
      <4> QED
        OBVIOUS
    <3> DEFINE s == at[n]
               c == s.new
               cur == s.nodes[c]
    <3>1. s \in Places /\ at[n + 1] = step[s]
      <4> HIDE DEF step
      <4> QED
        BY <2>5
    <3>2. s \in [nodes : Nodes, new : Value] /\ s.nodes \in Nodes /\ c \in Value
      BY <3>1 DEF Places
    <3>3. step[s] = IF cur.value = 0 THEN s
                    ELSE IF cur.value < start THEN [s EXCEPT !.new = cur.right]
                    ELSE IF cur.value > end THEN [s EXCEPT !.new = cur.left]
                    ELSE DeleteLeaf(s.nodes, s.new)
      BY <3>2
    <3> HIDE DEF step
    <3>4. /\ TreeOK(s.nodes, E, root)
          /\ c = 0 \/ c \in E[root] \ {root}
          /\ E[root] \subseteq D[root]
          /\ \A v \in D[root] \ E[root] : v \in D[id] /\ start <= v /\ v <= end
          /\ \A v \in D[id] \cap E[root] : start <= v /\ v <= end => v \in E[c]
          /\ E[c] \subseteq D[id]
      BY DEF Trimmed
    <3>5. CASE c = 0
      <4>1. cur.value = 0
        BY <3>2, <3>4, <3>5, NothingAtZero
      <4>2. at[n + 1] = s
        BY <3>1, <3>3, <4>1
      <4> QED
        BY <3>5, <4>2
    <3>6. CASE c # 0
      <4>1. c \in E[root] /\ c # root
        BY <3>4, <3>6
      <4>2. /\ c \in Value \ {0} /\ c \in Nat /\ cur.value = c
            /\ c \in E[c] /\ E[c] \subseteq E[root] /\ E[0] = {}
            /\ E[c] = {c} \cup E[cur.left] \cup E[cur.right]
            /\ \A w \in E[cur.left] : w \in Nat /\ w < c
            /\ \A w \in E[cur.right] : w \in Nat /\ w > c
            /\ \A k \in {cur.left, cur.right} :
                 /\ k \in Value
                 /\ k = 0 \/ k \in E[c] \ {c}
                 /\ E[k] \subseteq E[c] \ {c}
            /\ root \notin E[c]
        BY <3>2, <3>4, <4>1, TreeChildren, SMTT(60)
      <4>3. /\ Cardinality(E[c]) \in 1 .. MaxValue
            /\ \A K \in SUBSET (E[c] \ {c}) :
                 Cardinality(K) \in 0 .. Cardinality(E[c]) - 1
        BY <3>2, <3>4, <4>1, TreeSizes
      <4>4. Cardinality(E[c]) + n <= MaxValue
        BY <3>6
      <4>5. ASSUME NEW K, K \subseteq E[c] \ {c}
            PROVE  Cardinality(K) + (n + 1) <= MaxValue
        <5>1. Cardinality(K) \in 0 .. Cardinality(E[c]) - 1
          BY <4>3, <4>5
        <5>2. MaxValue \in Nat
          BY ValueFacts
        <5> QED
          BY <4>3, <4>4, <5>1, <5>2
      <4>6. ASSUME NEW k \in {cur.left, cur.right}, at[n + 1] = [s EXCEPT !.new = k],
                   \A v \in E[c] : start <= v /\ v <= end => v \in E[k]
            PROVE  Trimmed(D, root, id, start, end, at[n + 1], E)
                   /\ Done(at[n + 1], n + 1, E)
        <5>1. at[n + 1].new = k /\ at[n + 1].nodes = s.nodes
          BY <3>2, <4>6
        <5>2. k \in Value /\ (k = 0 \/ k \in E[c] \ {c}) /\ E[k] \subseteq E[c] \ {c}
          BY <4>2
        <5>3. k = 0 \/ k \in E[root] \ {root}
          BY <4>2, <5>2
        <5>4. Done(at[n + 1], n + 1, E)
          BY <4>5, <5>1, <5>2
        <5>5. \A v \in D[id] \cap E[root] : start <= v /\ v <= end => v \in E[k]
          BY <3>4, <4>6
        <5>6. E[k] \subseteq D[id]
          BY <3>4, <5>2
        <5> HIDE DEF s, c, cur, Done
        <5> QED
          BY <3>4, <5>1, <5>3, <5>4, <5>5, <5>6 DEF Trimmed
      <4>7. CASE c < start
        <5>1. at[n + 1] = [s EXCEPT !.new = cur.right]
          BY <3>1, <3>3, <4>2, <4>7
        <5> HIDE DEF s, c, cur, Done
        <5>2. ASSUME NEW v \in E[c], start <= v, v <= end
              PROVE  v \in E[cur.right]
          <6>1. v = c \/ v \in E[cur.left] \/ v \in E[cur.right]
            BY <4>2
          <6>2. /\ v \in E[cur.left] => v \in Nat /\ v < c
                /\ v \in E[cur.right] => v \in Nat /\ v > c
                /\ c \in Nat
            BY <4>2
          <6> QED
            BY <4>7, <5>2, <6>1, <6>2
        <5> QED
          BY <4>6, <5>1, <5>2
      <4>8. CASE ~ (c < start) /\ c > end
        <5>1. at[n + 1] = [s EXCEPT !.new = cur.left]
          BY <3>1, <3>3, <4>2, <4>8
        <5> HIDE DEF s, c, cur, Done
        <5>2. ASSUME NEW v \in E[c], start <= v, v <= end
              PROVE  v \in E[cur.left]
          <6>1. v = c \/ v \in E[cur.left] \/ v \in E[cur.right]
            BY <4>2
          <6>2. /\ v \in E[cur.left] => v \in Nat /\ v < c
                /\ v \in E[cur.right] => v \in Nat /\ v > c
                /\ c \in Nat
            BY <4>2
          <6> QED
            BY <4>8, <5>2, <6>1, <6>2
        <5> QED
          BY <4>6, <5>1, <5>2
      <4>9. CASE ~ (c < start) /\ ~ (c > end)
        <5> DEFINE d == DeleteLeaf(s.nodes, c)
        <5>1. at[n + 1] = d
          BY <3>1, <3>3, <4>2, <4>9
        <5>2. /\ d.nodes \in Nodes /\ d.new \in Value
              /\ \E E2 \in Belows : DeletedFrom(s.nodes, E, root, c, d.nodes, d.new, root, E2)
          BY <3>2, <3>4, <4>1, DeleteFromTree
        <5> HIDE DEF d
        <5>3. PICK E2 \in Belows :
                /\ TreeOK(d.nodes, E2, root)
                /\ E2[root] = E[root] \ {c}
                /\ E2[d.new] = E[c] \ {c}
                /\ d.new # 0 => d.new \in E[c] \ {c}
          BY <5>2 DEF DeletedFrom
        <5>4. d.new = 0 \/ d.new \in E2[root] \ {root}
          <6>1. d.new # 0 => d.new \in E[c] \ {c}
            BY <5>3
          <6> QED
            BY <4>2, <5>3, <6>1
        <5>5. /\ E2[root] \subseteq D[root] /\ E2[d.new] \subseteq D[id]
          BY <3>4, <5>3
        <5>6. \A v \in D[root] \ E2[root] : v \in D[id] /\ start <= v /\ v <= end
          <6>1. start <= c /\ c <= end /\ c \in D[id]
            <7>1. c \in Nat /\ c \in D[id]
              BY <3>4, <4>2
            <7> HIDE DEF s, c, cur, Done
            <7> QED
              BY <4>9, <7>1
          <6> QED
            BY <3>4, <5>3, <6>1
        <5>7. \A v \in D[id] \cap E2[root] : start <= v /\ v <= end => v \in E2[d.new]
          BY <3>4, <5>3
        <5>8. Trimmed(D, root, id, start, end, d, E2)
          BY <5>3, <5>4, <5>5, <5>6, <5>7 DEF Trimmed
        <5>9. Done(d, n + 1, E2)
          BY <4>5, <5>3
        <5> HIDE DEF s, c, cur, Done
        <5> QED
          BY <5>1, <5>8, <5>9
      <4> QED
        BY <4>7, <4>8, <4>9
    <3> QED
      BY <3>5, <3>6
  <2>8. Nat \subseteq T
    <3> HIDE DEF T
    <3> QED
      BY <2>6, <2>7, NatSetInduction, Zenon
  <2> DEFINE z == at[MaxValue]
  <2>9. PICK E \in Belows :
          Trimmed(D, root, id, start, end, z, E) /\ Done(z, MaxValue, E)
    <3>1. MaxValue \in T
      BY <2>8, ValueFacts
    <3> HIDE DEF Done, step
    <3> QED
      BY <3>1
  <2>10. z \in Places /\ z.nodes \in Nodes /\ z.new \in Value
    BY ValueFacts DEF Places
  <2>11. /\ TreeOK(z.nodes, E, root)
         /\ z.new = 0 \/ z.new \in E[root] \ {root}
         /\ E[root] \subseteq D[root]
         /\ \A v \in D[root] \ E[root] : v \in D[id] /\ start <= v /\ v <= end
         /\ \A v \in D[id] \cap E[root] : start <= v /\ v <= end => v \in E[z.new]
    BY <2>9 DEF Trimmed
  <2>12. Done(z, MaxValue, E)
    BY <2>9
  <2>13. TrimTreeHelper(nodes, start, end, id) = z.nodes
    <3> HIDE DEF step, x
    <3> QED
      BY <2>1, <2>5, ValueFacts
  <2> HIDE DEF z
  <2>14. z.new = 0
    <3> SUFFICES ASSUME z.new # 0 PROVE FALSE
      OBVIOUS
    <3>1. Cardinality(E[z.new]) \in 1 .. MaxValue
      BY <2>10, <2>11, TreeSizes
    <3>2. Cardinality(E[z.new]) + MaxValue <= MaxValue
      BY <2>12
    <3> QED
      BY <3>1, <3>2, ValueFacts
  <2>15. E[z.new] = {}
    BY <2>10, <2>11, <2>14, NothingAtZero
  <2>16. E[root] = D[root] \ (D[id] \cap (start .. end))
    <3>1. D[root] \subseteq Nat
      BY ValueFacts DEF TreeOK, SearchTree
    <3>2. \A v \in D[root] : v \in start .. end <=> start <= v /\ v <= end
      BY <3>1
    <3> QED
      BY <2>11, <2>15, <3>2
  <2> QED
    BY <2>10, <2>11, <2>13, <2>16
<1> QED
  BY <1>1, <1>2

\* The storage struct of the tree.
Trees == [root : Value, rootLast : Value, nodes : Nodes,
          rootToList : [Value -> Seq(Value)], futureExpiries : [Value -> Seq(Value)]]

\* t2 has the lists of t, and its tree without the values from start to end.
TrimmedTree(t, D, start, end, t2, E) ==
  /\ t2 \in Trees
  /\ t2.rootLast = t.rootLast
  /\ t2.rootToList = t.rootToList /\ t2.futureExpiries = t.futureExpiries
  /\ TreeOK(t2.nodes, E, t2.root)
  /\ E[t2.root] = D[t.root] \ (start .. end)

\* trimTree deletes what is between start and end.
LEMMA TrimCorrect ==
  ASSUME NEW t \in Trees, NEW D \in Belows, TreeOK(t.nodes, D, t.root),
         NEW start \in Nat, NEW end \in Nat
  PROVE  \E E \in Belows : TrimmedTree(t, D, start, end, Trim(t, start, end), E)
<1>0. /\ t.root \in Value /\ t.rootLast \in Value /\ t.nodes \in Nodes
      /\ t.rootToList \in [Value -> Seq(Value)]
      /\ t.futureExpiries \in [Value -> Seq(Value)]
  BY DEF Trees
<1>1. CASE start > end
  <2>1. Trim(t, start, end) = t
    BY <1>1 DEF Trim
  <2>2. D[t.root] = D[t.root] \ (start .. end)
    BY <1>1
  <2> QED
    BY <2>1, <2>2 DEF TrimmedTree
<1>2. CASE ~ (start > end)
  <2> DEFINE step == [s \in [nodes : Nodes, new : Value] |->
                IF s.nodes[s.new].value \in (start .. end) \ {0}
                THEN DeleteLeaf(s.nodes, s.new) ELSE s]
             x == [nodes |-> t.nodes, new |-> t.root]
  <2>2. step \in [Places -> Places]
    <3>1. ASSUME NEW s \in Places PROVE step[s] \in Places
      <4>1. s \in [nodes : Nodes, new : Value] /\ s.nodes \in Nodes /\ s.new \in Value
        BY DEF Places
      <4>2. DeleteLeaf(s.nodes, s.new) \in Places
        BY <4>1, DeleteLeafType
      <4> QED
        BY <4>1, <4>2
    <3>2. step = [s \in Places |-> step[s]]
      BY DEF Places
    <3> HIDE DEF step
    <3> QED
      BY <3>1, <3>2
  <2>3. x \in Places /\ x.nodes = t.nodes /\ x.new = t.root
    BY <1>0 DEF Places
  <2>4. PICK at \in [Nat -> Places] : Rounds(at, step, x)
    <3> HIDE DEF step, x
    <3> QED
      BY <2>2, <2>3, IterateSteps, Zenon
  <2>5. /\ at[0] = x /\ \A n \in Nat : at[n + 1] = step[at[n]]
        /\ \A n \in Nat : Iterate(step, x, n) = at[n]
    <3> HIDE DEF step, x
    <3> QED
      BY <2>4 DEF Rounds
  <2> DEFINE Left(s, E) == /\ TreeOK(s.nodes, E, s.new)
                           /\ E[s.new] \subseteq D[t.root]
                           /\ D[t.root] \ E[s.new] \subseteq start .. end
             InRange(s) == s.nodes[s.new].value \in (start .. end) \ {0}
             Done(s, n, E) == ~ InRange(s) \/ Cardinality(E[s.new]) + n <= MaxValue
             T == {n \in Nat : \E E \in Belows : Left(at[n], E) /\ Done(at[n], n, E)}
  <2>6. 0 \in T
    <3>1. Left(x, D)
      <4> HIDE DEF x
      <4> QED
        BY <2>3
    <3>2. Done(x, 0, D)
      <4>1. CASE t.root = 0
        <5>1. t.nodes[t.root].value = 0
          BY <1>0, <4>1, NothingAtZero
        <5> QED
          BY <2>3, <5>1
      <4>2. CASE t.root # 0
        <5>1. t.root \in D[t.root]
          BY <4>2 DEF TreeOK, SearchTree
        <5>2. Cardinality(D[t.root]) \in 1 .. MaxValue
          BY <1>0, <5>1, TreeSizes
        <5> QED
          BY <2>3, <5>2, ValueFacts
      <4> QED
        BY <4>1, <4>2
    <3> HIDE DEF x, Left, Done, step
    <3> QED
      BY <2>5, <3>1, <3>2
  <2>7. \A n \in Nat : n \in T => n + 1 \in T
    <3> SUFFICES ASSUME NEW n \in Nat, NEW E \in Belows,
                        Left(at[n], E), Done(at[n], n, E)
                 PROVE  \E E2 \in Belows : Left(at[n + 1], E2)
                                           /\ Done(at[n + 1], n + 1, E2)
      <4> HIDE DEF step, Left, Done
      <4> QED
        OBVIOUS
    <3> DEFINE s == at[n]
               c == s.new
    <3>1. s \in Places /\ at[n + 1] = step[s]
      <4> HIDE DEF step
      <4> QED
        BY <2>5
    <3>2. s \in [nodes : Nodes, new : Value] /\ s.nodes \in Nodes /\ c \in Value
      BY <3>1 DEF Places
    <3>3. step[s] = IF InRange(s) THEN DeleteLeaf(s.nodes, s.new) ELSE s
      BY <3>2
    <3> HIDE DEF step
    <3>4. CASE ~ InRange(s)
      <4>1. at[n + 1] = s
        BY <3>1, <3>3, <3>4
      <4>2. Done(s, n + 1, E)
        BY <3>4
      <4> HIDE DEF Left, Done, s
      <4> QED
        BY <4>1, <4>2 DEF s
    <3>5. CASE InRange(s)
      <4> DEFINE d == DeleteLeaf(s.nodes, c)
      <4>1. at[n + 1] = d
        BY <3>1, <3>3, <3>5
      <4>2. TreeOK(s.nodes, E, c)
        OBVIOUS
      <4>3. c # 0
        <5> SUFFICES ASSUME c = 0 PROVE FALSE
          OBVIOUS
        <5>1. s.nodes[0].value = 0
          BY <3>2, <4>2, NothingAtZero
        <5> QED
          BY <3>5, <5>1
      <4>4. c \in E[c]
        BY <4>2, <4>3 DEF TreeOK, SearchTree
      <4>5. /\ d.nodes \in Nodes /\ d.new \in Value
            /\ \E E2 \in Belows : DeletedFrom(s.nodes, E, c, c, d.nodes, d.new, d.new, E2)
        <5>1. LET r2 == IF c = c THEN d.new ELSE c
              IN  /\ d.nodes \in Nodes /\ d.new \in Value
                  /\ \E E2 \in Belows : DeletedFrom(s.nodes, E, c, c, d.nodes, d.new, r2, E2)
          BY <3>2, <4>2, <4>4, DeleteFromTree
        <5> HIDE DEF s, c, d
        <5> QED
          BY <5>1
      <4> HIDE DEF d
      <4>6. PICK E2 \in Belows :
              /\ TreeOK(d.nodes, E2, d.new)
              /\ E2[d.new] = E[c] \ {c}
        BY <4>5 DEF DeletedFrom
      <4>7. c \in start .. end
        <5>1. s.nodes[c].value = c
          BY <3>2, <4>2, <4>4, TreeChildren
        <5> QED
          BY <3>5, <5>1
      <4>8. Left(d, E2)
        BY <4>6, <4>7
      <4>9. Cardinality(E2[d.new]) \in 0 .. Cardinality(E[c]) - 1
            /\ Cardinality(E[c]) \in 1 .. MaxValue
        BY <3>2, <4>2, <4>4, <4>6, TreeSizes
      <4>10. Cardinality(E[c]) + n <= MaxValue
        BY <3>5
      <4>11. Done(d, n + 1, E2)
        BY <4>9, <4>10, ValueFacts
      <4> HIDE DEF Left, Done, s
      <4> QED
        BY <4>1, <4>8, <4>11
    <3> QED
      BY <3>4, <3>5
  <2>8. Nat \subseteq T
    <3> HIDE DEF T
    <3> QED
      BY <2>6, <2>7, NatSetInduction, Zenon
  <2> DEFINE top == Iterate(step, x, MaxValue)
             root == top.nodes[top.new]
  <2>9. PICK E \in Belows : Left(top, E) /\ Done(top, MaxValue, E)
    <3>1. MaxValue \in T /\ MaxValue \in Nat /\ top = at[MaxValue]
      <4> HIDE DEF step, x, T
      <4> QED
        BY <2>5, <2>8, ValueFacts
    <3> HIDE DEF Done, Left, top, step
    <3> QED
      BY <3>1
  <2>10. top \in Places /\ top.nodes \in Nodes /\ top.new \in Value
    <3>1. top = at[MaxValue] /\ MaxValue \in Nat
      <4> HIDE DEF step, x
      <4> QED
        BY <2>5, ValueFacts
    <3> HIDE DEF top
    <3> QED
      BY <3>1 DEF Places
  <2> DEFINE below(child) == TrimTreeHelper(top.nodes, start, end, child)
             n2 == IF root.value = 0 THEN top.nodes
                   ELSE IF root.value < start THEN below(root.right)
                   ELSE below(root.left)
  <2>11. Trim(t, start, end) = [t EXCEPT !.root = top.new, !.nodes = n2]
    BY <1>2 DEF Trim
  <2> HIDE DEF top
  <2>12. /\ TreeOK(top.nodes, E, top.new)
         /\ E[top.new] \subseteq D[t.root]
         /\ D[t.root] \ E[top.new] \subseteq start .. end
    BY <2>9
  <2>13. top.new # 0 => root.value \notin (start .. end) \ {0}
    <3> SUFFICES ASSUME top.new # 0, InRange(top) PROVE FALSE
      OBVIOUS
    <3>1. top.new \in E[top.new]
      BY <2>12 DEF TreeOK, SearchTree
    <3>2. Cardinality(E[top.new]) \in 1 .. MaxValue
      BY <2>10, <2>12, <3>1, TreeSizes
    <3>3. Cardinality(E[top.new]) + MaxValue <= MaxValue
      BY <2>9
    <3> QED
      BY <3>2, <3>3, ValueFacts
  <2>14. n2 \in Nodes /\ \E F \in Belows : /\ TreeOK(n2, F, top.new)
                                           /\ F[top.new] = D[t.root] \ (start .. end)
    <3>1. CASE top.new = 0
      <4>1. root.value = 0 /\ E[top.new] = {}
        BY <2>10, <2>12, <3>1, NothingAtZero
      <4>2. E[top.new] = D[t.root] \ (start .. end)
        BY <2>12, <4>1
      <4>3. n2 = top.nodes
        BY <4>1
      <4> HIDE DEF n2
      <4> QED
        BY <2>10, <2>12, <4>2, <4>3
    <3>2. CASE top.new # 0
      <4> DEFINE c == top.new
      <4>0. c \in E[c]
        BY <2>12, <3>2 DEF TreeOK, SearchTree
      <4>1. /\ c \in Value \ {0} /\ c \in Nat /\ root.value = c
            /\ E[c] = {c} \cup E[root.left] \cup E[root.right]
            /\ \A w \in E[root.left] : w \in Nat /\ w < c
            /\ \A w \in E[root.right] : w \in Nat /\ w > c
            /\ \A k \in {root.left, root.right} :
                 /\ k \in Value
                 /\ k = 0 \/ k \in E[c] \ {c}
        BY <2>10, <2>12, <4>0, TreeChildren
      <4>2. c \notin start .. end
        BY <2>13, <3>2, <4>1
      <4>3. ASSUME NEW k \in {root.left, root.right}, n2 = below(k),
                   \A v \in E[c] \ E[k] : v \notin start .. end
            PROVE  /\ n2 \in Nodes
                   /\ \E F \in Belows : /\ TreeOK(n2, F, c)
                                        /\ F[c] = D[t.root] \ (start .. end)
        <5>1. k \in Value /\ (k = 0 \/ k \in E[c] \ {c})
          BY <4>1
        <5> HIDE DEF n2, root
        <5>2. /\ n2 \in Nodes
              /\ \E F \in Belows : /\ TreeOK(n2, F, c)
                                   /\ F[c] = E[c] \ (E[k] \cap (start .. end))
          <6>1. /\ below(k) \in Nodes
                /\ \E F \in Belows : /\ TreeOK(below(k), F, c)
                                     /\ F[c] = E[c] \ (E[k] \cap (start .. end))
            BY <2>10, <2>12, <5>1, TrimBelow
          <6> HIDE DEF below
          <6> QED
            BY <4>3, <6>1
        <5>3. E[c] \ (E[k] \cap (start .. end)) = D[t.root] \ (start .. end)
          BY <2>12, <4>3
        <5> QED
          BY <5>2, <5>3
      <4>4. CASE c < start
        <5>1. n2 = below(root.right)
          BY <4>1, <4>4
        <5>2. ASSUME NEW v \in E[c] \ E[root.right] PROVE v \notin start .. end
          <6>1. v = c \/ v \in E[root.left]
            BY <4>1
          <6>2. v \in Nat /\ v <= c /\ c \in Nat
            BY <4>1, <6>1, SMTT(60)
          <6> QED
            BY <4>4, <6>2
        <5> HIDE DEF n2, below, root
        <5> QED
          BY <4>3, <5>1, <5>2
      <4>5. CASE ~ (c < start)
        <5>1. n2 = below(root.left)
          BY <4>1, <4>5
        <5>2. ASSUME NEW v \in E[c] \ E[root.left] PROVE v \notin start .. end
          <6>1. v = c \/ v \in E[root.right]
            BY <4>1
          <6>2. v \in Nat /\ c <= v /\ c \in Nat
            BY <4>1, <6>1, SMTT(60)
          <6>3. c > end
            BY <4>2, <4>5, <6>2
          <6> QED
            BY <6>2, <6>3
        <5> HIDE DEF n2, below, root
        <5> QED
          BY <4>3, <5>1, <5>2
      <4> QED
        BY <4>4, <4>5
    <3> QED
      BY <3>1, <3>2
  <2> HIDE DEF n2
  <2> DEFINE t2 == [t EXCEPT !.root = top.new, !.nodes = n2]
  <2>15. /\ t2 \in Trees /\ t2.root = top.new /\ t2.nodes = n2
         /\ t2.rootLast = t.rootLast
         /\ t2.rootToList = t.rootToList /\ t2.futureExpiries = t.futureExpiries
    BY <1>0, <2>10, <2>14 DEF Trees
  <2>16. Trim(t, start, end) = t2
    BY <2>11
  <2> HIDE DEF t2
  <2> QED
    BY <2>14, <2>15, <2>16 DEF TrimmedTree
<1> QED
  BY <1>1, <1>2

-----------------------------------------------------------------------------
\* The tree below root has got the value new.
Grown(nodes, D, root, new, n2) ==
  /\ n2 \in Nodes
  /\ \E E \in Belows : TreeOK(n2, E, root) /\ E[root] = D[root] \cup {new}

\* A value that is not in the tree is inserted as a leaf.
LEMMA InsertLeaf ==
  ASSUME NEW nodes \in Nodes, NEW D \in Belows, NEW root \in Value \ {0},
         TreeOK(nodes, D, root), NEW new \in Value \ {0}, new \notin D[root]
  PROVE  Grown(nodes, D, root, new, InsertHelper(nodes, new, root))
<1> DEFINE r    == Search(nodes, new, root)
           leaf == Node(r, new, 0, 0)
           n1   == Replace(nodes, leaf, new)
           n2   == [n1 EXCEPT ![new] = leaf]
           E    == [v \in Value |-> IF v = new THEN {new}
                                    ELSE IF v \in D[root] /\ r \in D[v]
                                    THEN D[v] \cup {new} ELSE D[v]]
<1>1. /\ SearchTree(nodes, D, root) /\ nodes[root].parent = 0
      /\ \A v \in Value \ D[root] : nodes[v] = NoNode
  BY DEF TreeOK
<1>2. /\ r \in D[root] /\ r # new /\ Toward(nodes[r], new) = 0
      /\ \A u \in D[root] : r \in D[u] /\ u # r => r \in D[Toward(nodes[u], new)]
  BY <1>1, SearchMisses
<1>3. /\ D[root] \subseteq Value \ {0} /\ root \in D[root] /\ D[0] = {}
      /\ \A v \in D[root] : D[v] \subseteq D[root] /\ v \in D[v]
      /\ \A v \in D[root] : \A w \in D[v] : D[w] \subseteq D[v]
      /\ r \in Value \ {0} /\ 0 \in Value
  <2>1. /\ D[root] \subseteq Value \ {0} /\ root \in D[root] /\ D[0] = {}
        /\ \A v \in D[root] : D[v] \subseteq D[root] /\ v \in D[v]
        /\ \A v \in D[root] : \A w \in D[v] : D[w] \subseteq D[v]
    BY <1>1 DEF SearchTree
  <2> QED
    BY <1>2, <2>1, ValueFacts
<1> HIDE DEF r
<1>4. /\ leaf \in NodeType /\ leaf.parent = r /\ leaf.value = new
      /\ leaf.left = 0 /\ leaf.right = 0
  BY <1>3 DEF Node, NodeType
<1>5. InsertHelper(nodes, new, root) = n2
  <2>1. InsertHelper(nodes, new, root) =
          IF leaf.parent = new THEN nodes ELSE n2
    BY DEF InsertHelper, r
  <2> HIDE DEF n2
  <2> QED
    BY <1>2, <1>4, <2>1
<1> HIDE DEF leaf
<1>6. /\ n1 \in Nodes
      /\ \A v \in Value : n1[v].value = nodes[v].value /\ n1[v].parent = nodes[v].parent
      /\ \A v \in Value \ {r} : n1[v] = nodes[v]
      /\ new < r => n1[r].left = new /\ n1[r].right = nodes[r].right
      /\ ~ (new < r) => n1[r].left = nodes[r].left /\ n1[r].right = new
  <2>1. Replaced(n1, nodes, leaf, new)
    BY <1>4, ReplaceAt
  <2> HIDE DEF n1
  <2> QED
    BY <1>3, <1>4, <2>1 DEF Replaced
<1> HIDE DEF n1
<1>7. n2 \in Nodes /\ n2[new] = leaf /\ \A v \in Value \ {new} : n2[v] = n1[v]
  BY <1>4, <1>6 DEF Nodes
<1> HIDE DEF n2
<1>8. /\ nodes[r].value = r
      /\ new < r => nodes[r].left = 0
      /\ ~ (new < r) => nodes[r].right = 0
  <2>1. nodes[r].value = r
    BY <1>1, <1>2 DEF SearchTree
  <2> QED
    BY <1>2, <2>1 DEF Toward
<1>9. /\ E \in Belows /\ E[new] = {new} /\ E[0] = {}
      /\ \A v \in D[root] : v # new
      /\ \A v \in D[root] : E[v] = IF r \in D[v] THEN D[v] \cup {new} ELSE D[v]
  <2>1. \A v \in Value : D[v] \in SUBSET Value
    BY DEF Belows
  <2>2. E \in Belows
    BY <2>1 DEF Belows
  <2> QED
    BY <1>3, <2>2
<1> HIDE DEF E
<1>10. E[root] = D[root] \cup {new}
  BY <1>2, <1>3, <1>9
<1>11. ASSUME NEW v \in D[root]
       PROVE  /\ n2[v].value = v
              /\ v \in E[v] /\ \A w \in E[v] : E[w] \subseteq E[v]
              /\ E[v] = {v} \cup E[n2[v].left] \cup E[n2[v].right]
              /\ \A w \in E[n2[v].left] : w < v
              /\ \A w \in E[n2[v].right] : w > v
              /\ \A c \in Children(n2[v]) : c \in E[v] /\ n2[c].parent = v
              /\ \A w \in E[v] \ {v} : /\ n2[w].parent \in E[v]
                                       /\ w \in Children(n2[n2[w].parent])
  <2>1. /\ nodes[v].value = v
        /\ v \in D[v] /\ \A w \in D[v] : D[w] \subseteq D[v]
        /\ D[v] = {v} \cup D[nodes[v].left] \cup D[nodes[v].right]
        /\ \A w \in D[nodes[v].left] : w < v
        /\ \A w \in D[nodes[v].right] : w > v
        /\ \A c \in Children(nodes[v]) : c \in D[v] /\ nodes[c].parent = v
        /\ \A w \in D[v] \ {v} : /\ nodes[w].parent \in D[v]
                                 /\ w \in Children(nodes[nodes[w].parent])
    BY <1>1 DEF SearchTree
  <2>2. /\ v \in Value /\ v # new /\ v # 0 /\ D[v] \subseteq D[root]
        /\ n2[v] = n1[v] /\ (v # r => n2[v] = nodes[v])
    BY <1>3, <1>6, <1>7, <1>9
  <2>3. n2[v].value = v
    BY <1>6, <2>1, <2>2
  <2>4. E[v] = IF r \in D[v] THEN D[v] \cup {new} ELSE D[v]
    BY <1>9
  <2>5. ASSUME NEW w \in E[v] PROVE E[w] \subseteq E[v]
    <3>1. CASE w = new
      BY <1>9, <2>5, <3>1
    <3>2. CASE w # new
      <4>1. w \in D[v] /\ D[w] \subseteq D[v] /\ w \in D[root]
        BY <2>1, <2>2, <2>4, <2>5, <3>2
      <4>2. E[w] = IF r \in D[w] THEN D[w] \cup {new} ELSE D[w]
        BY <1>9, <4>1
      <4> QED
        BY <2>4, <4>1, <4>2
    <3> QED
      BY <3>1, <3>2
  <2>6. \A c \in {nodes[v].left, nodes[v].right} :
           E[c] = IF r \in D[c] THEN D[c] \cup {new} ELSE D[c]
    <3>1. \A c \in Children(nodes[v]) : c \in D[root]
      BY <2>1, <2>2
    <3>2. \A c \in {nodes[v].left, nodes[v].right} : c = 0 \/ c \in D[root]
      BY <3>1 DEF Children
    <3> QED
      BY <1>3, <1>9, <3>2
  <2>7. D[nodes[v].left] \cap D[nodes[v].right] = {}
    BY <1>1, SubtreeOf
  <2>8. \A c \in Children(nodes[v]) : c # new /\ n2[c].parent = v /\ c \in E[v]
    <3> SUFFICES ASSUME NEW c \in Children(nodes[v])
                 PROVE  c # new /\ n2[c].parent = v /\ c \in E[v]
      OBVIOUS
    <3>1. c \in D[root] /\ c \in D[v] /\ nodes[c].parent = v
      BY <2>1, <2>2
    <3>2. c # new /\ c \in Value
      BY <1>3, <1>9, <3>1
    <3> QED
      BY <1>6, <1>7, <2>4, <3>1, <3>2
  <2>9. ASSUME v = r
        PROVE  /\ E[v] = {v} \cup E[n2[v].left] \cup E[n2[v].right]
               /\ \A w \in E[n2[v].left] : w < v
               /\ \A w \in E[n2[v].right] : w > v
               /\ \A c \in Children(n2[v]) : c \in E[v] /\ n2[c].parent = v
    <3>1. r \in D[r] /\ r \notin D[nodes[r].left] /\ r \notin D[nodes[r].right]
      <4>1. r \in Nat
        BY <1>3, ValueFacts
      <4> QED
        BY <2>1, <2>9, <4>1
    <3>2. /\ E[nodes[r].left] = D[nodes[r].left]
          /\ E[nodes[r].right] = D[nodes[r].right]
      BY <2>6, <2>9, <3>1
    <3>3. E[r] = {r} \cup D[nodes[r].left] \cup D[nodes[r].right] \cup {new}
      BY <2>1, <2>4, <2>9, <3>1
    <3>4. new < r \/ new > r
      BY <1>2, <1>3, ValueFacts
    <3>5. n2[new].parent = r /\ n2[r] = n1[r]
      BY <1>4, <1>7, <2>2, <2>9
    <3>6. CASE new < r
      <4>1. /\ n2[r].left = new /\ n2[r].right = nodes[r].right
            /\ nodes[r].left = 0 /\ D[nodes[r].left] = {}
        BY <1>3, <1>6, <1>8, <3>5, <3>6
      <4>2. E[r] = {r} \cup E[n2[r].left] \cup E[n2[r].right]
        BY <1>9, <3>2, <3>3, <4>1
      <4>3. /\ \A w \in E[n2[r].left] : w < r
            /\ \A w \in E[n2[r].right] : w > r
        BY <1>9, <2>1, <2>9, <3>2, <3>6, <4>1
      <4>4. \A c \in Children(n2[r]) : c \in E[r] /\ n2[c].parent = r
        <5>1. \A c \in Children(n2[r]) : c = new \/ c \in Children(nodes[r])
          BY <4>1 DEF Children
        <5> QED
          BY <2>8, <2>9, <3>3, <3>5, <5>1
      <4> QED
        BY <2>9, <4>2, <4>3, <4>4
    <3>7. CASE new > r
      <4>0. ~ (new < r)
        BY <3>7, <1>3, ValueFacts
      <4>1. /\ n2[r].left = nodes[r].left /\ n2[r].right = new
            /\ nodes[r].right = 0 /\ D[nodes[r].right] = {}
        BY <1>3, <1>6, <1>8, <3>5, <4>0
      <4>2. E[r] = {r} \cup E[n2[r].left] \cup E[n2[r].right]
        BY <1>9, <3>2, <3>3, <4>1
      <4>3. /\ \A w \in E[n2[r].left] : w < r
            /\ \A w \in E[n2[r].right] : w > r
        BY <1>9, <2>1, <2>9, <3>2, <3>7, <4>1
      <4>4. \A c \in Children(n2[r]) : c \in E[r] /\ n2[c].parent = r
        <5>1. \A c \in Children(n2[r]) : c = new \/ c \in Children(nodes[r])
          BY <4>1 DEF Children
        <5> QED
          BY <2>8, <2>9, <3>3, <3>5, <5>1
      <4> QED
        BY <2>9, <4>2, <4>3, <4>4
    <3> QED
      BY <3>4, <3>6, <3>7
  <2>10. ASSUME v # r
         PROVE  /\ E[v] = {v} \cup E[n2[v].left] \cup E[n2[v].right]
                /\ \A w \in E[n2[v].left] : w < v
                /\ \A w \in E[n2[v].right] : w > v
                /\ \A c \in Children(n2[v]) : c \in E[v] /\ n2[c].parent = v
    <3>1. n2[v] = nodes[v]
      BY <2>2, <2>10
    <3>2. E[v] = {v} \cup E[nodes[v].left] \cup E[nodes[v].right]
      <4>1. r \in D[v] <=> r \in D[nodes[v].left] \/ r \in D[nodes[v].right]
        BY <2>1, <2>10
      <4> QED
        BY <2>1, <2>4, <2>6, <4>1
    <3>3. /\ r \in D[nodes[v].left] => new < v
          /\ r \in D[nodes[v].right] => new > v
      <4> SUFFICES ASSUME r \in D[v]
                   PROVE  /\ r \in D[nodes[v].left] => new < v
                          /\ r \in D[nodes[v].right] => new > v
        BY <2>1
      <4>1. r \in D[Toward(nodes[v], new)]
        BY <1>2, <2>10
      <4>2. new \in Nat /\ v \in Nat /\ new # v
        BY <1>3, <2>2, ValueFacts
      <4>3. CASE new < v
        <5>1. r \in D[nodes[v].left]
          BY <2>1, <4>1, <4>3 DEF Toward
        <5> QED
          BY <2>7, <4>3, <5>1
      <4>4. CASE ~ (new < v)
        <5>1. r \in D[nodes[v].right]
          BY <2>1, <4>1, <4>4 DEF Toward
        <5>2. new > v
          BY <4>2, <4>4
        <5> QED
          BY <2>7, <5>1, <5>2
      <4> QED
        BY <4>3, <4>4
    <3>4. /\ \A w \in E[nodes[v].left] : w < v
          /\ \A w \in E[nodes[v].right] : w > v
      BY <2>1, <2>6, <3>3
    <3> QED
      BY <2>8, <3>1, <3>2, <3>4
  <2>11. ASSUME NEW w \in E[v] \ {v}
         PROVE  /\ n2[w].parent \in E[v]
                /\ w \in Children(n2[n2[w].parent])
    <3>1. new \in Children(n2[r])
      <4>1. n2[r] = n1[r]
        BY <1>2, <1>3, <1>7
      <4>2. CASE new < r
        BY <1>3, <1>6, <4>1, <4>2 DEF Children
      <4>3. CASE ~ (new < r)
        BY <1>3, <1>6, <4>1, <4>3 DEF Children
      <4> QED
        BY <4>2, <4>3
    <3>2. CASE w = new
      <4>1. r \in D[v]
        <5>1. new \notin D[v]
          BY <1>9, <2>2
        <5> QED
          BY <2>4, <2>11, <3>2, <5>1
      <4>2. n2[w].parent = r
        BY <1>4, <1>7, <3>2
      <4> QED
        BY <2>4, <3>1, <3>2, <4>1, <4>2
    <3>3. CASE w # new
      <4> DEFINE q == nodes[w].parent
      <4>1. w \in D[v] \ {v}
        BY <2>4, <2>11, <3>3
      <4>2. q \in D[v] /\ w \in Children(nodes[q]) /\ q \in D[root] /\ w \in Value
        BY <1>3, <2>1, <2>2, <4>1
      <4>3. n2[w].parent = q
        BY <1>6, <1>7, <3>3, <4>2
      <4> HIDE DEF q
      <4>4. n2[q] = n1[q]
        BY <1>3, <1>7, <1>9, <4>2
      <4>5. w \in Children(n2[q])
        <5>1. CASE q # r
          BY <1>3, <1>6, <4>2, <4>4, <5>1
        <5>2. CASE q = r
          BY <1>6, <1>8, <4>2, <4>4, <5>2 DEF Children
        <5> QED
          BY <5>1, <5>2
      <4> QED
        BY <2>4, <4>2, <4>3, <4>5
    <3> QED
      BY <3>2, <3>3
  <2>12. /\ E[v] = {v} \cup E[n2[v].left] \cup E[n2[v].right]
         /\ \A w \in E[n2[v].left] : w < v
         /\ \A w \in E[n2[v].right] : w > v
         /\ \A c \in Children(n2[v]) : c \in E[v] /\ n2[c].parent = v
    BY <2>9, <2>10
  <2>13. v \in E[v]
    BY <2>1, <2>4
  <2> QED
    BY <2>3, <2>5, <2>11, <2>12, <2>13
<1>12. /\ n2[new].value = new
       /\ new \in E[new] /\ \A w \in E[new] : E[w] \subseteq E[new]
       /\ E[new] = {new} \cup E[n2[new].left] \cup E[n2[new].right]
       /\ \A w \in E[n2[new].left] : w < new
       /\ \A w \in E[n2[new].right] : w > new
       /\ \A c \in Children(n2[new]) : c \in E[new] /\ n2[c].parent = new
       /\ E[new] \ {new} = {}
  BY <1>4, <1>7, <1>9 DEF Children
<1>13. SearchTree(n2, E, root)
  <2>1. \A v \in E[root] : v = new \/ v \in D[root]
    BY <1>10
  <2>2. E[root] \subseteq Value \ {0} /\ root \in E[root]
    BY <1>3, <1>10
  <2>3. ASSUME NEW v \in E[root]
        PROVE  /\ n2[v].value = v
               /\ v \in E[v] /\ \A w \in E[v] : E[w] \subseteq E[v]
               /\ E[v] = {v} \cup E[n2[v].left] \cup E[n2[v].right]
               /\ \A w \in E[n2[v].left] : w < v
               /\ \A w \in E[n2[v].right] : w > v
               /\ \A c \in Children(n2[v]) : c \in E[v] /\ n2[c].parent = v
               /\ \A w \in E[v] \ {v} : /\ n2[w].parent \in E[v]
                                        /\ w \in Children(n2[n2[w].parent])
    <3>1. CASE v = new
      BY <1>12, <3>1
    <3>2. CASE v \in D[root]
      BY <1>11, <3>2
    <3> QED
      BY <2>1, <3>1, <3>2
  <2> QED
    BY <1>9, <2>2, <2>3 DEF SearchTree
<1>14. TreeOK(n2, E, root)
  <2>1. n2[root].parent = 0
    BY <1>1, <1>3, <1>6, <1>7, <1>9
  <2>2. \A v \in Value \ E[root] : n2[v] = NoNode
    BY <1>1, <1>2, <1>6, <1>7, <1>10
  <2> QED
    BY <1>13, <2>1, <2>2 DEF TreeOK
<1> QED
  BY <1>5, <1>7, <1>9, <1>10, <1>14 DEF Grown

\* t2 has the value new, besides those of t.
Inserted(t, D, new, t2, E) ==
  /\ t2 \in Trees
  /\ t2.rootToList = t.rootToList
  /\ TreeOK(t2.nodes, E, t2.root)
  /\ E[t2.root] = D[t.root] \cup {new}
  /\ t2.root # 0
  /\ t.root = 0 => /\ t2.rootLast = new
                   /\ t2.futureExpiries[new] = Append(t.futureExpiries[new], new)

\* insert adds a value to the tree.
LEMMA InsertCorrect ==
  ASSUME NEW t \in Trees, NEW D \in Belows, TreeOK(t.nodes, D, t.root),
         NEW new \in Value \ {0}
  PROVE  \E E \in Belows : Inserted(t, D, new, Insert(t, new), E)
<1>0. /\ t.root \in Value /\ t.rootLast \in Value /\ t.nodes \in Nodes
      /\ t.rootToList \in [Value -> Seq(Value)]
      /\ t.futureExpiries \in [Value -> Seq(Value)]
  BY DEF Trees
<1>1. CASE t.root = 0
  <2> DEFINE leaf == Node(0, new, 0, 0)
             n2 == [t.nodes EXCEPT ![new] = leaf]
             fe == [t.futureExpiries EXCEPT ![new] = Append(@, new)]
             t2 == [t EXCEPT !.root = new, !.rootLast = new,
                             !.nodes[new] = leaf,
                             !.futureExpiries[new] = Append(@, new)]
             E  == [v \in Value |-> IF v = new THEN {new} ELSE {}]
  <2>1. Insert(t, new) = t2
    BY <1>1 DEF Insert
  <2>2. D[t.root] = {} /\ 0 \in Value /\ \A v \in Value : t.nodes[v] = NoNode
    <3>1. D[t.root] = {} /\ 0 \in Value
      BY <1>0, <1>1, NothingAtZero
    <3> QED
      BY <3>1 DEF TreeOK
  <2>3. /\ leaf \in NodeType /\ leaf.parent = 0 /\ leaf.value = new
        /\ leaf.left = 0 /\ leaf.right = 0
    BY <2>2 DEF Node, NodeType
  <2> HIDE DEF leaf
  <2>4. /\ n2 \in Nodes /\ n2[new] = leaf /\ \A v \in Value \ {new} : n2[v] = NoNode
    BY <1>0, <2>2, <2>3 DEF Nodes
  <2>5. fe \in [Value -> Seq(Value)] /\ fe[new] = Append(t.futureExpiries[new], new)
    BY <1>0
  <2>6. /\ t2 \in Trees /\ t2.root = new /\ t2.rootLast = new /\ t2.nodes = n2
        /\ t2.futureExpiries = fe /\ t2.rootToList = t.rootToList
    <3> HIDE DEF n2, fe
    <3>1. t2 = [t EXCEPT !.root = new, !.rootLast = new, !.nodes = n2,
                         !.futureExpiries = fe]
      BY DEF Trees, n2, fe
    <3> HIDE DEF t2
    <3> QED
      BY <1>0, <2>4, <2>5, <3>1 DEF Trees
  <2> HIDE DEF t2, n2, fe
  <2>7. E \in Belows /\ E[new] = {new} /\ E[0] = {}
    BY <2>2 DEF Belows
  <2>8. TreeOK(n2, E, new)
    <3>1. SearchTree(n2, E, new)
      BY <2>3, <2>4, <2>7 DEF SearchTree, Children
    <3> QED
      BY <2>3, <2>4, <2>7, <3>1 DEF TreeOK
  <2>9. Inserted(t, D, new, t2, E)
    BY <2>2, <2>5, <2>6, <2>7, <2>8 DEF Inserted
  <2> QED
    BY <2>1, <2>7, <2>9
<1>2. CASE t.root # 0
  <2> DEFINE n2 == InsertHelper(t.nodes, new, t.root)
             t2 == [t EXCEPT !.nodes = n2]
  <2>1. Insert(t, new) = t2
    BY <1>2 DEF Insert
  <2>2. Grown(t.nodes, D, t.root, new, n2)
    <3>1. CASE new \in D[t.root]
      <4>1. Search(t.nodes, new, t.root) = new
        BY <1>0, <3>1, SearchFinds DEF TreeOK
      <4>2. Node(new, new, 0, 0).parent = new
        BY DEF Node
      <4>3. n2 = t.nodes
        BY <4>1, <4>2 DEF InsertHelper
      <4>4. D[t.root] = D[t.root] \cup {new}
        BY <3>1
      <4>5. TreeOK(t.nodes, D, t.root)
        OBVIOUS
      <4> HIDE DEF n2
      <4>6. n2 \in Nodes /\ TreeOK(n2, D, t.root)
        BY <1>0, <4>3, <4>5
      <4> QED
        BY <4>4, <4>6 DEF Grown
    <3>2. CASE new \notin D[t.root]
      <4>1. t.nodes \in Nodes /\ t.root \in Value \ {0}
        BY <1>0, <1>2
      <4>2. TreeOK(t.nodes, D, t.root) /\ new \notin D[t.root]
        BY <3>2
      <4> QED
        BY <4>1, <4>2, InsertLeaf, ZenonT(60)
    <3> QED
      BY <3>1, <3>2
  <2> HIDE DEF n2
  <2>3. /\ t2 \in Trees /\ t2.root = t.root /\ t2.nodes = n2
        /\ t2.rootToList = t.rootToList
    BY <1>0, <2>2 DEF Trees, Grown
  <2> HIDE DEF t2
  <2> QED
    BY <1>2, <2>1, <2>2, <2>3 DEF Inserted, Grown
<1> QED
  BY <1>1, <1>2

\* t2 is t without the value v.
Removed(t, D, v, t2, E) ==
  /\ t2 \in Trees
  /\ t2.rootLast = t.rootLast
  /\ t2.rootToList = t.rootToList /\ t2.futureExpiries = t.futureExpiries
  /\ TreeOK(t2.nodes, E, t2.root)
  /\ E[t2.root] = D[t.root] \ {v}

\* deleteNode takes one value out of the tree, and leaves its lists alone.
LEMMA DeleteNodeCorrect ==
  ASSUME NEW t \in Trees, NEW D \in Belows, TreeOK(t.nodes, D, t.root),
         NEW v \in D[t.root]
  PROVE  \E E \in Belows : Removed(t, D, v, DeleteNode(t, v), E)
<1>0. /\ t.root \in Value /\ t.rootLast \in Value /\ t.nodes \in Nodes
      /\ t.rootToList \in [Value -> Seq(Value)]
      /\ t.futureExpiries \in [Value -> Seq(Value)]
  BY DEF Trees
<1> DEFINE d  == DeleteLeaf(t.nodes, v)
           r2 == IF v = t.root THEN d.new ELSE t.root
           t2 == [t EXCEPT !.nodes = d.nodes, !.root = r2]
<1>1. /\ d.nodes \in Nodes /\ d.new \in Value /\ r2 \in Value
      /\ \E E \in Belows : DeletedFrom(t.nodes, D, t.root, v, d.nodes, d.new, r2, E)
  BY <1>0, DeleteFromTree
<1>2. DeleteNode(t, v) = t2
  <2>1. CASE v = t.root
    BY <2>1 DEF DeleteNode
  <2>2. CASE v # t.root
    <3>1. Search(t.nodes, v, t.root) = v
      BY <1>0, SearchFinds DEF TreeOK
    <3>2. DeleteNodeHelper(t.nodes, v, t.root) = d.nodes
      BY <3>1 DEF DeleteNodeHelper
    <3>3. DeleteNode(t, v) = [t EXCEPT !.nodes = d.nodes]
      BY <2>2, <3>2 DEF DeleteNode
    <3> HIDE DEF d
    <3>4. [t EXCEPT !.nodes = d.nodes] = t2
      BY <2>2 DEF Trees
    <3> QED
      BY <3>3, <3>4
  <2> QED
    BY <2>1, <2>2
<1> HIDE DEF d, r2
<1>3. /\ t2 \in Trees /\ t2.root = r2 /\ t2.nodes = d.nodes
      /\ t2.rootLast = t.rootLast
      /\ t2.rootToList = t.rootToList /\ t2.futureExpiries = t.futureExpiries
  BY <1>0, <1>1 DEF Trees
<1> HIDE DEF t2
<1>4. PICK E \in Belows : DeletedFrom(t.nodes, D, t.root, v, d.nodes, d.new, r2, E)
  BY <1>1
<1>5. Removed(t, D, v, t2, E)
  BY <1>3, <1>4 DEF Removed, DeletedFrom
<1> QED
  BY <1>2, <1>5
-----------------------------------------------------------------------------
\* In a tree, Below gives the values below each node.
LEMMA BelowOfTree ==
  ASSUME NEW nodes \in Nodes, NEW D \in Belows, NEW root \in Value,
         TreeOK(nodes, D, root)
  PROVE  /\ Below(nodes)[root] = D[root]
         /\ \A v \in D[root] \cup {0} : Below(nodes)[v] = D[v]
<1> DEFINE Body(f) == [id \in Value |->
              IF id = 0 THEN {}
              ELSE {id} \cup f[nodes[id].left] \cup f[nodes[id].right]]
           c == CHOOSE f : f = Body(f)
           h == [id \in Value |-> IF id = 0 THEN {}
                                  ELSE IF id \in D[root] THEN D[id] ELSE {id}]
<1>1. /\ D[0] = {} /\ 0 \in Value
      /\ D[root] \subseteq Value \ {0}
      /\ root = 0 \/ root \in D[root]
      /\ \A v \in Value \ D[root] : nodes[v].left = 0 /\ nodes[v].right = 0
  BY ValueFacts DEF TreeOK, SearchTree, NoNode, Node
<1>2. ASSUME NEW v \in D[root]
      PROVE  /\ v \in Value \ {0} /\ v \in D[v] /\ D[v] \subseteq D[root]
             /\ D[v] = {v} \cup D[nodes[v].left] \cup D[nodes[v].right]
             /\ \A k \in {nodes[v].left, nodes[v].right} :
                  /\ k \in Value /\ D[k] \subseteq D[v] \ {v}
                  /\ k = 0 \/ k \in D[root]
  BY TreeChildren
<1>3. h = Body(h)
  <2> SUFFICES ASSUME NEW id \in Value
               PROVE  h[id] = IF id = 0 THEN {}
                              ELSE {id} \cup h[nodes[id].left] \cup h[nodes[id].right]
    OBVIOUS
  <2>1. CASE id \in D[root]
    <3>1. ASSUME NEW k \in {nodes[id].left, nodes[id].right} PROVE h[k] = D[k]
      <4>1. k \in Value /\ (k = 0 \/ k \in D[root])
        BY <1>2, <2>1
      <4> QED
        BY <1>1, <4>1
    <3>2. h[nodes[id].left] = D[nodes[id].left] /\ h[nodes[id].right] = D[nodes[id].right]
      BY <3>1
    <3>3. /\ h[id] = D[id] /\ id # 0
          /\ D[id] = {id} \cup D[nodes[id].left] \cup D[nodes[id].right]
      BY <1>2, <2>1
    <3> HIDE DEF h
    <3> QED
      BY <3>2, <3>3
  <2>2. CASE id \notin D[root]
    BY <1>1, <2>2
  <2> QED
    BY <2>1, <2>2
<1>4. c = Body(c)
  <2> HIDE DEF Body
  <2> QED
    BY <1>3
<1>5. Below(nodes) = c
  BY DEF Below
<1> HIDE DEF c, h
<1>6. /\ c[0] = {}
      /\ \A v \in D[root] : c[v] = {v} \cup c[nodes[v].left] \cup c[nodes[v].right]
  BY <1>1, <1>4
<1> DEFINE S == {n \in Nat : \A v \in D[root] : Cardinality(D[v]) <= n => c[v] = D[v]}
<1>7. 0 \in S
  <2>1. \A v \in D[root] : Cardinality(D[v]) \in 1 .. MaxValue
    BY TreeSizes
  <2> QED
    BY <2>1, ValueFacts
<1>8. ASSUME NEW n \in Nat, n \in S PROVE n + 1 \in S
  <2> SUFFICES ASSUME NEW v \in D[root], Cardinality(D[v]) <= n + 1
               PROVE  c[v] = D[v]
    OBVIOUS
  <2>1. /\ Cardinality(D[v]) \in 1 .. MaxValue
        /\ \A T \in SUBSET (D[v] \ {v}) : Cardinality(T) \in 0 .. Cardinality(D[v]) - 1
    BY TreeSizes
  <2>2. ASSUME NEW k \in {nodes[v].left, nodes[v].right}
        PROVE  c[k] = D[k]
    <3>1. CASE k = 0
      BY <1>1, <1>6, <3>1
    <3>2. CASE k \in D[root]
      <4>1. Cardinality(D[k]) \in 0 .. Cardinality(D[v]) - 1
        BY <1>2, <2>1, <2>2
      <4>2. Cardinality(D[k]) <= n
        BY <2>1, <4>1, ValueFacts
      <4> QED
        BY <1>8, <3>2, <4>2
    <3> QED
      BY <1>2, <3>1, <3>2
  <2>3. c[nodes[v].left] = D[nodes[v].left] /\ c[nodes[v].right] = D[nodes[v].right]
    BY <2>2
  <2>4. /\ D[v] = {v} \cup D[nodes[v].left] \cup D[nodes[v].right]
        /\ c[v] = {v} \cup c[nodes[v].left] \cup c[nodes[v].right]
    BY <1>2, <1>6
  <2> HIDE DEF S
  <2> QED
    BY <2>3, <2>4
<1>9. Nat \subseteq S
  <2> HIDE DEF S
  <2> QED
    BY <1>7, <1>8, NatSetInduction, Zenon
<1>10. ASSUME NEW v \in D[root] PROVE c[v] = D[v]
  <2>1. Cardinality(D[v]) \in Nat
    <3>1. Cardinality(D[v]) \in 1 .. MaxValue
      BY TreeSizes
    <3> QED
      BY <3>1, ValueFacts
  <2>2. Cardinality(D[v]) \in S
    BY <1>9, <2>1
  <2> QED
    BY <2>1, <2>2
<1> HIDE DEF S
<1> QED
  BY <1>1, <1>5, <1>6, <1>10

-----------------------------------------------------------------------------
\* s lists values of T in ascending order, all those from start to extension among them.
Lists(s, T, start, extension) ==
  /\ s \in Seq(Value)
  /\ \A i, j \in 1 .. Len(s) : i < j => s[i] < s[j]
  /\ \A i \in 1 .. Len(s) : s[i] \in T
  /\ \A w \in T : start <= w /\ w <= extension => \E i \in 1 .. Len(s) : s[i] = w

\* What is smaller than a value, the value, and what is larger, one after the other.
LEMMA JoinLists ==
  ASSUME NEW start \in Nat, NEW extension \in Nat, NEW v \in Value,
         NEW L \in SUBSET Value, NEW R \in SUBSET Value,
         \A w \in L : w < v, \A w \in R : w > v,
         NEW a, NEW b,
         v > start => Lists(a, L, start, extension), ~ (v > start) => a = <<>>,
         v < extension => Lists(b, R, start, extension), ~ (v < extension) => b = <<>>
  PROVE  Lists(a \o <<v>> \o b, {v} \cup L \cup R, start, extension)
<1> DEFINE s == a \o <<v>> \o b
<1>1. /\ a \in Seq(Value) /\ b \in Seq(Value)
      /\ \A i, j \in 1 .. Len(a) : i < j => a[i] < a[j]
      /\ \A i, j \in 1 .. Len(b) : i < j => b[i] < b[j]
      /\ \A i \in 1 .. Len(a) : a[i] \in L
      /\ \A i \in 1 .. Len(b) : b[i] \in R
  <2>1. /\ a \in Seq(Value)
        /\ \A i, j \in 1 .. Len(a) : i < j => a[i] < a[j]
        /\ \A i \in 1 .. Len(a) : a[i] \in L
    <3>1. CASE v > start
      BY <3>1 DEF Lists
    <3>2. CASE ~ (v > start)
      BY <3>2
    <3> QED
      BY <3>1, <3>2
  <2>2. /\ b \in Seq(Value)
        /\ \A i, j \in 1 .. Len(b) : i < j => b[i] < b[j]
        /\ \A i \in 1 .. Len(b) : b[i] \in R
    <3>1. CASE v < extension
      BY <3>1 DEF Lists
    <3>2. CASE ~ (v < extension)
      BY <3>2
    <3> QED
      BY <3>1, <3>2
  <2> QED
    BY <2>1, <2>2
<1>2. v \in Nat /\ (\A w \in L : w \in Nat) /\ (\A w \in R : w \in Nat)
  BY ValueFacts
<1>3. /\ \A w \in L : start <= w /\ w <= extension => \E i \in 1 .. Len(a) : a[i] = w
      /\ \A w \in R : start <= w /\ w <= extension => \E i \in 1 .. Len(b) : b[i] = w
  <2>1. CASE v > start /\ v < extension
    BY <2>1 DEF Lists
  <2>2. CASE ~ (v > start) /\ v < extension
    BY <1>2, <2>2 DEF Lists
  <2>3. CASE v > start /\ ~ (v < extension)
    BY <1>2, <2>3 DEF Lists
  <2>4. CASE ~ (v > start) /\ ~ (v < extension)
    BY <1>2, <2>4
  <2> QED
    BY <2>1, <2>2, <2>3, <2>4
<1>4. Len(a) \in Nat /\ Len(b) \in Nat
  BY <1>1
<1>5. /\ s \in Seq(Value) /\ Len(s) = Len(a) + 1 + Len(b)
      /\ \A i \in 1 .. Len(a) : s[i] = a[i]
      /\ s[Len(a) + 1] = v
      /\ \A i \in 1 .. Len(b) : s[Len(a) + 1 + i] = b[i]
  BY <1>1
<1> HIDE DEF s
<1>6. ASSUME NEW i \in 1 .. Len(s)
      PROVE  \/ i \in 1 .. Len(a) /\ s[i] = a[i]
             \/ i = Len(a) + 1 /\ s[i] = v
             \/ \E k \in 1 .. Len(b) : i = Len(a) + 1 + k /\ s[i] = b[k]
  <2>1. CASE i <= Len(a)
    BY <1>4, <1>5, <2>1
  <2>2. CASE i = Len(a) + 1
    BY <1>5, <2>2
  <2>3. CASE i > Len(a) + 1
    <3> DEFINE k == i - (Len(a) + 1)
    <3>1. k \in 1 .. Len(b) /\ i = Len(a) + 1 + k
      BY <1>4, <1>5, <2>3
    <3> HIDE DEF k
    <3> QED
      BY <1>5, <3>1
  <2> QED
    BY <1>4, <2>1, <2>2, <2>3
<1>7. \A i \in 1 .. Len(s) : s[i] \in {v} \cup L \cup R
  BY <1>1, <1>6
<1>8. ASSUME NEW i \in 1 .. Len(s), NEW j \in 1 .. Len(s), i < j
      PROVE  s[i] < s[j]
  <2>1. CASE j \in 1 .. Len(a) /\ s[j] = a[j]
    <3>1. i \in 1 .. Len(a) /\ s[i] = a[i]
      BY <1>4, <1>5, <1>8, <2>1
    <3> QED
      BY <1>1, <1>8, <2>1, <3>1
  <2>2. CASE j = Len(a) + 1 /\ s[j] = v
    <3>1. i \in 1 .. Len(a) /\ s[i] = a[i]
      BY <1>4, <1>5, <1>8, <2>2
    <3> QED
      BY <1>1, <2>2, <3>1
  <2>3. ASSUME NEW k \in 1 .. Len(b), j = Len(a) + 1 + k, s[j] = b[k]
        PROVE  s[i] < s[j]
    <3>1. b[k] \in R /\ b[k] > v /\ b[k] \in Nat
      BY <1>1, <1>2
    <3>2. CASE i \in 1 .. Len(a) /\ s[i] = a[i]
      <4>1. a[i] \in L /\ a[i] \in Nat /\ a[i] < v
        BY <1>1, <1>2, <3>2
      <4> QED
        BY <1>2, <2>3, <3>1, <3>2, <4>1
    <3>3. CASE i = Len(a) + 1 /\ s[i] = v
      BY <2>3, <3>1, <3>3
    <3>4. ASSUME NEW m \in 1 .. Len(b), i = Len(a) + 1 + m, s[i] = b[m]
          PROVE  s[i] < s[j]
      <4>1. m < k
        BY <1>4, <1>8, <2>3, <3>4
      <4> QED
        BY <1>1, <2>3, <3>4, <4>1
    <3> QED
      BY <1>6, <3>2, <3>3, <3>4
  <2> QED
    BY <1>6, <2>1, <2>2, <2>3
<1>9. ASSUME NEW w \in {v} \cup L \cup R, start <= w, w <= extension
      PROVE  \E i \in 1 .. Len(s) : s[i] = w
  <2>1. CASE w = v
    <3>1. Len(a) + 1 \in 1 .. Len(s)
      BY <1>4, <1>5
    <3> QED
      BY <1>5, <2>1, <3>1
  <2>2. CASE w \in L
    <3>1. PICK i \in 1 .. Len(a) : a[i] = w
      BY <1>3, <1>9, <2>2
    <3>2. i \in 1 .. Len(s) /\ s[i] = w
      BY <1>4, <1>5, <3>1
    <3> QED
      BY <3>2
  <2>3. CASE w \in R
    <3>1. PICK i \in 1 .. Len(b) : b[i] = w
      BY <1>3, <1>9, <2>3
    <3>2. Len(a) + 1 + i \in 1 .. Len(s) /\ s[Len(a) + 1 + i] = w
      BY <1>4, <1>5, <3>1
    <3> QED
      BY <3>2
  <2> QED
    BY <1>9, <2>1, <2>2, <2>3
<1>10. Lists(s, {v} \cup L \cup R, start, extension)
  BY <1>5, <1>7, <1>8, <1>9 DEF Lists
<1> QED
  BY <1>10 DEF s

\* The walk from a node lists what is below it in ascending order, and misses nothing of
\* what it looks for.
LEMMA VisitedCorrect ==
  ASSUME NEW nodes \in Nodes, NEW D \in Belows, NEW root \in Value \ {0},
         TreeOK(nodes, D, root), NEW start \in Nat, NEW extension \in Nat
  PROVE  Lists(Visited(nodes, start, extension, root), D[root], start, extension)
<1> DEFINE At(f, i) == IF nodes[i].value = 0 THEN <<>>
                       ELSE (IF nodes[i].value > start THEN f[nodes[i].left] ELSE <<>>)
                            \o <<nodes[i].value>>
                            \o (IF nodes[i].value < extension
                                THEN f[nodes[i].right] ELSE <<>>)
           Body(f) == [i \in Value |-> At(f, i)]
           c    == CHOOSE f : f = Body(f)
           V    == [Value -> Seq(Value)]
           step == [f \in V |-> Body(f)]
           none == [i \in Value |-> <<>>]
<1>1. \A i \in Value : /\ nodes[i].value \in Value
                       /\ nodes[i].left \in Value /\ nodes[i].right \in Value
  BY DEF Nodes, NodeType
<1>2. /\ D[0] = {} /\ 0 \in Value
      /\ D[root] \subseteq Value \ {0}
      /\ root \in D[root]
      /\ \A v \in Value \ D[root] : nodes[v].value = 0
  BY ValueFacts DEF TreeOK, SearchTree, NoNode, Node
<1>3. ASSUME NEW f \in V, NEW i \in Value PROVE At(f, i) \in Seq(Value)
  <2> DEFINE a == IF nodes[i].value > start THEN f[nodes[i].left] ELSE <<>>
             b == IF nodes[i].value < extension THEN f[nodes[i].right] ELSE <<>>
  <2>1. a \in Seq(Value) /\ b \in Seq(Value)
    BY <1>1
  <2>2. At(f, i) = IF nodes[i].value = 0 THEN <<>> ELSE a \o <<nodes[i].value>> \o b
    OBVIOUS
  <2> HIDE DEF a, b, At
  <2>3. a \o <<nodes[i].value>> \o b \in Seq(Value)
    BY <1>1, <2>1
  <2> QED
    BY <2>2, <2>3
<1>4. step \in [V -> V] /\ none \in V
  <2>1. none \in V
    OBVIOUS
  <2>2. ASSUME NEW f \in V PROVE Body(f) \in V
    <3> HIDE DEF At
    <3>1. \A i \in Value : At(f, i) \in Seq(Value)
      BY <1>3
    <3> QED
      BY <3>1
  <2> HIDE DEF V, Body, none
  <2> QED
    BY <2>1, <2>2
<1>5. PICK at \in [Nat -> V] : Rounds(at, step, none)
  <2> HIDE DEF step, none, V
  <2> QED
    BY <1>4, IterateSteps, Zenon
<1>6. /\ at[0] = none
      /\ \A n \in Nat : at[n] \in V /\ at[n + 1] = Body(at[n])
  <2>1. /\ at[0] = none
        /\ \A n \in Nat : at[n] \in V /\ at[n + 1] = step[at[n]]
    BY <1>5 DEF Rounds
  <2> HIDE DEF At, V
  <2> QED
    BY <2>1
<1>7. \A n \in Nat : \A i \in Value : at[n + 1][i] = At(at[n], i)
  <2> HIDE DEF At, V
  <2> QED
    BY <1>6
<1>8. ASSUME NEW v \in D[root]
      PROVE  /\ v \in Value \ {0} /\ nodes[v].value = v /\ v \in Nat
             /\ D[v] = {v} \cup D[nodes[v].left] \cup D[nodes[v].right]
             /\ \A w \in D[nodes[v].left] : w < v
             /\ \A w \in D[nodes[v].right] : w > v
             /\ \A k \in {nodes[v].left, nodes[v].right} :
                  /\ k \in Value /\ D[k] \subseteq D[v] \ {v} /\ D[k] \subseteq Value
                  /\ k = 0 \/ k \in D[root]
             /\ Cardinality(D[v]) \in 1 .. MaxValue
             /\ \A k \in {nodes[v].left, nodes[v].right} :
                  Cardinality(D[k]) \in 0 .. Cardinality(D[v]) - 1
  <2>0. root \in Value
    OBVIOUS
  <2> HIDE DEF At, V, step, none, Body
  <2>1. /\ v \in Value \ {0} /\ nodes[v].value = v /\ v \in Nat
        /\ D[v] = {v} \cup D[nodes[v].left] \cup D[nodes[v].right]
        /\ \A w \in D[nodes[v].left] : w < v
        /\ \A w \in D[nodes[v].right] : w > v
        /\ \A k \in {nodes[v].left, nodes[v].right} :
             /\ k \in Value
             /\ k = 0 \/ k \in D[v] \ {v}
             /\ D[k] \subseteq D[v] \ {v}
        /\ D[v] \subseteq D[root]
    BY <2>0, TreeChildren
  <2>2. /\ Cardinality(D[v]) \in 1 .. MaxValue
        /\ \A T \in SUBSET (D[v] \ {v}) : Cardinality(T) \in 0 .. Cardinality(D[v]) - 1
    BY TreeSizes
  <2> QED
    BY <1>2, <2>1, <2>2
<1> DEFINE S == {n \in Nat : \A i \in Value :
                   i \notin D[root] \/ Cardinality(D[i]) <= n
                     => at[n][i] = at[n + 1][i]}
<1>9. ASSUME NEW n \in Nat, NEW i \in Value, i \notin D[root]
      PROVE  at[n][i] = <<>>
  <2>1. CASE n = 0
    BY <1>6, <2>1
  <2>2. CASE n # 0
    <3>1. n - 1 \in Nat /\ (n - 1) + 1 = n
      BY <2>2
    <3>2. at[n][i] = At(at[n - 1], i)
      <4> HIDE DEF At, V
      <4> QED
        BY <1>7, <3>1
    <3> QED
      BY <1>2, <1>9, <3>2
  <2> QED
    BY <2>1, <2>2
<1>10. 0 \in S
  <2>1. ASSUME NEW i \in Value, i \notin D[root] \/ Cardinality(D[i]) <= 0
        PROVE  at[0][i] = at[0 + 1][i]
    <3>1. \A v \in D[root] : Cardinality(D[v]) \in 1 .. MaxValue
      BY <1>8
    <3>2. i \notin D[root]
      <4> SUFFICES ASSUME i \in D[root] PROVE FALSE
        OBVIOUS
      <4>1. Cardinality(D[i]) \in 1 .. MaxValue
        BY <3>1
      <4>2. Cardinality(D[i]) <= 0
        BY <2>1
      <4> HIDE DEF S, At, V
      <4> QED
        BY <4>1, <4>2, ValueFacts
    <3>3. at[0][i] = <<>> /\ at[0 + 1][i] = <<>>
      <4>1. 0 \in Nat /\ 0 + 1 \in Nat
        OBVIOUS
      <4> HIDE DEF At, V, step, none, Body
      <4> QED
        BY <1>9, <3>2, <4>1, Zenon
    <3> QED
      BY <3>3
  <2> QED
    BY <2>1
<1>11. ASSUME NEW n \in Nat, n \in S PROVE n + 1 \in S
  <2> SUFFICES ASSUME NEW i \in Value,
                      i \notin D[root] \/ Cardinality(D[i]) <= n + 1
               PROVE  at[n + 1][i] = at[(n + 1) + 1][i]
    OBVIOUS
  <2>1. n + 1 \in Nat /\ (n + 1) + 1 \in Nat
    OBVIOUS
  <2> HIDE DEF V, step, none, Body
  <2>2. CASE i \notin D[root]
    <3>1. at[n + 1][i] = <<>> /\ at[(n + 1) + 1][i] = <<>>
      <4> HIDE DEF At
      <4> QED
        BY <1>9, <2>1, <2>2, Zenon
    <3> QED
      BY <3>1
  <2>3. CASE i \in D[root]
    <3>1. ASSUME NEW k \in {nodes[i].left, nodes[i].right}
          PROVE  at[n][k] = at[n + 1][k]
      <4>1. /\ Cardinality(D[k]) \in 0 .. Cardinality(D[i]) - 1
            /\ Cardinality(D[i]) \in 1 .. MaxValue
            /\ k \in Value
        <5> HIDE DEF S, At
        <5> QED
          BY <1>8, <2>3
      <4>2. Cardinality(D[i]) <= n + 1
        BY <2>3
      <4>3. Cardinality(D[k]) <= n
        <5> HIDE DEF S, At
        <5> QED
          BY <4>1, <4>2, ValueFacts
      <4> QED
        BY <1>11, <4>1, <4>3
    <3>2. /\ at[n][nodes[i].left] = at[n + 1][nodes[i].left]
          /\ at[n][nodes[i].right] = at[n + 1][nodes[i].right]
      BY <3>1
    <3>3. at[n + 1][i] = At(at[n], i) /\ at[(n + 1) + 1][i] = At(at[n + 1], i)
      BY <1>7, <2>1
    <3> QED
      BY <3>2, <3>3
  <2> QED
    BY <2>2, <2>3
<1>12. Nat \subseteq S
  <2> HIDE DEF S
  <2> QED
    BY <1>10, <1>11, NatSetInduction, Zenon
<1>13. \E f : f = Body(f)
  <2> DEFINE f == at[MaxValue]
  <2>1. MaxValue \in Nat /\ MaxValue \in S
    BY <1>12, ValueFacts
  <2>2. \A i \in Value : at[MaxValue][i] = at[MaxValue + 1][i]
    <3>1. ASSUME NEW i \in D[root] PROVE Cardinality(D[i]) <= MaxValue
      <4>1. Cardinality(D[i]) \in 1 .. MaxValue
        BY <1>8
      <4> QED
        BY <4>1, ValueFacts
    <3> QED
      BY <2>1, <3>1
  <2>3. f \in V
    BY <1>6, <2>1
  <2>4. \A i \in Value : f[i] = At(f, i)
    BY <1>7, <2>1, <2>2
  <2>5. f = [i \in Value |-> f[i]]
    BY <2>3
  <2> HIDE DEF f, At
  <2>6. f = Body(f)
    BY <2>4, <2>5
  <2> QED
    BY <2>6
<1> HIDE DEF S
<1>14. c = Body(c)
  <2> HIDE DEF Body
  <2> QED
    BY <1>13
<1>15. Visited(nodes, start, extension, root) = c[root]
  BY DEF Visited
<1> HIDE DEF c
<1>16. \A i \in Value : c[i] = At(c, i)
  <2> HIDE DEF At
  <2> QED
    BY <1>14
<1> DEFINE Ok(i) == Lists(c[i], D[i], start, extension)
           T == {n \in Nat : \A v \in D[root] : Cardinality(D[v]) <= n => Ok(v)}
<1>17. 0 \in T
  <2>1. \A v \in D[root] : ~ (Cardinality(D[v]) <= 0)
    BY <1>8, ValueFacts
  <2> HIDE DEF Ok
  <2> QED
    BY <2>1
<1>18. ASSUME NEW n \in Nat, n \in T PROVE n + 1 \in T
  <2> SUFFICES ASSUME NEW v \in D[root], Cardinality(D[v]) <= n + 1
               PROVE  Ok(v)
    <3> HIDE DEF Ok
    <3> QED
      OBVIOUS
  <2> DEFINE l == nodes[v].left
             r == nodes[v].right
             a == IF v > start THEN c[l] ELSE <<>>
             b == IF v < extension THEN c[r] ELSE <<>>
  <2>1. ASSUME NEW k \in {l, r} PROVE Ok(k)
    <3>1. CASE k = 0
      <4>1. nodes[0].value = 0
        BY <1>2
      <4>2. c[0] = <<>>
        BY <1>2, <1>16, <4>1
      <4>3. Lists(<<>>, {}, start, extension)
        BY DEF Lists
      <4> QED
        BY <1>2, <3>1, <4>2, <4>3
    <3>2. CASE k \in D[root]
      <4>1. /\ Cardinality(D[k]) \in 0 .. Cardinality(D[v]) - 1
            /\ Cardinality(D[v]) \in 1 .. MaxValue
        BY <1>8, <2>1
      <4>2. Cardinality(D[k]) <= n
        BY <4>1, ValueFacts
      <4> HIDE DEF Ok
      <4> QED
        BY <1>18, <3>2, <4>2
    <3>3. k = 0 \/ k \in D[root]
      <4> HIDE DEF Ok, T, At, V, Body, step, none, a, b, l, r
      <4>0. \A j \in {nodes[v].left, nodes[v].right} : j = 0 \/ j \in D[root]
        BY <1>8
      <4>1. \A j \in {l, r} : j = 0 \/ j \in D[root]
        BY <4>0 DEF l, r
      <4> QED
        BY <2>1, <4>1
    <3> QED
      BY <3>1, <3>2, <3>3
  <2>2. Lists(c[l], D[l], start, extension) /\ Lists(c[r], D[r], start, extension)
    <3>1. Ok(l) /\ Ok(r)
      BY <2>1
    <3> QED
      BY <3>1
  <2>3. /\ v \in Value /\ v # 0 /\ nodes[v].value = v
        /\ D[l] \in SUBSET Value /\ D[r] \in SUBSET Value
        /\ \A w \in D[l] : w < v
        /\ \A w \in D[r] : w > v
        /\ D[v] = {v} \cup D[l] \cup D[r]
    BY <1>8
  <2>4. /\ v > start => Lists(a, D[l], start, extension)
        /\ ~ (v > start) => a = <<>>
        /\ v < extension => Lists(b, D[r], start, extension)
        /\ ~ (v < extension) => b = <<>>
    BY <2>2
  <2>5. c[v] = a \o <<v>> \o b
    BY <1>16, <2>3
  <2> HIDE DEF a, b, l, r
  <2>6. Lists(a \o <<v>> \o b, {v} \cup D[l] \cup D[r], start, extension)
    BY <2>3, <2>4, JoinLists, ZenonT(60)
  <2> QED
    BY <2>3, <2>5, <2>6
<1>19. Nat \subseteq T
  <2> HIDE DEF T
  <2> QED
    BY <1>17, <1>18, NatSetInduction, Zenon
<1>20. Ok(root)
  <2>1. Cardinality(D[root]) \in Nat
    <3>1. Cardinality(D[root]) \in 1 .. MaxValue
      BY <1>2, <1>8
    <3> QED
      BY <3>1, ValueFacts
  <2>2. Cardinality(D[root]) \in T
    BY <1>19, <2>1
  <2> HIDE DEF Ok
  <2> QED
    BY <1>2, <2>1, <2>2, SMTT(60)
<1> QED
  BY <1>15, <1>20

-----------------------------------------------------------------------------
\* s is in ascending order as far as it has entries after b.
AscendingAfter(s, b) == \A i, j \in 1 .. Len(s) : i < j /\ s[j] > b => s[i] < s[j]

\* L has got those of the first k values that lie in range, besides entries up to b.
Pushed(L, values, k, range, b) ==
  /\ L \in Seq(Value)
  /\ \A i \in 1 .. Len(L) :
       L[i] <= b \/ \E m \in 1 .. k : values[m] \in range /\ L[i] = values[m]
  /\ \A m \in 1 .. k : values[m] \in range => \E i \in 1 .. Len(L) : L[i] = values[m]
  /\ AscendingAfter(L, b)

\* Pushing the next value.
LEMMA PushNext ==
  ASSUME NEW values \in Seq(Value), NEW k \in Nat, k + 1 \in 1 .. Len(values),
         \A i, j \in 1 .. Len(values) : i < j => values[i] < values[j],
         NEW range, NEW b \in Nat, NEW L, Pushed(L, values, k, range, b),
         NEW L2, L2 = IF values[k + 1] \in range THEN Push(L, values[k + 1]) ELSE L
  PROVE  Pushed(L2, values, k + 1, range, b)
<1> DEFINE v == values[k + 1]
<1>1. /\ L \in Seq(Value) /\ Len(L) \in Nat
      /\ \A i \in 1 .. Len(L) :
           L[i] <= b \/ \E m \in 1 .. k : values[m] \in range /\ L[i] = values[m]
      /\ \A m \in 1 .. k : values[m] \in range => \E i \in 1 .. Len(L) : L[i] = values[m]
      /\ \A i, j \in 1 .. Len(L) : i < j /\ L[j] > b => L[i] < L[j]
  BY DEF Pushed, AscendingAfter
<1>2. /\ v \in Value /\ v \in Nat
      /\ \A m \in 1 .. k : values[m] < v
      /\ \A m \in 1 .. k + 1 : m \in 1 .. k \/ m = k + 1
      /\ 1 .. k \subseteq 1 .. k + 1 /\ k + 1 \in 1 .. k + 1
      /\ \A i \in 1 .. Len(L) : L[i] \in Nat
  <2>1. v \in Value
    OBVIOUS
  <2>2. ASSUME NEW m \in 1 .. k PROVE values[m] < v
    <3>1. m \in 1 .. Len(values) /\ m < k + 1
      BY <2>2
    <3> QED
      BY <3>1
  <2>3. \A i \in 1 .. Len(L) : L[i] \in Value
    BY <1>1
  <2>4. /\ \A m \in 1 .. k + 1 : m \in 1 .. k \/ m = k + 1
        /\ 1 .. k \subseteq 1 .. k + 1 /\ k + 1 \in 1 .. k + 1
    OBVIOUS
  <2>5. v \in Nat /\ \A i \in 1 .. Len(L) : L[i] \in Nat
    BY <2>1, <2>3, ValueFacts
  <2> HIDE DEF v
  <2> QED
    BY <2>1, <2>2, <2>4, <2>5
<1>3. CASE L2 = L /\ (v \in range => \E i \in 1 .. Len(L) : L[i] = v)
  <2>1. \A i \in 1 .. Len(L) :
          L[i] <= b \/ \E m \in 1 .. k + 1 : values[m] \in range /\ L[i] = values[m]
    BY <1>1, <1>2
  <2>2. ASSUME NEW m \in 1 .. k + 1, values[m] \in range
        PROVE  \E i \in 1 .. Len(L) : L[i] = values[m]
    BY <1>1, <1>2, <1>3, <2>2
  <2> QED
    BY <1>1, <1>3, <2>1, <2>2, SMTT(60) DEF Pushed, AscendingAfter
<1>4. CASE L2 = Append(L, v) /\ v \in range
  <2>1. /\ L2 \in Seq(Value) /\ Len(L2) = Len(L) + 1 /\ L2[Len(L) + 1] = v
        /\ \A i \in 1 .. Len(L) : L2[i] = L[i]
        /\ \A i \in 1 .. Len(L2) : i \in 1 .. Len(L) \/ i = Len(L) + 1
        /\ 1 .. Len(L) \subseteq 1 .. Len(L2) /\ Len(L) + 1 \in 1 .. Len(L2)
    <3> HIDE DEF v
    <3>1. L \in Seq(Value) /\ Len(L) \in Nat /\ v \in Value /\ L2 = Append(L, v)
      BY <1>1, <1>2, <1>4
    <3>2. /\ L2 \in Seq(Value) /\ Len(L2) = Len(L) + 1 /\ L2[Len(L) + 1] = v
          /\ \A i \in 1 .. Len(L) : L2[i] = L[i]
      <4>1. L2 \in Seq(Value) /\ Len(L2) = Len(L) + 1
        BY <3>1, SMTT(60)
      <4>2. L2[Len(L) + 1] = v
        BY <3>1
      <4>3. \A i \in 1 .. Len(L) : L2[i] = L[i]
        BY <3>1, SMTT(60)
      <4> QED
        BY <4>1, <4>2, <4>3
    <3>3. /\ \A i \in 1 .. Len(L2) : i \in 1 .. Len(L) \/ i = Len(L) + 1
          /\ 1 .. Len(L) \subseteq 1 .. Len(L2) /\ Len(L) + 1 \in 1 .. Len(L2)
      BY <3>1, <3>2
    <3> QED
      BY <3>2, <3>3
  <2> HIDE DEF v
  <2>2. ASSUME NEW i \in 1 .. Len(L2)
        PROVE  L2[i] <= b \/ \E m \in 1 .. k + 1 : values[m] \in range /\ L2[i] = values[m]
    <3>1. CASE i \in 1 .. Len(L)
      BY <1>1, <1>2, <2>1, <3>1
    <3>2. CASE i = Len(L) + 1
      BY <1>2, <1>4, <2>1, <3>2 DEF v
    <3> QED
      BY <2>1, <3>1, <3>2
  <2>3. ASSUME NEW m \in 1 .. k + 1, values[m] \in range
        PROVE  \E i \in 1 .. Len(L2) : L2[i] = values[m]
    <3>1. CASE m \in 1 .. k
      <4>1. PICK i \in 1 .. Len(L) : L[i] = values[m]
        BY <1>1, <2>3, <3>1
      <4> QED
        BY <2>1, <4>1
    <3>2. CASE m = k + 1
      BY <2>1, <3>2 DEF v
    <3> QED
      BY <1>2, <2>3, <3>1, <3>2
  <2>4. ASSUME NEW i \in 1 .. Len(L2), NEW j \in 1 .. Len(L2), i < j, L2[j] > b
        PROVE  L2[i] < L2[j]
    <3>1. i \in 1 .. Len(L) /\ L2[i] = L[i] /\ L[i] \in Nat
      BY <1>1, <1>2, <2>1, <2>4
    <3>2. CASE j \in 1 .. Len(L)
      BY <1>1, <2>1, <2>4, <3>1, <3>2
    <3>3. CASE j = Len(L) + 1
      <4>1. L2[j] = v /\ v > b
        BY <2>1, <2>4, <3>3
      <4>2. L[i] < v
        <5>1. CASE L[i] <= b
          BY <1>2, <3>1, <4>1, <5>1
        <5>2. CASE \E m \in 1 .. k : values[m] \in range /\ L[i] = values[m]
          BY <1>2, <5>2
        <5> QED
          BY <1>1, <3>1, <5>1, <5>2
      <4> QED
        BY <3>1, <4>1, <4>2
    <3> QED
      BY <2>1, <3>2, <3>3
  <2> QED
    BY <2>1, <2>2, <2>3, <2>4 DEF Pushed, AscendingAfter
<1>5. \/ L2 = L /\ (v \in range => \E i \in 1 .. Len(L) : L[i] = v)
      \/ L2 = Append(L, v) /\ v \in range
  <2>1. CASE v \notin range
    BY <2>1
  <2>2. CASE v \in range /\ L # <<>> /\ L[Len(L)] = v
    <3>1. L2 = L
      BY <2>2 DEF Push
    <3>2. Len(L) \in 1 .. Len(L)
      BY <1>1, <2>2
    <3> QED
      BY <2>2, <3>1, <3>2
  <2>3. CASE v \in range /\ ~ (L # <<>> /\ L[Len(L)] = v)
    <3>1. L2 = Append(L, v)
      BY <2>3 DEF Push
    <3> QED
      BY <2>3, <3>1
  <2> QED
    BY <2>1, <2>2, <2>3
<1> QED
  BY <1>3, <1>4, <1>5

\* Pushing all the values.
LEMMA PushAllCorrect ==
  ASSUME NEW list \in Seq(Value), NEW values \in Seq(Value),
         \A i, j \in 1 .. Len(values) : i < j => values[i] < values[j],
         NEW range, NEW b \in Nat, \A i \in 1 .. Len(list) : list[i] <= b
  PROVE  Pushed(PushAll(list, values, range), values, Len(values), range, b)
<1> DEFINE Body(p) == [k \in Nat |->
              IF k = 0 THEN list
              ELSE IF values[k] \in range THEN Push(p[k - 1], values[k])
              ELSE p[k - 1]]
           c == CHOOSE p : p = Body(p)
           X == Value \cup {values[k] : k \in Nat}
           V == Seq(X)
           g == [k \in Nat |-> [l \in V |->
                  IF values[k + 1] \in range THEN Push(l, values[k + 1]) ELSE l]]
<1>1. list \in V /\ g \in [Nat -> [V -> V]]
  <2>1. list \in V
    <3> HIDE DEF X
    <3>1. Value \subseteq X
      BY DEF X
    <3> QED
      BY <3>1
  <2>2. ASSUME NEW k \in Nat, NEW l \in V
        PROVE  (IF values[k + 1] \in range THEN Push(l, values[k + 1]) ELSE l) \in V
    <3>1. values[k + 1] \in X
      <4>1. k + 1 \in Nat
        OBVIOUS
      <4> QED
        BY <4>1
    <3> HIDE DEF X
    <3>2. Append(l, values[k + 1]) \in V
      BY <3>1
    <3> HIDE DEF V
    <3> QED
      BY <3>2 DEF Push
  <2> HIDE DEF V
  <2> QED
    BY <2>1, <2>2
<1>2. PICK h \in [Nat -> V] : Follows(h, list, g)
  <2> HIDE DEF V, g
  <2> QED
    BY <1>1, RecursionExists, Zenon
<1>3. /\ h[0] = list
      /\ \A n \in Nat : h[n + 1] = IF values[n + 1] \in range
                                   THEN Push(h[n], values[n + 1]) ELSE h[n]
  <2>1. h[0] = list /\ \A n \in Nat : h[n + 1] = g[n][h[n]] /\ h[n] \in V
    BY <1>2 DEF Follows
  <2> HIDE DEF V
  <2> QED
    BY <2>1
<1> HIDE DEF V, g, X
<1>4. h = Body(h)
  <2> SUFFICES ASSUME NEW k \in Nat, k # 0
               PROVE  h[k] = IF values[k] \in range THEN Push(h[k - 1], values[k])
                             ELSE h[k - 1]
    BY <1>3
  <2>1. k - 1 \in Nat /\ (k - 1) + 1 = k
    OBVIOUS
  <2>2. h[(k - 1) + 1] = IF values[(k - 1) + 1] \in range
                         THEN Push(h[k - 1], values[(k - 1) + 1]) ELSE h[k - 1]
    BY <1>3, <2>1
  <2> QED
    BY <2>1, <2>2
<1>5. c = Body(c)
  <2> HIDE DEF Body
  <2> QED
    BY <1>4
<1>6. PushAll(list, values, range) = c[Len(values)]
  BY DEF PushAll
<1> HIDE DEF c
<1>7. /\ c[0] = list
      /\ \A n \in Nat : c[n + 1] = IF values[n + 1] \in range
                                   THEN Push(c[n], values[n + 1]) ELSE c[n]
  <2>1. \A k \in Nat : c[k] = IF k = 0 THEN list
                              ELSE IF values[k] \in range THEN Push(c[k - 1], values[k])
                              ELSE c[k - 1]
    BY <1>5
  <2>2. ASSUME NEW n \in Nat
        PROVE  c[n + 1] = IF values[n + 1] \in range
                          THEN Push(c[n], values[n + 1]) ELSE c[n]
    <3>1. n + 1 \in Nat /\ n + 1 # 0 /\ (n + 1) - 1 = n
      OBVIOUS
    <3>2. c[n + 1] = IF values[n + 1] \in range
                     THEN Push(c[(n + 1) - 1], values[n + 1]) ELSE c[(n + 1) - 1]
      BY <2>1, <3>1
    <3> QED
      BY <3>1, <3>2
  <2> QED
    BY <2>1, <2>2
<1> HIDE DEF Body
<1> DEFINE S == {n \in Nat : n <= Len(values) => Pushed(c[n], values, n, range, b)}
<1>8. 0 \in S
  <2>1. AscendingAfter(list, b)
    <3>1. \A i \in 1 .. Len(list) : list[i] \in Nat
      <4>1. \A i \in 1 .. Len(list) : list[i] \in Value
        OBVIOUS
      <4> QED
        BY <4>1, ValueFacts
    <3> QED
      BY <3>1 DEF AscendingAfter
  <2>2. Pushed(list, values, 0, range, b)
    BY <2>1 DEF Pushed
  <2> QED
    BY <1>7, <2>2
<1>9. ASSUME NEW n \in Nat, n \in S PROVE n + 1 \in S
  <2> SUFFICES ASSUME n + 1 <= Len(values)
               PROVE  Pushed(c[n + 1], values, n + 1, range, b)
    OBVIOUS
  <2>1. Len(values) \in Nat
    OBVIOUS
  <2>2. n <= Len(values) /\ n + 1 \in 1 .. Len(values)
    BY <2>1
  <2>3. Pushed(c[n], values, n, range, b)
    BY <1>9, <2>2
  <2>4. c[n + 1] = IF values[n + 1] \in range THEN Push(c[n], values[n + 1]) ELSE c[n]
    BY <1>7
  <2> HIDE DEF S
  <2> QED
    BY <2>2, <2>3, <2>4, PushNext, ZenonT(60)
<1>10. Nat \subseteq S
  <2> HIDE DEF S
  <2> QED
    BY <1>8, <1>9, NatSetInduction, Zenon
<1>11. Len(values) \in Nat /\ Len(values) \in S
  BY <1>10
<1> QED
  BY <1>6, <1>11

\* The entries of a list that After keeps.
Kept(R, list, k, b) ==
  /\ R \in Seq(Value)
  /\ \A i \in 1 .. Len(R) : R[i] > b /\ \E m \in 1 .. k : R[i] = list[m]
  /\ \A m \in 1 .. k : list[m] > b => \E i \in 1 .. Len(R) : R[i] = list[m]
  /\ \A i, j \in 1 .. Len(R) : i < j => R[i] < R[j]

\* Keeping the next entry, or not.
LEMMA KeepNext ==
  ASSUME NEW list \in Seq(Value), NEW k \in Nat, k + 1 \in 1 .. Len(list),
         NEW b \in Nat, AscendingAfter(list, b), NEW R, Kept(R, list, k, b),
         NEW R2, R2 = IF list[k + 1] > b THEN Append(R, list[k + 1]) ELSE R
  PROVE  Kept(R2, list, k + 1, b)
<1> DEFINE v == list[k + 1]
<1>1. /\ R \in Seq(Value) /\ Len(R) \in Nat
      /\ \A i \in 1 .. Len(R) : R[i] > b /\ \E m \in 1 .. k : R[i] = list[m]
      /\ \A m \in 1 .. k : list[m] > b => \E i \in 1 .. Len(R) : R[i] = list[m]
      /\ \A i, j \in 1 .. Len(R) : i < j => R[i] < R[j]
  BY DEF Kept
<1>2. /\ v \in Value
      /\ v > b => \A m \in 1 .. k : list[m] < v
      /\ \A m \in 1 .. k + 1 : m \in 1 .. k \/ m = k + 1
      /\ 1 .. k \subseteq 1 .. k + 1 /\ k + 1 \in 1 .. k + 1
  <2>1. v \in Value
    OBVIOUS
  <2>2. ASSUME v > b, NEW m \in 1 .. k PROVE list[m] < v
    <3>1. m \in 1 .. Len(list) /\ m < k + 1
      BY <2>2
    <3> QED
      BY <2>2, <3>1 DEF AscendingAfter
  <2> HIDE DEF v
  <2> QED
    BY <2>1, <2>2
<1>3. CASE ~ (v > b)
  <2>1. R2 = R
    BY <1>3
  <2>2. \A i \in 1 .. Len(R) : R[i] > b /\ \E m \in 1 .. k + 1 : R[i] = list[m]
    BY <1>1, <1>2
  <2>3. ASSUME NEW m \in 1 .. k + 1, list[m] > b
        PROVE  \E i \in 1 .. Len(R) : R[i] = list[m]
    BY <1>1, <1>2, <1>3, <2>3
  <2> QED
    BY <1>1, <2>1, <2>2, <2>3 DEF Kept
<1>4. CASE v > b
  <2>0. R2 = Append(R, v)
    BY <1>4
  <2>1. /\ R2 \in Seq(Value) /\ Len(R2) = Len(R) + 1 /\ R2[Len(R) + 1] = v
        /\ \A i \in 1 .. Len(R) : R2[i] = R[i]
        /\ \A i \in 1 .. Len(R2) : i \in 1 .. Len(R) \/ i = Len(R) + 1
        /\ 1 .. Len(R) \subseteq 1 .. Len(R2) /\ Len(R) + 1 \in 1 .. Len(R2)
    <3> HIDE DEF v
    <3> QED
      BY <1>1, <1>2, <2>0
  <2> HIDE DEF v
  <2>2. ASSUME NEW i \in 1 .. Len(R2)
        PROVE  R2[i] > b /\ \E m \in 1 .. k + 1 : R2[i] = list[m]
    <3>1. CASE i \in 1 .. Len(R)
      BY <1>1, <1>2, <2>1, <3>1
    <3>2. CASE i = Len(R) + 1
      BY <1>2, <1>4, <2>1, <3>2 DEF v
    <3> QED
      BY <2>1, <3>1, <3>2
  <2>3. ASSUME NEW m \in 1 .. k + 1, list[m] > b
        PROVE  \E i \in 1 .. Len(R2) : R2[i] = list[m]
    <3>1. CASE m \in 1 .. k
      <4>1. PICK i \in 1 .. Len(R) : R[i] = list[m]
        BY <1>1, <2>3, <3>1
      <4> QED
        BY <2>1, <4>1
    <3>2. CASE m = k + 1
      BY <2>1, <3>2 DEF v
    <3> QED
      BY <1>2, <2>3, <3>1, <3>2
  <2>4. ASSUME NEW i \in 1 .. Len(R2), NEW j \in 1 .. Len(R2), i < j
        PROVE  R2[i] < R2[j]
    <3>1. i \in 1 .. Len(R) /\ R2[i] = R[i]
      BY <1>1, <2>1, <2>4
    <3>2. CASE j \in 1 .. Len(R)
      BY <1>1, <2>1, <2>4, <3>1, <3>2
    <3>3. CASE j = Len(R) + 1
      BY <1>1, <1>2, <1>4, <2>1, <3>1, <3>3
    <3> QED
      BY <2>1, <3>2, <3>3
  <2> QED
    BY <2>1, <2>2, <2>3, <2>4 DEF Kept
<1> QED
  BY <1>3, <1>4

\* The loop skips the entries up to b, and meets each of the others in order.
LEMMA AfterCorrect ==
  ASSUME NEW list \in Seq(Value), NEW b \in Nat, AscendingAfter(list, b)
  PROVE  Kept(After(list, b), list, Len(list), b)
<1> DEFINE Body(p) == [k \in Nat |->
              IF k = 0 THEN <<>>
              ELSE IF list[k] > b THEN Append(p[k - 1], list[k])
              ELSE p[k - 1]]
           c == CHOOSE p : p = Body(p)
           X == {list[k] : k \in Nat}
           V == Seq(X)
           g == [k \in Nat |-> [l \in V |->
                  IF list[k + 1] > b THEN Append(l, list[k + 1]) ELSE l]]
<1>1. <<>> \in V /\ g \in [Nat -> [V -> V]]
  <2>1. <<>> \in V
    OBVIOUS
  <2>2. ASSUME NEW k \in Nat, NEW l \in V
        PROVE  (IF list[k + 1] > b THEN Append(l, list[k + 1]) ELSE l) \in V
    <3>1. list[k + 1] \in X
      <4>1. k + 1 \in Nat
        OBVIOUS
      <4> QED
        BY <4>1
    <3> HIDE DEF X
    <3>2. Append(l, list[k + 1]) \in V
      BY <3>1
    <3> HIDE DEF V
    <3> QED
      BY <3>2
  <2> HIDE DEF V
  <2> QED
    BY <2>1, <2>2
<1>2. PICK h \in [Nat -> V] : Follows(h, <<>>, g)
  <2> HIDE DEF V, g
  <2> QED
    BY <1>1, RecursionExists, Zenon
<1>3. /\ h[0] = <<>>
      /\ \A n \in Nat : h[n + 1] = IF list[n + 1] > b
                                   THEN Append(h[n], list[n + 1]) ELSE h[n]
  <2>1. h[0] = <<>> /\ \A n \in Nat : h[n + 1] = g[n][h[n]] /\ h[n] \in V
    BY <1>2 DEF Follows
  <2> HIDE DEF V
  <2> QED
    BY <2>1
<1> HIDE DEF V, g, X
<1>4. h = Body(h)
  <2> SUFFICES ASSUME NEW k \in Nat, k # 0
               PROVE  h[k] = IF list[k] > b THEN Append(h[k - 1], list[k])
                             ELSE h[k - 1]
    BY <1>3
  <2>1. k - 1 \in Nat /\ (k - 1) + 1 = k
    OBVIOUS
  <2>2. h[(k - 1) + 1] = IF list[(k - 1) + 1] > b
                         THEN Append(h[k - 1], list[(k - 1) + 1]) ELSE h[k - 1]
    BY <1>3, <2>1
  <2> QED
    BY <2>1, <2>2
<1>5. c = Body(c)
  <2> HIDE DEF Body
  <2> QED
    BY <1>4
<1>6. After(list, b) = c[Len(list)]
  BY DEF After
<1> HIDE DEF c
<1>7. /\ c[0] = <<>>
      /\ \A n \in Nat : c[n + 1] = IF list[n + 1] > b
                                   THEN Append(c[n], list[n + 1]) ELSE c[n]
  <2>1. \A k \in Nat : c[k] = IF k = 0 THEN <<>>
                              ELSE IF list[k] > b THEN Append(c[k - 1], list[k])
                              ELSE c[k - 1]
    BY <1>5
  <2>2. ASSUME NEW n \in Nat
        PROVE  c[n + 1] = IF list[n + 1] > b
                          THEN Append(c[n], list[n + 1]) ELSE c[n]
    <3>1. n + 1 \in Nat /\ n + 1 # 0 /\ (n + 1) - 1 = n
      OBVIOUS
    <3>2. c[n + 1] = IF list[n + 1] > b
                     THEN Append(c[(n + 1) - 1], list[n + 1]) ELSE c[(n + 1) - 1]
      BY <2>1, <3>1
    <3> QED
      BY <3>1, <3>2
  <2> QED
    BY <2>1, <2>2
<1> HIDE DEF Body
<1> DEFINE S == {n \in Nat : n <= Len(list) => Kept(c[n], list, n, b)}
<1>8. 0 \in S
  <2>1. Kept(<<>>, list, 0, b)
    BY DEF Kept
  <2> QED
    BY <1>7, <2>1
<1>9. ASSUME NEW n \in Nat, n \in S PROVE n + 1 \in S
  <2> SUFFICES ASSUME n + 1 <= Len(list)
               PROVE  Kept(c[n + 1], list, n + 1, b)
    OBVIOUS
  <2>1. Len(list) \in Nat
    OBVIOUS
  <2>2. n <= Len(list) /\ n + 1 \in 1 .. Len(list)
    BY <2>1
  <2>3. Kept(c[n], list, n, b)
    BY <1>9, <2>2
  <2>4. c[n + 1] = IF list[n + 1] > b THEN Append(c[n], list[n + 1]) ELSE c[n]
    BY <1>7
  <2> HIDE DEF S
  <2> QED
    BY <2>2, <2>3, <2>4, KeepNext, ZenonT(60)
<1>10. Nat \subseteq S
  <2> HIDE DEF S
  <2> QED
    BY <1>8, <1>9, NatSetInduction, Zenon
<1>11. Len(list) \in Nat /\ Len(list) \in S
  BY <1>10
<1> QED
  BY <1>6, <1>11

-----------------------------------------------------------------------------
\* The last expiry block at or before a block: monotonic, and less than one interval back.
LEMMA LastExpiryFacts ==
  /\ \A b \in Nat : /\ LastExpiryBlock(b) \in Nat /\ LastExpiryBlock(b) <= b
                    /\ b < LastExpiryBlock(b) + orderBlockInterval
                    /\ LastExpiryBlock(b) = 0 => b < orderBlockInterval
  /\ \A b, n \in Nat : b <= n => LastExpiryBlock(b) <= LastExpiryBlock(n)
<1> DEFINE k == orderBlockInterval
<1>1. k \in Nat \ {0}
  BY IntervalAssumption
<1>2. ASSUME NEW b \in Nat
      PROVE  \E q \in Nat : \E r \in Nat :
               b = k * q + r /\ r < k /\ k * q \in Nat /\ LastExpiryBlock(b) = k * q
  <2> DEFINE q == b \div k
             r == b % k
  <2>1. q \in Nat /\ r \in Nat /\ r < k /\ b = k * q + r
    BY <1>1
  <2>2. LastExpiryBlock(b) = b - r
    BY DEF LastExpiryBlock
  <2> HIDE DEF q, r, k
  <2>3. k * q \in Nat
    BY <1>1, <2>1
  <2>4. LastExpiryBlock(b) = k * q
    BY <2>1, <2>2, <2>3
  <2> QED
    BY <2>1, <2>3, <2>4
<1> HIDE DEF k
<1>3. ASSUME NEW b \in Nat
      PROVE  /\ LastExpiryBlock(b) \in Nat /\ LastExpiryBlock(b) <= b
             /\ b < LastExpiryBlock(b) + k
             /\ LastExpiryBlock(b) = 0 => b < k
  BY <1>1, <1>2
<1>4. ASSUME NEW b \in Nat, NEW n \in Nat, b <= n
      PROVE  LastExpiryBlock(b) <= LastExpiryBlock(n)
  <2>1. PICK q \in Nat, r \in Nat :
          b = k * q + r /\ r < k /\ k * q \in Nat /\ LastExpiryBlock(b) = k * q
    BY <1>2
  <2>2. PICK p \in Nat, s \in Nat :
          n = k * p + s /\ s < k /\ k * p \in Nat /\ LastExpiryBlock(n) = k * p
    BY <1>2
  <2>3. CASE q <= p
    <3>1. k * q <= k * p
      BY <1>1, <2>3
    <3> QED
      BY <2>1, <2>2, <3>1
  <2>4. CASE q >= p + 1
    <3>1. k * q >= k * (p + 1) /\ k * (p + 1) = k * p + k
      BY <1>1, <2>4
    <3>2. FALSE
      BY <1>1, <1>4, <2>1, <2>2, <3>1
    <3> QED
      BY <3>2
  <2> QED
    BY <2>3, <2>4
<1> QED
  BY <1>3, <1>4 DEF k

\* What an execution does to the tree t, with values D, whose list entries are at most b.
Processed(t, D, b, start, end, t2, E) ==
  /\ t2 \in Trees
  /\ TreeOK(t2.nodes, E, t2.root)
  /\ E[t2.root] = D[t.root] \ (start .. end)
  /\ \A r \in Value : \A i \in 1 .. Len(t2.rootToList[r]) :
       t2.rootToList[r][i] <= b \/ t2.rootToList[r][i] <= end
  /\ AscendingAfter(GetExpiriesList(t2), b)
  /\ \A i \in 1 .. Len(GetExpiriesList(t2)) :
       \/ GetExpiriesList(t2)[i] <= b
       \/ GetExpiriesList(t2)[i] \in D[t.root] \cap (start .. end)
  /\ \A v \in D[t.root] \cap (start .. end) :
       \E i \in 1 .. Len(GetExpiriesList(t2)) : GetExpiriesList(t2)[i] = v
  /\ \A v \in E[t2.root] : v <= end + TIME_EXTENSION =>
       \E i \in 1 .. Len(GetFutureExpiriesList(t2)) : GetFutureExpiriesList(t2)[i] = v

\* processExpiriesListNTrimTree lists what it takes out of the tree, and what comes next.
LEMMA ProcessCorrect ==
  ASSUME NEW t \in Trees, NEW D \in Belows, TreeOK(t.nodes, D, t.root),
         NEW b \in Nat, NEW start \in Nat, NEW end \in Value,
         start <= end, \A v \in D[t.root] : start <= v,
         \A r \in Value : \A i \in 1 .. Len(t.rootToList[r]) : t.rootToList[r][i] <= b
  PROVE  \E E \in Belows :
           Processed(t, D, b, start, end, ProcessExpiriesListNTrimTree(t, start, end), E)
<1>0. /\ t.root \in Value /\ t.rootLast \in Value /\ t.nodes \in Nodes
      /\ t.rootToList \in [Value -> Seq(Value)]
      /\ t.futureExpiries \in [Value -> Seq(Value)]
  BY DEF Trees
<1>1. end \in Nat /\ TIME_EXTENSION \in Nat \ {0} /\ end + TIME_EXTENSION \in Nat
  BY ValueFacts, TreeAssumption
<1>2. CASE t.root = 0
  <2>1. ProcessExpiriesListNTrimTree(t, start, end) = t
    BY <1>2 DEF ProcessExpiriesListNTrimTree
  <2>2. D[t.root] = {}
    BY <1>0, <1>2, NothingAtZero
  <2>3. GetExpiriesList(t) = t.rootToList[t.rootLast]
    BY DEF GetExpiriesList
  <2>4. \A i \in 1 .. Len(GetExpiriesList(t)) :
          GetExpiriesList(t)[i] <= b /\ GetExpiriesList(t)[i] \in Nat
    <3>1. GetExpiriesList(t) \in Seq(Value)
      BY <1>0, <2>3
    <3>2. \A i \in 1 .. Len(GetExpiriesList(t)) : GetExpiriesList(t)[i] \in Value
      BY <3>1
    <3> QED
      BY <1>0, <2>3, <3>2, ValueFacts
  <2>5. AscendingAfter(GetExpiriesList(t), b)
    BY <2>4 DEF AscendingAfter
  <2>6. Processed(t, D, b, start, end, t, D)
    BY <2>2, <2>4, <2>5 DEF Processed
  <2> QED
    BY <2>1, <2>6
<1>3. CASE t.root # 0
  <2> DEFINE ext    == end + TIME_EXTENSION
             values == Visited(t.nodes, start, ext, t.root)
             l0     == IF t.root = t.rootLast THEN <<>> ELSE t.rootToList[t.root]
             l1     == PushAll(l0, values, start .. end)
             f1     == PushAll(<<end>>, values, end + 1 .. ext)
             lists  == [t.rootToList EXCEPT ![t.root] = l1]
             fut    == [t.futureExpiries EXCEPT ![t.root] = f1]
             t1     == [t EXCEPT !.rootLast = t.root, !.rootToList = lists,
                                 !.futureExpiries = fut]
  <2>1. Lists(values, D[t.root], start, ext)
    <3>1. t.nodes \in Nodes /\ t.root \in Value \ {0} /\ ext \in Nat
      BY <1>0, <1>1, <1>3
    <3> HIDE DEF ext
    <3> QED
      BY <3>1, VisitedCorrect, ZenonT(60)
  <2>2. /\ values \in Seq(Value)
        /\ \A i, j \in 1 .. Len(values) : i < j => values[i] < values[j]
        /\ \A i \in 1 .. Len(values) : values[i] \in D[t.root]
        /\ \A w \in D[t.root] : start <= w /\ w <= ext =>
             \E i \in 1 .. Len(values) : values[i] = w
    BY <2>1 DEF Lists
  <2>3. ProcessExpiriesListNTrimTree(t, start, end) = Trim(t1, start, end)
    <3> DEFINE fresh == [t EXCEPT !.futureExpiries[t.root] = <<end>>,
                                  !.rootToList[t.root] =
                                    IF t.root = t.rootLast THEN <<>> ELSE @]
               listed == ReturnListHelper(fresh, start, end, t.root, ext)
    <3>1. /\ fresh.root = t.root /\ fresh.nodes = t.nodes
          /\ fresh.rootToList = [t.rootToList EXCEPT ![t.root] = l0]
          /\ fresh.futureExpiries = [t.futureExpiries EXCEPT ![t.root] = <<end>>]
          /\ fresh = [t EXCEPT !.futureExpiries = fresh.futureExpiries,
                               !.rootToList = fresh.rootToList]
      BY <1>0 DEF Trees
    <3>2. listed = [fresh EXCEPT
                      !.rootToList[fresh.root] = PushAll(@, values, start .. end),
                      !.futureExpiries[fresh.root] = PushAll(@, values, end + 1 .. ext)]
      <4>1. ~ (start > end \/ end >= ext)
        BY <1>1
      <4>2. Visited(fresh.nodes, start, ext, t.root) = values
        BY <3>1
      <4> HIDE DEF values, fresh
      <4> QED
        BY <4>1, <4>2 DEF ReturnListHelper
    <3>3. ProcessExpiriesListNTrimTree(t, start, end)
            = Trim([listed EXCEPT !.rootLast = t.root], start, end)
      BY <1>3 DEF ProcessExpiriesListNTrimTree
    <3>4. [listed EXCEPT !.rootLast = t.root] = t1
      <4> HIDE DEF values, fresh, listed, l0, ext
      <4>1. fresh.rootToList[t.root] = l0 /\ fresh.futureExpiries[t.root] = <<end>>
        BY <1>0, <3>1
      <4>2. listed = [fresh EXCEPT !.rootToList[t.root] = l1,
                                   !.futureExpiries[t.root] = f1]
        <5> HIDE DEF fresh, l1, f1
        <5>1. fresh.root = t.root
          BY <3>1
        <5> QED
          BY <3>2, <4>1, <5>1 DEF l1, f1
      <4> HIDE DEF l1, f1
      <4>3. /\ [fresh.rootToList EXCEPT ![t.root] = l1] = lists
            /\ [fresh.futureExpiries EXCEPT ![t.root] = f1] = fut
        BY <1>0, <3>1
      <4> HIDE DEF lists, fut
      <4> QED
        BY <1>0, <3>1, <4>2, <4>3 DEF Trees
    <3> QED
      BY <3>3, <3>4
  <2> HIDE DEF values
  <2>4. l0 \in Seq(Value) /\ \A i \in 1 .. Len(l0) : l0[i] <= b
    BY <1>0, SMTT(60)
  <2> HIDE DEF l0
  <2>5. Pushed(l1, values, Len(values), start .. end, b)
    BY <2>2, <2>4, PushAllCorrect, ZenonT(60)
  <2>6. Pushed(f1, values, Len(values), end + 1 .. ext, end)
    <3>1. <<end>> \in Seq(Value) /\ \A i \in 1 .. Len(<<end>>) : <<end>>[i] <= end
      BY <1>1
    <3> QED
      BY <1>1, <2>2, <3>1, PushAllCorrect, ZenonT(60)
  <2> HIDE DEF l1, f1
  <2>7. l1 \in Seq(Value) /\ f1 \in Seq(Value)
    BY <2>5, <2>6 DEF Pushed
  <2>8. /\ lists \in [Value -> Seq(Value)] /\ fut \in [Value -> Seq(Value)]
        /\ lists[t.root] = l1 /\ fut[t.root] = f1
        /\ \A r \in Value \ {t.root} : lists[r] = t.rootToList[r]
    BY <1>0, <2>7
  <2> HIDE DEF lists, fut
  <2>9. /\ t1 \in Trees /\ t1.root = t.root /\ t1.nodes = t.nodes /\ t1.rootLast = t.root
        /\ t1.rootToList = lists /\ t1.futureExpiries = fut
    BY <1>0, <2>8 DEF Trees
  <2> HIDE DEF t1
  <2>10. PICK E \in Belows : TrimmedTree(t1, D, start, end, Trim(t1, start, end), E)
    BY <1>1, <2>9, TrimCorrect
  <2> DEFINE t2 == Trim(t1, start, end)
  <2>11. /\ t2 \in Trees /\ TreeOK(t2.nodes, E, t2.root)
         /\ E[t2.root] = D[t.root] \ (start .. end)
         /\ t2.rootToList = lists /\ GetExpiriesList(t2) = l1
         /\ GetFutureExpiriesList(t2) = f1
    BY <2>8, <2>9, <2>10 DEF TrimmedTree, GetExpiriesList, GetFutureExpiriesList
  <2> HIDE DEF t2
  <2>12. ASSUME NEW i \in 1 .. Len(l1)
         PROVE  l1[i] <= b \/ l1[i] \in D[t.root] \cap (start .. end)
    BY <2>2, <2>5 DEF Pushed
  <2>13. ASSUME NEW v \in D[t.root] \cap (start .. end)
         PROVE  \E i \in 1 .. Len(l1) : l1[i] = v
    <3>1. start <= v /\ v <= ext
      BY <1>1, <2>13
    <3>2. PICK m \in 1 .. Len(values) : values[m] = v
      BY <2>2, <3>1
    <3> QED
      BY <2>5, <2>13, <3>2 DEF Pushed
  <2>14. ASSUME NEW r \in Value, NEW i \in 1 .. Len(lists[r])
         PROVE  lists[r][i] <= b \/ lists[r][i] <= end
    <3>1. CASE r = t.root
      BY <2>8, <2>12, <3>1
    <3>2. CASE r # t.root
      BY <2>8, <3>2
    <3> QED
      BY <3>1, <3>2
  <2>15. ASSUME NEW v \in E[t2.root], v <= ext
         PROVE  \E i \in 1 .. Len(f1) : f1[i] = v
    <3>1. v \in D[t.root] /\ v \notin start .. end /\ v \in Nat /\ start <= v
      <4>1. v \in D[t.root] /\ v \notin start .. end
        BY <2>11
      <4>2. D[t.root] \subseteq Value
        BY <1>0 DEF Belows
      <4> QED
        BY <4>1, <4>2, ValueFacts
    <3>2. v \in end + 1 .. ext
      BY <1>1, <2>15, <3>1
    <3>3. PICK m \in 1 .. Len(values) : values[m] = v
      BY <2>2, <2>15, <3>1
    <3> QED
      BY <2>6, <3>2, <3>3 DEF Pushed
  <2>16. AscendingAfter(l1, b)
    BY <2>5 DEF Pushed
  <2>17. Processed(t, D, b, start, end, t2, E)
    BY <2>11, <2>12, <2>13, <2>14, <2>15, <2>16 DEF Processed
  <2> QED
    BY <2>3, <2>17 DEF t2
<1> QED
  BY <1>2, <1>3

-----------------------------------------------------------------------------
\* The tree t, with values D, after an execution up to block b: it holds nothing before,
\* and its lists nothing after the last expiry block.
Sound(t, D, b) ==
  /\ t \in Trees
  /\ TreeOK(t.nodes, D, t.root)
  /\ \A v \in D[t.root] : LastExpiryBlock(b) <= v
  /\ \A r \in Value : \A i \in 1 .. Len(t.rootToList[r]) : t.rootToList[r][i] <= b

\* Its list of future expiries misses none.
Foreseen(t, D, b) ==
  \A v \in D[t.root] : v <= LastExpiryBlock(b) + TIME_EXTENSION =>
    \E i \in 1 .. Len(GetFutureExpiriesList(t)) : GetFutureExpiriesList(t)[i] = v

\* s lists what of T an execution from block b to block n has to visit.
Visits(s, T, b, n) ==
  /\ s \in Seq({e \in ExpiriesList(T, b, n) : e > b})
  /\ {s[i] : i \in DOMAIN s} = {e \in ExpiriesList(T, b, n) : e > b}
  /\ \A i, j \in 1 .. Len(s) : i < j => s[i] < s[j]
  /\ s \in Seq(Value)

\* t2 is what an execution up to block n leaves.
Executed(t, D, b, n, t2, E) ==
  /\ Sound(t2, E, n) /\ Foreseen(t2, E, n)
  /\ E[t2.root] = TrimTree(D[t.root], b, n)
  /\ Visits(After(GetExpiriesList(t2), b), D[t.root], b, n)

\* An execution takes the expiries that it passes out of the tree, and lists them.
LEMMA ExecuteCorrect ==
  ASSUME NEW t, NEW D \in Belows, NEW b \in Nat, NEW n \in Nat,
         b <= n, n <= MaxBlock, Sound(t, D, b)
  PROVE  \E E \in Belows :
           Executed(t, D, b, n, ProcessExpiriesListNTrimTree(t, LastExpiryBlock(b),
                                                             LastExpiryBlock(n)), E)
<1> DEFINE start == LastExpiryBlock(b)
           end   == LastExpiryBlock(n)
           t2    == ProcessExpiriesListNTrimTree(t, start, end)
<1>1. /\ start \in Nat /\ end \in Nat /\ start <= end /\ start <= b /\ end <= n
      /\ end \in Value
  <2>1. /\ start \in Nat /\ end \in Nat /\ start <= end /\ start <= b /\ end <= n
    BY LastExpiryFacts
  <2>2. MaxBlock \in Nat /\ MaxBlock <= MaxValue
    <3>1. PICK m \in BlockIntervals : \A k \in BlockIntervals : k <= m
      BY TreeAssumption
    <3> DEFINE big == CHOOSE k \in BlockIntervals : \A m2 \in BlockIntervals : m2 <= k
    <3>2. big \in BlockIntervals
      BY <3>1
    <3>3. big \in Nat
      BY <3>2, TreeAssumption
    <3>4. MaxValue = orderBlockInterval + MaxBlock + orderBlockInterval * big
      BY DEF MaxValue
    <3> HIDE DEF big
    <3>5. orderBlockInterval * big \in Nat
      BY <3>3, IntervalAssumption
    <3> QED
      BY <3>4, <3>5, IntervalAssumption, TreeAssumption
  <2> HIDE DEF end, start
  <2> QED
    BY <2>1, <2>2, ValueFacts DEF Value
<1>2. /\ t \in Trees /\ TreeOK(t.nodes, D, t.root)
      /\ \A v \in D[t.root] : start <= v
      /\ \A r \in Value : \A i \in 1 .. Len(t.rootToList[r]) : t.rootToList[r][i] <= b
  BY DEF Sound
<1> HIDE DEF start, end
<1>3. PICK E \in Belows : Processed(t, D, b, start, end, t2, E)
  BY <1>1, <1>2, ProcessCorrect, ZenonT(60)
<1> HIDE DEF t2
<1>4. /\ t2 \in Trees
      /\ TreeOK(t2.nodes, E, t2.root)
      /\ E[t2.root] = D[t.root] \ (start .. end)
      /\ \A r \in Value : \A i \in 1 .. Len(t2.rootToList[r]) :
           t2.rootToList[r][i] <= b \/ t2.rootToList[r][i] <= end
      /\ \A v \in E[t2.root] : v <= end + TIME_EXTENSION =>
           \E i \in 1 .. Len(GetFutureExpiriesList(t2)) : GetFutureExpiriesList(t2)[i] = v
  BY <1>3 DEF Processed
<1>5. D[t.root] \subseteq Nat
  <2>1. t.root \in Value
    BY <1>2 DEF Trees
  <2> QED
    BY <2>1, ValueFacts DEF Belows
<1>6. Sound(t2, E, n)
  <2>1. \A v \in E[t2.root] : end <= v
    BY <1>1, <1>2, <1>4, <1>5
  <2>2. ASSUME NEW r \in Value, NEW i \in 1 .. Len(t2.rootToList[r])
        PROVE  t2.rootToList[r][i] <= n
    <3>1. t2.rootToList[r] \in Seq(Value)
      BY <1>4 DEF Trees
    <3>2. t2.rootToList[r][i] \in Value
      BY <3>1
    <3>3. t2.rootToList[r][i] \in Nat
      BY <3>2, ValueFacts
    <3>4. t2.rootToList[r][i] <= b \/ t2.rootToList[r][i] <= end
      BY <1>4
    <3> QED
      BY <1>1, <3>3, <3>4
  <2> QED
    BY <1>4, <2>1, <2>2 DEF Sound, end
<1>7. Foreseen(t2, E, n)
  BY <1>4 DEF Foreseen, end
<1>8. ExpiriesList(D[t.root], b, n) = D[t.root] \cap (start .. end)
  BY <1>1, <1>5 DEF ExpiriesList, start, end
<1>9. E[t2.root] = TrimTree(D[t.root], b, n)
  BY <1>4, <1>8 DEF TrimTree
<1> DEFINE list == GetExpiriesList(t2)
           s    == After(list, b)
           T    == D[t.root] \cap (start .. end)
           goal == {e \in ExpiriesList(D[t.root], b, n) : e > b}
<1>10. list \in Seq(Value)
  BY <1>4 DEF Trees, GetExpiriesList
<1>11. /\ AscendingAfter(list, b)
       /\ \A i \in 1 .. Len(list) : list[i] <= b \/ list[i] \in T
       /\ \A v \in T : \E i \in 1 .. Len(list) : list[i] = v
  BY <1>3 DEF Processed
<1> HIDE DEF list
<1>12. Kept(s, list, Len(list), b)
  BY <1>10, <1>11, AfterCorrect
<1> HIDE DEF s, T
<1>13. goal = {e \in T : e > b}
  BY <1>8 DEF T
<1> HIDE DEF goal
<1>14. s \in Seq(Value) /\ Len(s) \in Nat /\ DOMAIN s = 1 .. Len(s)
  BY <1>12 DEF Kept
<1>15. ASSUME NEW i \in 1 .. Len(s) PROVE s[i] \in goal
  <2>1. PICK m \in 1 .. Len(list) : s[i] > b /\ s[i] = list[m]
    BY <1>12 DEF Kept
  <2>2. list[m] \in Value
    BY <1>10
  <2>3. ~ (list[m] <= b)
    <3>1. list[m] \in Nat
      BY <2>2, ValueFacts
    <3>2. list[m] > b
      BY <2>1
    <3> QED
      BY <3>1, <3>2
  <2> QED
    BY <1>11, <1>13, <2>1, <2>3
<1>16. ASSUME NEW v \in goal PROVE \E i \in 1 .. Len(s) : s[i] = v
  <2>1. v \in T /\ v > b
    BY <1>13
  <2>2. PICK m \in 1 .. Len(list) : list[m] = v
    BY <1>11, <2>1
  <2> QED
    BY <1>12, <2>1, <2>2 DEF Kept
<1>17. s \in Seq(goal)
  BY <1>14, <1>15
<1>18. {s[i] : i \in DOMAIN s} = goal
  BY <1>14, <1>15, <1>16
<1>19. \A i, j \in 1 .. Len(s) : i < j => s[i] < s[j]
  BY <1>12 DEF Kept
<1>20. Visits(s, D[t.root], b, n)
  BY <1>14, <1>17, <1>18, <1>19 DEF Visits, goal
<1>21. Executed(t, D, b, n, t2, E)
  BY <1>6, <1>7, <1>9, <1>20 DEF Executed, s, list
<1> QED
  BY <1>21 DEF t2, start, end

-----------------------------------------------------------------------------
(***************************************************************************)
(* The inductive invariant.                                                *)
(***************************************************************************)
Scalars ==
  /\ block \in DeployBlock .. MaxBlock
  /\ orderId \in 0 .. MaxOrders
  /\ last \in DeployBlock .. block
  /\ due \in Seq(Value)

IInv ==
  /\ Scalars
  /\ \E D \in Belows : Sound(tree, D, last) /\ Foreseen(tree, D, last)

\* The values in a tree are what lies below its root.
LEMMA ValuesOfTree ==
  ASSUME NEW t, NEW D \in Belows, NEW b, Sound(t, D, b)
  PROVE  Values(t) = D[t.root]
<1>1. t.nodes \in Nodes /\ t.root \in Value /\ TreeOK(t.nodes, D, t.root)
  BY DEF Sound, Trees
<1>2. Below(t.nodes)[t.root] = D[t.root]
  BY <1>1, BelowOfTree
<1> QED
  BY <1>2 DEF Values

\* Blocks are natural numbers, and an execution does not go back.
LEMMA BlockFacts ==
  ASSUME Scalars
  PROVE  /\ block \in Nat /\ last \in Nat /\ last <= block /\ block <= MaxBlock
         /\ block \in DeployBlock .. block
         /\ DeployBlock \in Nat /\ MaxBlock \in Nat
BY IntervalAssumption, TreeAssumption DEF Scalars

\* An order ends after the block in which it is placed, at a block of the model.
LEMMA OrderExpiryFacts ==
  ASSUME NEW b \in Nat, b <= MaxBlock, NEW n \in BlockIntervals
  PROVE  OrderExpiry(b, n) \in Value \ {0} /\ OrderExpiry(b, n) > b
<1>1. PICK m \in BlockIntervals : \A k \in BlockIntervals : k <= m
  BY TreeAssumption
<1> DEFINE big == CHOOSE k \in BlockIntervals : \A m2 \in BlockIntervals : m2 <= k
           k   == orderBlockInterval
<1>2. big \in BlockIntervals /\ \A m2 \in BlockIntervals : m2 <= big
  BY <1>1
<1>3. n \in Nat /\ big \in Nat /\ n <= big /\ MaxBlock \in Nat /\ k \in Nat \ {0}
  BY <1>2, TreeAssumption, IntervalAssumption
<1>4. MaxValue = k + MaxBlock + k * big
  BY DEF MaxValue
<1>5. OrderExpiry(b, n) = k * (n + 1) + LastExpiryBlock(b)
  BY DEF OrderExpiry
<1>6. /\ LastExpiryBlock(b) \in Nat /\ LastExpiryBlock(b) <= b
      /\ b < LastExpiryBlock(b) + k
  BY LastExpiryFacts
<1> HIDE DEF big, k
<1>7. /\ k * n \in Nat /\ k * big \in Nat /\ k * n <= k * big
      /\ k * (n + 1) = k * n + k
  BY <1>3
<1>8. /\ OrderExpiry(b, n) \in Nat /\ OrderExpiry(b, n) > b
      /\ OrderExpiry(b, n) <= MaxValue
  BY <1>3, <1>4, <1>5, <1>6, <1>7
<1> QED
  BY <1>8, ValueFacts DEF Value

\* A deployed pair has one expiry block, in a tree of one node.
LEMMA InitIInv ==
  ASSUME Init
  PROVE  IInv /\ ExpirySet!Init
<1> DEFINE e  == LastExpiryBlock(DeployBlock)
           D0 == [v \in Value |-> {}]
<1>1. /\ DeployBlock \in Nat /\ orderBlockInterval \in Nat \ {0}
      /\ DeployBlock >= orderBlockInterval /\ DeployBlock <= MaxBlock
      /\ MaxBlock \in Nat /\ MaxOrders \in Nat
  BY IntervalAssumption, TreeAssumption
<1>2. e \in Nat /\ e <= DeployBlock /\ e # 0
  BY <1>1, LastExpiryFacts
<1>3. e \in Value \ {0}
  <2>1. \E n \in BlockIntervals : TRUE
    BY TreeAssumption
  <2>2. PICK n \in BlockIntervals : TRUE
    BY <2>1
  <2>3. OrderExpiry(DeployBlock, n) \in Value /\ OrderExpiry(DeployBlock, n) > DeployBlock
    BY <1>1, OrderExpiryFacts
  <2>4. OrderExpiry(DeployBlock, n) \in 0 .. MaxValue
    BY <2>3 DEF Value
  <2> HIDE DEF e
  <2>5. e \in 0 .. MaxValue
    BY <1>1, <1>2, <2>3, <2>4, ValueFacts
  <2> QED
    BY <1>2, <2>5 DEF Value
<1> HIDE DEF e
<1>4. /\ EmptyTree \in Trees /\ EmptyTree.root = 0 /\ 0 \in Value
      /\ EmptyTree.nodes = [v \in Value |-> NoNode]
      /\ EmptyTree.rootToList = [v \in Value |-> <<>>]
      /\ EmptyTree.futureExpiries = [v \in Value |-> <<>>]
  <2>1. 0 \in Value /\ NoNode \in NodeType
    BY ValueFacts DEF NoNode, Node, NodeType
  <2>2. [v \in Value |-> NoNode] \in Nodes
    BY <2>1 DEF Nodes
  <2>3. [v \in Value |-> <<>>] \in [Value -> Seq(Value)]
    OBVIOUS
  <2> QED
    BY <2>1, <2>2, <2>3 DEF EmptyTree, Trees
<1>5. D0 \in Belows /\ D0[0] = {} /\ D0[EmptyTree.root] = {}
  BY <1>4 DEF Belows
<1>6. TreeOK(EmptyTree.nodes, D0, EmptyTree.root)
  <2>1. SearchTree(EmptyTree.nodes, D0, 0)
    BY <1>4, <1>5 DEF SearchTree
  <2>2. EmptyTree.nodes[0].parent = 0
    BY <1>4 DEF NoNode, Node
  <2> QED
    BY <1>4, <1>5, <2>1, <2>2 DEF TreeOK
<1> HIDE DEF D0
<1>7. PICK E \in Belows : Inserted(EmptyTree, D0, e, Insert(EmptyTree, e), E)
  BY <1>3, <1>4, <1>5, <1>6, InsertCorrect
<1>8. /\ block = DeployBlock /\ orderId = 0 /\ last = DeployBlock /\ due = <<>>
      /\ tree = Insert(EmptyTree, e)
  BY DEF Init, e
<1>9. /\ tree \in Trees /\ TreeOK(tree.nodes, E, tree.root)
      /\ tree.rootToList = EmptyTree.rootToList
      /\ E[tree.root] = {e}
      /\ tree.rootLast = e
      /\ tree.futureExpiries[e] = Append(EmptyTree.futureExpiries[e], e)
  BY <1>4, <1>5, <1>7, <1>8 DEF Inserted
<1>10. Sound(tree, E, last)
  <2>1. \A v \in E[tree.root] : LastExpiryBlock(last) <= v
    BY <1>2, <1>8, <1>9 DEF e
  <2>2. \A r \in Value : tree.rootToList[r] = <<>>
    BY <1>4, <1>9
  <2> QED
    BY <1>9, <2>1, <2>2 DEF Sound
<1>11. Foreseen(tree, E, last)
  <2>1. GetFutureExpiriesList(tree) = <<e>>
    BY <1>3, <1>4, <1>9 DEF GetFutureExpiriesList
  <2>2. Len(<<e>>) = 1 /\ <<e>>[1] = e
    OBVIOUS
  <2> QED
    BY <1>9, <2>1, <2>2 DEF Foreseen
<1>12. Scalars
  BY <1>1, <1>8 DEF Scalars
<1>13. Values(tree) = {e}
  BY <1>9, <1>10, ValuesOfTree
<1>14. IInv
  BY <1>10, <1>11, <1>12 DEF IInv
<1>15. ExpirySet!Init
  BY <1>8, <1>13 DEF ExpirySet!Init, ExpirySet!LastExpiryBlock, LastExpiryBlock, e
<1> QED
  BY <1>14, <1>15
-----------------------------------------------------------------------------
\* An order is placed: its expiry is in the tree before the execution.
LEMMA PlaceStep ==
  ASSUME IInv, NEW n \in BlockIntervals, Place(n)
  PROVE  IInv' /\ ExpirySet!Place(n)
<1> DEFINE e == OrderExpiry(block, n)
           t == Insert(tree, e)
<1>1. PICK D \in Belows : Sound(tree, D, last) /\ Foreseen(tree, D, last)
  BY DEF IInv
<1>2. Scalars /\ block \in Nat /\ last \in Nat /\ last <= block /\ block <= MaxBlock
  BY BlockFacts DEF IInv
<1>3. e \in Value \ {0} /\ e > block /\ e \in Nat
  BY <1>2, OrderExpiryFacts, ValueFacts
<1>4. /\ orderId < MaxOrders /\ orderId' = orderId + 1
      /\ due' = After(GetExpiriesList(Process(t, block)), last)
      /\ last' = block /\ block' = block
      /\ tree' = Process(t, block)
  BY DEF Place, Execute
<1> HIDE DEF e
<1>5. PICK E \in Belows : Inserted(tree, D, e, t, E)
  BY <1>1, <1>3, InsertCorrect DEF Sound
<1> HIDE DEF t
<1>6. Sound(t, E, last) /\ E[t.root] = D[tree.root] \cup {e}
  <2>1. LastExpiryBlock(last) <= e
    <3>1. LastExpiryBlock(last) \in Nat /\ LastExpiryBlock(last) <= last
      BY <1>2, LastExpiryFacts
    <3> QED
      BY <1>2, <1>3, <3>1
  <2> QED
    BY <1>1, <1>5, <2>1 DEF Sound, Inserted
<1>7. PICK F \in Belows : Executed(t, E, last, block, Process(t, block), F)
  BY <1>2, <1>6, ExecuteCorrect DEF Process
<1>8. /\ Sound(tree', F, block) /\ Foreseen(tree', F, block)
      /\ F[tree'.root] = TrimTree(E[t.root], last, block)
      /\ Visits(due', E[t.root], last, block)
  BY <1>4, <1>7 DEF Executed
<1>9. Scalars'
  BY <1>2, <1>4, <1>8, BlockFacts, TreeAssumption DEF Scalars, Visits
<1>10. IInv'
  BY <1>4, <1>8, <1>9 DEF IInv
<1>11. Values(tree) = D[tree.root]
  BY <1>1, ValuesOfTree
<1>12. Values(tree)' = F[tree'.root]
  <2>1. Values(tree') = F[tree'.root]
    BY <1>8, ValuesOfTree
  <2> QED
    BY <2>1
<1>13. ExpirySet!Execute(E[t.root], block)
  BY <1>4, <1>8 DEF ExpirySet!Execute, ExpirySet!Ascending, ExpirySet!ExpiriesList,
                    Visits, ExpiriesList, ExpirySet!LastExpiryBlock, LastExpiryBlock
<1> QED
  BY <1>4, <1>6, <1>8, <1>10, <1>11, <1>12, <1>13
     DEF ExpirySet!Place, e, ExpirySet!OrderExpiry, OrderExpiry,
         ExpirySet!TrimTree, TrimTree, ExpirySet!ExpiriesList, ExpiriesList,
         ExpirySet!LastExpiryBlock, LastExpiryBlock

\* The last order ending at e is cancelled, after the execution.
LEMMA CancelStep ==
  ASSUME IInv, NEW e \in Values(tree), Cancel(e)
  PROVE  IInv' /\ ExpirySet!Cancel(e)
<1> DEFINE t == Process(tree, block)
<1>1. PICK D \in Belows : Sound(tree, D, last) /\ Foreseen(tree, D, last)
  BY DEF IInv
<1>2. Scalars /\ block \in Nat /\ last \in Nat /\ last <= block /\ block <= MaxBlock
  BY BlockFacts DEF IInv
<1>3. Values(tree) = D[tree.root]
  BY <1>1, ValuesOfTree
<1>4. /\ e > block /\ orderId' = orderId
      /\ due' = After(GetExpiriesList(t), last)
      /\ last' = block /\ block' = block
      /\ tree' = DeleteNode(t, e)
  BY DEF Cancel, Execute
<1>5. PICK E \in Belows : Executed(tree, D, last, block, t, E)
  BY <1>1, <1>2, ExecuteCorrect DEF Process
<1> HIDE DEF t
<1>6. /\ Sound(t, E, block) /\ Foreseen(t, E, block)
      /\ E[t.root] = TrimTree(D[tree.root], last, block)
      /\ Visits(due', D[tree.root], last, block)
  BY <1>4, <1>5 DEF Executed
<1>7. e \in E[t.root]
  <2>1. LastExpiryBlock(block) \in Nat /\ LastExpiryBlock(block) <= block
    BY <1>2, LastExpiryFacts
  <2>2. e \in D[tree.root] /\ e \in Nat
    <3>1. tree.root \in Value /\ e \in D[tree.root]
      BY <1>1, <1>3 DEF Sound, Trees
    <3> QED
      BY <3>1, ValueFacts DEF Belows
  <2>3. ~ (e <= LastExpiryBlock(block))
    BY <1>2, <1>4, <2>1, <2>2
  <2> QED
    BY <1>6, <2>2, <2>3 DEF TrimTree, ExpiriesList
<1>8. PICK F \in Belows : Removed(t, E, e, tree', F)
  BY <1>4, <1>6, <1>7, DeleteNodeCorrect DEF Sound
<1>9. /\ Sound(tree', F, block)
      /\ F[tree'.root] = TrimTree(D[tree.root], last, block) \ {e}
  BY <1>6, <1>8 DEF Sound, Removed
<1>10. Foreseen(tree', F, block)
  <2>1. GetFutureExpiriesList(tree') = GetFutureExpiriesList(t)
    BY <1>8 DEF Removed, GetFutureExpiriesList
  <2> QED
    BY <1>6, <1>8, <2>1 DEF Foreseen, Removed
<1>11. Scalars'
  BY <1>2, <1>4, <1>6, BlockFacts DEF Scalars, Visits
<1>12. IInv'
  BY <1>4, <1>9, <1>10, <1>11 DEF IInv
<1>13. Values(tree)' = F[tree'.root]
  <2>1. Values(tree') = F[tree'.root]
    BY <1>9, ValuesOfTree
  <2> QED
    BY <2>1
<1>14. ExpirySet!Execute(D[tree.root], block)
  BY <1>4, <1>6 DEF ExpirySet!Execute, ExpirySet!Ascending, ExpirySet!ExpiriesList,
                    Visits, ExpiriesList, ExpirySet!LastExpiryBlock, LastExpiryBlock
<1> QED
  BY <1>3, <1>4, <1>9, <1>12, <1>13, <1>14
     DEF ExpirySet!Cancel, ExpirySet!TrimTree, TrimTree, ExpirySet!ExpiriesList,
         ExpiriesList, ExpirySet!LastExpiryBlock, LastExpiryBlock

\* Any other call.
LEMMA AdvanceStep ==
  ASSUME IInv, NEW n \in last .. block, Advance(n)
  PROVE  IInv' /\ ExpirySet!Advance(n)
<1> DEFINE t == Process(tree, n)
<1>1. PICK D \in Belows : Sound(tree, D, last) /\ Foreseen(tree, D, last)
  BY DEF IInv
<1>2. /\ Scalars /\ block \in Nat /\ last \in Nat /\ last <= block /\ block <= MaxBlock
      /\ n \in Nat /\ last <= n /\ n <= block /\ n <= MaxBlock
      /\ n \in DeployBlock .. block
  <2>1. Scalars /\ block \in Nat /\ last \in Nat /\ last <= block /\ block <= MaxBlock
        /\ DeployBlock \in Nat /\ MaxBlock \in Nat
    BY BlockFacts DEF IInv
  <2> QED
    BY <2>1 DEF Scalars
<1>3. Values(tree) = D[tree.root]
  BY <1>1, ValuesOfTree
<1>4. /\ orderId' = orderId
      /\ due' = After(GetExpiriesList(t), last)
      /\ last' = n /\ block' = block
      /\ tree' = t
  BY DEF Advance, Execute
<1>5. PICK E \in Belows : Executed(tree, D, last, n, t, E)
  BY <1>1, <1>2, ExecuteCorrect DEF Process
<1> HIDE DEF t
<1>6. /\ Sound(tree', E, n) /\ Foreseen(tree', E, n)
      /\ E[tree'.root] = TrimTree(D[tree.root], last, n)
      /\ Visits(due', D[tree.root], last, n)
  BY <1>4, <1>5 DEF Executed
<1>7. Scalars'
  BY <1>2, <1>4, <1>6 DEF Scalars, Visits
<1>8. IInv'
  BY <1>4, <1>6, <1>7 DEF IInv
<1>9. Values(tree)' = E[tree'.root]
  <2>1. Values(tree') = E[tree'.root]
    BY <1>6, ValuesOfTree
  <2> QED
    BY <2>1
<1>10. ExpirySet!Execute(D[tree.root], n)
  BY <1>4, <1>6 DEF ExpirySet!Execute, ExpirySet!Ascending, ExpirySet!ExpiriesList,
                    Visits, ExpiriesList, ExpirySet!LastExpiryBlock, LastExpiryBlock
<1> QED
  BY <1>2, <1>3, <1>4, <1>6, <1>8, <1>9, <1>10
     DEF ExpirySet!Advance, ExpirySet!TrimTree, TrimTree, ExpirySet!ExpiriesList,
         ExpiriesList, ExpirySet!LastExpiryBlock, LastExpiryBlock

\* Every step preserves the invariant, and is a step of the set of expiry blocks.
LEMMA StepIInv ==
  ASSUME IInv, [Next]_vars
  PROVE  IInv' /\ [ExpirySet!Next]_(ExpirySet!vars)
<1>1. CASE Tick
  <2>1. /\ block < MaxBlock /\ block' = block + 1
        /\ UNCHANGED <<orderId, last, tree, due>>
    BY <1>1 DEF Tick
  <2>2. Scalars'
    <3>1. Scalars /\ block \in Nat /\ MaxBlock \in Nat /\ DeployBlock \in Nat
          /\ last \in Nat
      BY BlockFacts DEF IInv
    <3> QED
      BY <2>1, <3>1 DEF Scalars
  <2>3. IInv'
    BY <2>1, <2>2 DEF IInv
  <2>4. Values(tree)' = Values(tree)
    BY <2>1 DEF Values
  <2>5. ExpirySet!Tick
    BY <2>1, <2>4 DEF ExpirySet!Tick
  <2> QED
    BY <2>3, <2>5 DEF ExpirySet!Next
<1>2. CASE \E n \in BlockIntervals : Place(n)
  <2>1. PICK n \in BlockIntervals : Place(n)
    BY <1>2
  <2>2. IInv' /\ ExpirySet!Place(n)
    BY <2>1, PlaceStep
  <2> QED
    BY <2>2 DEF ExpirySet!Next
<1>3. CASE \E e \in Values(tree) : Cancel(e)
  <2>1. PICK e \in Values(tree) : Cancel(e)
    BY <1>3
  <2>2. IInv' /\ ExpirySet!Cancel(e)
    BY <2>1, CancelStep
  <2> QED
    BY <2>1, <2>2 DEF ExpirySet!Next
<1>4. CASE \E n \in last .. block : Advance(n)
  <2>1. PICK n \in last .. block : Advance(n)
    BY <1>4
  <2>2. IInv' /\ ExpirySet!Advance(n)
    BY <2>1, AdvanceStep
  <2> QED
    BY <2>1, <2>2 DEF ExpirySet!Next
<1>5. CASE UNCHANGED vars
  <2>1. UNCHANGED <<block, orderId, last, tree, due>>
    BY <1>5 DEF vars
  <2>2. IInv'
    BY <2>1 DEF IInv, Scalars
  <2>3. Values(tree)' = Values(tree)
    BY <2>1 DEF Values
  <2> QED
    BY <2>1, <2>2, <2>3 DEF ExpirySet!vars
<1> QED
  BY <1>1, <1>2, <1>3, <1>4, <1>5 DEF Next

\* The invariant holds in every state.
THEOREM Invariant == Spec => []IInv
<1>1. Init => IInv
  BY InitIInv
<1>2. IInv /\ [Next]_vars => IInv'
  BY StepIInv
<1> QED
  BY <1>1, <1>2, PTL DEF Spec

\* The state has the types of the storage (TypeOK).
THEOREM TypeCorrect == Spec => []TypeOK
<1>1. IInv => TypeOK
  <2> SUFFICES ASSUME IInv PROVE TypeOK
    OBVIOUS
  <2>1. PICK D \in Belows : Sound(tree, D, last)
    BY DEF IInv
  <2>2. tree \in Trees /\ TreeOK(tree.nodes, D, tree.root)
    BY <2>1 DEF Sound
  <2>3. ASSUME NEW v \in Value PROVE tree.nodes[v].value \in {0, v}
    <3>1. CASE v \in D[tree.root]
      BY <2>2, <3>1 DEF TreeOK, SearchTree
    <3>2. CASE v \notin D[tree.root]
      BY <2>2, <3>2 DEF TreeOK, NoNode, Node
    <3> QED
      BY <3>1, <3>2
  <2>4. Scalars
    BY DEF IInv
  <2> QED
    BY <2>2, <2>3, <2>4 DEF TypeOK, Scalars, Trees
<1> QED
  BY <1>1, Invariant, PTL

\* The linked nodes are a search tree from which no node is lost, whatever has been
\* inserted, deleted and trimmed (WellFormed).
THEOREM TreeStaysWellFormed == Spec => []WellFormed
<1>1. IInv => WellFormed
  <2> SUFFICES ASSUME IInv PROVE WellFormed
    OBVIOUS
  <2>1. PICK D \in Belows : Sound(tree, D, last)
    BY DEF IInv
  <2>2. /\ tree.nodes \in Nodes /\ tree.root \in Value
        /\ TreeOK(tree.nodes, D, tree.root)
    BY <2>1 DEF Sound, Trees
  <2>3. Values(tree) = D[tree.root]
    BY <2>1, ValuesOfTree
  <2>4. \A v \in D[tree.root] \cup {0} : Below(tree.nodes)[v] = D[v]
    BY <2>2, BelowOfTree
  <2>5. tree.nodes[tree.root].parent = 0
    BY <2>2 DEF TreeOK
  <2>6. ASSUME NEW v \in Value \ {0}
        PROVE  (tree.nodes[v].value = v) <=> v \in D[tree.root]
    <3>1. CASE v \in D[tree.root]
      BY <2>2, <3>1 DEF TreeOK, SearchTree
    <3>2. CASE v \notin D[tree.root]
      BY <2>2, <3>2 DEF TreeOK, NoNode, Node
    <3> QED
      BY <3>1, <3>2
  <2>7. ASSUME NEW v \in D[tree.root]
        PROVE  LET n == tree.nodes[v]
               IN  /\ \A w \in Below(tree.nodes)[n.left] : w < v
                   /\ \A w \in Below(tree.nodes)[n.right] : w > v
                   /\ \A c \in {n.left, n.right} \ {0} : tree.nodes[c].parent = v
    <3> DEFINE n == tree.nodes[v]
    <3>1. /\ \A w \in D[n.left] : w < v
          /\ \A w \in D[n.right] : w > v
          /\ \A c \in {n.left, n.right} : c = 0 \/ c \in D[tree.root]
      <4>1. /\ \A w \in D[n.left] : w < v
            /\ \A w \in D[n.right] : w > v
            /\ \A c \in {n.left, n.right} : c = 0 \/ c \in D[v] \ {v}
            /\ D[v] \subseteq D[tree.root]
        BY <2>2, TreeChildren
      <4> QED
        BY <4>1
    <3>2. \A c \in {n.left, n.right} \ {0} : tree.nodes[c].parent = v
      BY <2>2 DEF TreeOK, SearchTree, Children
    <3>3. Below(tree.nodes)[n.left] = D[n.left] /\ Below(tree.nodes)[n.right] = D[n.right]
      BY <2>4, <3>1
    <3> QED
      BY <3>1, <3>2, <3>3
  <2> QED
    BY <2>3, <2>5, <2>6, <2>7 DEF WellFormed
<1> QED
  BY <1>1, Invariant, PTL

\* The views miss no order that ends within TIME_EXTENSION of the last execution
\* (FutureExpiriesListed).
THEOREM FutureListComplete == Spec => []FutureExpiriesListed
<1>1. IInv => FutureExpiriesListed
  <2> SUFFICES ASSUME IInv PROVE FutureExpiriesListed
    OBVIOUS
  <2>1. PICK D \in Belows : Sound(tree, D, last) /\ Foreseen(tree, D, last)
    BY DEF IInv
  <2>2. Values(tree) = D[tree.root]
    BY <2>1, ValuesOfTree
  <2>3. GetFutureExpiriesList(tree) \in Seq(Value)
    BY <2>1 DEF Sound, Trees, GetFutureExpiriesList
  <2>4. DOMAIN GetFutureExpiriesList(tree) = 1 .. Len(GetFutureExpiriesList(tree))
    BY <2>3
  <2> QED
    BY <2>1, <2>2, <2>4 DEF FutureExpiriesListed, Foreseen
<1> QED
  BY <1>1, Invariant, PTL

\* The linked nodes and their lists do what a set of expiry blocks would: each execution is
\* given the blocks it has passed, each once and in order (ImplementsExpirySet).
THEOREM TreeImplementsSet == Spec => ImplementsExpirySet
<1>1. Init => ExpirySet!Init
  BY InitIInv
<1>2. IInv /\ [Next]_vars => [ExpirySet!Next]_(ExpirySet!vars)
  BY StepIInv
<1> QED
  BY <1>1, <1>2, Invariant, PTL DEF Spec, ImplementsExpirySet, ExpirySet!Spec
=============================================================================
