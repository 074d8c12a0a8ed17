-------------------------- MODULE LinkedList_proofs --------------------------
(***************************************************************************)
(* That the chain of pointers is a sequence of Lists, and that each call   *)
(* does to that sequence what std_llist.h says: for any set of items and   *)
(* any keys.                                                               *)
(***************************************************************************)
EXTENDS LinkedList, SequenceTheorems, FiniteSetTheorems, WellFoundedInduction, TLAPS

\* The list's two nodes, Null and the items are different things; keys are
\* numbers.
ItemAssumption ==
    /\ IsFiniteSet(Items) /\ \A x \in Items : KeyOf(x) \in Int
    /\ HeadNode \notin Items /\ TailNode \notin Items /\ HeadNode # TailNode
    /\ Null \notin Items /\ Null # HeadNode /\ Null # TailNode

(***************************************************************************)
(* The invariant.                                                          *)
(***************************************************************************)

\* What has pointers.
Nodes == Items \cup {HeadNode, TailNode}

\* The parts of d.
Fields == {"next", "back", "sorted", "done"}

\* The node at a place, with the head at place 0 and the tail behind the last.
Node(l, i) == IF i = 0 THEN HeadNode ELSE IF i = Len(l) + 1 THEN TailNode ELSE l[i]

\* No item is there twice.
Once(l) == l \in Seq(Items) /\ \A i, j \in 1..Len(l) : l[i] = l[j] => i = j

\* Neighbours point to each other,
Chained(l, next, back) ==
    \A i \in 0..Len(l) : next[Node(l, i)] = Node(l, i + 1) /\ back[Node(l, i + 1)] = Node(l, i)

\* and what is not in the list to nothing.
Loose(l, next, back) ==
    \A x \in Items : (\A i \in 1..Len(l) : l[i] # x) => next[x] = Null /\ back[x] = Null

\* Pointers of the nodes.
Pointers(next) == next = [x \in Nodes |-> next[x]]

\* The pointers are those of the list l.
Chain(l, next, back) ==
    Once(l) /\ Pointers(next) /\ Pointers(back) /\ Chained(l, next, back) /\ Loose(l, next, back)

\* So are those of e.
Stands(e, l) == e = [f \in Fields |-> e[f]] /\ Chain(l, e.next, e.back)

\* The inductive invariant: the pointers are those of some list.
Inv == \E l : Stands(d, l)

-----------------------------------------------------------------------------
(* Sequences, and places in them.                                          *)

\* A set of numbers has a least one.
LEMMA LeastExists ==
    ASSUME NEW T, T \subseteq Nat, T # {}
    PROVE  \E n \in T : \A m \in T : n <= m
<1> DEFINE R == OpToRel(<, Nat)
<1>1. IsWellFoundedOn(R, Nat)
  BY NatLessThanWellFounded, Zenon
<1>2. \A x, y \in Nat : x < y => <<x, y>> \in R
  BY DEF OpToRel
<1> HIDE DEF R
<1>3. PICK n \in T : \A m \in T : ~(<<m, n>> \in R)
  BY <1>1, WFMin, Zenon
<1>4. ASSUME NEW m \in T
      PROVE  n <= m
  <2>1. n \in Nat /\ m \in Nat
    OBVIOUS
  <2>2. ~(m < n)
    BY <1>2, <1>3, <2>1, Zenon
  <2> QED
    BY <2>1, <2>2
<1> QED
  BY <1>4, Zenon

\* The places of a list.
LEMMA NodeIs ==
    ASSUME ItemAssumption, NEW l, Once(l), NEW i \in 0..(Len(l) + 1)
    PROVE  /\ Len(l) \in Nat /\ DOMAIN l = 1..Len(l) /\ Node(l, i) \in Nodes
           /\ Node(l, 0) = HeadNode /\ Node(l, Len(l) + 1) = TailNode
           /\ \A j \in 1..Len(l) : Node(l, j) = l[j] /\ l[j] \in Items
<1>1. l \in Seq(Items)
  BY Zenon DEF Once
<1>2. Len(l) \in Nat /\ DOMAIN l = 1..Len(l) /\ \A j \in 1..Len(l) : l[j] \in Items
  BY <1>1
<1>3. Node(l, 0) = HeadNode /\ Node(l, Len(l) + 1) = TailNode
  BY <1>2 DEF Node
<1>4. \A j \in 1..Len(l) : Node(l, j) = l[j]
  BY <1>2 DEF Node
<1>5. Node(l, i) \in Nodes
  BY <1>2, <1>3, <1>4 DEF Nodes
<1> QED
  BY <1>2, <1>3, <1>4, <1>5, Zenon

\* A node has one place.
LEMMA NodeOnce ==
    ASSUME ItemAssumption, NEW l, Once(l),
           NEW i \in 0..(Len(l) + 1), NEW j \in 0..(Len(l) + 1), Node(l, i) = Node(l, j)
    PROVE  i = j
<1>1. Len(l) \in Nat /\ l \in Seq(Items)
  BY DEF Once
<1>2. \A k \in 1..Len(l) : l[k] \in Items
  BY <1>1
<1>3. CASE i = 0
  BY <1>1, <1>2, <1>3 DEF Node, ItemAssumption
<1>4. CASE i = Len(l) + 1
  BY <1>1, <1>2, <1>4 DEF Node, ItemAssumption
<1>5. CASE i \in 1..Len(l)
  BY <1>1, <1>2, <1>5 DEF Node, ItemAssumption, Once
<1> QED
  BY <1>1, <1>3, <1>4, <1>5

\* What is not in the list is at no place.
LEMMA NodeOther ==
    ASSUME ItemAssumption, NEW l, Once(l), NEW x \in Items, \A i \in 1..Len(l) : l[i] # x,
           NEW j \in 0..(Len(l) + 1)
    PROVE  Node(l, j) # x
<1>1. Len(l) \in Nat
  BY DEF Once
<1> QED
  BY <1>1 DEF Node, ItemAssumption

-----------------------------------------------------------------------------
(* A link more, and a link less.                                           *)

\* The list k is l with x between place i and the next.
Inserted(k, l, i, x) ==
    /\ Len(k) = Len(l) + 1
    /\ \A j \in 1..(Len(l) + 1) :
         k[j] = IF j <= i THEN l[j] ELSE IF j = i + 1 THEN x ELSE l[j - 1]

\* Pointer a becomes x, and that of x becomes b.
Over(next, new, a, x, b) ==
    \A y \in Nodes : new[y] = IF y = a THEN x ELSE IF y = x THEN b ELSE next[y]

\* Where nodes are after an insertion.
LEMMA NodeInserted ==
    ASSUME ItemAssumption, NEW l, Once(l), NEW x \in Items, NEW i \in 0..Len(l),
           NEW k, Inserted(k, l, i, x), NEW j \in 0..(Len(l) + 2)
    PROVE  /\ j <= i => Node(k, j) = Node(l, j)
           /\ j = i + 1 => Node(k, j) = x
           /\ i + 1 < j => Node(k, j) = Node(l, j - 1)
<1>1. Len(l) \in Nat /\ Len(k) = Len(l) + 1
  BY DEF Once, Inserted
<1>2. CASE j = 0
  BY <1>1, <1>2 DEF Node
<1>3. CASE j = Len(l) + 2
  BY <1>1, <1>3 DEF Node
<1>4. CASE j \in 1..(Len(l) + 1)
  <2>1. k[j] = IF j <= i THEN l[j] ELSE IF j = i + 1 THEN x ELSE l[j - 1]
    BY <1>4, Zenon DEF Inserted
  <2>2. Node(k, j) = k[j]
    BY <1>1, <1>4 DEF Node
  <2>3. j <= i => Node(l, j) = l[j]
    BY <1>1, <1>4 DEF Node
  <2>4. i + 1 < j => Node(l, j - 1) = l[j - 1]
    BY <1>1, <1>4 DEF Node
  <2> QED
    BY <1>1, <1>4, <2>1, <2>2, <2>3, <2>4
<1> QED
  BY <1>1, <1>2, <1>3, <1>4

\* The list after an insertion has no item twice.
LEMMA OnceInserted ==
    ASSUME ItemAssumption, NEW l, Once(l), NEW x \in Items, \A j \in 1..Len(l) : l[j] # x,
           NEW i \in 0..Len(l), NEW k \in Seq(Items), Inserted(k, l, i, x)
    PROVE  Once(k)
<1>1. Len(l) \in Nat /\ Len(k) = Len(l) + 1
  BY DEF Once, Inserted
<1>2. \A p \in 1..Len(l) : \A q \in 1..Len(l) : p # q => l[p] # l[q]
  BY Zenon DEF Once
<1>3. ASSUME NEW m \in 1..Len(k), NEW n \in 1..Len(k), m < n
      PROVE  k[m] # k[n]
  <2>1. /\ k[m] = IF m <= i THEN l[m] ELSE IF m = i + 1 THEN x ELSE l[m - 1]
        /\ k[n] = IF n <= i THEN l[n] ELSE IF n = i + 1 THEN x ELSE l[n - 1]
    BY <1>1, Zenon DEF Inserted
  <2>2. CASE n <= i
    <3>1. m \in 1..Len(l) /\ n \in 1..Len(l) /\ m # n /\ m <= i
      BY <1>1, <1>3, <2>2
    <3> QED
      BY <1>2, <2>1, <2>2, <3>1, Zenon
  <2>3. CASE n = i + 1
    <3>1. m \in 1..Len(l) /\ m <= i /\ ~(n <= i)
      BY <1>1, <1>3, <2>3
    <3> QED
      BY <2>1, <2>3, <3>1, Zenon
  <2>4. CASE i + 1 < n
    <3>1. n - 1 \in 1..Len(l) /\ ~(n <= i) /\ n # i + 1
      BY <1>1, <2>4
    <3>2. CASE m <= i
      <4>1. m \in 1..Len(l) /\ m # n - 1
        BY <1>1, <2>4, <3>2
      <4> QED
        BY <1>2, <2>1, <3>1, <3>2, <4>1, Zenon
    <3>3. CASE m = i + 1
      <4>1. ~(m <= i)
        BY <1>1, <3>3
      <4> QED
        BY <2>1, <3>1, <3>3, <4>1, Zenon
    <3>4. CASE ~(m <= i) /\ m # i + 1
      <4>1. m - 1 \in 1..Len(l) /\ m - 1 # n - 1
        BY <1>1, <1>3, <3>4
      <4> QED
        BY <1>2, <2>1, <3>1, <3>4, <4>1, Zenon
    <3> QED
      BY <3>2, <3>3, <3>4, Zenon
  <2> QED
    BY <1>1, <2>2, <2>3, <2>4
<1>4. ASSUME NEW m \in 1..Len(k), NEW n \in 1..Len(k), k[m] = k[n]
      PROVE  m = n
  <2>1. ~(m < n) /\ ~(n < m)
    BY <1>3, <1>4, Zenon
  <2> QED
    BY <1>1, <2>1
<1> QED
  BY <1>4, Zenon DEF Once

\* Pointers for x between place i and the next.
LEMMA ChainInserted ==
    ASSUME ItemAssumption, NEW l, NEW next, NEW back, Chain(l, next, back),
           NEW x \in Items, \A j \in 1..Len(l) : l[j] # x, NEW i \in 0..Len(l),
           NEW k \in Seq(Items), Inserted(k, l, i, x),
           NEW next2, NEW back2, Pointers(next2), Pointers(back2),
           Over(next, next2, Node(l, i), x, Node(l, i + 1)),
           Over(back, back2, Node(l, i + 1), x, Node(l, i))
    PROVE  Chain(k, next2, back2)
<1>0. Once(l) /\ Once(k)
  BY OnceInserted, Zenon DEF Chain
<1>1. Len(l) \in Nat /\ Len(k) = Len(l) + 1 /\ i + 1 \in 0..(Len(l) + 1) /\ i \in 0..(Len(l) + 1)
  BY <1>0 DEF Once, Inserted
<1>2. x \in Nodes /\ \A j \in 0..(Len(l) + 1) : Node(l, j) # x /\ Node(l, j) \in Nodes
  BY <1>0, NodeOther, NodeIs, Zenon DEF Nodes
<1>3. \A j, n \in 0..(Len(l) + 1) : Node(l, j) = Node(l, n) => j = n
  BY <1>0, NodeOnce, Zenon
<1>4. \A j \in 0..Len(l) : next[Node(l, j)] = Node(l, j + 1) /\ back[Node(l, j + 1)] = Node(l, j)
  BY Zenon DEF Chain, Chained
<1>5. /\ next2[x] = Node(l, i + 1) /\ next2[Node(l, i)] = x
      /\ back2[x] = Node(l, i) /\ back2[Node(l, i + 1)] = x
  BY <1>1, <1>2, Zenon DEF Over
<1>6. \A j \in 0..(Len(l) + 1) :
        /\ j # i => next2[Node(l, j)] = next[Node(l, j)]
        /\ j # i + 1 => back2[Node(l, j)] = back[Node(l, j)]
  BY <1>1, <1>2, <1>3, Zenon DEF Over
<1>7. ASSUME NEW j \in 0..Len(k)
      PROVE  next2[Node(k, j)] = Node(k, j + 1) /\ back2[Node(k, j + 1)] = Node(k, j)
  <2>1. j \in 0..(Len(l) + 2) /\ j + 1 \in 0..(Len(l) + 2)
    BY <1>1
  <2>2. \A n \in 0..(Len(l) + 2) : /\ n <= i => Node(k, n) = Node(l, n)
                                   /\ n = i + 1 => Node(k, n) = x
                                   /\ i + 1 < n => Node(k, n) = Node(l, n - 1)
    BY <1>0, NodeInserted
  <2>3. CASE j < i
    <3>1. j \in 0..Len(l) /\ j \in 0..(Len(l) + 1) /\ j + 1 \in 0..(Len(l) + 1) /\ j # i /\ j + 1 # i + 1
      BY <1>1, <2>3
    <3>2. Node(k, j) = Node(l, j) /\ Node(k, j + 1) = Node(l, j + 1)
      <4>1. j <= i /\ j + 1 <= i
        BY <1>1, <2>3
      <4> QED
        BY <2>1, <2>2, <4>1, Zenon
    <3> QED
      BY <1>4, <1>6, <3>1, <3>2, Zenon
  <2>4. CASE j = i
    <3>1. Node(k, j) = Node(l, j) /\ Node(k, j + 1) = x
      <4>1. j <= i /\ j + 1 = i + 1
        BY <1>1, <2>4
      <4> QED
        BY <2>1, <2>2, <4>1, Zenon
    <3> QED
      BY <1>5, <2>4, <3>1, Zenon
  <2>5. CASE j = i + 1
    <3>1. Node(k, j) = x /\ Node(k, j + 1) = Node(l, i + 1)
      <4>1. i + 1 < j + 1 /\ (j + 1) - 1 = i + 1
        BY <1>1, <2>5
      <4> QED
        BY <2>1, <2>2, <2>5, <4>1, Zenon
    <3> QED
      BY <1>5, <3>1, Zenon
  <2>6. CASE i + 1 < j
    <3>1. /\ j - 1 \in 0..Len(l) /\ j - 1 \in 0..(Len(l) + 1) /\ (j - 1) + 1 \in 0..(Len(l) + 1)
          /\ j - 1 # i /\ (j - 1) + 1 # i + 1
      BY <1>1, <2>6
    <3>2. Node(k, j) = Node(l, j - 1) /\ Node(k, j + 1) = Node(l, (j - 1) + 1)
      <4>1. i + 1 < j + 1 /\ (j + 1) - 1 = (j - 1) + 1
        BY <1>1, <2>6
      <4> QED
        BY <2>1, <2>2, <2>6, <4>1, Zenon
    <3> QED
      BY <1>4, <1>6, <3>1, <3>2, Zenon
  <2> QED
    BY <1>1, <2>3, <2>4, <2>5, <2>6
<1>8. Chained(k, next2, back2)
  BY <1>7, Zenon DEF Chained
<1>9. ASSUME NEW y \in Items, \A j \in 1..Len(k) : k[j] # y
      PROVE  next2[y] = Null /\ back2[y] = Null
  <2>1. ASSUME NEW j \in 1..Len(l)
        PROVE  l[j] # y
    <3>1. CASE j <= i
      <4>1. j \in 1..(Len(l) + 1) /\ j \in 1..Len(k)
        BY <1>1
      <4>2. k[j] = l[j]
        BY <3>1, <4>1, Zenon DEF Inserted
      <4> QED
        BY <1>9, <4>1, <4>2, Zenon
    <3>2. CASE i < j
      <4>1. /\ j + 1 \in 1..(Len(l) + 1) /\ j + 1 \in 1..Len(k) /\ ~(j + 1 <= i)
            /\ j + 1 # i + 1 /\ (j + 1) - 1 = j
        BY <1>1, <3>2
      <4>2. k[j + 1] = l[(j + 1) - 1]
        BY <4>1, Zenon DEF Inserted
      <4> QED
        BY <1>9, <4>1, <4>2, Zenon
    <3> QED
      BY <1>1, <3>1, <3>2
  <2>2. x # y
    <3>1. i + 1 \in 1..(Len(l) + 1) /\ i + 1 \in 1..Len(k) /\ ~(i + 1 <= i)
      BY <1>1
    <3>2. k[i + 1] = x
      BY <3>1, Zenon DEF Inserted
    <3> QED
      BY <1>9, <3>1, <3>2, Zenon
  <2>3. next[y] = Null /\ back[y] = Null
    BY <2>1, Zenon DEF Chain, Loose
  <2>4. y \in Nodes /\ Node(l, i) # y /\ Node(l, i + 1) # y
    BY <1>0, <1>1, <2>1, NodeOther, Zenon DEF Nodes
  <2> QED
    BY <2>2, <2>3, <2>4, Zenon DEF Over
<1>10. Loose(k, next2, back2)
  BY <1>9, Zenon DEF Loose
<1> QED
  BY <1>0, <1>8, <1>10, Zenon DEF Chain

\* The list k is l without what is at place p.
Taken(k, l, p) ==
    /\ Len(k) = Len(l) - 1
    /\ \A j \in 1..(Len(l) - 1) : k[j] = IF j < p THEN l[j] ELSE l[j + 1]

\* Where nodes are after a removal.
LEMMA NodeTaken ==
    ASSUME ItemAssumption, NEW l, Once(l), NEW p \in 1..Len(l),
           NEW k, Taken(k, l, p), NEW j \in 0..Len(l)
    PROVE  (j < p => Node(k, j) = Node(l, j)) /\ (~(j < p) => Node(k, j) = Node(l, j + 1))
<1>1. Len(l) \in Nat /\ Len(k) = Len(l) - 1
  BY DEF Once, Taken
<1>2. CASE j = 0
  BY <1>1, <1>2 DEF Node
<1>3. CASE j = Len(l)
  BY <1>1, <1>3 DEF Node
<1>4. CASE j \in 1..(Len(l) - 1)
  <2>1. k[j] = IF j < p THEN l[j] ELSE l[j + 1]
    BY <1>4, Zenon DEF Taken
  <2>2. Node(k, j) = k[j] /\ Node(l, j) = l[j] /\ Node(l, j + 1) = l[j + 1]
    BY <1>1, <1>4 DEF Node
  <2> QED
    BY <2>1, <2>2, Zenon
<1> QED
  BY <1>1, <1>2, <1>3, <1>4

\* The list after a removal has no item twice.
LEMMA OnceTaken ==
    ASSUME ItemAssumption, NEW l, Once(l), NEW p \in 1..Len(l), NEW k \in Seq(Items), Taken(k, l, p)
    PROVE  Once(k)
<1>1. Len(l) \in Nat /\ Len(k) = Len(l) - 1
  BY DEF Once, Taken
<1>2. \A q \in 1..Len(l) : \A r \in 1..Len(l) : q # r => l[q] # l[r]
  BY Zenon DEF Once
<1>3. ASSUME NEW m \in 1..Len(k), NEW n \in 1..Len(k), m < n
      PROVE  k[m] # k[n]
  <2>1. /\ k[m] = IF m < p THEN l[m] ELSE l[m + 1]
        /\ k[n] = IF n < p THEN l[n] ELSE l[n + 1]
    BY <1>1, Zenon DEF Taken
  <2>2. /\ m \in 1..Len(l) /\ n \in 1..Len(l) /\ m + 1 \in 1..Len(l) /\ n + 1 \in 1..Len(l)
        /\ m # n /\ m # n + 1 /\ m + 1 # n + 1 /\ (n < p => m < p)
    BY <1>1, <1>3
  <2> QED
    BY <1>2, <2>1, <2>2, Zenon
<1>4. ASSUME NEW m \in 1..Len(k), NEW n \in 1..Len(k), k[m] = k[n]
      PROVE  m = n
  <2>1. ~(m < n) /\ ~(n < m)
    BY <1>3, <1>4, Zenon
  <2> QED
    BY <1>1, <2>1
<1> QED
  BY <1>4, Zenon DEF Once

\* Pointers without what is at place p.
LEMMA ChainTaken ==
    ASSUME ItemAssumption, NEW l, NEW next, NEW back, Chain(l, next, back),
           NEW p \in 1..Len(l), NEW k \in Seq(Items), Taken(k, l, p),
           NEW next2, NEW back2, Pointers(next2), Pointers(back2),
           \A y \in Nodes : next2[y] = IF y = l[p] THEN Null
                                       ELSE IF y = Node(l, p - 1) THEN Node(l, p + 1) ELSE next[y],
           \A y \in Nodes : back2[y] = IF y = l[p] THEN Null
                                       ELSE IF y = Node(l, p + 1) THEN Node(l, p - 1) ELSE back[y]
    PROVE  Chain(k, next2, back2)
<1>0. Once(l) /\ Once(k)
  BY OnceTaken, Zenon DEF Chain
<1>1. /\ Len(l) \in Nat /\ Len(k) = Len(l) - 1
      /\ p \in 0..(Len(l) + 1) /\ p - 1 \in 0..(Len(l) + 1) /\ p + 1 \in 0..(Len(l) + 1)
      /\ p # p - 1 /\ p # p + 1
  BY <1>0 DEF Once, Taken
<1>2. l[p] = Node(l, p) /\ \A j \in 0..(Len(l) + 1) : Node(l, j) \in Nodes
  BY <1>0, <1>1, NodeIs, Zenon
<1>3. \A j, n \in 0..(Len(l) + 1) : Node(l, j) = Node(l, n) => j = n
  BY <1>0, NodeOnce, Zenon
<1>4. \A j \in 0..Len(l) : next[Node(l, j)] = Node(l, j + 1) /\ back[Node(l, j + 1)] = Node(l, j)
  BY Zenon DEF Chain, Chained
<1>5. next2[Node(l, p - 1)] = Node(l, p + 1) /\ back2[Node(l, p + 1)] = Node(l, p - 1)
  <2>1. Node(l, p - 1) # l[p] /\ Node(l, p + 1) # l[p]
    BY <1>1, <1>2, <1>3, Zenon
  <2> QED
    BY <1>1, <1>2, <2>1, Zenon
<1>6. \A j \in 0..(Len(l) + 1) :
        /\ j # p /\ j # p - 1 => next2[Node(l, j)] = next[Node(l, j)]
        /\ j # p /\ j # p + 1 => back2[Node(l, j)] = back[Node(l, j)]
  BY <1>1, <1>2, <1>3, Zenon
<1>7. ASSUME NEW j \in 0..Len(k)
      PROVE  next2[Node(k, j)] = Node(k, j + 1) /\ back2[Node(k, j + 1)] = Node(k, j)
  <2>1. j \in 0..Len(l) /\ j + 1 \in 0..Len(l)
    BY <1>1
  <2>2. \A n \in 0..Len(l) : /\ n < p => Node(k, n) = Node(l, n)
                             /\ ~(n < p) => Node(k, n) = Node(l, n + 1)
    BY <1>0, NodeTaken
  <2>3. CASE j + 1 < p
    <3>1. /\ j \in 0..Len(l) /\ j \in 0..(Len(l) + 1) /\ j + 1 \in 0..(Len(l) + 1)
          /\ j # p /\ j # p - 1 /\ j + 1 # p /\ j + 1 # p + 1 /\ j < p
      BY <1>1, <2>3
    <3>2. Node(k, j) = Node(l, j) /\ Node(k, j + 1) = Node(l, j + 1)
      BY <2>1, <2>2, <2>3, <3>1, Zenon
    <3>3. next2[Node(l, j)] = next[Node(l, j)] /\ back2[Node(l, j + 1)] = back[Node(l, j + 1)]
      BY <1>6, <3>1, Zenon
    <3> QED
      BY <1>4, <3>1, <3>2, <3>3, Zenon
  <2>4. CASE j + 1 = p
    <3>1. j = p - 1 /\ (j + 1) + 1 = p + 1 /\ j < p /\ ~(j + 1 < p)
      BY <1>1, <2>4
    <3> QED
      BY <1>5, <2>1, <2>2, <3>1, Zenon
  <2>5. CASE p < j + 1
    <3>1. /\ j + 1 \in 0..Len(l) /\ j + 1 \in 0..(Len(l) + 1) /\ (j + 1) + 1 \in 0..(Len(l) + 1)
          /\ j + 1 # p /\ j + 1 # p - 1 /\ (j + 1) + 1 # p /\ (j + 1) + 1 # p + 1
          /\ ~(j < p) /\ ~(j + 1 < p)
      BY <1>1, <2>5
    <3>2. Node(k, j) = Node(l, j + 1) /\ Node(k, j + 1) = Node(l, (j + 1) + 1)
      BY <2>1, <2>2, <3>1, Zenon
    <3>3. /\ next2[Node(l, j + 1)] = next[Node(l, j + 1)]
          /\ back2[Node(l, (j + 1) + 1)] = back[Node(l, (j + 1) + 1)]
      BY <1>6, <3>1, Zenon
    <3> QED
      BY <1>4, <3>1, <3>2, <3>3, Zenon
  <2> QED
    BY <1>1, <2>3, <2>4, <2>5
<1>8. Chained(k, next2, back2)
  BY <1>7, Zenon DEF Chained
<1>9. ASSUME NEW y \in Items, \A j \in 1..Len(k) : k[j] # y
      PROVE  next2[y] = Null /\ back2[y] = Null
  <2>0. y \in Nodes
    BY DEF Nodes
  <2>1. CASE y = l[p]
    BY <2>0, <2>1, Zenon
  <2>2. CASE y # l[p]
    <3>1. ASSUME NEW j \in 1..Len(l)
          PROVE  l[j] # y
      <4>1. CASE j < p
        <5>1. j \in 1..(Len(l) - 1) /\ j \in 1..Len(k)
          BY <1>1, <4>1
        <5>2. k[j] = l[j]
          BY <4>1, <5>1, Zenon DEF Taken
        <5> QED
          BY <1>9, <5>1, <5>2, Zenon
      <4>2. CASE p < j
        <5>1. j - 1 \in 1..(Len(l) - 1) /\ j - 1 \in 1..Len(k) /\ ~(j - 1 < p) /\ (j - 1) + 1 = j
          BY <1>1, <4>2
        <5>2. k[j - 1] = l[(j - 1) + 1]
          BY <5>1, Zenon DEF Taken
        <5> QED
          BY <1>9, <5>1, <5>2, Zenon
      <4>3. CASE j = p
        BY <2>2, <4>3, Zenon
      <4> QED
        BY <1>1, <4>1, <4>2, <4>3
    <3>2. next[y] = Null /\ back[y] = Null
      BY <3>1, Zenon DEF Chain, Loose
    <3>3. Node(l, p - 1) # y /\ Node(l, p + 1) # y
      BY <1>0, <1>1, <3>1, NodeOther, Zenon
    <3> QED
      BY <2>0, <2>2, <3>2, <3>3, Zenon
  <2> QED
    BY <2>1, <2>2, Zenon
<1>10. Loose(k, next2, back2)
  BY <1>9, Zenon DEF Loose
<1> QED
  BY <1>0, <1>8, <1>10, Zenon DEF Chain

-----------------------------------------------------------------------------
(* The operations of Lists.                                                *)

\* At is the place of an item.
LEMMA AtIs ==
    ASSUME ItemAssumption, NEW l, Once(l), NEW i \in 1..Len(l)
    PROVE  At(l, l[i]) = i /\ In(l, l[i])
<1>1. i \in DOMAIN l /\ DOMAIN l = 1..Len(l)
  BY NodeIs, 0 \in 0..(Len(l) + 1) DEF Once
<1>2. At(l, l[i]) \in DOMAIN l /\ l[At(l, l[i])] = l[i]
  BY <1>1, Zenon DEF At
<1>3. In(l, l[i])
  BY <1>1, Zenon DEF In
<1> QED
  BY <1>1, <1>2, <1>3, Zenon DEF Once

\* The list k is l with x at place i.
Placed(k, l, i, x) ==
    /\ Len(k) = Len(l) + 1
    /\ \A j \in 1..(Len(l) + 1) : k[j] = IF j < i THEN l[j] ELSE IF j = i THEN x ELSE l[j - 1]

\* What Place does: an entry more, those from there on move up.
LEMMA PlaceIs ==
    ASSUME NEW S, NEW l \in Seq(S), NEW x \in S, NEW i \in 1..(Len(l) + 1)
    PROVE  Place(l, i, x) \in Seq(S) /\ Placed(Place(l, i, x), l, i, x)
<1> DEFINE a == SubSeq(l, 1, i - 1)
           b == SubSeq(l, i, Len(l))
<1>0. Len(l) \in Nat
  OBVIOUS
<1>1. a \in Seq(S) /\ Len(a) = i - 1 /\ \A j \in 1..(i - 1) : a[j] = l[j]
  BY <1>0
<1>2. b \in Seq(S) /\ Len(b) = Len(l) - i + 1 /\ \A j \in 1..(Len(l) - i + 1) : b[j] = l[i + j - 1]
  BY <1>0
<1> HIDE DEF a, b
<1> DEFINE c == a \o <<x>>
           w == c \o b
<1>3. <<x>> \in Seq(S) /\ Len(<<x>>) = 1 /\ <<x>>[1] = x
  OBVIOUS
<1>4. c \in Seq(S) /\ Len(c) = i
      /\ \A j \in 1..i : c[j] = IF j < i THEN l[j] ELSE x
  <2>0. c \in Seq(S) /\ Len(c) = Len(a) + Len(<<x>>)
        /\ \A j \in 1..(Len(a) + Len(<<x>>)) :
             c[j] = IF j <= Len(a) THEN a[j] ELSE <<x>>[j - Len(a)]
    BY <1>1, <1>3, ConcatProperties, Zenon DEF c
  <2> HIDE DEF c
  <2>1. c \in Seq(S) /\ Len(c) = (i - 1) + 1
        /\ \A j \in 1..((i - 1) + 1) : c[j] = IF j <= i - 1 THEN a[j] ELSE <<x>>[j - (i - 1)]
    BY <1>1, <1>3, <2>0
  <2>2. ASSUME NEW j \in 1..i
        PROVE  c[j] = IF j < i THEN l[j] ELSE x
    <3>1. CASE j < i
      BY <1>0, <1>1, <2>1, <3>1
    <3>2. CASE j = i
      <4>1. j - (i - 1) = 1 /\ ~(j <= i - 1) /\ j \in 1..((i - 1) + 1)
        BY <1>0, <3>2
      <4> QED
        BY <1>3, <2>1, <3>2, <4>1
    <3> QED
      BY <1>0, <3>1, <3>2
  <2> QED
    BY <1>0, <2>1, <2>2
<1> HIDE DEF c
<1>4a. w \in Seq(S) /\ Len(w) = Len(c) + Len(b)
       /\ \A j \in 1..(Len(c) + Len(b)) : w[j] = IF j <= Len(c) THEN c[j] ELSE b[j - Len(c)]
  BY <1>2, <1>4, ConcatProperties, Zenon DEF w
<1> HIDE DEF w
<1>5. w \in Seq(S) /\ Len(w) = i + (Len(l) - i + 1)
      /\ \A j \in 1..(i + (Len(l) - i + 1)) : w[j] = IF j <= i THEN c[j] ELSE b[j - i]
  BY <1>2, <1>4, <1>4a
<1>6. ASSUME NEW j \in 1..(Len(l) + 1)
      PROVE  w[j] = IF j < i THEN l[j] ELSE IF j = i THEN x ELSE l[j - 1]
  <2>0. j \in 1..(i + (Len(l) - i + 1))
    BY <1>0
  <2>1. CASE j <= i
    <3>1. w[j] = c[j] /\ j \in 1..i
      BY <1>0, <1>5, <2>0, <2>1
    <3> QED
      BY <1>0, <1>4, <2>1, <3>1
  <2>2. CASE i < j
    <3>1. w[j] = b[j - i]
      BY <1>0, <1>5, <2>0, <2>2
    <3>2. j - i \in 1..(Len(l) - i + 1) /\ i + (j - i) - 1 = j - 1
      BY <1>0, <2>2
    <3>3. b[j - i] = l[i + (j - i) - 1]
      BY <1>2, <3>2
    <3> QED
      BY <1>0, <2>2, <3>1, <3>2, <3>3
  <2> QED
    BY <1>0, <2>1, <2>2
<1>7. Place(l, i, x) = w
  BY DEF Place, a, b, c, w
<1>8. i + (Len(l) - i + 1) = Len(l) + 1
  BY <1>0
<1>9. w \in Seq(S) /\ Placed(w, l, i, x)
  BY <1>5, <1>6, <1>8, Zenon DEF Placed
<1> QED
  BY <1>7, <1>9, Zenon

\* What without does: an entry less, those behind it move down.
LEMMA WithoutIs ==
    ASSUME NEW S, NEW l \in Seq(S), NEW x, In(l, x)
    PROVE  /\ without(l, x) \in Seq(S)
           /\ Len(without(l, x)) = Len(l) - 1
           /\ \A j \in 1..(Len(l) - 1) :
                without(l, x)[j] = IF j < At(l, x) THEN l[j] ELSE l[j + 1]
<1> DEFINE p == At(l, x)
           a == SubSeq(l, 1, p - 1)
           b == SubSeq(l, p + 1, Len(l))
<1>0. Len(l) \in Nat /\ p \in 1..Len(l)
  <2>1. p \in DOMAIN l
    BY Zenon DEF In, At
  <2> QED
    BY <2>1
<1> HIDE DEF p
<1>1. a \in Seq(S) /\ Len(a) = p - 1 /\ \A j \in 1..(p - 1) : a[j] = l[j]
  BY <1>0
<1>2. b \in Seq(S) /\ Len(b) = Len(l) - p /\ \A j \in 1..(Len(l) - p) : b[j] = l[p + j]
  BY <1>0
<1> HIDE DEF a, b
<1> DEFINE w == a \o b
<1>2a. w \in Seq(S) /\ Len(w) = Len(a) + Len(b)
       /\ \A j \in 1..(Len(a) + Len(b)) : w[j] = IF j <= Len(a) THEN a[j] ELSE b[j - Len(a)]
  BY <1>1, <1>2, ConcatProperties, Zenon DEF w
<1> HIDE DEF w
<1>3. w \in Seq(S) /\ Len(w) = (p - 1) + (Len(l) - p)
      /\ \A j \in 1..((p - 1) + (Len(l) - p)) : w[j] = IF j <= p - 1 THEN a[j] ELSE b[j - (p - 1)]
  BY <1>1, <1>2, <1>2a
<1>4. ASSUME NEW j \in 1..(Len(l) - 1)
      PROVE  w[j] = IF j < p THEN l[j] ELSE l[j + 1]
  <2>0. j \in 1..((p - 1) + (Len(l) - p))
    BY <1>0
  <2>1. CASE j < p
    <3>1. w[j] = a[j] /\ j \in 1..(p - 1)
      BY <1>0, <1>3, <2>0, <2>1
    <3> QED
      BY <1>1, <2>1, <3>1
  <2>2. CASE p <= j
    <3>1. w[j] = b[j - (p - 1)]
      BY <1>0, <1>3, <2>0, <2>2
    <3>2. j - (p - 1) \in 1..(Len(l) - p) /\ p + (j - (p - 1)) = j + 1
      BY <1>0, <2>2
    <3>3. b[j - (p - 1)] = l[p + (j - (p - 1))]
      BY <1>2, <3>2
    <3> QED
      BY <1>0, <2>2, <3>1, <3>2, <3>3
  <2> QED
    BY <1>0, <2>1, <2>2
<1>5. without(l, x) = w
  BY DEF without, a, b, w, p
<1>6. (p - 1) + (Len(l) - p) = Len(l) - 1
  BY <1>0
<1> QED
  BY <1>3, <1>4, <1>5, <1>6 DEF p

\* Place puts an item behind one more than none of the others.
LEMMA PlaceInserts ==
    ASSUME NEW l \in Seq(Items), NEW x \in Items, NEW i \in 0..Len(l)
    PROVE  Place(l, i + 1, x) \in Seq(Items) /\ Inserted(Place(l, i + 1, x), l, i, x)
<1> DEFINE n == i + 1
           k == Place(l, n, x)
<1>0. Len(l) \in Nat /\ n \in 1..(Len(l) + 1)
  OBVIOUS
<1>1. \A j \in 1..(Len(l) + 1) : j < n <=> j <= i
  BY <1>0
<1>2. n = i + 1
  OBVIOUS
<1> HIDE DEF n
<1>3. k \in Seq(Items) /\ Placed(k, l, n, x)
  BY <1>0, PlaceIs, Zenon
<1> HIDE DEF k
<1>4. /\ Len(k) = Len(l) + 1
      /\ \A j \in 1..(Len(l) + 1) :
           k[j] = IF j < n THEN l[j] ELSE IF j = n THEN x ELSE l[j - 1]
  BY <1>3, Zenon DEF Placed
<1>5. Inserted(k, l, i, x)
  BY <1>1, <1>2, <1>3, <1>4, Zenon DEF Inserted
<1> QED
  BY <1>2, <1>3, <1>5, Zenon DEF k

\* At the front,
LEMMA FrontInserts ==
    ASSUME NEW l \in Seq(Items), NEW x \in Items
    PROVE  atfront(l, x) \in Seq(Items) /\ Inserted(atfront(l, x), l, 0, x)
<1> DEFINE a == <<x>>
           k == a \o l
<1>1. Len(l) \in Nat /\ a \in Seq(Items) /\ Len(a) = 1 /\ a[1] = x
  OBVIOUS
<1> HIDE DEF a
<1>2. /\ k \in Seq(Items) /\ Len(k) = Len(a) + Len(l)
      /\ \A j \in 1..(Len(a) + Len(l)) : k[j] = IF j <= Len(a) THEN a[j] ELSE l[j - Len(a)]
  BY <1>1, ConcatProperties, Zenon
<1> HIDE DEF k
<1>3. Len(k) = Len(l) + 1
  BY <1>1, <1>2
<1>4. ASSUME NEW j \in 1..(Len(l) + 1)
      PROVE  k[j] = IF j <= 0 THEN l[j] ELSE IF j = 0 + 1 THEN x ELSE l[j - 1]
  <2>1. j \in 1..(Len(a) + Len(l)) /\ ~(j <= 0) /\ 0 + 1 = 1 /\ (j <= Len(a) <=> j = 1)
    BY <1>1
  <2>2. k[j] = IF j <= Len(a) THEN a[j] ELSE l[j - Len(a)]
    BY <1>2, <2>1, Zenon
  <2>3. k[j] = IF j = 1 THEN x ELSE l[j - 1]
    BY <1>1, <2>1, <2>2, Zenon
  <2> QED
    BY <2>1, <2>3, Zenon
<1>5. Inserted(k, l, 0, x)
  BY <1>3, <1>4, Zenon DEF Inserted
<1> QED
  BY <1>2, <1>5, Zenon DEF atfront, k, a

\* and at the back.
LEMMA BackInserts ==
    ASSUME NEW l \in Seq(Items), NEW x \in Items
    PROVE  atback(l, x) \in Seq(Items) /\ Inserted(atback(l, x), l, Len(l), x)
<1> DEFINE k == Append(l, x)
<1>1. Len(l) \in Nat
  OBVIOUS
<1>2. /\ k \in Seq(Items) /\ Len(k) = Len(l) + 1 /\ k[Len(l) + 1] = x
      /\ \A j \in 1..Len(l) : k[j] = l[j]
  BY AppendProperties
<1> HIDE DEF k
<1>3. ASSUME NEW j \in 1..(Len(l) + 1)
      PROVE  k[j] = IF j <= Len(l) THEN l[j] ELSE IF j = Len(l) + 1 THEN x ELSE l[j - 1]
  <2>1. CASE j <= Len(l)
    <3>1. j \in 1..Len(l)
      BY <1>1, <2>1
    <3> QED
      BY <1>2, <2>1, <3>1, Zenon
  <2>2. CASE ~(j <= Len(l))
    <3>1. j = Len(l) + 1
      BY <1>1, <2>2
    <3> QED
      BY <1>2, <2>2, <3>1, Zenon
  <2> QED
    BY <2>1, <2>2, Zenon
<1>4. Inserted(k, l, Len(l), x)
  BY <1>2, <1>3, Zenon DEF Inserted
<1> QED
  BY <1>2, <1>4, Zenon DEF atback, k

\* without takes an item out.
LEMMA WithoutTakes ==
    ASSUME ItemAssumption, NEW l, Once(l), NEW p \in 1..Len(l)
    PROVE  without(l, l[p]) \in Seq(Items) /\ Taken(without(l, l[p]), l, p)
<1>1. At(l, l[p]) = p /\ In(l, l[p]) /\ l \in Seq(Items)
  BY AtIs, Zenon DEF Once
<1> DEFINE k == without(l, l[p])
<1>2. /\ k \in Seq(Items) /\ Len(k) = Len(l) - 1
      /\ \A j \in 1..(Len(l) - 1) : k[j] = IF j < At(l, l[p]) THEN l[j] ELSE l[j + 1]
  BY <1>1, WithoutIs, Zenon
<1> HIDE DEF k
<1>3. Taken(k, l, p)
  BY <1>1, <1>2, Zenon DEF Taken
<1> QED
  BY <1>2, <1>3, Zenon DEF k

-----------------------------------------------------------------------------
(* Calls.                                                                  *)

\* What is linked is in the list, and the pointers lead to neighbours.
LEMMA LinkedIs ==
    ASSUME ItemAssumption, NEW l, Stands(d, l), NEW x \in Items
    PROVE  /\ Linked(x) => \E i \in 1..Len(l) : l[i] = x
           /\ ~Linked(x) => (\A i \in 1..Len(l) : l[i] # x) /\ d.next[x] = Null /\ d.back[x] = Null
<1>0. Once(l) /\ Chain(l, d.next, d.back)
  BY Zenon DEF Stands, Chain
<1>1. ASSUME \A i \in 1..Len(l) : l[i] # x
      PROVE  d.next[x] = Null /\ d.back[x] = Null
  BY <1>0, <1>1, Zenon DEF Chain, Loose
<1>2. ASSUME NEW i \in 1..Len(l), l[i] = x
      PROVE  d.next[x] # Null /\ d.back[x] # Null
  <2>1. /\ i \in 0..Len(l) /\ i - 1 \in 0..Len(l) /\ (i - 1) + 1 = i
        /\ i \in 0..(Len(l) + 1) /\ i + 1 \in 0..(Len(l) + 1) /\ i - 1 \in 0..(Len(l) + 1)
    BY <1>0 DEF Once
  <2>2. Node(l, i) = x /\ Node(l, i + 1) \in Nodes /\ Node(l, i - 1) \in Nodes
    BY <1>0, <1>2, <2>1, NodeIs, Zenon
  <2>3. d.next[x] = Node(l, i + 1) /\ d.back[x] = Node(l, i - 1)
    BY <1>0, <2>1, <2>2, Zenon DEF Chain, Chained
  <2>4. Null \notin Nodes
    BY DEF Nodes, ItemAssumption
  <2> QED
    BY <2>2, <2>3, <2>4, Zenon
<1> QED
  BY <1>1, <1>2, Zenon DEF Linked

\* The fields after Link.
LEMMA LinkIs ==
    ASSUME ItemAssumption, NEW l, Stands(d, l), NEW x \in Items, NEW p \in Nodes, NEW n \in Nodes,
           p # x, n # x, NEW call, NEW y, Does(Link(p, x, n), call, x, y)
    PROVE  /\ d' = [f \in Fields |-> d'[f]] /\ Pointers(d'.next) /\ Pointers(d'.back)
           /\ Over(d.next, d'.next, p, x, n) /\ Over(d.back, d'.back, n, x, p)
           /\ d'.sorted = d.sorted /\ d'.done = [call |-> call, x |-> x, y |-> y]
<1>1. d = [f \in Fields |-> d[f]] /\ Pointers(d.next) /\ Pointers(d.back)
  BY Zenon DEF Stands, Chain
<1>2. d' = [Link(p, x, n) EXCEPT !.done = [call |-> call, x |-> x, y |-> y]]
  BY Zenon DEF Does
<1>3. /\ d' = [f \in Fields |-> d'[f]]
      /\ d'.next = [[d.next EXCEPT ![x] = n] EXCEPT ![p] = x]
      /\ d'.back = [[d.back EXCEPT ![x] = p] EXCEPT ![n] = x]
      /\ d'.sorted = d.sorted /\ d'.done = [call |-> call, x |-> x, y |-> y]
  BY <1>1, <1>2 DEF Link, Fields
<1>4. x \in Nodes
  BY DEF Nodes
<1>5. Pointers(d'.next) /\ Over(d.next, d'.next, p, x, n)
  BY <1>1, <1>3, <1>4 DEF Pointers, Over
<1>6. Pointers(d'.back) /\ Over(d.back, d'.back, n, x, p)
  BY <1>1, <1>3, <1>4 DEF Pointers, Over
<1> QED
  BY <1>3, <1>5, <1>6, Zenon

\* The link of an item between two places.
LEMMA LinkStands ==
    ASSUME ItemAssumption, NEW l, Stands(d, l), NEW x \in Items, ~Linked(x), NEW i \in 0..Len(l),
           NEW call, NEW y, Does(Link(Node(l, i), x, Node(l, i + 1)), call, x, y),
           NEW k \in Seq(Items), Inserted(k, l, i, x)
    PROVE  Stands(d', k) /\ d'.done = [call |-> call, x |-> x, y |-> y]
<1>0. Once(l) /\ Chain(l, d.next, d.back) /\ \A j \in 1..Len(l) : l[j] # x
  BY LinkedIs, Zenon DEF Stands, Chain
<1>1. i \in 0..(Len(l) + 1) /\ i + 1 \in 0..(Len(l) + 1)
  BY <1>0 DEF Once
<1>2. /\ Node(l, i) \in Nodes /\ Node(l, i + 1) \in Nodes
      /\ Node(l, i) # x /\ Node(l, i + 1) # x
  BY <1>0, <1>1, NodeIs, NodeOther, Zenon
<1>3. /\ d' = [f \in Fields |-> d'[f]] /\ Pointers(d'.next) /\ Pointers(d'.back)
      /\ Over(d.next, d'.next, Node(l, i), x, Node(l, i + 1))
      /\ Over(d.back, d'.back, Node(l, i + 1), x, Node(l, i))
      /\ d'.done = [call |-> call, x |-> x, y |-> y]
  BY <1>2, LinkIs
<1>4. Chain(k, d'.next, d'.back)
  BY <1>0, <1>3, ChainInserted, Zenon
<1> QED
  BY <1>3, <1>4, Zenon DEF Stands

\* remove takes an item's link out.
LEMMA RemoveStands ==
    ASSUME ItemAssumption, NEW l, Stands(d, l), NEW x \in Items, Remove(x)
    PROVE  /\ In(l, x) /\ Stands(d', without(l, x))
           /\ d'.done = [call |-> "remove", x |-> x, y |-> Null]
<1>0. Once(l) /\ Chain(l, d.next, d.back)
  BY Zenon DEF Stands, Chain
<1>1. Linked(x) /\ Does(remove(x), "remove", x, Null)
  BY Zenon DEF Remove
<1>2. PICK p \in 1..Len(l) : l[p] = x
  BY <1>1, LinkedIs, Zenon
<1> DEFINE a == Node(l, p - 1)
           b == Node(l, p + 1)
<1>3. /\ p \in 0..Len(l) /\ p - 1 \in 0..Len(l) /\ (p - 1) + 1 = p /\ p # p - 1 /\ p # p + 1
      /\ p \in 0..(Len(l) + 1) /\ p + 1 \in 0..(Len(l) + 1) /\ p - 1 \in 0..(Len(l) + 1)
  BY <1>0 DEF Once
<1>4. Node(l, p) = x /\ a \in Nodes /\ b \in Nodes
  BY <1>0, <1>2, <1>3, NodeIs, Zenon
<1>5. d.next[x] = b /\ d.back[x] = a
  BY <1>0, <1>3, <1>4, Zenon DEF Chain, Chained
<1>6. a # x /\ b # x
  BY <1>0, <1>3, <1>4, NodeOnce, Zenon
<1> HIDE DEF a, b
<1>7. d = [f \in Fields |-> d[f]] /\ Pointers(d.next) /\ Pointers(d.back)
  BY Zenon DEF Stands, Chain
<1>8. d' = [remove(x) EXCEPT !.done = [call |-> "remove", x |-> x, y |-> Null]]
  BY <1>1, Zenon DEF Does
<1>9. /\ d' = [f \in Fields |-> d'[f]]
      /\ d'.next = [[d.next EXCEPT ![a] = b] EXCEPT ![x] = Null]
      /\ d'.back = [[d.back EXCEPT ![b] = a] EXCEPT ![x] = Null]
      /\ d'.sorted = d.sorted /\ d'.done = [call |-> "remove", x |-> x, y |-> Null]
  BY <1>5, <1>7, <1>8 DEF remove, Fields
<1>10. x \in Nodes
  BY DEF Nodes
<1>11. /\ Pointers(d'.next)
       /\ \A y \in Nodes : d'.next[y] = IF y = x THEN Null ELSE IF y = a THEN b ELSE d.next[y]
  BY <1>4, <1>7, <1>9, <1>10 DEF Pointers
<1>12. /\ Pointers(d'.back)
       /\ \A y \in Nodes : d'.back[y] = IF y = x THEN Null ELSE IF y = b THEN a ELSE d.back[y]
  BY <1>4, <1>7, <1>9, <1>10 DEF Pointers
<1>13. without(l, l[p]) \in Seq(Items) /\ Taken(without(l, l[p]), l, p)
  BY <1>0, WithoutTakes, Zenon
<1>14. /\ \A y \in Nodes : d'.next[y] = IF y = l[p] THEN Null ELSE IF y = a THEN b ELSE d.next[y]
       /\ \A y \in Nodes : d'.back[y] = IF y = l[p] THEN Null ELSE IF y = b THEN a ELSE d.back[y]
  BY <1>2, <1>11, <1>12, Zenon
<1>15. Chain(without(l, l[p]), d'.next, d'.back)
  BY <1>0, <1>11, <1>12, <1>13, <1>14, ChainTaken DEF a, b
<1>16. Stands(d', without(l, l[p]))
  BY <1>9, <1>15, Zenon DEF Stands
<1>17. In(l, l[p])
  BY <1>0, AtIs, Zenon
<1> QED
  BY <1>2, <1>9, <1>16, <1>17, Zenon

\* The neighbours of a place.
LEMMA NeighboursAre ==
    ASSUME ItemAssumption, NEW e, NEW l, Stands(e, l), NEW i \in 1..Len(l)
    PROVE  /\ Node(l, i) = l[i] /\ l[i] \in Items
           /\ e.next[l[i]] = Node(l, i + 1) /\ e.back[l[i]] = Node(l, i - 1)
<1>0. Once(l) /\ Chain(l, e.next, e.back)
  BY Zenon DEF Stands, Chain
<1>1. i \in 0..Len(l) /\ i - 1 \in 0..Len(l) /\ (i - 1) + 1 = i /\ i \in 0..(Len(l) + 1)
  BY <1>0 DEF Once
<1>2. Node(l, i) = l[i] /\ l[i] \in Items
  BY <1>0, <1>1, NodeIs, Zenon
<1> QED
  BY <1>0, <1>1, <1>2, Zenon DEF Chain, Chained

\* And the ends of the list.
LEMMA EndsAre ==
    ASSUME ItemAssumption, NEW e, NEW l, Stands(e, l)
    PROVE  /\ Len(l) \in Nat /\ l \in Seq(Items) /\ Once(l) /\ DOMAIN l = 1..Len(l)
           /\ Node(l, 0) = HeadNode /\ Node(l, Len(l) + 1) = TailNode
           /\ e.next[HeadNode] = Node(l, 1) /\ e.back[TailNode] = Node(l, Len(l))
           /\ l = <<>> <=> Len(l) = 0
           /\ \A i \in 1..Len(l) : l[i] # TailNode /\ l[i] # HeadNode /\ l[i] # Null
<1>0. Once(l) /\ Chain(l, e.next, e.back) /\ l \in Seq(Items)
  BY Zenon DEF Stands, Chain, Once
<1>1. Len(l) \in Nat /\ DOMAIN l = 1..Len(l) /\ (l = <<>> <=> Len(l) = 0)
  BY <1>0
<1>2. 0 \in 0..Len(l) /\ Len(l) \in 0..Len(l) /\ 0 \in 0..(Len(l) + 1) /\ 0 + 1 = 1
  BY <1>1
<1>3. Node(l, 0) = HeadNode /\ Node(l, Len(l) + 1) = TailNode
  BY <1>0, <1>2, NodeIs, Zenon
<1>4. e.next[HeadNode] = Node(l, 1) /\ e.back[TailNode] = Node(l, Len(l))
  BY <1>0, <1>2, <1>3, Zenon DEF Chain, Chained
<1>5. \A i \in 1..Len(l) : l[i] \in Items
  BY <1>0
<1> QED
  BY <1>0, <1>1, <1>3, <1>4, <1>5, Zenon DEF ItemAssumption

\* In front of all others.
LEMMA FrontStands ==
    ASSUME ItemAssumption, NEW l, Stands(d, l), NEW x \in Items, ~Linked(x), NEW call,
           Does(insertatfront(x), call, x, Null)
    PROVE  Stands(d', atfront(l, x)) /\ d'.done = [call |-> call, x |-> x, y |-> Null]
<1>1. /\ l \in Seq(Items) /\ Len(l) \in Nat
      /\ Node(l, 0) = HeadNode /\ d.next[HeadNode] = Node(l, 1)
  BY EndsAre, Zenon
<1>2. 0 \in 0..Len(l) /\ 0 + 1 = 1
  BY <1>1
<1>3. Does(Link(Node(l, 0), x, Node(l, 0 + 1)), call, x, Null)
  BY <1>1, <1>2, Zenon DEF insertatfront
<1>4. atfront(l, x) \in Seq(Items) /\ Inserted(atfront(l, x), l, 0, x)
  BY <1>1, FrontInserts, Zenon
<1> QED
  BY <1>2, <1>3, <1>4, LinkStands

\* Behind all others.
LEMMA BackStands ==
    ASSUME ItemAssumption, NEW l, Stands(d, l), NEW x \in Items, ~Linked(x), NEW call,
           Does(insertatback(x), call, x, Null)
    PROVE  Stands(d', atback(l, x)) /\ d'.done = [call |-> call, x |-> x, y |-> Null]
<1>1. /\ l \in Seq(Items) /\ Len(l) \in Nat
      /\ Node(l, Len(l) + 1) = TailNode /\ d.back[TailNode] = Node(l, Len(l))
  BY EndsAre, Zenon
<1>2. Len(l) \in 0..Len(l)
  BY <1>1
<1>3. Does(Link(Node(l, Len(l)), x, Node(l, Len(l) + 1)), call, x, Null)
  BY <1>1, Zenon DEF insertatback
<1>4. atback(l, x) \in Seq(Items) /\ Inserted(atback(l, x), l, Len(l), x)
  BY <1>1, BackInserts, Zenon
<1> QED
  BY <1>2, <1>3, <1>4, LinkStands

\* Behind the item at place i.
LEMMA BehindStands ==
    ASSUME ItemAssumption, NEW l, Stands(d, l), NEW x \in Items, ~Linked(x), NEW call, NEW y,
           NEW i \in 1..Len(l), Does(insertafter(l[i], x), call, x, y)
    PROVE  Stands(d', Place(l, i + 1, x)) /\ d'.done = [call |-> call, x |-> x, y |-> y]
<1>1. l \in Seq(Items) /\ Len(l) \in Nat
  BY EndsAre, Zenon
<1>2. i \in 0..Len(l)
  BY <1>1
<1>3. Node(l, i) = l[i] /\ d.next[l[i]] = Node(l, i + 1)
  BY NeighboursAre
<1>4. Does(Link(Node(l, i), x, Node(l, i + 1)), call, x, y)
  BY <1>3, Zenon DEF insertafter
<1>5. Place(l, i + 1, x) \in Seq(Items) /\ Inserted(Place(l, i + 1, x), l, i, x)
  BY <1>1, <1>2, PlaceInserts, Zenon
<1> QED
  BY <1>2, <1>4, <1>5, LinkStands

\* In front of the item at place i.
LEMMA BeforeStands ==
    ASSUME ItemAssumption, NEW l, Stands(d, l), NEW x \in Items, ~Linked(x), NEW call, NEW y,
           NEW i \in 1..Len(l), Does(insertbefore(l[i], x), call, x, y)
    PROVE  Stands(d', Place(l, i, x)) /\ d'.done = [call |-> call, x |-> x, y |-> y]
<1>1. l \in Seq(Items) /\ Len(l) \in Nat
  BY EndsAre, Zenon
<1>2. i - 1 \in 0..Len(l) /\ (i - 1) + 1 = i
  BY <1>1
<1>3. Node(l, i) = l[i] /\ d.back[l[i]] = Node(l, i - 1)
  BY NeighboursAre
<1>4. Does(Link(Node(l, i - 1), x, Node(l, (i - 1) + 1)), call, x, y)
  BY <1>2, <1>3, Zenon DEF insertbefore
<1>5. Place(l, (i - 1) + 1, x) \in Seq(Items) /\ Inserted(Place(l, (i - 1) + 1, x), l, i - 1, x)
  BY <1>1, <1>2, PlaceInserts, Zenon
<1>6. Stands(d', Place(l, (i - 1) + 1, x)) /\ d'.done = [call |-> call, x |-> x, y |-> y]
  BY <1>2, <1>4, <1>5, LinkStands
<1> QED
  BY <1>2, <1>6, Zenon

-----------------------------------------------------------------------------
(* The place in a sorted list.                                             *)

\* The walk for x ends at place i.
Halts(l, x, i) == i = Len(l) \/ KeyOf(x) < KeyOf(l[i + 1])

\* The first place from i on where it does.
StopsAt(l, x, i, j) ==
    j \in i..Len(l) /\ Halts(l, x, j) /\ \A k \in i..(j - 1) : ~Halts(l, x, k)

\* That place.
StopFrom(l, x, i) == CHOOSE j : StopsAt(l, x, i, j)

\* There is one such place.
LEMMA StopOnce ==
    ASSUME NEW l, Len(l) \in Nat, NEW x, NEW i \in 1..Len(l), NEW j, StopsAt(l, x, i, j)
    PROVE  StopFrom(l, x, i) = j
<1>1. StopsAt(l, x, i, StopFrom(l, x, i))
  BY Zenon DEF StopFrom
<1> DEFINE k == StopFrom(l, x, i)
<1> HIDE DEF k
<1>2. StopsAt(l, x, i, k)
  BY <1>1 DEF k
<1>3. j \in i..Len(l) /\ k \in i..Len(l) /\ Halts(l, x, j) /\ Halts(l, x, k)
  BY <1>2, Zenon DEF StopsAt
<1>4. ~(j \in i..(k - 1)) /\ ~(k \in i..(j - 1))
  BY <1>2, <1>3, Zenon DEF StopsAt
<1>5. j = k
  BY <1>3, <1>4
<1> QED
  BY <1>5 DEF k

\* It is this place or that of the next.
LEMMA StopIs ==
    ASSUME NEW l, Len(l) \in Nat, NEW x, NEW i \in 1..Len(l)
    PROVE  /\ StopsAt(l, x, i, StopFrom(l, x, i))
           /\ Halts(l, x, i) => StopFrom(l, x, i) = i
           /\ ~Halts(l, x, i) => i + 1 \in 1..Len(l) /\ StopFrom(l, x, i) = StopFrom(l, x, i + 1)
<1>1. \A n \in 1..Len(l) : StopsAt(l, x, n, StopFrom(l, x, n))
  <2>1. ASSUME NEW n \in 1..Len(l)
        PROVE  \E j : StopsAt(l, x, n, j)
    <3> DEFINE T == {j \in n..Len(l) : Halts(l, x, j)}
    <3>1. Len(l) \in T /\ T \subseteq Nat
      BY DEF Halts
    <3>2. \A k \in T : k \in n..Len(l) /\ Halts(l, x, k)
      BY Zenon
    <3>3. \A k \in n..Len(l) : Halts(l, x, k) => k \in T
      BY Zenon
    <3> HIDE DEF T
    <3>4. PICK j \in T : \A k \in T : j <= k
      BY <3>1, LeastExists
    <3>5. ASSUME NEW k \in n..(j - 1)
          PROVE  ~Halts(l, x, k)
      <4>1. j \in n..Len(l)
        BY <3>2, <3>4, Zenon
      <4>2. k \in n..Len(l) /\ ~(j <= k)
        BY <4>1
      <4> QED
        BY <3>3, <3>4, <4>2, Zenon
    <3> QED
      BY <3>2, <3>4, <3>5, Zenon DEF StopsAt
  <2> QED
    BY <2>1, Zenon DEF StopFrom
<1>2. ASSUME Halts(l, x, i)
      PROVE  StopFrom(l, x, i) = i
  <2>1. i \in i..Len(l) /\ \A k \in i..(i - 1) : FALSE
    OBVIOUS
  <2>2. StopsAt(l, x, i, i)
    BY <1>2, <2>1, Zenon DEF StopsAt
  <2> QED
    BY <2>2, StopOnce, Zenon
<1>3. ASSUME ~Halts(l, x, i)
      PROVE  i + 1 \in 1..Len(l) /\ StopFrom(l, x, i) = StopFrom(l, x, i + 1)
  <2>1. i + 1 \in 1..Len(l)
    BY <1>3 DEF Halts
  <2> DEFINE j == StopFrom(l, x, i + 1)
  <2>2. StopsAt(l, x, i + 1, j)
    BY <1>1, <2>1, Zenon
  <2> HIDE DEF j
  <2>3. j \in (i + 1)..Len(l) /\ Halts(l, x, j) /\ \A k \in (i + 1)..(j - 1) : ~Halts(l, x, k)
    BY <2>2, Zenon DEF StopsAt
  <2>4. j \in i..Len(l) /\ \A k \in i..(j - 1) : k = i \/ k \in (i + 1)..(j - 1)
    BY <2>3
  <2>5. StopsAt(l, x, i, j)
    BY <1>3, <2>3, <2>4, Zenon DEF StopsAt
  <2>6. StopFrom(l, x, i) = j
    BY <2>5, StopOnce, Zenon
  <2> QED
    BY <2>1, <2>6 DEF j
<1> QED
  BY <1>1, <1>2, <1>3, Zenon

\* The recursion of Behind.
Walks(go, x) ==
    go = [y \in {z \in Items : Linked(z)} |->
            IF d.next[y] = TailNode THEN y
            ELSE IF KeyOf(x) < KeyOf(d.next[y]) THEN y ELSE go[d.next[y]]]

\* One step of it from a place of the list.
LEMMA WalkStep ==
    ASSUME ItemAssumption, NEW l, Stands(d, l), NEW x \in Items, NEW i \in 1..Len(l)
    PROVE  /\ Linked(l[i]) /\ l[i] \in Items
           /\ Halts(l, x, i) => d.next[l[i]] = TailNode \/ KeyOf(x) < KeyOf(d.next[l[i]])
           /\ ~Halts(l, x, i) => /\ d.next[l[i]] = l[i + 1] /\ d.next[l[i]] # TailNode
                                 /\ ~(KeyOf(x) < KeyOf(d.next[l[i]]))
<1>1. /\ Len(l) \in Nat /\ Node(l, Len(l) + 1) = TailNode
      /\ \A j \in 1..Len(l) : l[j] # TailNode
  BY EndsAre, Zenon
<1>2. \A j \in 1..Len(l) : Node(l, j) = l[j] /\ l[j] \in Items /\ d.next[l[j]] = Node(l, j + 1)
  BY NeighboursAre
<1>3. Linked(l[i])
  BY <1>2, LinkedIs, Zenon
<1>4. CASE i = Len(l)
  <2>1. Halts(l, x, i) /\ d.next[l[i]] = TailNode
    BY <1>1, <1>2, <1>4, Zenon DEF Halts
  <2> QED
    BY <1>2, <1>3, <2>1, Zenon
<1>5. CASE i # Len(l)
  <2>1. i + 1 \in 1..Len(l)
    BY <1>1, <1>5
  <2>2. d.next[l[i]] = l[i + 1] /\ l[i + 1] # TailNode
    BY <1>1, <1>2, <2>1, Zenon
  <2>3. Halts(l, x, i) <=> KeyOf(x) < KeyOf(l[i + 1])
    BY <1>5, Zenon DEF Halts
  <2> QED
    BY <1>2, <1>3, <2>2, <2>3, Zenon
<1> QED
  BY <1>4, <1>5, Zenon

\* There is a function that it defines.
LEMMA WalkExists ==
    ASSUME ItemAssumption, NEW l, Stands(d, l), NEW x \in Items
    PROVE  \E go : Walks(go, x)
<1> DEFINE L == {z \in Items : Linked(z)}
           G == [y \in L |-> l[StopFrom(l, x, At(l, y))]]
<1>0. Len(l) \in Nat /\ Once(l)
  BY EndsAre, Zenon
<1>1. \A i \in 1..Len(l) : l[i] \in L /\ At(l, l[i]) = i
  BY <1>0, WalkStep, AtIs, Zenon
<1>2. \A i \in 1..Len(l) : G[l[i]] = l[StopFrom(l, x, i)]
  BY <1>1, Zenon
<1>3. \A y \in L : \E i \in 1..Len(l) : l[i] = y
  BY LinkedIs, Zenon
<1> HIDE DEF G
<1>4. ASSUME NEW y \in L
      PROVE  G[y] = IF d.next[y] = TailNode THEN y
                    ELSE IF KeyOf(x) < KeyOf(d.next[y]) THEN y ELSE G[d.next[y]]
  <2>1. PICK i \in 1..Len(l) : l[i] = y
    BY <1>3, Zenon
  <2>2. CASE Halts(l, x, i)
    <3>1. StopFrom(l, x, i) = i
      BY <1>0, <2>2, StopIs, Zenon
    <3>2. G[y] = y
      BY <1>2, <2>1, <3>1, Zenon
    <3>3. d.next[y] = TailNode \/ KeyOf(x) < KeyOf(d.next[y])
      BY <2>1, <2>2, WalkStep, Zenon
    <3> QED
      BY <3>2, <3>3, Zenon
  <2>3. CASE ~Halts(l, x, i)
    <3>1. i + 1 \in 1..Len(l) /\ StopFrom(l, x, i) = StopFrom(l, x, i + 1)
      BY <1>0, <2>3, StopIs, Zenon
    <3>2. G[y] = G[l[i + 1]]
      BY <1>2, <2>1, <3>1, Zenon
    <3>3. /\ d.next[y] = l[i + 1] /\ d.next[y] # TailNode
          /\ ~(KeyOf(x) < KeyOf(d.next[y]))
      BY <2>1, <2>3, WalkStep, Zenon
    <3> QED
      BY <3>2, <3>3, Zenon
  <2> QED
    BY <2>2, <2>3, Zenon
<1>5. G = [y \in L |-> IF d.next[y] = TailNode THEN y
                       ELSE IF KeyOf(x) < KeyOf(d.next[y]) THEN y ELSE G[d.next[y]]]
  <2>1. G = [y \in L |-> G[y]]
    BY Zenon DEF G
  <2> QED
    BY <1>4, <2>1, Zenon
<1> QED
  BY <1>5, Zenon DEF Walks

\* Behind is the last item before a greater key.
LEMMA BehindIs ==
    ASSUME ItemAssumption, NEW l, Stands(d, l), NEW x \in Items, Len(l) # 0
    PROVE  Behind(x) = l[StopFrom(l, x, 1)]
<1>0. Len(l) \in Nat /\ d.next[HeadNode] = Node(l, 1)
  BY EndsAre, Zenon
<1>1. 1 \in 1..Len(l)
  BY <1>0
<1>2. d.next[HeadNode] = l[1]
  BY <1>0, <1>1, NeighboursAre
<1>3. \E go : Walks(go, x) /\ Behind(x) = go[l[1]]
  <2> DEFINE go[y \in {z \in Items : Linked(z)}] ==
               IF d.next[y] = TailNode THEN y
               ELSE IF KeyOf(x) < KeyOf(d.next[y]) THEN y ELSE go[d.next[y]]
  <2>1. go = CHOOSE g : Walks(g, x)
    BY Zenon DEF Walks
  <2>2. Walks(go, x)
    BY <2>1, WalkExists, Zenon
  <2>3. Behind(x) = go[d.next[HeadNode]]
    BY Zenon DEF Behind
  <2> QED
    BY <1>2, <2>2, <2>3, Zenon
<1>4. PICK go : Walks(go, x) /\ Behind(x) = go[l[1]]
  BY <1>3, Zenon
<1>5. \A i \in 1..Len(l) : l[i] \in {z \in Items : Linked(z)}
  BY WalkStep, Zenon
<1>6. \A i \in 1..Len(l) : /\ Halts(l, x, i) => go[l[i]] = l[i]
                           /\ ~Halts(l, x, i) => go[l[i]] = go[l[i + 1]]
  <2>1. ASSUME NEW i \in 1..Len(l)
        PROVE  go[l[i]] = IF d.next[l[i]] = TailNode THEN l[i]
                          ELSE IF KeyOf(x) < KeyOf(d.next[l[i]]) THEN l[i] ELSE go[d.next[l[i]]]
    BY <1>4, <1>5, Zenon DEF Walks
  <2>2. ASSUME NEW i \in 1..Len(l), Halts(l, x, i)
        PROVE  go[l[i]] = l[i]
    BY <2>1, <2>2, WalkStep, Zenon
  <2>3. ASSUME NEW i \in 1..Len(l), ~Halts(l, x, i)
        PROVE  go[l[i]] = go[l[i + 1]]
    <3>1. /\ d.next[l[i]] = l[i + 1] /\ d.next[l[i]] # TailNode
          /\ ~(KeyOf(x) < KeyOf(d.next[l[i]]))
      BY <2>3, WalkStep, Zenon
    <3>2. go[l[i]] = go[d.next[l[i]]]
      BY <2>1, <3>1, Zenon
    <3> QED
      BY <3>1, <3>2, Zenon
  <2> QED
    BY <2>2, <2>3, Zenon
<1> DEFINE m == StopFrom(l, x, 1)
           T == {n \in Nat : n < m /\ go[l[m - n]] # l[m]}
<1>7. StopsAt(l, x, 1, m)
  BY <1>0, <1>1, StopIs, Zenon
<1> HIDE DEF m
<1>8. m \in 1..Len(l) /\ Halts(l, x, m) /\ \A k \in 1..(m - 1) : ~Halts(l, x, k)
  BY <1>7, Zenon DEF StopsAt
<1>9. \A n \in T : n \in Nat /\ n < m /\ go[l[m - n]] # l[m]
  BY Zenon
<1>10. \A n \in Nat : n < m /\ n \notin T => go[l[m - n]] = l[m]
  BY Zenon
<1>11. T \subseteq Nat
  BY Zenon
<1> HIDE DEF T
<1>12. T = {}
  <2> SUFFICES ASSUME T # {} PROVE FALSE
    BY Zenon
  <2>1. PICK n \in T : \A k \in T : n <= k
    BY <1>11, LeastExists
  <2>2. n \in Nat /\ n < m /\ go[l[m - n]] # l[m]
    BY <1>9, Zenon
  <2>3. CASE n = 0
    <3>1. m - n = m
      BY <1>8, <2>3
    <3> QED
      BY <1>6, <1>8, <2>2, <3>1, Zenon
  <2>4. CASE n # 0
    <3>1. /\ m - n \in 1..(m - 1) /\ m - n \in 1..Len(l) /\ (m - n) + 1 = m - (n - 1)
          /\ n - 1 \in Nat /\ n - 1 < m /\ ~(n <= n - 1)
      BY <1>0, <1>8, <2>2, <2>4
    <3>2. go[l[m - n]] = go[l[(m - n) + 1]]
      BY <1>6, <1>8, <3>1, Zenon
    <3>3. n - 1 \notin T
      BY <2>1, <3>1, Zenon
    <3>4. go[l[m - (n - 1)]] = l[m]
      BY <1>10, <3>1, <3>3, Zenon
    <3> QED
      BY <2>2, <3>1, <3>2, <3>4, Zenon
  <2> QED
    BY <2>3, <2>4, Zenon
<1>13. go[l[1]] = l[m]
  <2>1. m - 1 \in Nat /\ m - 1 < m /\ m - (m - 1) = 1
    BY <1>0, <1>8
  <2>2. m - 1 \notin T
    BY <1>12, Zenon
  <2> QED
    BY <1>10, <2>1, <2>2, Zenon
<1> QED
  BY <1>4, <1>13, Zenon DEF m

\* insort puts x in front of the first greater key.
LEMMA InsortInserts ==
    ASSUME ItemAssumption, NEW l \in Seq(Items), NEW x \in Items, NEW i \in 0..Len(l),
           \A j \in 1..i : ~(KeyOf(x) < KeyOf(l[j])), Halts(l, x, i)
    PROVE  insort(l, x, KeyOf) \in Seq(Items) /\ Inserted(insort(l, x, KeyOf), l, i, x)
<1> DEFINE greater == {j \in DOMAIN l : KeyOf(x) < KeyOf(l[j])}
           at == CHOOSE j \in greater : \A k \in greater : j <= k
<1>0. Len(l) \in Nat /\ DOMAIN l = 1..Len(l)
  OBVIOUS
<1>1. insort(l, x, KeyOf) = IF greater = {} THEN atback(l, x) ELSE Place(l, at, x)
  BY Zenon DEF insort
<1>2. \A j \in greater : j \in 1..Len(l) /\ KeyOf(x) < KeyOf(l[j])
  BY <1>0, Zenon
<1>3. \A j \in 1..Len(l) : KeyOf(x) < KeyOf(l[j]) => j \in greater
  BY <1>0, Zenon
<1> HIDE DEF greater
<1>4. \A j \in greater : i + 1 <= j
  <2>1. ASSUME NEW j \in greater
        PROVE  i + 1 <= j
    <3>1. j \in 1..Len(l) /\ ~(j \in 1..i)
      BY <1>2, Zenon
    <3> QED
      BY <1>0, <3>1
  <2> QED
    BY <2>1, Zenon
<1>5. CASE i = Len(l)
  <2>1. greater = {}
    <3>1. ASSUME NEW j \in greater
          PROVE  FALSE
      <4>1. j \in 1..Len(l) /\ i + 1 <= j
        BY <1>2, <1>4, Zenon
      <4> QED
        BY <1>0, <1>5, <4>1
    <3> QED
      BY <3>1, Zenon
  <2> QED
    BY <1>1, <1>5, <2>1, BackInserts, Zenon
<1>6. CASE i # Len(l)
  <2>1. i + 1 \in 1..Len(l) /\ i + 1 <= i + 1
    BY <1>0, <1>6
  <2>2. i + 1 \in greater
    BY <1>3, <1>6, <2>1, Zenon DEF Halts
  <2>3. at \in greater /\ \A k \in greater : at <= k
    BY <1>4, <2>2, Zenon
  <2> HIDE DEF at
  <2>4. at = i + 1
    <3>1. at <= i + 1 /\ i + 1 <= at /\ at \in 1..Len(l)
      BY <1>2, <1>4, <2>2, <2>3, Zenon
    <3> QED
      BY <2>1, <3>1
  <2>5. insort(l, x, KeyOf) = Place(l, i + 1, x)
    BY <1>1, <2>2, <2>4, Zenon
  <2> QED
    BY <2>5, PlaceInserts, Zenon
<1> QED
  BY <1>5, <1>6, Zenon

\* insert puts x at the back, or where a sorted list wants it.
LEMMA InsertStands ==
    ASSUME ItemAssumption, NEW l, Stands(d, l), NEW x \in Items, Insert(x)
    PROVE  /\ Stands(d', IF d.sorted THEN insort(l, x, KeyOf) ELSE atback(l, x))
           /\ d'.done = [call |-> "insert", x |-> x, y |-> Null]
<1>0. ~Linked(x) /\ Does(insert(x), "insert", x, Null)
  BY Zenon DEF Insert
<1>1. /\ Len(l) \in Nat /\ l \in Seq(Items) /\ DOMAIN l = 1..Len(l)
      /\ Node(l, 0) = HeadNode /\ Node(l, Len(l) + 1) = TailNode
      /\ d.next[HeadNode] = Node(l, 1)
      /\ \A i \in 1..Len(l) : l[i] # TailNode /\ l[i] # Null
  BY EndsAre, Zenon
<1>2. CASE ~d.sorted
  <2>1. Does(insertatback(x), "insert", x, Null)
    BY <1>0, <1>2, Zenon DEF insert
  <2> QED
    BY <1>0, <1>2, <2>1, BackStands, Zenon
<1>3. CASE d.sorted
  <2>1. \E i \in 0..Len(l) : /\ \A j \in 1..i : ~(KeyOf(x) < KeyOf(l[j]))
                             /\ Halts(l, x, i) /\ insert(x) = Link(Node(l, i), x, Node(l, i + 1))
    <3>1. CASE Len(l) = 0
      <4>1. 0 \in 0..Len(l) /\ 0 + 1 = 1 /\ Len(l) + 1 = 1 /\ \A j \in 1..0 : FALSE
        BY <3>1
      <4>2. getfirst = Null
        BY <1>1, <4>1, Zenon DEF getfirst
      <4>3. insert(x) = Link(Node(l, 0), x, Node(l, 0 + 1))
        BY <1>1, <1>3, <4>1, <4>2, Zenon DEF insert, insertatfront
      <4> QED
        BY <3>1, <4>1, <4>3, Zenon DEF Halts
    <3>2. CASE Len(l) # 0
      <4>1. 0 \in 0..Len(l) /\ 1 \in 1..Len(l) /\ 0 + 1 = 1 /\ \A j \in 1..0 : FALSE
        BY <1>1, <3>2
      <4>2. d.next[HeadNode] = l[1]
        BY <1>1, <4>1, NeighboursAre
      <4>3. getfirst # Null
        BY <1>1, <4>1, <4>2, Zenon DEF getfirst
      <4>4. CASE KeyOf(x) < KeyOf(l[1])
        <5>1. insert(x) = Link(Node(l, 0), x, Node(l, 0 + 1))
          BY <1>1, <1>3, <4>1, <4>2, <4>3, <4>4, Zenon DEF insert, insertatfront
        <5>2. Halts(l, x, 0)
          BY <4>1, <4>4, Zenon DEF Halts
        <5> QED
          BY <4>1, <5>1, <5>2, Zenon
      <4>5. CASE ~(KeyOf(x) < KeyOf(l[1]))
        <5> DEFINE m == StopFrom(l, x, 1)
        <5>1. StopsAt(l, x, 1, m) /\ Behind(x) = l[m]
          BY <1>1, <3>2, <4>1, StopIs, BehindIs, Zenon
        <5> HIDE DEF m
        <5>2. m \in 1..Len(l) /\ Halts(l, x, m) /\ \A j \in 1..(m - 1) : ~Halts(l, x, j)
          BY <5>1, Zenon DEF StopsAt
        <5>3. ASSUME NEW j \in 1..m
              PROVE  ~(KeyOf(x) < KeyOf(l[j]))
          <6>1. CASE j = 1
            BY <4>5, <6>1, Zenon
          <6>2. CASE j # 1
            <7>1. j - 1 \in 1..(m - 1) /\ (j - 1) + 1 = j
              BY <1>1, <5>2, <6>2
            <7>2. ~Halts(l, x, j - 1)
              BY <5>2, <7>1, Zenon
            <7> QED
              BY <7>1, <7>2, Zenon DEF Halts
          <6> QED
            BY <6>1, <6>2, Zenon
        <5>4. Node(l, m) = l[m] /\ d.next[l[m]] = Node(l, m + 1)
          BY <5>2, NeighboursAre
        <5>5. insert(x) = Link(Node(l, m), x, Node(l, m + 1))
          BY <1>3, <4>2, <4>3, <4>5, <5>1, <5>4, Zenon DEF insert, insertafter
        <5>6. m \in 0..Len(l)
          BY <1>1, <5>2
        <5> QED
          BY <5>2, <5>3, <5>5, <5>6, Zenon
      <4> QED
        BY <4>4, <4>5, Zenon
    <3> QED
      BY <3>1, <3>2, Zenon
  <2>2. PICK i \in 0..Len(l) : /\ \A j \in 1..i : ~(KeyOf(x) < KeyOf(l[j]))
                              /\ Halts(l, x, i) /\ insert(x) = Link(Node(l, i), x, Node(l, i + 1))
    BY <2>1, Zenon
  <2> DEFINE k == insort(l, x, KeyOf)
  <2>3. k \in Seq(Items) /\ Inserted(k, l, i, x)
    BY <1>1, <2>2, InsortInserts
  <2> HIDE DEF k
  <2>4. Does(Link(Node(l, i), x, Node(l, i + 1)), "insert", x, Null)
    BY <1>0, <2>2, Zenon
  <2>5. Stands(d', k) /\ d'.done = [call |-> "insert", x |-> x, y |-> Null]
    BY <1>0, <2>3, <2>4, LinkStands
  <2> QED
    BY <1>3, <2>5, Zenon DEF k
<1> QED
  BY <1>2, <1>3, Zenon

-----------------------------------------------------------------------------
(* The list read from the front.                                           *)

\* A list has no more places than there are items.
LEMMA LengthBound ==
    ASSUME ItemAssumption, NEW l, Once(l)
    PROVE  Len(l) \in Nat /\ Cardinality(Items) \in Nat /\ Len(l) <= Cardinality(Items)
<1>1. l \in Seq(Items) /\ IsFiniteSet(Items) /\ \A i, j \in 1..Len(l) : l[i] = l[j] => i = j
  BY Zenon DEF Once, ItemAssumption
<1>2. Len(l) \in Nat /\ l \in [1..Len(l) -> Items]
  BY <1>1
<1>3. l \in Injection(1..Len(l), Items)
  BY <1>1, <1>2 DEF Injection, IsInjective
<1>4. Cardinality(1..Len(l)) <= Cardinality(Items)
  BY <1>1, <1>3, FS_Injection, Zenon
<1>5. Cardinality(1..Len(l)) = Len(l)
  BY <1>2, FS_Interval
<1>6. Cardinality(Items) \in Nat
  BY <1>1, FS_CardinalityType
<1> QED
  BY <1>2, <1>4, <1>5, <1>6

\* Who follows in a list of pointers, Null behind the last.
Follower(next, x) == IF next[x] # TailNode THEN next[x] ELSE Null

\* The n-th round of Entries.
Further(next, n, l) ==
    LET x == IF l = <<>> THEN Follower(next, HeadNode) ELSE Follower(next, l[Len(l)])
    IN  IF Len(l) < n - 1 \/ x = Null THEN l ELSE Append(l, x)

\* Entries, from pointers of this state or of the next.
EntriesOf(next) ==
    LET on[n \in 0..Cardinality(Items)] == IF n = 0 THEN <<>> ELSE Further(next, n, on[n - 1])
    IN  on[Cardinality(Items)]

\* Entries of this state and of the next.
LEMMA EntriesUse == Entries = EntriesOf(d.next) /\ Entries' = EntriesOf(d'.next)
<1>1. Entries = EntriesOf(d.next)
  BY DEF Entries, EntriesOf, Further, Follower, getfirst, getnext
<1>2. Entries' = EntriesOf(d'.next)
  BY DEF Entries, EntriesOf, Further, Follower, getfirst, getnext
<1> QED
  BY <1>1, <1>2

\* What Entries has after n rounds.
UpTo(l, n) == SubSeq(l, 1, IF n <= Len(l) THEN n ELSE Len(l))

\* A round finds the next item.
LEMMA FurtherIs ==
    ASSUME ItemAssumption, NEW e, NEW l, Stands(e, l), NEW n \in Nat, n # 0
    PROVE  Further(e.next, n, UpTo(l, n - 1)) = UpTo(l, n)
<1>0. /\ Len(l) \in Nat /\ l \in Seq(Items) /\ Once(l)
      /\ Node(l, Len(l) + 1) = TailNode /\ e.next[HeadNode] = Node(l, 1)
      /\ \A i \in 1..Len(l) : l[i] # TailNode /\ l[i] # Null
  BY EndsAre
<1>1. \A i \in 1..Len(l) : Node(l, i) = l[i] /\ l[i] \in Items /\ e.next[l[i]] = Node(l, i + 1)
  BY NeighboursAre
<1> DEFINE p == IF n - 1 <= Len(l) THEN n - 1 ELSE Len(l)
           k == UpTo(l, n - 1)
<1>2. p \in 0..Len(l) /\ (n - 1 <= Len(l) => p = n - 1) /\ (~(n - 1 <= Len(l)) => p = Len(l))
  BY <1>0
<1>3. k = SubSeq(l, 1, p)
  BY Zenon DEF UpTo
<1> HIDE DEF p
<1>4. k \in Seq(Items) /\ Len(k) = p /\ \A i \in 1..p : k[i] = l[i]
  BY <1>0, <1>2, <1>3
<1>5. k = <<>> <=> p = 0
  BY <1>2, <1>4
<1> HIDE DEF k
<1> DEFINE x == IF k = <<>> THEN Follower(e.next, HeadNode) ELSE Follower(e.next, k[Len(k)])
<1>6. x = IF p = Len(l) THEN Null ELSE l[p + 1]
  <2>1. x = Follower(e.next, Node(l, p)) /\ e.next[Node(l, p)] = Node(l, p + 1)
    <3>1. CASE p = 0
      <4>1. Node(l, p) = HeadNode /\ p + 1 = 1
        BY <3>1 DEF Node
      <4> QED
        BY <1>0, <1>5, <3>1, <4>1, Zenon
    <3>2. CASE p # 0
      <4>1. p \in 1..Len(l) /\ p \in 1..p
        BY <1>2, <3>2
      <4>2. Node(l, p) = l[p] /\ e.next[l[p]] = Node(l, p + 1) /\ k[Len(k)] = l[p]
        BY <1>1, <1>4, <4>1, Zenon
      <4> QED
        BY <1>5, <3>2, <4>2, Zenon
    <3> QED
      BY <3>1, <3>2, Zenon
  <2>2. CASE p = Len(l)
    BY <1>0, <2>1, <2>2, Zenon DEF Follower
  <2>3. CASE p # Len(l)
    <3>1. p + 1 \in 1..Len(l)
      BY <1>0, <1>2, <2>3
    <3>2. Node(l, p + 1) = l[p + 1] /\ l[p + 1] # TailNode
      BY <1>0, <1>1, <3>1, Zenon
    <3> QED
      BY <2>1, <2>3, <3>2, Zenon DEF Follower
  <2> QED
    BY <2>2, <2>3, Zenon
<1>7. Further(e.next, n, k) = IF Len(k) < n - 1 \/ x = Null THEN k ELSE Append(k, x)
  BY Zenon DEF Further
<1> HIDE DEF x
<1>8. CASE n <= Len(l)
  <2>1. p = n - 1 /\ p # Len(l) /\ p + 1 = n /\ ~(p < n - 1) /\ n \in 1..Len(l)
    BY <1>0, <1>2, <1>8
  <2>2. x = l[n] /\ x # Null /\ x \in Items
    BY <1>0, <1>1, <1>6, <2>1, Zenon
  <2>3. Further(e.next, n, k) = Append(k, l[n])
    BY <1>4, <1>7, <2>1, <2>2, Zenon
  <2>4. Append(k, l[n]) = k \o <<l[n]>>
    BY <1>1, <1>4, <2>1, AppendIsConcat
  <2>5. SubSeq(l, 1, n) = SubSeq(l, 1, n - 1) \o <<l[n]>>
    <3>1. 1 \in 1..Len(l) /\ n \in 1..Len(l)
      BY <1>0, <2>1
    <3> QED
      BY <1>0, <3>1, SubSeqRecursiveSecond
  <2>6. UpTo(l, n) = SubSeq(l, 1, n)
    BY <1>8, Zenon DEF UpTo
  <2> QED
    BY <1>3, <2>1, <2>3, <2>4, <2>5, <2>6, Zenon DEF k
<1>9. CASE ~(n <= Len(l))
  <2>1. p = Len(l)
    BY <1>0, <1>2, <1>9
  <2>2. Further(e.next, n, k) = k
    BY <1>6, <1>7, <2>1, Zenon
  <2>3. UpTo(l, n) = SubSeq(l, 1, p)
    BY <1>9, <2>1, Zenon DEF UpTo
  <2> QED
    BY <1>3, <2>2, <2>3, Zenon DEF k
<1> QED
  BY <1>8, <1>9, Zenon DEF k

\* Entries is the list the pointers stand for.
LEMMA EntriesAre ==
    ASSUME ItemAssumption, NEW e, NEW l, Stands(e, l)
    PROVE  EntriesOf(e.next) = l
<1> DEFINE N == Cardinality(Items)
           Rounds(H) == H = [n \in 0..N |-> IF n = 0 THEN <<>> ELSE Further(e.next, n, H[n - 1])]
<1>0. l \in Seq(Items) /\ Once(l)
  BY EndsAre
<1>1. Len(l) \in Nat /\ N \in Nat /\ Len(l) <= N
  BY <1>0, LengthBound, Zenon
<1>2. UpTo(l, 0) = <<>> /\ UpTo(l, N) = l
  <2>1. UpTo(l, 0) = SubSeq(l, 1, 0)
    BY <1>1 DEF UpTo
  <2>2. SubSeq(l, 1, 0) = <<>>
    BY SubSeqEmpty
  <2>3. UpTo(l, N) = SubSeq(l, 1, Len(l))
    BY <1>1 DEF UpTo
  <2> QED
    BY <1>0, <2>1, <2>2, <2>3, SubSeqFull, Zenon
<1>3. \A n \in Nat : n # 0 => Further(e.next, n, UpTo(l, n - 1)) = UpTo(l, n)
  BY FurtherIs
<1> HIDE DEF N
<1>4. \E H : Rounds(H)
  <2> DEFINE G == [n \in 0..N |-> UpTo(l, n)]
  <2>1. ASSUME NEW n \in 0..N
        PROVE  UpTo(l, n) = IF n = 0 THEN <<>> ELSE Further(e.next, n, G[n - 1])
    <3>1. CASE n = 0
      BY <1>2, <3>1, Zenon
    <3>2. CASE n # 0
      <4>1. n - 1 \in 0..N /\ n \in Nat
        BY <1>1, <3>2
      <4>2. G[n - 1] = UpTo(l, n - 1)
        BY <4>1, Zenon
      <4> QED
        BY <1>3, <3>2, <4>1, <4>2, Zenon
    <3> QED
      BY <3>1, <3>2, Zenon
  <2>2. Rounds(G)
    BY <2>1, Zenon
  <2> QED
    BY <2>2, Zenon
<1>5. \E H : Rounds(H) /\ EntriesOf(e.next) = H[N]
  <2> DEFINE on[n \in 0..N] == IF n = 0 THEN <<>> ELSE Further(e.next, n, on[n - 1])
  <2>1. on = CHOOSE H : Rounds(H)
    BY Zenon
  <2>2. Rounds(on)
    BY <1>4, <2>1, Zenon
  <2>3. EntriesOf(e.next) = on[N]
    BY Zenon DEF EntriesOf, N
  <2> QED
    BY <2>2, <2>3, Zenon
<1>6. PICK H : Rounds(H) /\ EntriesOf(e.next) = H[N]
  BY <1>5, Zenon
<1>7. \A n \in 0..N : H[n] = IF n = 0 THEN <<>> ELSE Further(e.next, n, H[n - 1])
  BY <1>6, Zenon
<1> DEFINE T == {n \in Nat : n <= N /\ H[n] # UpTo(l, n)}
<1>8. /\ T \subseteq Nat
      /\ \A n \in T : n \in Nat /\ n <= N /\ H[n] # UpTo(l, n)
      /\ \A n \in Nat : n <= N /\ n \notin T => H[n] = UpTo(l, n)
  BY Zenon
<1> HIDE DEF T
<1>9. T = {}
  <2> SUFFICES ASSUME T # {} PROVE FALSE
    BY Zenon
  <2>1. PICK n \in T : \A m \in T : n <= m
    BY <1>8, LeastExists
  <2>2. n \in Nat /\ n <= N /\ H[n] # UpTo(l, n)
    BY <1>8, Zenon
  <2>3. n \in 0..N
    BY <1>1, <2>2
  <2>4. CASE n = 0
    BY <1>2, <1>7, <2>2, <2>3, <2>4, Zenon
  <2>5. CASE n # 0
    <3>1. n - 1 \in Nat /\ n - 1 <= N /\ ~(n <= n - 1)
      BY <1>1, <2>2, <2>5
    <3>2. H[n - 1] = UpTo(l, n - 1)
      BY <1>8, <2>1, <3>1, Zenon
    <3> QED
      BY <1>3, <1>7, <2>2, <2>3, <2>5, <3>2, Zenon
  <2> QED
    BY <2>4, <2>5, Zenon
<1>10. H[N] = UpTo(l, N)
  <2>1. N <= N
    BY <1>1
  <2> QED
    BY <1>1, <1>8, <1>9, <2>1, Zenon
<1> QED
  BY <1>2, <1>6, <1>10, Zenon

-----------------------------------------------------------------------------
(* The specification.                                                      *)

\* A new list is empty.
LEMMA InitStands == ASSUME ItemAssumption, Init PROVE Stands(d, <<>>)
<1>1. PICK sorted \in BOOLEAN :
        d = [next |-> [x \in Items \cup {HeadNode, TailNode} |->
                         IF x = HeadNode THEN TailNode ELSE Null],
             back |-> [x \in Items \cup {HeadNode, TailNode} |->
                         IF x = TailNode THEN HeadNode ELSE Null],
             sorted |-> sorted, done |-> [call |-> "init", x |-> Null, y |-> Null]]
  BY Zenon DEF Init
<1>2. /\ d = [f \in Fields |-> d[f]]
      /\ d.next = [x \in Nodes |-> IF x = HeadNode THEN TailNode ELSE Null]
      /\ d.back = [x \in Nodes |-> IF x = TailNode THEN HeadNode ELSE Null]
  BY <1>1 DEF Fields, Nodes
<1>3. <<>> \in Seq(Items) /\ Len(<<>>) = 0
  OBVIOUS
<1>4. Once(<<>>)
  BY <1>3 DEF Once
<1>5. Pointers(d.next) /\ Pointers(d.back)
  BY <1>2 DEF Pointers
<1>6. /\ d.next[HeadNode] = TailNode /\ d.back[TailNode] = HeadNode
      /\ \A x \in Items : d.next[x] = Null /\ d.back[x] = Null
  BY <1>2 DEF Nodes, ItemAssumption
<1>7. Node(<<>>, 0) = HeadNode /\ Node(<<>>, 0 + 1) = TailNode
  BY <1>3 DEF Node
<1>8. \A i \in 0..Len(<<>>) : i = 0
  BY <1>3
<1>9. Chained(<<>>, d.next, d.back)
  BY <1>6, <1>7, <1>8, Zenon DEF Chained
<1>10. Loose(<<>>, d.next, d.back)
  BY <1>6, Zenon DEF Loose
<1> QED
  BY <1>2, <1>4, <1>5, <1>9, <1>10, Zenon DEF Stands, Chain

\* What a call is promised to make of the list l.
After(l, sorted, done) ==
    CASE done.call = "front" -> atfront(l, done.x)
      [] done.call = "back" -> atback(l, done.x)
      [] done.call = "after" -> after(l, done.y, done.x)
      [] done.call = "before" -> before(l, done.y, done.x)
      [] done.call = "remove" -> without(l, done.x)
      [] OTHER -> IF sorted THEN insort(l, done.x, KeyOf) ELSE atback(l, done.x)

\* Each call makes of the list what it promises.
LEMMA NextStands ==
    ASSUME ItemAssumption, NEW l, Stands(d, l), Next
    PROVE  Stands(d', After(l, d.sorted, d'.done))
<1>0. PICK x \in Items : \/ Insert(x) \/ InsertAtFront(x) \/ InsertAtBack(x) \/ Remove(x)
                         \/ \E y \in Items : InsertAfter(y, x) \/ InsertBefore(y, x)
  BY Zenon DEF Next
<1>1. CASE Insert(x)
  <2> DEFINE k == IF d.sorted THEN insort(l, x, KeyOf) ELSE atback(l, x)
  <2>1. Stands(d', k) /\ d'.done = [call |-> "insert", x |-> x, y |-> Null]
    BY <1>1, InsertStands
  <2>2. After(l, d.sorted, d'.done) = k
    BY <2>1 DEF After
  <2> QED
    BY <2>1, <2>2, Zenon
<1>2. CASE InsertAtFront(x)
  <2>1. ~Linked(x) /\ Does(insertatfront(x), "front", x, Null)
    BY <1>2, Zenon DEF InsertAtFront
  <2>2. Stands(d', atfront(l, x)) /\ d'.done = [call |-> "front", x |-> x, y |-> Null]
    BY <2>1, FrontStands
  <2>3. After(l, d.sorted, d'.done) = atfront(l, x)
    BY <2>2 DEF After
  <2> QED
    BY <2>2, <2>3, Zenon
<1>3. CASE InsertAtBack(x)
  <2>1. ~Linked(x) /\ Does(insertatback(x), "back", x, Null)
    BY <1>3, Zenon DEF InsertAtBack
  <2>2. Stands(d', atback(l, x)) /\ d'.done = [call |-> "back", x |-> x, y |-> Null]
    BY <2>1, BackStands
  <2>3. After(l, d.sorted, d'.done) = atback(l, x)
    BY <2>2 DEF After
  <2> QED
    BY <2>2, <2>3, Zenon
<1>4. CASE Remove(x)
  <2>1. Stands(d', without(l, x)) /\ d'.done = [call |-> "remove", x |-> x, y |-> Null]
    BY <1>4, RemoveStands
  <2>2. After(l, d.sorted, d'.done) = without(l, x)
    BY <2>1 DEF After
  <2> QED
    BY <2>1, <2>2, Zenon
<1>5. ASSUME NEW y \in Items, InsertAfter(y, x)
      PROVE  Stands(d', After(l, d.sorted, d'.done))
  <2>1. Linked(y) /\ ~Linked(x) /\ Does(insertafter(y, x), "after", x, y)
    BY <1>5, Zenon DEF InsertAfter
  <2>2. PICK i \in 1..Len(l) : l[i] = y
    BY <2>1, LinkedIs, Zenon
  <2>3. At(l, y) = i
    BY <2>2, AtIs, EndsAre
  <2>4. Does(insertafter(l[i], x), "after", x, y)
    BY <2>1, <2>2, Zenon
  <2>5. /\ Stands(d', Place(l, i + 1, x))
        /\ d'.done = [call |-> "after", x |-> x, y |-> y]
    BY <2>1, <2>4, BehindStands
  <2>6. after(l, y, x) = Place(l, i + 1, x)
    BY <2>3, Zenon DEF after
  <2>7. After(l, d.sorted, d'.done) = after(l, y, x)
    BY <2>5 DEF After
  <2> QED
    BY <2>5, <2>6, <2>7, Zenon
<1>6. ASSUME NEW y \in Items, InsertBefore(y, x)
      PROVE  Stands(d', After(l, d.sorted, d'.done))
  <2>1. Linked(y) /\ ~Linked(x) /\ Does(insertbefore(y, x), "before", x, y)
    BY <1>6, Zenon DEF InsertBefore
  <2>2. PICK i \in 1..Len(l) : l[i] = y
    BY <2>1, LinkedIs, Zenon
  <2>3. At(l, y) = i
    BY <2>2, AtIs, EndsAre
  <2>4. Does(insertbefore(l[i], x), "before", x, y)
    BY <2>1, <2>2, Zenon
  <2>5. /\ Stands(d', Place(l, i, x))
        /\ d'.done = [call |-> "before", x |-> x, y |-> y]
    BY <2>1, <2>4, BeforeStands
  <2>6. before(l, y, x) = Place(l, i, x)
    BY <2>3, Zenon DEF before
  <2>7. After(l, d.sorted, d'.done) = before(l, y, x)
    BY <2>5 DEF After
  <2> QED
    BY <2>5, <2>6, <2>7, Zenon
<1> QED
  BY <1>0, <1>1, <1>2, <1>3, <1>4, <1>5, <1>6, Zenon

\* The invariant of every specification of the list: the pointers, forward and
\* back, are those of one sequence in which no item is twice.
THEOREM InvHolds == ASSUME ItemAssumption PROVE Spec => []Inv
<1>1. Init => Inv
  BY InitStands, Zenon DEF Inv
<1>2. Inv /\ [Next]_d => Inv'
  <2> SUFFICES ASSUME Inv, [Next]_d PROVE Inv'
    OBVIOUS
  <2>1. PICK l : Stands(d, l)
    BY Zenon DEF Inv
  <2>2. CASE Next
    BY <2>1, <2>2, NextStands, Zenon DEF Inv
  <2>3. CASE UNCHANGED d
    BY <2>1, <2>3, Zenon DEF Inv
  <2> QED
    BY <2>2, <2>3, Zenon
<1> QED
  BY <1>1, <1>2, PTL DEF Spec

\* std_dll_getfirst, getlast, getnext and getprev lead through the list both
\* ways, and an item outside of it has no pointer.
THEOREM WaysAgree == ASSUME ItemAssumption PROVE Spec => []TwoWays
<1>1. Inv => TwoWays
  <2> SUFFICES ASSUME Inv PROVE TwoWays
    OBVIOUS
  <2>1. PICK l : Stands(d, l)
    BY Zenon DEF Inv
  <2>2. Entries = l
    BY <2>1, EntriesUse, EntriesAre
  <2>3. /\ Len(l) \in Nat /\ DOMAIN l = 1..Len(l) /\ Once(l)
        /\ Node(l, 0) = HeadNode /\ Node(l, Len(l) + 1) = TailNode
        /\ d.next[HeadNode] = Node(l, 1) /\ d.back[TailNode] = Node(l, Len(l))
        /\ \A i \in 1..Len(l) : l[i] # TailNode /\ l[i] # HeadNode /\ l[i] # Null
    BY <2>1, EndsAre
  <2>4. \A i \in 1..Len(l) : /\ Node(l, i) = l[i] /\ l[i] \in Items /\ At(l, l[i]) = i
                             /\ d.next[l[i]] = Node(l, i + 1) /\ d.back[l[i]] = Node(l, i - 1)
    BY <2>1, <2>3, NeighboursAre, AtIs
  <2>5. \A x \in Items : /\ Linked(x) => \E i \in 1..Len(l) : l[i] = x
                         /\ ~Linked(x) => \A i \in 1..Len(l) : l[i] # x
                         /\ ~Linked(x) => d.next[x] = Null /\ d.back[x] = Null
    BY <2>1, LinkedIs, Zenon
  <2>6. {l[i] : i \in DOMAIN l} = {x \in Items : Linked(x)}
    <3>1. ASSUME NEW i \in 1..Len(l)
          PROVE  l[i] \in Items /\ Linked(l[i])
      BY <2>4, <2>5, Zenon
    <3>2. ASSUME NEW x \in Items, Linked(x)
          PROVE  \E i \in DOMAIN l : x = l[i]
      BY <2>3, <2>5, <3>2, Zenon
    <3>3. \A i \in DOMAIN l : l[i] \in {x \in Items : Linked(x)}
      BY <2>3, <3>1, Zenon
    <3>4. \A x \in {z \in Items : Linked(z)} : \E i \in DOMAIN l : x = l[i]
      BY <3>2, Zenon
    <3> QED
      BY <3>3, <3>4, Zenon
  <2>7. first(l, Null) = getfirst
    <3>1. CASE Len(l) = 0
      <4>1. 1 \notin DOMAIN l /\ Len(l) + 1 = 1
        BY <2>3, <3>1
      <4> QED
        BY <2>3, <4>1, Zenon DEF first, Entry, getfirst
    <3>2. CASE Len(l) # 0
      <4>1. 1 \in 1..Len(l)
        BY <2>3, <3>2
      <4> QED
        BY <2>3, <2>4, <4>1, Zenon DEF first, Entry, getfirst
    <3> QED
      BY <3>1, <3>2, Zenon
  <2>8. last(l, Null) = getlast
    <3>1. CASE Len(l) = 0
      <4>1. Len(l) \notin DOMAIN l
        BY <2>3, <3>1
      <4> QED
        BY <2>3, <3>1, <4>1, Zenon DEF last, Entry, getlast
    <3>2. CASE Len(l) # 0
      <4>1. Len(l) \in 1..Len(l)
        BY <2>3, <3>2
      <4> QED
        BY <2>3, <2>4, <4>1, Zenon DEF last, Entry, getlast
    <3> QED
      BY <3>1, <3>2, Zenon
  <2>9. ASSUME NEW x \in Items, Linked(x)
        PROVE  nextof(l, x, Null) = getnext(x) /\ prevof(l, x, Null) = getprev(x)
    <3>1. PICK i \in 1..Len(l) : l[i] = x
      BY <2>5, <2>9, Zenon
    <3>2. /\ At(l, x) = i /\ d.next[x] = Node(l, i + 1) /\ d.back[x] = Node(l, i - 1)
      BY <2>4, <3>1, Zenon
    <3>3. Entry(l, i + 1, Null) = getnext(x)
      <4>1. CASE i = Len(l)
        <5>1. i + 1 \notin DOMAIN l
          BY <2>3, <4>1
        <5> QED
          BY <2>3, <3>2, <4>1, <5>1, Zenon DEF Entry, getnext
      <4>2. CASE i # Len(l)
        <5>1. i + 1 \in 1..Len(l)
          <6>1. Len(l) \in Nat
            BY <2>3, Zenon
          <6> QED
            BY <4>2, <6>1
        <5> QED
          BY <2>3, <2>4, <3>2, <5>1, Zenon DEF Entry, getnext
      <4> QED
        BY <4>1, <4>2, Zenon
    <3>4. Entry(l, i - 1, Null) = getprev(x)
      <4>1. CASE i = 1
        <5>1. i - 1 \notin DOMAIN l /\ i - 1 = 0
          BY <2>3, <4>1
        <5> QED
          BY <2>3, <3>2, <5>1, Zenon DEF Entry, getprev
      <4>2. CASE i # 1
        <5>1. i - 1 \in 1..Len(l)
          BY <2>3, <4>2
        <5> QED
          BY <2>3, <2>4, <3>2, <5>1, Zenon DEF Entry, getprev
      <4> QED
        BY <4>1, <4>2, Zenon
    <3> QED
      BY <3>2, <3>3, <3>4, Zenon DEF nextof, prevof
  <2> QED
    BY <2>2, <2>5, <2>6, <2>7, <2>8, <2>9, Zenon DEF TwoWays
<1> QED
  BY <1>1, InvHolds, PTL

\* Every call of std_llist.h does to the sequence what Lists says: the chain
\* of pointers implements it.
THEOREM ListsImplemented == ASSUME ItemAssumption PROVE Spec => AsPromised
<1>1. Inv /\ [Next]_d => [Promised]_d
  <2> SUFFICES ASSUME Inv, Next PROVE Promised
    BY Zenon
  <2>1. PICK l : Stands(d, l)
    BY Zenon DEF Inv
  <2>2. Stands(d', After(l, d.sorted, d'.done))
    BY <2>1, NextStands, Zenon
  <2>3. Entries = l /\ Entries' = After(l, d.sorted, d'.done)
    BY <2>1, <2>2, EntriesUse, EntriesAre
  <2>4. Entries' = After(Entries, d.sorted, d'.done)
    BY <2>3, Zenon
  <2> QED
    BY <2>4, Zenon DEF Promised, After
<1> QED
  BY <1>1, InvHolds, PTL DEF Spec, AsPromised
=============================================================================
