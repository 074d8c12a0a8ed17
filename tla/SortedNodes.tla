----------------------------- MODULE SortedNodes -----------------------------
(***************************************************************************)
(* What std_rbtree.h promises: user nodes in the order of their keys.      *)
(* Several may have the same key; a look-up answers with one of a set.     *)
(***************************************************************************)
EXTENDS Integers

CONSTANTS Items, KeyOf(_)

VARIABLE nodes

Lowest(S) == {x \in S : \A y \in S : KeyOf(x) <= KeyOf(y)}
Highest(S) == {x \in S : \A y \in S : KeyOf(y) <= KeyOf(x)}

getfirst == Lowest(nodes)
getexact(k) == {x \in nodes : KeyOf(x) = k}
getexactornext(k) == Lowest({x \in nodes : KeyOf(x) >= k})
getexactorprev(k) == Highest({x \in nodes : KeyOf(x) <= k})

\* Among equal keys, the next may be another of them.
getnext(k) ==
    Lowest({x \in nodes : KeyOf(x) > k}) \cup IF getexact(k) = {} THEN {} ELSE getexact(k)

Init == nodes = {}

insert(x) == x \notin nodes /\ nodes' = nodes \cup {x}

\* The node removed has the key, and need not be the one given.
remove(k) == \E x \in getexact(k) : nodes' = nodes \ {x}

Next == \E x \in Items : insert(x) \/ remove(KeyOf(x))

Spec == Init /\ [][Next]_nodes
=============================================================================
