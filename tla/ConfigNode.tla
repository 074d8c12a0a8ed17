----------------------------- MODULE ConfigNode -----------------------------
(***************************************************************************)
(* std_config_node.cpp: configuration documents, their nodes, and the      *)
(* attribute values handed out.  The values of all documents are kept in   *)
(* one cache, freed when the count of loaded documents comes back to zero. *)
(* Loading and unloading are taken one at a time: the count has no lock.   *)
(***************************************************************************)
EXTENDS Integers, Sequences, FiniteSets

CONSTANTS
    Handles,    \* documents that may be loaded
    Children,   \* of each document, its root's children: "text" and "element" nodes
    Attrs       \* attributes of its root that are set

VARIABLE n      \* see Init

NoNode == 0

\* one_time_init
Init == n = [loaded |-> {}, cnt |-> 0,
             cache |-> {},      \* documents whose values are allocated
             held |-> {}]       \* history: loaded documents that had values handed out

\* Mutant: every unload frees.
ref_Clears(m, count) == [m EXCEPT !.cnt = @ + count, !.cache = IF count < 0 THEN {} ELSE @]

\* __private::ref and clear
ref(m, count) == [m EXCEPT !.cnt = @ + count, !.cache = IF m.cnt + count = 0 THEN {} ELSE @]

\* A file that cannot be read is not counted.
load(h, readable) ==
    /\ h \notin n.loaded
    /\ n' = IF readable THEN ref([n EXCEPT !.loaded = @ \cup {h}], 1) ELSE n

unload(h) ==
    /\ h \in n.loaded
    /\ n' = ref([n EXCEPT !.loaded = @ \ {h}, !.held = @ \ {h}], -1)

\* std_config_attr_get, and insert; an attribute that is not set has no value.
attr_get(h, attr) ==
    /\ h \in n.loaded
    /\ n' = IF attr \notin Attrs THEN n
            ELSE [n EXCEPT !.cache = @ \cup {h}, !.held = @ \cup {h}]

Next == \E h \in Handles : \/ \E readable \in BOOLEAN : load(h, readable)
                          \/ unload(h)
                          \/ \E attr \in Attrs \cup {NoNode} : attr_get(h, attr)

Spec == Init /\ [][Next]_n

\* -----------------------------------------------------------------------
\* Walking the children of a node.

\* The first element among nodes i, i + 1, ... of s.
ElementFrom(s, i) ==
    LET from[j \in 1..(Len(s) + 1)] ==
          IF j > Len(s) THEN NoNode ELSE IF s[j] = "element" THEN j ELSE from[j + 1]
    IN  from[i]

get_child(s) == IF s = <<>> THEN NoNode ELSE ElementFrom(s, 1)

\* Mutant: the next node, whatever it is.
next_node_Any(s, i) == IF i < Len(s) THEN i + 1 ELSE NoNode

next_node(s, i) == ElementFrom(s, i + 1)

\* The nodes std_config_for_each_node calls back with.
for_each_node(s) ==
    LET on[i \in 0..Len(s)] == IF i = NoNode THEN <<>> ELSE <<i>> \o on[next_node(s, i)]
    IN  on[get_child(s)]
-----------------------------------------------------------------------------
(* Properties.                                                             *)

\* A value stays allocated for as long as its document is loaded, whichever
\* documents are loaded and unloaded meanwhile; with none loaded, none is left.
ValuesLive == n.held \subseteq n.cache /\ (n.loaded = {} => n.cache = {})

\* The callback is given every element below a node once, in order, and no
\* text between them.
EachElementOnce ==
    \A h \in n.loaded :
        LET s == Children[h]
            seen == for_each_node(s)
        IN  /\ {seen[i] : i \in DOMAIN seen} = {i \in DOMAIN s : s[i] = "element"}
            /\ \A i, j \in DOMAIN seen : i < j => seen[i] < seen[j]
=============================================================================
