----------------------------- MODULE LinkedList -----------------------------
(***************************************************************************)
(* The doubly linked list of std_llist.c, pointer by pointer, between two  *)
(* nodes of the list head, and the sequence of Lists that it stands for.   *)
(***************************************************************************)
EXTENDS Lists, FiniteSets

CONSTANTS
    Items,      \* the caller's structures, each with list pointers in it
    KeyOf(_),   \* what the compare function of a sorted list compares
    HeadNode, TailNode,  \* the nodes head and tail of std_dll_head
    Null

VARIABLE d      \* [next, back: the pointers of items, HeadNode and TailNode;
                \*  sorted: a compare function was given; done: history, the last call]

Linked(x) == d.next[x] # Null /\ d.back[x] # Null

\* std_dll_init, and std_dll_init_sort
Init == \E sorted \in BOOLEAN :
    d = [next |-> [x \in Items \cup {HeadNode, TailNode} |-> IF x = HeadNode THEN TailNode ELSE Null],
         back |-> [x \in Items \cup {HeadNode, TailNode} |-> IF x = TailNode THEN HeadNode ELSE Null],
         sorted |-> sorted,
         done |-> [call |-> "init", x |-> Null, y |-> Null]]

getfirst == IF d.next[HeadNode] # TailNode THEN d.next[HeadNode] ELSE Null
getlast == IF d.back[TailNode] # HeadNode THEN d.back[TailNode] ELSE Null
getnext(x) == IF d.next[x] # TailNode THEN d.next[x] ELSE Null
getprev(x) == IF d.back[x] # HeadNode THEN d.back[x] ELSE Null

\* Mutant: the neighbour behind keeps its pointer.
Link_OneWay(p, x, n) == [d EXCEPT !.next[x] = n, !.next[p] = x, !.back[x] = p]

\* x comes between p and n, which are neighbours.
Link(p, x, n) == [d EXCEPT !.next[x] = n, !.next[p] = x, !.back[x] = p, !.back[n] = x]

insertatfront(x) == Link(HeadNode, x, d.next[HeadNode])
insertatback(x) == Link(d.back[TailNode], x, TailNode)
insertafter(y, x) == Link(y, x, d.next[y])
insertbefore(y, x) == Link(d.back[y], x, y)

\* Mutant: before an equal key.
Behind_Equal(x) ==
    LET go[y \in {z \in Items : Linked(z)}] ==
          IF d.next[y] = TailNode THEN y
          ELSE IF KeyOf(x) <= KeyOf(d.next[y]) THEN y ELSE go[d.next[y]]
    IN  go[d.next[HeadNode]]

\* The last node before a greater key; the loop stops at the tail.
Behind(x) ==
    LET go[y \in {z \in Items : Linked(z)}] ==
          IF d.next[y] = TailNode THEN y
          ELSE IF KeyOf(x) < KeyOf(d.next[y]) THEN y ELSE go[d.next[y]]
    IN  go[d.next[HeadNode]]

insert(x) ==
    IF ~d.sorted THEN insertatback(x)
    ELSE IF getfirst = Null THEN insertatfront(x)
    ELSE IF KeyOf(x) < KeyOf(d.next[HeadNode]) THEN insertatfront(x)
    ELSE insertafter(Behind(x), x)

\* Mutant: the item keeps its pointers.
remove_Dangling(x) == [d EXCEPT !.next[d.back[x]] = d.next[x], !.back[d.next[x]] = d.back[x]]

remove(x) == [d EXCEPT !.next[d.back[x]] = d.next[x], !.back[d.next[x]] = d.back[x],
                       !.next[x] = Null, !.back[x] = Null]

Does(e, call, x, y) == d' = [e EXCEPT !.done = [call |-> call, x |-> x, y |-> y]]

\* Callers insert what is in no list; in a sorted list, only by key.
Insert(x) == ~Linked(x) /\ Does(insert(x), "insert", x, Null)
InsertAtFront(x) == ~d.sorted /\ ~Linked(x) /\ Does(insertatfront(x), "front", x, Null)
InsertAtBack(x) == ~d.sorted /\ ~Linked(x) /\ Does(insertatback(x), "back", x, Null)
InsertAfter(y, x) ==
    ~d.sorted /\ Linked(y) /\ ~Linked(x) /\ Does(insertafter(y, x), "after", x, y)
InsertBefore(y, x) ==
    ~d.sorted /\ Linked(y) /\ ~Linked(x) /\ Does(insertbefore(y, x), "before", x, y)
Remove(x) == Linked(x) /\ Does(remove(x), "remove", x, Null)

Next == \E x \in Items : \/ Insert(x) \/ InsertAtFront(x) \/ InsertAtBack(x) \/ Remove(x)
                         \/ \E y \in Items : InsertAfter(y, x) \/ InsertBefore(y, x)

Spec == Init /\ [][Next]_d
-----------------------------------------------------------------------------
(* Properties.                                                             *)

\* The entries met from the front, for as long as there can be any.
Entries ==
    LET on[n \in 0..Cardinality(Items)] ==
          IF n = 0 THEN <<>>
          ELSE LET l == on[n - 1]
                   x == IF l = <<>> THEN getfirst ELSE getnext(l[Len(l)])
               IN  IF Len(l) < n - 1 \/ x = Null THEN l ELSE Append(l, x)
    IN  on[Cardinality(Items)]

\* Whatever the calls were, the way back from the tail is the way from the
\* head reversed, the linked items are those on it, and others have no pointer.
TwoWays ==
    LET l == Entries
    IN  /\ {l[i] : i \in DOMAIN l} = {x \in Items : Linked(x)}
        /\ first(l, Null) = getfirst /\ last(l, Null) = getlast
        /\ \A x \in Items : Linked(x) =>
              nextof(l, x, Null) = getnext(x) /\ prevof(l, x, Null) = getprev(x)
        /\ \A x \in Items : ~Linked(x) => d.next[x] = Null /\ d.back[x] = Null

\* Each call does to the sequence what std_llist.h says; in a sorted list,
\* equal keys stay in the order they were inserted in.
Promised ==
    LET l == Entries
        x == d'.done.x
        y == d'.done.y
    IN  Entries' = CASE d'.done.call = "front" -> atfront(l, x)
                     [] d'.done.call = "back" -> atback(l, x)
                     [] d'.done.call = "after" -> after(l, y, x)
                     [] d'.done.call = "before" -> before(l, y, x)
                     [] d'.done.call = "remove" -> without(l, x)
                     [] OTHER -> IF d.sorted THEN insort(l, x, KeyOf) ELSE atback(l, x)

AsPromised == [][Promised]_d
=============================================================================
