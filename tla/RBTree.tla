------------------------------- MODULE RBTree -------------------------------
(***************************************************************************)
(* The red-black tree of std_rbtree.c, pointer by pointer.  A node stands  *)
(* for the user's data; nodes may have equal keys.  The nil node is one    *)
(* node of the table, and removal leaves a parent in it.  Left and right   *)
(* are mirror images in the code, and a parameter here.                    *)
(***************************************************************************)
EXTENDS Integers, Sequences, FiniteSets, TLC

CONSTANTS
    Items,      \* the user's nodes: positive numbers
    KeyOf(_),   \* rbtt_compare compares these
    Nil         \* the nil node

VARIABLE rb     \* [root, node]

Links == {"left", "right"}
Other(s) == IF s = "left" THEN "right" ELSE "left"

Data(t) == DOMAIN t.node \ {Nil}

\* -----------------------------------------------------------------------
\* Look-ups.

\* To the end of the side s below x.
Outermost(t, x, s) ==
    LET go[y \in DOMAIN t.node] == IF t.node[y][s] = Nil THEN y ELSE go[t.node[y][s]]
    IN  go[x]

\* Up from x while it is a child on the side s, and one more.
OutOf(t, x, s) ==
    LET up[y \in DOMAIN t.node] ==
          LET p == t.node[y].parent
          IN  IF p # Nil /\ t.node[p][s] = y THEN up[p] ELSE p
    IN  up[x]

getfirst(t) == IF t.root = Nil THEN Nil ELSE Outermost(t, t.root, "left")

\* The node where the search for key k stops: on it, or with no child to go to.
Search(t, k) ==
    LET go[x \in DOMAIN t.node] ==
          LET next == t.node[x][IF k < KeyOf(x) THEN "left" ELSE "right"]
          IN  IF x = Nil \/ k = KeyOf(x) \/ next = Nil THEN x ELSE go[next]
    IN  IF t.root = Nil THEN Nil ELSE go[t.root]

getexact(t, k) == LET x == Search(t, k)
                  IN  IF x # Nil /\ KeyOf(x) = k THEN x ELSE Nil

\* _std_rbtree_getnext, of a node.
Successor(t, x) ==
    IF t.node[x].right # Nil THEN Outermost(t, t.node[x].right, "left")
    ELSE OutOf(t, x, "right")

\* Mutant: a node above on the wrong side.
getexactornext_Stays(t, k) == Search(t, k)

getexactornext(t, k) ==
    LET x == Search(t, k)
    IN  IF x # Nil /\ KeyOf(x) < k THEN OutOf(t, x, "right") ELSE x

getexactorprev(t, k) ==
    LET x == Search(t, k)
    IN  IF x # Nil /\ k < KeyOf(x) THEN OutOf(t, x, "left") ELSE x

getnext(t, k) ==
    LET x == getexact(t, k)
    IN  IF x # Nil THEN Successor(t, x) ELSE getexactornext(t, k)

\* _std_rbtree_walk of cnt nodes, from node x or from the root when x is Nil:
\* the nodes called back, and the one returned.
RECURSIVE Walk(_, _, _, _, _)
Walk(t, x, dir, cnt, pre) ==
    LET l == t.node[x].left
        r == t.node[x].right
        p == t.node[x].parent
        Visit(y, rest) == [rest EXCEPT !.seen = <<y>> \o @]
        FromLeft == IF pre THEN Walk(t, p, "right", cnt, pre)
                    ELSE Visit(p, Walk(t, p, "right", cnt - 1, pre))
    IN  CASE cnt = 0 \/ x = Nil -> [seen |-> <<>>, at |-> x]
          [] cnt > 0 /\ x # Nil /\ dir = "down" /\ l # Nil ->
               IF pre THEN Visit(x, Walk(t, l, dir, cnt - 1, pre))
               ELSE Walk(t, l, dir, cnt, pre)
          [] cnt > 0 /\ x # Nil /\ dir = "down" /\ l = Nil ->
               Visit(x, Walk(t, x, "right", cnt - 1, pre))
          [] cnt > 0 /\ x # Nil /\ dir = "right" /\ r # Nil -> Walk(t, r, "down", cnt, pre)
          [] cnt > 0 /\ x # Nil /\ (dir = "up" \/ (dir = "right" /\ r = Nil)) ->
               IF p = Nil THEN [seen |-> <<>>, at |-> Nil]
               ELSE IF x = t.node[p].left THEN FromLeft
               ELSE Walk(t, p, "up", cnt, pre)

\* std_rbtree_walk, from the key k on.  All is a count no tree reaches.
All == Cardinality(Items) + 1

walkfrom(t, k, cnt, pre) ==
    LET x == getexactornext(t, k)
    IN  IF x = Nil THEN Walk(t, t.root, "down", cnt, pre) ELSE Walk(t, x, "right", cnt, pre)

rwalk(t) ==
    LET on[x \in DOMAIN t.node] ==
          IF x = Nil THEN <<>> ELSE on[t.node[x].left] \o <<x>> \o on[t.node[x].right]
    IN  on[t.root]

\* -----------------------------------------------------------------------
\* Balancing.

Side(t, x) == IF t.node[t.node[x].parent].left = x THEN "left" ELSE "right"
Red(t, x) == t.node[x].red

\* The nodes of R become red and those of B black.
Paint(t, R, B) ==
    [t EXCEPT !.node = [x \in DOMAIN @ |->
                          [@[x] EXCEPT !.red = (x \in R) \/ (@ /\ x \notin B)]]]

\* y takes the place of x under its parent, or as the root.
Replace(t, x, y) ==
    LET p == t.node[x].parent
    IN  IF p = Nil THEN [t EXCEPT !.root = y]
        ELSE IF t.node[p].left = x THEN [t EXCEPT !.node[p].left = y]
        ELSE [t EXCEPT !.node[p].right = y]

ParentOf(t, x, p) == IF x = Nil THEN t ELSE [t EXCEPT !.node[x].parent = p]

\* Mutant: the child that changes sides keeps its parent.
Rotate_Orphan(t, x, s) ==
    LET y == t.node[x][Other(s)]
        inner == t.node[y][s]
        u == [Replace(t, x, y) EXCEPT !.node[y].parent = t.node[x].parent]
    IN  [u EXCEPT !.node[x][Other(s)] = inner, !.node[y][s] = x, !.node[x].parent = y]

\* std_rbtree_rotateleft and its mirror image: x goes down on the side s.
Rotate(t, x, s) ==
    LET y == t.node[x][Other(s)]
        inner == t.node[y][s]
        u == [Replace(ParentOf(t, inner, x), x, y) EXCEPT !.node[y].parent = t.node[x].parent]
    IN  [u EXCEPT !.node[x][Other(s)] = inner, !.node[y][s] = x, !.node[x].parent = y]

RECURSIVE BalanceOnInsert(_, _)
BalanceOnInsert(t, x) ==
    LET p == t.node[x].parent
        g == t.node[p].parent
        s == Side(t, p)
        uncle == t.node[g][Other(s)]
        bent == x = t.node[p][Other(s)]
        u == IF bent THEN Rotate(t, p, s) ELSE t
        low == IF bent THEN p ELSE x
        mid == u.node[low].parent
    IN  IF x = t.root \/ ~Red(t, p) THEN Paint(t, {}, {t.root})
        ELSE IF uncle # Nil /\ Red(t, uncle) THEN BalanceOnInsert(Paint(t, {g}, {p, uncle}), g)
        ELSE BalanceOnInsert(Rotate(Paint(u, {g}, {mid}), g, Other(s)), low)

RECURSIVE BalanceOnRemove(_, _)
BalanceOnRemove(t, x) ==
    LET p == t.node[x].parent
        s == Side(t, x)
        o == Other(s)
        w0 == t.node[p][o]
        t1 == IF Red(t, w0) THEN Rotate(Paint(t, {p}, {w0}), p, s) ELSE t
        w1 == t1.node[p][o]
        far == ~Red(t1, t1.node[w1][o])
        t2 == IF far THEN Rotate(Paint(t1, {w1}, {t1.node[w1][s]}), w1, o) ELSE t1
        w == t2.node[p][o]
        t3 == Paint(t2, IF Red(t2, p) THEN {w} ELSE {}, {p, t2.node[w][o]}
                        \cup (IF Red(t2, p) THEN {} ELSE {w}))
        t4 == Rotate(t3, p, s)
    IN  IF x = t.root \/ Red(t, x) THEN Paint(t, {}, {x})
        ELSE IF w1 = Nil THEN Paint(t1, {}, {x})
        ELSE IF far /\ ~Red(t1, t1.node[w1][s]) THEN BalanceOnRemove(Paint(t1, {w1}, {}), p)
        ELSE BalanceOnRemove(t4, t4.root)

\* -----------------------------------------------------------------------
\* The operations.

\* Equal keys go to the right.
InsertionPoint(t, k) ==
    LET go[x \in DOMAIN t.node] ==
          LET next == t.node[x][IF k < KeyOf(x) THEN "left" ELSE "right"]
          IN  IF next = Nil THEN x ELSE go[next]
    IN  IF t.root = Nil THEN Nil ELSE go[t.root]

inserted(t, z) ==
    LET y == InsertionPoint(t, KeyOf(z))
        u == [t EXCEPT !.node = z :> [left |-> Nil, right |-> Nil, parent |-> y, red |-> TRUE]
                                @@ @]
    IN  BalanceOnInsert(
          IF y = Nil THEN [u EXCEPT !.root = z]
          ELSE IF KeyOf(z) < KeyOf(y) THEN [u EXCEPT !.node[y].left = z]
          ELSE [u EXCEPT !.node[y].right = z], z)

\* Mutant: and keeps its own colour.
TakePlace_OwnColour(t, z, y) ==
    LET r == t.node[z]
        u == [t EXCEPT !.node[y] = [r EXCEPT !.red = t.node[y].red],
                       !.root = IF @ = z THEN y ELSE @]
        v == IF r.parent = Nil THEN u ELSE Replace(u, z, y)
    IN  ParentOf(ParentOf(v, r.left, y), r.right, y)

\* y takes over the links and the colour of z.
TakePlace(t, z, y) ==
    LET r == t.node[z]
        u == [t EXCEPT !.node[y] = r, !.root = IF @ = z THEN y ELSE @]
        v == IF r.parent = Nil THEN u ELSE Replace(u, z, y)
    IN  ParentOf(ParentOf(v, r.left, y), r.right, y)

removed(t, z) ==
    LET r == t.node[z]
        y == IF r.left = Nil \/ r.right = Nil THEN z ELSE Successor(t, z)
        x == IF t.node[y].left # Nil THEN t.node[y].left ELSE t.node[y].right
        u == [Replace(t, y, x) EXCEPT !.node[x].parent = t.node[y].parent]
        v == IF Red(t, y) THEN u ELSE BalanceOnRemove(u, x)
        done == IF y = z THEN v ELSE TakePlace(v, z, y)
    IN  [done EXCEPT !.node = [n \in DOMAIN @ \ {z} |-> @[n]]]

\* std_rbtree_create
Init == rb = [root |-> Nil,
              node |-> Nil :> [left |-> Nil, right |-> Nil, parent |-> Nil, red |-> FALSE]]

Insert(z) == z \notin Data(rb) /\ rb' = inserted(rb, z)

\* std_rbtree_remove: a node with the key, if there is one.
Remove(k) == getexact(rb, k) # Nil /\ rb' = removed(rb, getexact(rb, k))

Next == \E z \in Items : Insert(z) \/ Remove(KeyOf(z))

Spec == Init /\ [][Next]_rb

\* -----------------------------------------------------------------------
\* Properties.

\* Pointers agree in both directions, every node hangs on the root, and the
\* walk from left to right gives the nodes in the order of their keys.
Ordered ==
    LET s == rwalk(rb)
    IN  /\ {s[i] : i \in DOMAIN s} = Data(rb) /\ Len(s) = Cardinality(Data(rb))
        /\ \A i \in 1..(Len(s) - 1) : KeyOf(s[i]) <= KeyOf(s[i + 1])
        /\ rb.node[rb.root].parent = Nil \/ rb.root = Nil
        /\ \A x \in Data(rb), l \in Links :
              rb.node[x][l] # Nil => rb.node[rb.node[x][l]].parent = x

\* The tree stays balanced: no red node has a red child, and every way down
\* meets the same number of black nodes; nil and the root are black.
Balanced ==
    LET black[x \in DOMAIN rb.node] ==
          IF x = Nil THEN {0}
          ELSE {n + IF Red(rb, x) THEN 0 ELSE 1 :
                  n \in black[rb.node[x].left] \cup black[rb.node[x].right]}
    IN  /\ ~Red(rb, Nil) /\ ~Red(rb, rb.root)
        /\ \A x \in Data(rb) : Red(rb, x) => ~Red(rb, rb.node[x].parent)
        /\ Cardinality(black[rb.root]) = 1

Sorted == INSTANCE SortedNodes WITH nodes <- Data(rb)

\* Insertion adds its node, and removal takes out one with the key, at
\* whatever depth it is and however the tree is mended afterwards.
SortedStep == Sorted!Next \/ UNCHANGED Data(rb)

\* Every look-up, whether or not its key is in the tree, answers with a node
\* the sorted set allows, or with none when it allows none.
LookupsAgree ==
    LET Is(x, S) == IF S = {} THEN x = Nil ELSE x \in S
    IN  /\ Is(getfirst(rb), Sorted!getfirst)
        /\ \A k \in 0..(All) :
             /\ Is(getexact(rb, k), Sorted!getexact(k))
             /\ Is(getexactornext(rb, k), Sorted!getexactornext(k))
             /\ Is(getexactorprev(rb, k), Sorted!getexactorprev(k))
             /\ getnext(rb, k) # Nil => getnext(rb, k) \in Sorted!getnext(k)
             /\ getnext(rb, k) = Nil => {x \in Data(rb) : KeyOf(x) > k} = {}

\* A walk in two parts, the second from the node the first returned, gives
\* what one walk gives: every node, in order.  In preorder too none is left
\* out.  That is by the convention of the code (std_rbtree.c:692, :755): a walk
\* returns the node it called back last, and from a node or a key it begins
\* behind the node.  std_rbtree.h has it return the next node (:379, :518) and
\* begin with the node given (:361, :499), which fits as well, but is not so.
WalksWhole ==
    LET Met(s) == {s[i] : i \in DOMAIN s}
        pre == Walk(rb, rb.root, "down", All, TRUE).seen
    IN  /\ \A cnt \in 1..Cardinality(Data(rb)) :
             LET one == Walk(rb, rb.root, "down", cnt, FALSE)
                 two == Walk(rb, one.at, "right", All, FALSE)
             IN  one.seen \o two.seen = rwalk(rb)
        /\ Met(pre) = Data(rb) /\ Len(pre) = Cardinality(Data(rb))
        /\ \A x \in Data(rb) :
             LET s == walkfrom(rb, KeyOf(x), All, FALSE).seen
                 i == CHOOSE j \in DOMAIN rwalk(rb) : rwalk(rb)[j] = getexact(rb, KeyOf(x))
             IN  s = SubSeq(rwalk(rb), i + 1, Len(rwalk(rb)))
=============================================================================
