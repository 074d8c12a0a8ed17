------------------------------- MODULE Radix -------------------------------
(***************************************************************************)
(* The radix tree of std_radix.c, pointer by pointer, with version walks.  *)
(* A node is named by the bits that lead to it, so that its length is      *)
(* rtn_bit; nothing below reads more of the name than that length.  The    *)
(* library is not threaded: a version walk gives way only inside its       *)
(* callback, while it keeps the node locked, and the other operations      *)
(* (another walk among them) then run.                                     *)
(***************************************************************************)
EXTENDS Integers, Sequences, FiniteSets, TLC

CONSTANTS
    Keys,       \* prefixes: sequences of bits
    Walkers,    \* version walks that may be under way at once
    Ranges,     \* the ranges of versions they ask for
    MaxVersion, \* bound on rtt_version
    None

VARIABLES
    tree,       \* [root, node]: the glue nodes, by name
    version,    \* rtt_version
    walk        \* the state of each version walk

vars == <<tree, version, walk>>

-----------------------------------------------------------------------------
(* The tree and its look-ups.                                              *)

\* struct _rt_node, and rth_version of the route attached to it.
NewNode(rth, parent, ver) ==
    [left |-> None, right |-> None, parent |-> parent, rth |-> rth, rver |-> 0,
     ver |-> ver, lock |-> 0, dele |-> FALSE]

\* The address k has zeros after its prefix.
Bit(k, i) == IF i < Len(k) THEN k[i + 1] ELSE 0

Child(t, n, k) == IF Bit(k, Len(n)) = 1 THEN t.node[n].right ELSE t.node[n].left

\* Down from the root along k, to a node that is enough or has no child there.
Descend(t, k, Enough(_)) ==
    LET go[n \in DOMAIN t.node] ==
          IF Enough(n) \/ Child(t, n, k) = None THEN n ELSE go[Child(t, n, k)]
    IN  go[t.root]

\* From n towards the root, to a node that is enough.
Climb(t, n, Enough(_)) ==
    LET up[m \in DOMAIN t.node \cup {None}] ==
          IF m = None \/ Enough(m) THEN m ELSE up[t.node[m].parent]
    IN  up[n]

\* rdx_compare_address over the bits of the node
SameBits(a, b, len) == \A i \in 0..(len - 1) : Bit(a, i) = Bit(b, i)

Found(t, k) == Descend(t, k, LAMBDA n : Len(n) >= Len(k))

\* The nearest node at or above n with a route that covers k.
Matching(t, n, k) ==
    Climb(t, n, LAMBDA m : /\ Len(m) <= Len(k) /\ t.node[m].rth # None
                           /\ SameBits(k, t.node[m].rth, Len(m)))

Given(t, n) == IF n # None /\ ~t.node[n].dele THEN t.node[n].rth ELSE None

getbest(t, k) == IF t.root = None THEN None ELSE Given(t, Matching(t, Found(t, k), k))

\* Mutant: the best route is its own second.
getnextbest_Same(t, k) ==
    IF getbest(t, k) = None THEN None
    ELSE Given(t, Matching(t, Found(t, k), k))

getnextbest(t, k) ==
    IF getbest(t, k) = None THEN None
    ELSE Given(t, Matching(t, t.node[Matching(t, Found(t, k), k)].parent, k))

getbestandprev(t, k) == <<getbest(t, k), getnextbest(t, k)>>

getexact(t, k) ==
    IF t.root = None THEN None
    ELSE LET n == Found(t, k)
         IN  IF /\ Len(n) = Len(k) /\ t.node[n].rth # None
                /\ SameBits(k, t.node[n].rth, Len(n))
             THEN Given(t, n) ELSE None

\* Also std_radix_getlessspecific.
getparent(t, k) ==
    LET n == Climb(t, t.node[k].parent, LAMBDA m : t.node[m].rth # None)
    IN  IF n = None THEN None ELSE t.node[n].rth

\* The first node to the right of the path from n to the root.
NextSubtree(t, n, Beyond(_)) ==
    LET m == Climb(t, n, LAMBDA x : LET p == t.node[x].parent
                                    IN  \/ p = None
                                        \/ /\ Beyond(p)
                                           /\ t.node[p].right \notin {None, x})
        p == t.node[m].parent
    IN  IF p = None THEN None ELSE t.node[p].right

\* The node after n in a walk that takes a node before its children.
After(t, n) ==
    CASE t.node[n].left # None -> t.node[n].left
      [] t.node[n].left = None /\ t.node[n].right # None -> t.node[n].right
      [] OTHER -> NextSubtree(t, n, LAMBDA p : TRUE)

\* From n on, the first node with a route.
FirstRoute(t, n) ==
    LET on[m \in DOMAIN t.node \cup {None}] ==
          IF m = None THEN None
          ELSE IF t.node[m].rth # None THEN t.node[m].rth ELSE on[After(t, m)]
    IN  on[n]

Least(a, b) == IF a < b THEN a ELSE b

\* The first bit where a and b differ, if it is before bit n, and n if not.
DiffBit(a, b, n) ==
    IF SameBits(a, b, n) THEN n
    ELSE CHOOSE i \in 0..(n - 1) : Bit(a, i) # Bit(b, i) /\ SameBits(a, b, i)

WithRoute(t, k) == Descend(t, k, LAMBDA n : Len(n) >= Len(k) /\ t.node[n].rth # None)

getnext(t, k) ==
    IF t.root = None THEN None
    ELSE LET n == WithRoute(t, k)
             check == Least(Len(n), Len(k))
             d == DiffBit(k, t.node[n].rth, check)
         IN  FirstRoute(t,
               CASE d = check /\ Len(n) <= Len(k) -> After(t, n)
                 [] d = check /\ Len(n) > Len(k) -> n
                 [] d < check /\ Bit(k, d) = 1 ->
                      NextSubtree(t, n, LAMBDA p : Len(p) <= d)
                 [] d < check /\ Bit(k, d) = 0 ->
                      Climb(t, n, LAMBDA m : t.node[m].parent = None
                                             \/ Len(t.node[m].parent) <= d))

\* std_radix_walk over the whole tree: the routes given to the callback.
walked(t) ==
    LET on[n \in DOMAIN t.node \cup {None}] ==
          IF n = None THEN <<>>
          ELSE (IF t.node[n].rth # None THEN <<t.node[n].rth>> ELSE <<>>) \o on[After(t, n)]
    IN  on[t.root]

getsubtree(t, k) ==
    IF t.root = None THEN None
    ELSE IF getexact(t, k) # None THEN k
    ELSE LET r == getnext(t, k)
         IN  IF r = None \/ ~SameBits(k, r, Len(k)) THEN None
             ELSE Climb(t, r, LAMBDA m : t.node[m].parent = None
                                         \/ Len(t.node[m].parent) < Len(k))

\* The routes between std_radix_powerwalkstart and std_radix_powerwalkend.
powerwalk(t, rootaddr, next) ==
    LET root == getsubtree(t, rootaddr)
        start == IF getexact(t, next) # None THEN next ELSE getnext(t, next)
        inside == start # None /\ Climb(t, start, LAMBDA m : m = root) # None
        over(n) == LET m == Climb(t, n, LAMBDA x : \/ x = root
                                                   \/ t.node[t.node[x].parent].right
                                                         \notin {None, x})
                   IN  IF m = root THEN None ELSE t.node[t.node[m].parent].right
        on[n \in DOMAIN t.node \cup {None}] ==
          IF n = None THEN <<>>
          ELSE (IF Given(t, n) # None THEN <<t.node[n].rth>> ELSE <<>>)
               \o on[CASE t.node[n].left # None -> t.node[n].left
                       [] t.node[n].left = None /\ t.node[n].right # None ->
                            t.node[n].right
                       [] OTHER -> over(n)]
    IN  IF root # None /\ inside THEN on[start] ELSE <<>>

-----------------------------------------------------------------------------
(* Insertion and removal.                                                  *)

\* m takes the place of n under its parent, or as the root.
Replace(t, n, m) ==
    LET p == t.node[n].parent
    IN  IF p = None THEN [t EXCEPT !.root = m]
        ELSE IF t.node[p].left = n THEN [t EXCEPT !.node[p].left = m]
        ELSE [t EXCEPT !.node[p].right = m]

SetChild(t, n, k, m) ==
    IF Bit(k, Len(n)) = 1 THEN [t EXCEPT !.node[n].right = m]
    ELSE [t EXCEPT !.node[n].left = m]

Add(t, n, rec) == [t EXCEPT !.node = n :> rec @@ @]

\* Mutant: the new node starts without the version of the subtree.
Lower_NoVersion(t, n, m, his) ==
    SetChild([Replace(t, n, m) EXCEPT !.node[n].parent = m,
                                      !.node[m].parent = t.node[n].parent], m, his, n)

\* n becomes a child of the new node m, on the side of the address his.
Lower(t, n, m, his) ==
    SetChild([Replace(t, n, m) EXCEPT !.node[n].parent = m,
                                      !.node[m].ver = t.node[n].ver,
                                      !.node[m].parent = t.node[n].parent], m, his, n)

\* The place of k: the node found going down, and how far up it is split.
Place(t, k) ==
    LET n == WithRoute(t, k)
        d == DiffBit(k, t.node[n].rth, Least(Len(n), Len(k)))
    IN  [his |-> t.node[n].rth, diff |-> d,
         top |-> Climb(t, n, LAMBDA m : t.node[m].parent = None
                                        \/ Len(t.node[m].parent) < d)]

inserted(t, k) ==
    IF t.root = None THEN Add([t EXCEPT !.root = k], k, NewNode(k, None, 0))
    ELSE LET p == Place(t, k)
             n == p.top
             split == SubSeq(k, 1, p.diff)
         IN  CASE p.diff = Len(k) /\ Len(n) = Len(k) ->
                    [t EXCEPT !.node[n].rth = k, !.node[n].rver = 0, !.node[n].dele = FALSE]
               [] Len(n) = p.diff /\ p.diff < Len(k) ->
                    SetChild(Add(t, k, NewNode(k, n, 0)), n, k, k)
               [] Len(n) # p.diff /\ p.diff = Len(k) ->
                    Lower(Add(t, k, NewNode(k, None, 0)), n, k, p.his)
               [] Len(n) # p.diff /\ p.diff < Len(k) ->
                    SetChild(Lower(Add(Add(t, k, NewNode(k, split, 0)),
                                       split, NewNode(None, None, 0)),
                                   n, split, p.his), split, k, k)

Free(t, n) == [t EXCEPT !.node = [m \in DOMAIN @ \ {n} |-> @[m]]]

\* A node with one child gives it its place.
Promoted(t, n) ==
    LET p == t.node[n].parent
        c == IF t.node[n].left # None THEN t.node[n].left ELSE t.node[n].right
        u == Free([Replace(t, n, c) EXCEPT !.node[c].parent = p], n)
    IN  IF c = t.node[n].left THEN [tree |-> u, next |-> p, dir |-> "right"]
        ELSE [tree |-> u, next |-> c, dir |-> "down"]

\* Mutant: the parent without a route keeps its only child.
removed_KeepsGlue(t, n) ==
    LET r == t.node[n]
        p == r.parent
        side == IF p # None /\ t.node[p].left = n THEN "right" ELSE "up"
        u == Free(Replace(t, n, None), n)
    IN  CASE r.left # None /\ r.right # None ->
               [tree |-> [t EXCEPT !.node[n].rth = None], next |-> p, dir |-> "up"]
          [] r.left = None /\ r.right = None -> [tree |-> u, next |-> p, dir |-> side]
          [] OTHER -> Promoted(t, n)

\* _std_radix_remove: the tree, and where a walk at n goes on.
removed(t, n) ==
    LET r == t.node[n]
        p == r.parent
        side == IF p # None /\ t.node[p].left = n THEN "right" ELSE "up"
        u == Free(Replace(t, n, None), n)
    IN  CASE r.left # None /\ r.right # None ->
               [tree |-> [t EXCEPT !.node[n].rth = None], next |-> p, dir |-> "up"]
          [] r.left = None /\ r.right = None ->
               IF p = None \/ t.node[p].rth # None
               THEN [tree |-> u, next |-> p, dir |-> side]
               ELSE Promoted(u, p)
          [] OTHER -> Promoted(t, n)

-----------------------------------------------------------------------------
\* todo and tidied are history: the routes that remain to be visited, and
\* whether the walk removed a node on its way.
Idle == [at |-> "idle", node |-> None, min |-> 0, max |-> 0, todo |-> {}, tidied |-> FALSE]

\* std_radix_create
Init == /\ tree = [root |-> None, node |-> <<>>]
        /\ version = 0
        /\ walk = [w \in Walkers |-> Idle]

\* No walk is running: each has ended or gives way in its callback.
Yielded == \A w \in Walkers : walk[w].at \in {"idle", "call"}

Attached(t) == {n \in DOMAIN t.node : t.node[n].rth # None}
Live(t) == {n \in Attached(t) : ~t.node[n].dele}

\* std_radix_insert: a route that is there already is returned as it is.
Insert(k) ==
    /\ Yielded /\ k \notin Live(tree)
    /\ tree' = inserted(tree, k)
    /\ UNCHANGED <<version, walk>>

\* The walks of W need not visit k any more.
NotTodo(k, W) ==
    walk' = [w \in Walkers |-> IF w \in W THEN [walk[w] EXCEPT !.todo = @ \ {k}] ELSE walk[w]]

\* std_radix_remove: a node that a walk has locked is only marked.
Remove(k) ==
    /\ Yielded /\ k \in Live(tree)
    /\ IF tree.node[k].lock > 0
       THEN tree' = [tree EXCEPT !.node[k].dele = TRUE]
       ELSE tree' = removed(tree, k).tree
    /\ NotTodo(k, Walkers)
    /\ UNCHANGED version

\* Mutant: only the node of the route gets the version.
SetVersion_NodeOnly(k) ==
    /\ Yielded /\ k \in Live(tree) /\ version < MaxVersion
    /\ version' = version + 1
    /\ tree' = [tree EXCEPT !.node[k].rver = version + 1, !.node[k].ver = version + 1]
    /\ NotTodo(k, {w \in Walkers : walk[w].max < version + 1})

\* std_radix_setversion
SetVersion(k) ==
    /\ Yielded /\ k \in Live(tree) /\ version < MaxVersion
    /\ version' = version + 1
    /\ LET above == {n \in DOMAIN tree.node : Climb(tree, k, LAMBDA m : m = n) # None}
       IN  tree' = [tree EXCEPT
                     !.node = [n \in DOMAIN @ |->
                                 [@[n] EXCEPT !.ver = IF n \in above THEN version + 1 ELSE @,
                                              !.rver = IF n = k THEN version + 1 ELSE @]]]
    /\ NotTodo(k, {w \in Walkers : walk[w].max < version + 1})

\* std_radix_init, when the routes have been removed.
Reset ==
    /\ \A w \in Walkers : walk[w].at = "idle"
    /\ Live(tree) = {}
    /\ tree' = [tree EXCEPT !.root = None, !.node = <<>>]
    /\ version' = 0
    /\ UNCHANGED <<walk>>

-----------------------------------------------------------------------------
(* std_radix_versionwalk.                                                  *)

InRange(n, r) == tree.node[n].rver \in r.min..r.max

\* From the root, or on from a route that a walk returned.
Start(w, r, from) ==
    /\ Yielded /\ walk[w].at = "idle" /\ tree.root # None
    /\ from \in Live(tree) \cup {None}
    /\ walk' = [walk EXCEPT
                  ![w] = [at |-> IF from = None THEN "down" ELSE "right",
                          node |-> IF from = None THEN tree.root ELSE from,
                          min |-> r.min, max |-> r.max, tidied |-> FALSE,
                          todo |-> IF from = None THEN {n \in Live(tree) : InRange(n, r)}
                                   ELSE {}]]
    /\ UNCHANGED <<tree, version>>

Go(w, n, dir) ==
    walk' = [walk EXCEPT ![w] = IF n = None THEN Idle ELSE [@ EXCEPT !.at = dir, !.node = n]]

\* Past a node: to its left child, if it has one.
GoOn(w, n) == IF tree.node[n].left # None THEN Go(w, tree.node[n].left, "down")
              ELSE Go(w, n, "right")

Visits(w) == LET n == walk[w].node IN tree.node[n].rth # None /\ InRange(n, walk[w])

\* A subtree without recent changes is left out.
Down(w) ==
    /\ walk[w].at = "down"
    /\ LET n == walk[w].node
       IN  /\ tree.node[n].ver < walk[w].min \/ ~Visits(w)
           /\ IF tree.node[n].ver < walk[w].min THEN Go(w, n, "up") ELSE GoOn(w, n)
    /\ UNCHANGED <<tree, version>>

\* RN_LOCK, and the callback.
Call(w) ==
    /\ walk[w].at = "down"
    /\ LET n == walk[w].node
       IN  /\ tree.node[n].ver >= walk[w].min /\ Visits(w)
           /\ tree' = [tree EXCEPT !.node[n].lock = @ + 1]
           /\ walk' = [walk EXCEPT ![w].at = "call", ![w].todo = @ \ {n}]
    /\ UNCHANGED version

\* The callback returns, zero to go on.
Returns(w) ==
    /\ walk[w].at = "call" /\ Yielded
    /\ tree' = [tree EXCEPT !.node[walk[w].node].lock = @ - 1]
    /\ GoOn(w, walk[w].node)
    /\ UNCHANGED version

\* Or something else, or it was the last of cnt nodes: the loop ends past it.
Stops(w) ==
    /\ walk[w].at = "call" /\ Yielded
    /\ LET n == walk[w].node
           past == IF tree.node[n].left # None THEN tree.node[n].left ELSE n
       IN  /\ tree' = [tree EXCEPT !.node[n].lock = @ - 1]
           /\ walk' = [walk EXCEPT ![w].at = "tidy", ![w].node = past, ![w].todo = {}]
    /\ UNCHANGED version

\* Mutant: nothing to the right.
Right_Skips(w) ==
    /\ walk[w].at = "right"
    /\ Go(w, walk[w].node, "up")
    /\ UNCHANGED <<tree, version>>

Right(w) ==
    /\ walk[w].at = "right"
    /\ LET n == walk[w].node
       IN  IF tree.node[n].right = None THEN Go(w, n, "up")
           ELSE Go(w, tree.node[n].right, "down")
    /\ UNCHANGED <<tree, version>>

\* Mutant: the flag is not looked at.
Doomed_Unlocked(n) == tree.node[n].lock = 0

Doomed(n) == tree.node[n].lock = 0 /\ tree.node[n].dele

\* Mutant: the walk does not carry out the removal.
Up_Leaves(w) ==
    /\ walk[w].at = "up"
    /\ LET n == walk[w].node
           p == tree.node[n].parent
       IN  Go(w, p, IF p # None /\ tree.node[p].left = n THEN "right" ELSE "up")
    /\ UNCHANGED <<tree, version>>

\* The node is left upwards, and removed now if it was marked.
Up(w) ==
    /\ walk[w].at = "up"
    /\ LET n == walk[w].node
           p == tree.node[n].parent
           r == removed(tree, n)
       IN  IF Doomed(n)
           THEN /\ tree' = r.tree
                /\ walk' = [walk EXCEPT ![w] = IF r.next = None THEN Idle ELSE
                              [@ EXCEPT !.at = r.dir, !.node = r.next, !.tidied = TRUE]]
           ELSE /\ Go(w, p, IF p # None /\ tree.node[p].left = n THEN "right" ELSE "up")
                /\ UNCHANGED tree
    /\ UNCHANGED version

\* After a stop, the marked nodes between here and the root are removed.  The
\* route that is returned, which is not modelled, is read from the node where
\* the loop ended, also when that was one of them and is freed by then.
Tidy(w) ==
    /\ walk[w].at = "tidy"
    /\ LET n == walk[w].node
           r == removed(tree, n)
           next == IF Doomed(n) THEN r.next ELSE tree.node[n].parent
       IN  /\ IF Doomed(n) THEN tree' = r.tree
              ELSE UNCHANGED tree
           /\ walk' = [walk EXCEPT ![w] = IF next = None THEN Idle ELSE [@ EXCEPT !.node = next]]
    /\ UNCHANGED version

-----------------------------------------------------------------------------
Walking(w) == \/ Down(w) \/ Call(w) \/ Returns(w) \/ Stops(w) \/ Right(w) \/ Up(w)
              \/ Tidy(w)

Next == \/ \E k \in Keys : Insert(k) \/ Remove(k) \/ SetVersion(k)
        \/ Reset
        \/ \E w \in Walkers, r \in Ranges, from \in Keys \cup {None} : Start(w, r, from)
        \/ \E w \in Walkers : Walking(w)

Spec == Init /\ [][Next]_vars
-----------------------------------------------------------------------------
(* Properties.                                                             *)

Nodes == DOMAIN tree.node

TypeOK ==
    /\ tree.root \in Nodes \cup {None}
    /\ \A n \in Nodes :
         /\ {tree.node[n].left, tree.node[n].right, tree.node[n].parent}
              \subseteq Nodes \cup {None}
         /\ tree.node[n].rth \in Keys \cup {None}
         /\ tree.node[n].ver \in 0..MaxVersion /\ tree.node[n].rver \in 0..MaxVersion
         /\ tree.node[n].lock \in 0..Cardinality(Walkers) /\ tree.node[n].dele \in BOOLEAN
    /\ version \in 0..MaxVersion
    /\ \A w \in Walkers :
         /\ walk[w].at \in {"idle", "down", "call", "right", "up", "tidy"}
         /\ walk[w].todo \subseteq Keys /\ walk[w].tidied \in BOOLEAN

\* Whatever is inserted and removed, and whoever walks meanwhile: pointers
\* agree in both directions, each node lies on the side its bits say, a route
\* hangs on the node of its own prefix, and a node without one has two children.
WellFormed ==
    /\ Nodes # {} => tree.root \in Nodes /\ tree.node[tree.root].parent = None
    /\ \A n \in Nodes :
         LET r == tree.node[n]
         IN  /\ n # tree.root => /\ r.parent # None
                                 /\ Child(tree, r.parent, n) = n
                                 /\ Len(r.parent) < Len(n)
                                 /\ SameBits(n, r.parent, Len(r.parent))
             /\ \A c \in {r.left, r.right} \ {None} : tree.node[c].parent = n
             /\ r.rth \in {n, None}
             /\ r.rth = None => r.left # None /\ r.right # None

\* A walk may leave out the subtree of a node with an old version: nothing in
\* it is newer.
SubtreeVersions ==
    \A n \in Nodes : \A m \in Attached(tree) :
        Climb(tree, m, LAMBDA x : x = n) # None => tree.node[m].rver <= tree.node[n].ver

\* The nodes that walks stand on are in the tree: the lock keeps the node of a
\* callback from being freed by another removal or walk.  Nothing is said of
\* the node whose route a stopped walk returns.
WalksOnTree ==
    \A w \in Walkers :
        /\ walk[w].at # "idle" => walk[w].node \in Nodes
        /\ walk[w].at = "call" => tree.node[walk[w].node].lock > 0

\* Look-ups answer from the routes present, marked or not; a route that was
\* removed under a walk hides the answer when it is the best match.
LookupsRight ==
    LET R == INSTANCE RouteTable WITH vers <- <<>>
        shown(k) == IF k \in Live(tree) THEN k ELSE None
        T == Attached(tree)
    IN  Yielded => \A k \in Keys :
          /\ getexact(tree, k) = R!ExactRoute(Live(tree), k)
          /\ getbest(tree, k) = shown(R!BestRoute(T, k))
          /\ getnextbest(tree, k) = IF getbest(tree, k) = None THEN None
                                    ELSE shown(R!SecondRoute(T, k))
          /\ k \in T => /\ getnext(tree, k) = R!NextRoute(T, k)
                        /\ getparent(tree, k) = R!ParentRoute(T, k)

\* Walks give the routes in lexicographic order, and a power walk those of
\* the subtree it was asked for, from the address it was asked to start at.
WalksInOrder ==
    LET R == INSTANCE RouteTable WITH vers <- <<>>
    IN  Yielded =>
          /\ walked(tree) = R!InOrder(Attached(tree))
          /\ \A k, m \in Keys :
               R!Covers(k, m) /\ m \in Live(tree)
                 => powerwalk(tree, k, m) = R!SubtreeFrom(Live(tree), k, m)

\* A route removed under a walk leaves the tree: when the last walk is over,
\* no marked route is left, and an emptied tree has no nodes.
RemovalsEnd ==
    (\A w \in Walkers : walk[w].at = "idle")
        => Attached(tree) = Live(tree) /\ (Live(tree) = {} => tree.root = None)

Ends(w) == walk[w].at \in {"up", "down", "right"} /\ walk'[w].at = "idle"

\* A version walk that is not stopped calls back every route of its range that
\* stays, whatever is inserted and removed while it gives way; unless it had
\* to carry out a removal itself.
Completed == \A w \in Walkers : Ends(w) /\ ~walk[w].tidied => walk[w].todo = {}
WalkComplete == [][Completed]_vars

Table == INSTANCE RouteTable
            WITH vers <- [k \in Live(tree) |-> tree.node[k].rver]

\* Nothing but insertion, removal and setversion changes the routes a user
\* sees, each as RouteTable says; walks, which carry out the removals marked
\* under them, never do.
View == <<Live(tree), [k \in Live(tree) |-> tree.node[k].rver], version>>
TableStep == /\ Table!Next \/ UNCHANGED View
             /\ (\E w \in Walkers : Walking(w)) => UNCHANGED View
ImplementsRouteTable == Table!Init /\ [][TableStep]_vars

\* std_radix.c:1257 "don't delete the the node, or else we will mess up the
\* walker.  Just mark the node for deletion; when the last walker traces back
\* above the node will delete it from the tree".
WalkNotMessedUp ==
    [][\A w \in Walkers : Ends(w) => walk[w].todo = {}]_vars
=============================================================================
