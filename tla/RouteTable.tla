----------------------------- MODULE RouteTable -----------------------------
(***************************************************************************)
(* What std_radix.h promises of a radix tree: a set of routes, each named  *)
(* by its prefix and carrying a version, the look-ups on prefixes, and the *)
(* order in which walks visit them.  A prefix is a sequence of bits.       *)
(***************************************************************************)
EXTENDS Integers, Sequences, FiniteSets

CONSTANTS
    Keys,       \* the prefixes of the routes
    MaxVersion, \* bound on rtt_version
    None

VARIABLES
    vers,       \* the version of each route present
    version     \* rtt_version

Table == DOMAIN vers

\* a covers b
Covers(a, b) == Len(a) <= Len(b) /\ SubSeq(b, 1, Len(a)) = a

\* Lexicographic order, a prefix before what it covers.
Before(a, b) ==
    \/ a # b /\ Covers(a, b)
    \/ \E i \in 1..Len(a) : /\ i <= Len(b) /\ a[i] < b[i]
                            /\ SubSeq(a, 1, i - 1) = SubSeq(b, 1, i - 1)

\* The routes of T in the order of a walk.
InOrder(T) == [i \in 1..Cardinality(T) |->
                 CHOOSE k \in T : Cardinality({m \in T : Before(m, k)}) = i - 1]

\* The most specific route of T at or above k, and the next less specific.
LongestOf(S) == IF S = {} THEN None ELSE CHOOSE k \in S : \A m \in S : Len(m) <= Len(k)
BestRoute(T, k) == LongestOf({m \in T : Covers(m, k)})
SecondRoute(T, k) == LongestOf({m \in T : Covers(m, k)} \ {BestRoute(T, k)})
ExactRoute(T, k) == IF k \in T THEN k ELSE None
ParentRoute(T, k) == LongestOf({m \in T : m # k /\ Covers(m, k)})
NextRoute(T, k) == LET later == {m \in T : Before(k, m)}
                   IN  IF later = {} THEN None ELSE InOrder(later)[1]

\* The routes a power walk of the subtree of root visits, from next on.
SubtreeFrom(T, root, next) ==
    InOrder({m \in T : Covers(root, m) /\ (m = next \/ Before(next, m))})

-----------------------------------------------------------------------------
Init == vers = <<>> /\ version = 0

\* A route already there is left as it is.
Insert(k) == /\ k \notin Table
             /\ vers' = [m \in Table \cup {k} |-> IF m = k THEN 0 ELSE vers[m]]
             /\ UNCHANGED version

Remove(k) == /\ k \in Table
             /\ vers' = [m \in Table \ {k} |-> vers[m]]
             /\ UNCHANGED version

SetVersion(k) == /\ k \in Table /\ version < MaxVersion
                 /\ version' = version + 1
                 /\ vers' = [vers EXCEPT ![k] = version + 1]

\* Only an emptied table is initialised again.
Reset == Table = {} /\ version' = 0 /\ UNCHANGED vers

Next == \/ \E k \in Keys : Insert(k) \/ Remove(k) \/ SetVersion(k)
        \/ Reset

Spec == Init /\ [][Next]_<<vers, version>>
=============================================================================
