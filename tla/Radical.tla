------------------------------ MODULE Radical ------------------------------
(***************************************************************************)
(* The change list of std_radical.c: routes in the order of their latest   *)
(* change, and among them a marker for each reader that catches up with    *)
(* the changes.  A reader gives way only inside its callback; routes are   *)
(* then changed and removed, other readers run, and markers, its own too,  *)
(* are placed anew.  It does not start a walk on the marker of a walk that *)
(* is under way, nor give that marker up.  Of the radix tree it needs      *)
(* which routes are in it, and rtt_version, which wraps around.            *)
(***************************************************************************)
EXTENDS Lists, FiniteSets

CONSTANTS
    Routes,     \* routes, each with a radical head
    Readers,    \* markers of change list walks
    Wrap,       \* rtt_version counts modulo this
    None

\* Versions of 64 bits are never as few as the routes.
ASSUME RadicalAssumption ==
    /\ IsFiniteSet(Routes) /\ Wrap \in Nat /\ Cardinality(Routes) < Wrap
    /\ Routes \cap Readers = {} /\ None \notin Routes

VARIABLES
    table,      \* routes in the tree
    list,       \* rtt_clhead: routes and markers
    ver,        \* rth_version of each route and marker
    clock,      \* rtt_version
    reading,    \* of each reader: the walk it has under way
    unseen,     \* history: changes each reader has not been given
    loose       \* history: markers whose version is not that of their place

rvars == <<table, list, ver, clock, reading, unseen, loose>>

Listed(x) == In(list, x)

\* The first route of a list, or from a place in it.
FirstFrom(l, i) ==
    LET later == {j \in i..Len(l) : l[j] \in Routes}
    IN  IF later = {} THEN None ELSE l[CHOOSE j \in later : \A k \in later : j <= k]

\* std_radical_getnext, and std_radical_getfirst
getnext(l, x) == FirstFrom(l, At(l, x) + 1)
getfirst(l) == FirstFrom(l, 1)

\* std_radical_nextversion
nextversion(r) == IF getnext(list, r) = None THEN 0 ELSE ver[getnext(list, r)]

\* moved: its marker was placed anew during the callback.
NotReading == [at |-> "idle", route |-> None, ver |-> 0, max |-> 0, moved |-> FALSE]

Init == /\ table = {} /\ list = <<>> /\ clock = 0
        /\ ver = [x \in Routes \cup Readers |-> 0]
        /\ reading = [r \in Readers |-> NotReading]
        /\ unseen = [r \in Readers |-> {}] /\ loose = {}

Quiet == \A r \in Readers : reading[r].at = "idle"

\* When the version has wrapped to zero the user has the list painted anew
\* before anything else.  Versions of 64 bits wrap between walks here.
Settled == \A x \in Routes : Listed(x) => ver[x] # 0

InTree(x) == Settled /\ x \notin table
             /\ table' = table \cup {x}
             /\ UNCHANGED <<list, ver, clock, reading, unseen, loose>>

\* Mutant: the entry stays in the list.
Remove_Stays(x) ==
    /\ Settled /\ x \in table
    /\ table' = table \ {x}
    /\ unseen' = [r \in Readers |-> unseen[r] \ {x}]
    /\ UNCHANGED <<list, ver, clock, reading, loose>>

\* std_radix_remove takes the route off the list.
Remove(x) ==
    /\ Settled /\ x \in table
    /\ table' = table \ {x}
    /\ list' = without(list, x)
    /\ unseen' = [r \in Readers |-> unseen[r] \ {x}]
    /\ UNCHANGED <<ver, clock, reading, loose>>

\* Mutant: an entry that is in the list keeps its place.
AppendToChangeList_InPlace(x) ==
    /\ Settled /\ x \in table
    /\ clock + 1 = Wrap => Quiet
    /\ clock' = (clock + 1) % Wrap
    /\ list' = IF Listed(x) THEN list ELSE atback(list, x)
    /\ ver' = [ver EXCEPT ![x] = clock']
    /\ unseen' = [r \in Readers |-> IF Listed(r) THEN unseen[r] \cup {x} ELSE {}]
    /\ UNCHANGED <<table, reading, loose>>

\* std_radical_appendtochangelist
AppendToChangeList(x) ==
    /\ Settled /\ x \in table
    /\ clock + 1 = Wrap => Quiet
    /\ clock' = (clock + 1) % Wrap
    /\ list' = atback(without(list, x), x)
    /\ ver' = [ver EXCEPT ![x] = clock']
    /\ unseen' = [r \in Readers |-> IF Listed(r) THEN unseen[r] \cup {x} ELSE {}]
    /\ UNCHANGED <<table, reading, loose>>

\* std_radical_procverwrap: routes are counted from one, a marker has the
\* number of the route before it; the user goes on from the last number.
ProcVerWrap ==
    /\ ~Settled
    /\ LET number(x) == Cardinality({i \in 1..At(list, x) : list[i] \in Routes})
       IN  /\ ver' = [x \in Routes \cup Readers |-> IF Listed(x) THEN number(x) ELSE ver[x]]
           /\ clock' = Cardinality({i \in DOMAIN list : list[i] \in Routes})
    /\ loose' = {}
    /\ UNCHANGED <<table, list, reading, unseen>>

\* The version a reader's marker will have is that of its place: in its
\* callback that of the route it was given, behind which the marker stands.
Exact(r) == IF reading[r].at = "idle" THEN r \notin loose ELSE ~reading[r].moved

Loosened(r, exact) == IF exact THEN loose \ {r} ELSE loose \cup {r}

Moved(r) == [reading EXCEPT ![r].moved = reading[r].at = "call"]

\* std_radical_walkconstructor: to the front, everything in the list is new.
\* It may be called any time.
WalkConstructor(r) ==
    /\ Settled
    /\ list' = atfront(without(list, r), r)
    /\ ver' = [ver EXCEPT ![r] = 0]
    /\ unseen' = [unseen EXCEPT ![r] = {x \in Routes : Listed(x)}]
    /\ reading' = Moved(r)
    /\ loose' = Loosened(r, reading[r].at = "idle")
    /\ UNCHANGED <<table, clock>>

\* std_radical_walkconstructorafter: the place and the version of another
\* marker, which belong together unless that marker's reader is in its
\* callback.
WalkConstructorAfter(r, a) ==
    /\ Settled /\ r # a /\ Listed(a)
    /\ list' = after(without(list, r), a, r)
    /\ ver' = [ver EXCEPT ![r] = ver[a]]
    /\ unseen' = [unseen EXCEPT ![r] = unseen[a]]
    /\ reading' = Moved(r)
    /\ loose' = Loosened(r, reading[r].at = "idle" /\ reading[a].at = "idle" /\ a \notin loose)
    /\ UNCHANGED <<table, clock>>

\* std_radical_walkdestructor
WalkDestructor(r) ==
    /\ Settled /\ reading[r].at = "idle" /\ Listed(r)
    /\ list' = without(list, r)
    /\ ver' = [ver EXCEPT ![r] = 0]
    /\ unseen' = [unseen EXCEPT ![r] = {}]
    /\ loose' = loose \ {r}
    /\ UNCHANGED <<table, clock, reading>>

\* Mutant: it stays in front.
Give_Front(r, x, max, v) ==
    /\ list' = before(without(list, r), x, r)
    /\ reading' = [reading EXCEPT ![r] = [at |-> "call", route |-> x, ver |-> v[x],
                                          max |-> max, moved |-> FALSE]]
    /\ unseen' = [unseen EXCEPT ![r] = @ \ {x}]
    /\ ver' = v
    /\ loose' = Loosened(r, Exact(r))

\* The next route of std_radical_walkchangelist is x, and v the versions so
\* far: the marker goes behind x before x is given to the callback.
Give(r, x, max, v) ==
    /\ list' = after(without(list, r), x, r)
    /\ reading' = [reading EXCEPT ![r] = [at |-> "call", route |-> x, ver |-> v[x],
                                          max |-> max, moved |-> FALSE]]
    /\ unseen' = [unseen EXCEPT ![r] = @ \ {x}]
    /\ ver' = v
    /\ loose' = Loosened(r, Exact(r))

\* Mutant: the marker goes to the end although changes are left.
Rest_AtEnd(r, x, max, v) ==
    /\ list' = atback(without(list, r), r)
    /\ ver' = [v EXCEPT ![r] = IF x = None THEN clock ELSE max]
    /\ reading' = [reading EXCEPT ![r] = NotReading]
    /\ loose' = Loosened(r, x = None \/ Exact(r))
    /\ UNCHANGED unseen

\* Nothing is left, or only newer versions than were asked for.
Rest(r, x, max, v) ==
    /\ list' = IF x = None THEN atback(without(list, r), r)
               ELSE before(without(list, r), x, r)
    /\ ver' = [v EXCEPT ![r] = IF x = None THEN clock ELSE max]
    /\ reading' = [reading EXCEPT ![r] = NotReading]
    /\ loose' = Loosened(r, x = None \/ Exact(r))
    /\ UNCHANGED unseen

Round(r, max, v) ==
    LET x == getnext(list, r)
    IN  IF x = None \/ (x # None /\ v[x] > max) THEN Rest(r, x, max, v)
        ELSE Give(r, x, max, v)

\* The walk up to its first callback; it is not for fewer versions than its
\* reader has had, where the marker tells.
Walk(r, max) ==
    /\ Settled /\ reading[r].at = "idle" /\ Listed(r)
    /\ r \in loose \/ max >= ver[r]
    /\ Round(r, max, ver)
    /\ UNCHANGED <<table, clock>>

Processed(r) == [ver EXCEPT ![r] = reading[r].ver]

\* The callback returns zero, and it was not the last of maxnodes.
GoOn(r) ==
    /\ Settled /\ reading[r].at = "call"
    /\ Round(r, reading[r].max, Processed(r))
    /\ UNCHANGED <<table, clock>>

\* It was, or the callback returns a positive number.
Stop(r) ==
    /\ Settled /\ reading[r].at = "call"
    /\ ver' = Processed(r)
    /\ reading' = [reading EXCEPT ![r] = NotReading]
    /\ loose' = Loosened(r, Exact(r))
    /\ UNCHANGED <<table, list, clock, unseen>>

\* The callback returns a negative number, to be given the route again, and
\* the marker keeps the version it had before.  The callback must not have
\* removed the route.  Here it has not changed it either, in which case it is
\* behind the marker as it is, nor placed the marker anew: the marker would be
\* taken to the route from wherever it is, past changes that were not given.
Again(r) ==
    LET x == reading[r].route
    IN  /\ Settled /\ reading[r].at = "call" /\ ~reading[r].moved
        /\ Listed(x) /\ At(list, x) < At(list, r)
        /\ list' = before(without(list, r), x, r)
        /\ reading' = [reading EXCEPT ![r] = NotReading]
        /\ unseen' = [unseen EXCEPT ![r] = @ \cup {x}]
        /\ UNCHANGED <<table, ver, clock, loose>>

Next == \/ \E x \in Routes : InTree(x) \/ Remove(x) \/ AppendToChangeList(x)
        \/ ProcVerWrap
        \/ \E r \in Readers : \/ WalkConstructor(r) \/ WalkDestructor(r)
                             \/ \E a \in Readers : WalkConstructorAfter(r, a)
                             \/ \E max \in 0..(Wrap - 1) : Walk(r, max)
                             \/ GoOn(r) \/ Stop(r) \/ Again(r)

Spec == Init /\ [][Next]_rvars
-----------------------------------------------------------------------------
(* Properties.                                                             *)

TypeOK ==
    /\ table \subseteq Routes /\ clock \in 0..(Wrap - 1)
    /\ \A i \in DOMAIN list : list[i] \in Routes \cup Readers
    /\ ver \in [Routes \cup Readers -> 0..(Wrap - 1)]
    /\ unseen \in [Readers -> SUBSET Routes] /\ loose \subseteq Readers
    /\ \A r \in Readers : reading[r].at \in {"idle", "call"}

\* However changes, removals and other readers interleave with its walks,
\* what is behind a reader's marker is what it has still to be given: no
\* change is missed, and none is given twice.
NoMissedChange ==
    \A r \in Readers : Listed(r) =>
        unseen[r] = {x \in Routes : Listed(x) /\ At(list, x) > At(list, r)}

\* The list holds routes of the tree, each once, in the order of their
\* versions, before and after the versions wrap around.
OldestFirst ==
    /\ \A i, j \in DOMAIN list : i < j => list[i] # list[j]
    /\ \A x \in Routes : Listed(x) => x \in table
    /\ Settled => \A x, y \in Routes :
         Listed(x) /\ Listed(y) => (At(list, x) < At(list, y) <=> ver[x] < ver[y])
    /\ Settled => \A x \in Routes : Listed(x) => ver[getfirst(list)] <= ver[x]

\* std_radical_nextversion is zero only when nothing is to come.  The version
\* of a marker parts the changes its reader has had from those to come, and the
\* next max_ver relies on it: but not where the marker was placed anew in its
\* own callback, after which it has the version of the route that was given
\* (std_radical.c:255), or behind one in the middle of a callback, whose
\* version is still that of before (:97).
MarkerVersion ==
    Settled => \A r \in Readers : Listed(r) =>
        /\ nextversion(r) = 0 <=> unseen[r] = {}
        /\ reading[r].at = "idle" /\ r \notin loose =>
             /\ \A x \in Routes : Listed(x) => (At(list, x) < At(list, r) <=> ver[x] <= ver[r])
             /\ nextversion(r) # 0 => nextversion(r) > ver[r]
=============================================================================
