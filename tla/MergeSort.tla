----------------------------- MODULE MergeSort -----------------------------
(***************************************************************************)
(* std_mergesort.c: halves are sorted in place one after the other, then   *)
(* merged through the work array.  The caller's compare function orders    *)
(* entries by their key; entries are told apart by their first place.      *)
(***************************************************************************)
EXTENDS Integers, Sequences, FiniteSets

CONSTANTS
    Keys,       \* a set of integers
    MaxLen      \* bound: entries of an array

VARIABLE m      \* [given: the array as given, array: the array, sorted: it was sorted]

Arrays == UNION {[1..n -> Keys] : n \in 0..MaxLen}

Init == \E keys \in Arrays :
    LET a == [i \in DOMAIN keys |-> [key |-> keys[i], place |-> i]]
    IN  m = [given |-> a, array |-> a, sorted |-> FALSE]

\* cmp_func
Leq(x, y) == x.key <= y.key

\* Mutant: of equal entries the right one goes first.
Merge_Unstable(a, left, mid, right) ==
    LET rest[i \in left..mid, j \in mid..(right + 1)] ==
          IF i = mid THEN SubSeq(a, j, right)
          ELSE IF j > right THEN SubSeq(a, i, mid - 1)
          ELSE IF ~Leq(a[j], a[i]) THEN <<a[i]>> \o rest[i + 1, j]
          ELSE <<a[j]>> \o rest[i, j + 1]
    IN  SubSeq(a, 1, left - 1) \o rest[left, mid] \o SubSeq(a, right + 1, Len(a))

\* std_merge_sort_merge_arrays, a[left..mid-1] with a[mid..right]
Merge(a, left, mid, right) ==
    LET rest[i \in left..mid, j \in mid..(right + 1)] ==
          IF i = mid THEN SubSeq(a, j, right)
          ELSE IF j > right THEN SubSeq(a, i, mid - 1)
          ELSE IF Leq(a[i], a[j]) THEN <<a[i]>> \o rest[i + 1, j]
          ELSE <<a[j]>> \o rest[i, j + 1]
    IN  SubSeq(a, 1, left - 1) \o rest[left, mid] \o SubSeq(a, right + 1, Len(a))

RECURSIVE DivideAndSort(_, _, _)
DivideAndSort(a, left, right) ==
    IF left >= right THEN a
    ELSE LET mid == (right + left - 2) \div 2 + 1   \* indices from zero in C
             halves == DivideAndSort(DivideAndSort(a, left, mid), mid + 1, right)
         IN  Merge(halves, left, mid + 1, right)

Sort == /\ ~m.sorted
        /\ m' = [m EXCEPT !.array = DivideAndSort(@, 1, Len(@)), !.sorted = TRUE]

Next == Sort

Spec == Init /\ [][Next]_m
-----------------------------------------------------------------------------
(* Properties.                                                             *)

\* Sorting permutes the array into ascending order and leaves equal entries
\* in the order they had.
StableSort ==
    m.sorted => /\ Len(m.array) = Len(m.given)
                /\ {m.array[i] : i \in DOMAIN m.array} = {m.given[i] : i \in DOMAIN m.given}
                /\ \A i, j \in DOMAIN m.array : i < j =>
                     \/ m.array[i].key < m.array[j].key
                     \/ m.array[i].key = m.array[j].key /\ m.array[i].place < m.array[j].place
=============================================================================
