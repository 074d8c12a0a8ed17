------------------------------- MODULE Lists -------------------------------
(***************************************************************************)
(* What std_llist.h promises: a list is a sequence in which no entry is    *)
(* twice, and each call has this effect on it.                             *)
(***************************************************************************)
EXTENDS Integers, Sequences

In(l, x) == \E i \in DOMAIN l : l[i] = x
At(l, x) == CHOOSE i \in DOMAIN l : l[i] = x

Place(l, i, x) == SubSeq(l, 1, i - 1) \o <<x>> \o SubSeq(l, i, Len(l))

atfront(l, x) == <<x>> \o l
atback(l, x) == Append(l, x)
after(l, y, x) == Place(l, At(l, y) + 1, x)
before(l, y, x) == Place(l, At(l, y), x)
without(l, x) ==
    IF In(l, x) THEN SubSeq(l, 1, At(l, x) - 1) \o SubSeq(l, At(l, x) + 1, Len(l)) ELSE l

\* Into a sorted list: before the first entry with a greater key.
insort(l, x, key(_)) ==
    LET greater == {i \in DOMAIN l : key(x) < key(l[i])}
    IN  IF greater = {} THEN atback(l, x)
        ELSE Place(l, CHOOSE i \in greater : \A j \in greater : i <= j, x)

Entry(l, i, none) == IF i \in DOMAIN l THEN l[i] ELSE none

first(l, none) == Entry(l, 1, none)
last(l, none) == Entry(l, Len(l), none)
nextof(l, x, none) == Entry(l, At(l, x) + 1, none)
prevof(l, x, none) == Entry(l, At(l, x) - 1, none)
=============================================================================
