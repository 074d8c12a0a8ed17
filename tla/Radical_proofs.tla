--------------------------- MODULE Radical_proofs ---------------------------
(***************************************************************************)
(* That no reader of the change list misses a change, that the list is in  *)
(* the order of its versions, and that the version of a marker parts given *)
(* from not given: for any routes and readers, and any width of the        *)
(* versions that is not exhausted by numbering the routes.                 *)
(*                                                                         *)
(* The calls of Lists are first described by what they do to the order of  *)
(* the entries; with that, no step needs the positions.                    *)
(***************************************************************************)
EXTENDS Radical, FiniteSetTheorems, SequenceTheorems, TLAPS

\* x is in the list in front of y.
Precedes(l, x, y) == \E i, j \in DOMAIN l : i < j /\ l[i] = x /\ l[j] = y

\* No entry is in the list twice.
Distinct(l) == \A i, j \in DOMAIN l : l[i] = l[j] => i = j

-----------------------------------------------------------------------------
(* The invariant.                                                          *)

\* What is kept of a walk.
Walks == [at : {"idle", "call"}, route : Routes \cup {None}, ver : 0..(Wrap - 1),
          max : 0..(Wrap - 1), moved : BOOLEAN]

\* What each variable holds.
Types ==
    /\ table \subseteq Routes /\ clock \in 0..(Wrap - 1)
    /\ list \in Seq(Routes \cup Readers)
    /\ ver \in [Routes \cup Readers -> 0..(Wrap - 1)]
    /\ unseen \in [Readers -> SUBSET Routes]
    /\ reading \in [Readers -> Walks] /\ loose \subseteq Readers

\* The list as a set: no entry twice, routes of the tree only.
ListInv == Distinct(list) /\ \A x \in Routes : Listed(x) => x \in table

\* What is behind a marker has still to be given.
UnseenInv == \A r \in Readers, x \in Routes :
                Listed(r) => (x \in unseen[r] <=> Precedes(list, r, x))

\* A reader in its callback keeps its marker; versions wrap between walks.
CallInv ==
    /\ \A r \in Readers : reading[r].at = "call" =>
         /\ Listed(r) /\ reading[r].route \in Routes
         /\ reading[r].ver <= reading[r].max
    /\ ~Settled => Quiet

\* Versions rise along the list, up to the clock.
VersionInv == Settled =>
    /\ \A x \in Routes \cup Readers : Listed(x) => ver[x] <= clock
    /\ \A x, y \in Routes : Precedes(list, x, y) => ver[x] < ver[y]

\* The version up to which a reader has been given the routes.
Given(r) == IF reading[r].at = "idle" THEN ver[r] ELSE reading[r].ver

\* It parts what is in front of the marker from what is behind it, where it is
\* the version of the marker's place.
GivenInv == Settled =>
    /\ \A r \in Readers : Listed(r) => Given(r) <= clock
    /\ \A r \in Readers, x \in Routes : Exact(r) =>
         /\ Precedes(list, x, r) => ver[x] <= Given(r)
         /\ Precedes(list, r, x) => Given(r) < ver[x]

\* A reader in its callback can still be put back in front of its route: the
\* routes between them are none, and its old version parts those in front, if
\* it did before.
AgainInv == Settled =>
    \A r \in Readers, y \in Routes :
        LET x == reading[r].route
        IN  reading[r].at = "call" /\ ~reading[r].moved /\ Precedes(list, x, r) =>
              /\ ~(Precedes(list, x, y) /\ Precedes(list, y, r))
              /\ r \notin loose => /\ Precedes(list, y, x) => ver[y] <= ver[r]
                                  /\ ver[r] < ver[x]

\* The inductive invariant.
Inv == Types /\ ListInv /\ UnseenInv /\ CallInv /\ VersionInv /\ GivenInv /\ AgainInv
-----------------------------------------------------------------------------
(* Lists.                                                                  *)

\* At is the place of an entry.
LEMMA AtIsPlace ==
    ASSUME NEW l, NEW x, In(l, x)
    PROVE  At(l, x) \in DOMAIN l /\ l[At(l, x)] = x
BY DEF In, At

\* The one place, when no entry is in the list twice.
LEMMA AtIsTheOne ==
    ASSUME NEW l, Distinct(l), NEW i \in DOMAIN l
    PROVE  In(l, l[i]) /\ At(l, l[i]) = i
<1>1. In(l, l[i])
  BY DEF In
<1> QED
  BY <1>1, AtIsPlace DEF Distinct

\* Places compare as the order of the entries.
LEMMA AtOrder ==
    ASSUME NEW l, Distinct(l), NEW x, NEW y, In(l, x), In(l, y)
    PROVE  At(l, x) < At(l, y) <=> Precedes(l, x, y)
<1>1. At(l, x) < At(l, y) => Precedes(l, x, y)
  BY AtIsPlace DEF Precedes
<1>2. ASSUME Precedes(l, x, y)
      PROVE  At(l, x) < At(l, y)
  <2>1. PICK i, j \in DOMAIN l : i < j /\ l[i] = x /\ l[j] = y
    BY <1>2 DEF Precedes
  <2>2. At(l, x) = i /\ At(l, y) = j
    BY <2>1, AtIsTheOne
  <2> QED
    BY <2>1, <2>2
<1> QED
  BY <1>1, <1>2

\* What is in front of something, or behind it, is in the list.
LEMMA PrecedesIn ==
    ASSUME NEW l, NEW x, NEW y, Precedes(l, x, y)
    PROVE  In(l, x) /\ In(l, y)
BY DEF Precedes, In

\* The order is total, and strict.
LEMMA Order ==
    ASSUME NEW S, NEW l \in Seq(S), Distinct(l), NEW x, NEW y
    PROVE  /\ In(l, x) /\ In(l, y) /\ x # y => Precedes(l, x, y) \/ Precedes(l, y, x)
           /\ Precedes(l, x, y) => ~Precedes(l, y, x)
           /\ Precedes(l, x, y) => x # y
<1>1. DOMAIN l = 1..Len(l) /\ Len(l) \in Nat
  OBVIOUS
<1>2. ASSUME In(l, x), In(l, y), x # y
      PROVE  Precedes(l, x, y) \/ Precedes(l, y, x)
  <2>1. At(l, x) # At(l, y) /\ At(l, x) \in 1..Len(l) /\ At(l, y) \in 1..Len(l)
    BY <1>1, <1>2, AtIsPlace
  <2>2. At(l, x) < At(l, y) \/ At(l, y) < At(l, x)
    BY <2>1
  <2> QED
    BY <1>2, <2>2, AtOrder
<1>3. ASSUME Precedes(l, x, y)
      PROVE  ~Precedes(l, y, x) /\ x # y
  <2>1. In(l, x) /\ In(l, y)
    BY <1>3, PrecedesIn
  <2>2. At(l, x) < At(l, y) /\ At(l, x) \in 1..Len(l) /\ At(l, y) \in 1..Len(l)
    BY <1>1, <1>3, <2>1, AtOrder, AtIsPlace
  <2>3. ~(At(l, y) < At(l, x)) /\ x # y
    BY <2>2
  <2> QED
    BY <2>1, <2>3, AtOrder
<1> QED
  BY <1>2, <1>3

\* And transitive.
LEMMA OrderTransitive ==
    ASSUME NEW S, NEW l \in Seq(S), Distinct(l), NEW x, NEW y, NEW z,
           Precedes(l, x, y), Precedes(l, y, z)
    PROVE  Precedes(l, x, z)
<1>1. In(l, x) /\ In(l, y) /\ In(l, z)
  BY PrecedesIn
<1>2. At(l, x) \in 1..Len(l) /\ At(l, y) \in 1..Len(l) /\ At(l, z) \in 1..Len(l)
  BY <1>1, AtIsPlace
<1>3. At(l, x) < At(l, y) /\ At(l, y) < At(l, z)
  BY <1>1, AtOrder
<1>4. At(l, x) < At(l, z)
  BY <1>2, <1>3
<1> QED
  BY <1>1, <1>4, AtOrder

\* m is l with x put in at place i.
IsPlaced(m, l, i, x) ==
    /\ Len(m) = Len(l) + 1
    /\ \A j \in 1..(Len(l) + 1) : m[j] = IF j < i THEN l[j] ELSE IF j = i THEN x ELSE l[j - 1]

\* What Place does: an entry more, those from there on move up.
LEMMA PlaceIs ==
    ASSUME NEW S, NEW l \in Seq(S), NEW x \in S, NEW i \in 1..(Len(l) + 1)
    PROVE  Place(l, i, x) \in Seq(S) /\ IsPlaced(Place(l, i, x), l, i, x)
<1> DEFINE a == SubSeq(l, 1, i - 1)
           b == SubSeq(l, i, Len(l))
<1>0. Len(l) \in Nat
  OBVIOUS
<1>1. a \in Seq(S) /\ Len(a) = i - 1 /\ \A j \in 1..(i - 1) : a[j] = l[j]
  BY <1>0
<1>2. b \in Seq(S) /\ Len(b) = Len(l) - i + 1 /\ \A j \in 1..(Len(l) - i + 1) : b[j] = l[i + j - 1]
  BY <1>0
<1> HIDE DEF a, b
<1> DEFINE c == a \o <<x>>
           d == c \o b
<1>3. <<x>> \in Seq(S) /\ Len(<<x>>) = 1 /\ <<x>>[1] = x
  OBVIOUS
<1>4. c \in Seq(S) /\ Len(c) = i
      /\ \A j \in 1..i : c[j] = IF j < i THEN l[j] ELSE x
  <2>0. c \in Seq(S) /\ Len(c) = Len(a) + Len(<<x>>)
        /\ \A j \in 1..(Len(a) + Len(<<x>>)) :
             c[j] = IF j <= Len(a) THEN a[j] ELSE <<x>>[j - Len(a)]
    BY <1>1, <1>3, ConcatProperties, Zenon DEF c
  <2> HIDE DEF c
  <2>1. c \in Seq(S) /\ Len(c) = (i - 1) + 1
        /\ \A j \in 1..((i - 1) + 1) : c[j] = IF j <= i - 1 THEN a[j] ELSE <<x>>[j - (i - 1)]
    BY <1>1, <1>3, <2>0
  <2>2. ASSUME NEW j \in 1..i
        PROVE  c[j] = IF j < i THEN l[j] ELSE x
    <3>1. CASE j < i
      BY <1>0, <1>1, <2>1, <3>1
    <3>2. CASE j = i
      <4>1. j - (i - 1) = 1 /\ ~(j <= i - 1) /\ j \in 1..((i - 1) + 1)
        BY <1>0, <3>2
      <4> QED
        BY <1>3, <2>1, <3>2, <4>1
    <3> QED
      BY <1>0, <3>1, <3>2
  <2> QED
    BY <1>0, <2>1, <2>2
<1> HIDE DEF c
<1>4a. d \in Seq(S) /\ Len(d) = Len(c) + Len(b)
       /\ \A j \in 1..(Len(c) + Len(b)) : d[j] = IF j <= Len(c) THEN c[j] ELSE b[j - Len(c)]
  BY <1>2, <1>4, ConcatProperties, Zenon DEF d
<1> HIDE DEF d
<1>5. d \in Seq(S) /\ Len(d) = i + (Len(l) - i + 1)
      /\ \A j \in 1..(i + (Len(l) - i + 1)) : d[j] = IF j <= i THEN c[j] ELSE b[j - i]
  BY <1>2, <1>4, <1>4a
<1>6. ASSUME NEW j \in 1..(Len(l) + 1)
      PROVE  d[j] = IF j < i THEN l[j] ELSE IF j = i THEN x ELSE l[j - 1]
  <2>0. j \in 1..(i + (Len(l) - i + 1))
    BY <1>0
  <2>1. CASE j <= i
    <3>1. d[j] = c[j] /\ j \in 1..i
      BY <1>0, <1>5, <2>0, <2>1
    <3> QED
      BY <1>0, <1>4, <2>1, <3>1
  <2>2. CASE i < j
    <3>1. d[j] = b[j - i]
      BY <1>0, <1>5, <2>0, <2>2
    <3>2. j - i \in 1..(Len(l) - i + 1) /\ i + (j - i) - 1 = j - 1
      BY <1>0, <2>2
    <3>3. b[j - i] = l[i + (j - i) - 1]
      BY <1>2, <3>2
    <3> QED
      BY <1>0, <2>2, <3>1, <3>2, <3>3
  <2> QED
    BY <1>0, <2>1, <2>2
<1>7. Place(l, i, x) = d
  BY DEF Place, a, b, c, d
<1>8. i + (Len(l) - i + 1) = Len(l) + 1
  BY <1>0
<1> QED
  BY <1>5, <1>6, <1>7, <1>8 DEF IsPlaced

\* What without does: an entry less, those behind it move down.
LEMMA WithoutIs ==
    ASSUME NEW S, NEW l \in Seq(S), NEW x, In(l, x)
    PROVE  /\ without(l, x) \in Seq(S)
           /\ Len(without(l, x)) = Len(l) - 1
           /\ \A j \in 1..(Len(l) - 1) :
                without(l, x)[j] = IF j < At(l, x) THEN l[j] ELSE l[j + 1]
<1> DEFINE p == At(l, x)
           a == SubSeq(l, 1, p - 1)
           b == SubSeq(l, p + 1, Len(l))
<1>0. Len(l) \in Nat /\ p \in 1..Len(l)
  BY AtIsPlace
<1> HIDE DEF p
<1>1. a \in Seq(S) /\ Len(a) = p - 1 /\ \A j \in 1..(p - 1) : a[j] = l[j]
  BY <1>0
<1>2. b \in Seq(S) /\ Len(b) = Len(l) - p /\ \A j \in 1..(Len(l) - p) : b[j] = l[p + j]
  BY <1>0
<1> HIDE DEF a, b
<1> DEFINE d == a \o b
<1>2a. d \in Seq(S) /\ Len(d) = Len(a) + Len(b)
       /\ \A j \in 1..(Len(a) + Len(b)) : d[j] = IF j <= Len(a) THEN a[j] ELSE b[j - Len(a)]
  BY <1>1, <1>2, ConcatProperties, Zenon DEF d
<1> HIDE DEF d
<1>3. d \in Seq(S) /\ Len(d) = (p - 1) + (Len(l) - p)
      /\ \A j \in 1..((p - 1) + (Len(l) - p)) : d[j] = IF j <= p - 1 THEN a[j] ELSE b[j - (p - 1)]
  BY <1>1, <1>2, <1>2a
<1>4. ASSUME NEW j \in 1..(Len(l) - 1)
      PROVE  d[j] = IF j < p THEN l[j] ELSE l[j + 1]
  <2>0. j \in 1..((p - 1) + (Len(l) - p))
    BY <1>0
  <2>1. CASE j < p
    <3>1. d[j] = a[j] /\ j \in 1..(p - 1)
      BY <1>0, <1>3, <2>0, <2>1
    <3> QED
      BY <1>1, <2>1, <3>1
  <2>2. CASE p <= j
    <3>1. d[j] = b[j - (p - 1)]
      BY <1>0, <1>3, <2>0, <2>2
    <3>2. j - (p - 1) \in 1..(Len(l) - p) /\ p + (j - (p - 1)) = j + 1
      BY <1>0, <2>2
    <3>3. b[j - (p - 1)] = l[p + (j - (p - 1))]
      BY <1>2, <3>2
    <3> QED
      BY <1>0, <2>2, <3>1, <3>2, <3>3
  <2> QED
    BY <1>0, <2>1, <2>2
<1>5. without(l, x) = d
  BY DEF without, a, b, d, p
<1>6. (p - 1) + (Len(l) - p) = Len(l) - 1
  BY <1>0
<1> QED
  BY <1>3, <1>4, <1>5, <1>6 DEF p

\* Taking an entry out leaves the others as they were.
LEMMA WithoutOrder ==
    ASSUME NEW S, NEW l \in Seq(S), Distinct(l), NEW x
    PROVE  /\ without(l, x) \in Seq(S) /\ Distinct(without(l, x))
           /\ \A y : In(without(l, x), y) <=> In(l, y) /\ y # x
           /\ \A y, z : Precedes(without(l, x), y, z) <=> Precedes(l, y, z) /\ y # x /\ z # x
<1>1. CASE ~In(l, x)
  <2>1. without(l, x) = l
    BY <1>1 DEF without
  <2>2. ASSUME NEW y, NEW z, Precedes(l, y, z)
        PROVE  y # x /\ z # x
    BY <1>1, <2>2, PrecedesIn
  <2>3. ASSUME NEW y, In(l, y)
        PROVE  y # x
    BY <1>1, <2>3
  <2> QED
    BY <2>1, <2>2, <2>3
<1>2. CASE In(l, x)
  <2> DEFINE m == without(l, x)
             p == At(l, x)
             f(j) == IF j < p THEN j ELSE j + 1
             g(k) == IF k < p THEN k ELSE k - 1
  <2>1. Len(l) \in Nat /\ p \in 1..Len(l) /\ l[p] = x /\ DOMAIN l = 1..Len(l)
    BY <1>2, AtIsPlace
  <2>2. m \in Seq(S) /\ Len(m) = Len(l) - 1
    BY <1>2, WithoutIs
  <2>2a. \A j \in 1..(Len(l) - 1) : m[j] = IF j < p THEN l[j] ELSE l[j + 1]
    BY <1>2, WithoutIs
  <2> HIDE DEF m, p
  <2>3. DOMAIN m = 1..(Len(l) - 1)
    BY <2>2
  <2>4. ASSUME NEW j \in DOMAIN m
        PROVE  f(j) \in DOMAIN l /\ m[j] = l[f(j)] /\ f(j) # p /\ m[j] # x
    <3>1. f(j) \in 1..Len(l) /\ f(j) # p
      BY <2>1, <2>3
    <3>2. m[j] = l[f(j)]
      BY <2>2a, <2>3
    <3>3. l[f(j)] # l[p]
      BY <2>1, <3>1 DEF Distinct
    <3> QED
      BY <2>1, <3>1, <3>2, <3>3
  <2>5. ASSUME NEW k \in DOMAIN l, l[k] # x
        PROVE  g(k) \in DOMAIN m /\ m[g(k)] = l[k]
    <3>1. k # p /\ k \in 1..Len(l)
      BY <2>1, <2>5
    <3>2. CASE k < p
      <4>1. k \in 1..(Len(l) - 1)
        BY <2>1, <3>1, <3>2
      <4> QED
        BY <2>2a, <2>3, <3>2, <4>1
    <3>3. CASE ~(k < p)
      <4>1. k - 1 \in 1..(Len(l) - 1) /\ ~(k - 1 < p) /\ (k - 1) + 1 = k
        BY <2>1, <3>1, <3>3
      <4>2. m[k - 1] = l[(k - 1) + 1]
        BY <2>2a, <4>1
      <4> QED
        BY <2>3, <3>3, <4>1, <4>2
    <3> QED
      BY <3>2, <3>3
  <2>6. \A j, k \in DOMAIN m : j < k => f(j) < f(k)
    BY <2>1, <2>3
  <2>7. \A j, k \in DOMAIN m : f(j) = f(k) => j = k
    BY <2>1, <2>3
  <2>8. \A j, k \in DOMAIN l : j < k /\ j # p /\ k # p => g(j) < g(k)
    BY <2>1
  <2> HIDE DEF f, g
  <2>9. Distinct(m)
    BY <2>4, <2>7 DEF Distinct
  <2>10. ASSUME NEW y
         PROVE  In(m, y) <=> In(l, y) /\ y # x
    BY <2>4, <2>5 DEF In
  <2>11. ASSUME NEW y, NEW z
         PROVE  Precedes(m, y, z) <=> Precedes(l, y, z) /\ y # x /\ z # x
    <3>1. ASSUME Precedes(m, y, z)
          PROVE  Precedes(l, y, z) /\ y # x /\ z # x
      <4>1. PICK j, k \in DOMAIN m : j < k /\ m[j] = y /\ m[k] = z
        BY <3>1 DEF Precedes
      <4>2. f(j) \in DOMAIN l /\ l[f(j)] = y /\ y # x /\ f(k) \in DOMAIN l /\ l[f(k)] = z /\ z # x
        BY <2>4, <4>1
      <4>3. f(j) < f(k)
        BY <2>6, <4>1
      <4> QED
        BY <4>2, <4>3 DEF Precedes
    <3>2. ASSUME Precedes(l, y, z), y # x, z # x
          PROVE  Precedes(m, y, z)
      <4>1. PICK j, k \in DOMAIN l : j < k /\ l[j] = y /\ l[k] = z
        BY <3>2 DEF Precedes
      <4>2. j # p /\ k # p
        BY <2>1, <3>2, <4>1
      <4>3. g(j) \in DOMAIN m /\ m[g(j)] = y /\ g(k) \in DOMAIN m /\ m[g(k)] = z
        BY <2>5, <3>2, <4>1
      <4>4. g(j) < g(k)
        BY <2>8, <4>1, <4>2
      <4> QED
        BY <4>3, <4>4 DEF Precedes
    <3> QED
      BY <3>1, <3>2
  <2> QED
    BY <2>2, <2>9, <2>10, <2>11 DEF m
<1> QED
  BY <1>1, <1>2

\* Putting a new entry in leaves the others as they were.
LEMMA PlaceOrder ==
    ASSUME NEW S, NEW l \in Seq(S), Distinct(l), NEW x \in S, ~In(l, x),
           NEW i \in 1..(Len(l) + 1)
    PROVE  /\ Place(l, i, x) \in Seq(S) /\ Distinct(Place(l, i, x))
           /\ \A y : In(Place(l, i, x), y) <=> In(l, y) \/ y = x
           /\ \A y, z : Precedes(Place(l, i, x), y, z) <=>
                \/ Precedes(l, y, z)
                \/ z = x /\ In(l, y) /\ At(l, y) < i
                \/ y = x /\ In(l, z) /\ i <= At(l, z)
<1> DEFINE m == Place(l, i, x)
           g(k) == IF k < i THEN k ELSE k + 1
           f(j) == IF j < i THEN j ELSE j - 1
<1>1. Len(l) \in Nat /\ DOMAIN l = 1..Len(l) /\ i \in Nat
  OBVIOUS
<1>0. m \in Seq(S) /\ IsPlaced(m, l, i, x)
  BY PlaceIs
<1> HIDE DEF m
<1>2. m \in Seq(S) /\ Len(m) = Len(l) + 1
  BY <1>0 DEF IsPlaced
<1>3. \A j \in 1..(Len(l) + 1) : m[j] = IF j < i THEN l[j] ELSE IF j = i THEN x ELSE l[j - 1]
  BY <1>0 DEF IsPlaced
<1>4. DOMAIN m = 1..(Len(l) + 1)
  BY <1>2
<1>5. i \in DOMAIN m /\ m[i] = x
  BY <1>1, <1>3, <1>4
<1>6. ASSUME NEW j \in DOMAIN m, j # i
      PROVE  f(j) \in DOMAIN l /\ m[j] = l[f(j)]
  BY <1>1, <1>3, <1>4, <1>6
<1>7. ASSUME NEW k \in DOMAIN l
      PROVE  g(k) \in DOMAIN m /\ m[g(k)] = l[k] /\ g(k) # i
  <2>1. CASE k < i
    BY <1>1, <1>3, <1>4, <2>1
  <2>2. CASE ~(k < i)
    <3>1. k + 1 \in 1..(Len(l) + 1) /\ ~(k + 1 < i) /\ k + 1 # i /\ (k + 1) - 1 = k
      BY <1>1, <2>2
    <3>2. m[k + 1] = l[(k + 1) - 1]
      BY <1>3, <3>1
    <3> QED
      BY <1>4, <2>2, <3>1, <3>2
  <2> QED
    BY <2>1, <2>2
<1>8. \A j, k \in DOMAIN m : j < k /\ j # i /\ k # i => f(j) < f(k)
  BY <1>1, <1>4
<1>9. \A j, k \in DOMAIN m : j # i /\ k # i /\ f(j) = f(k) => j = k
  BY <1>1, <1>4
<1>10. \A j, k \in DOMAIN l : j < k => g(j) < g(k)
  BY <1>1
<1>11. \A k \in DOMAIN l : (k < i => g(k) < i) /\ (i <= k => i < g(k))
  BY <1>1
<1>12. \A j \in DOMAIN m : (j < i => f(j) < i) /\ (i < j => i <= f(j))
  BY <1>1, <1>4
<1> HIDE DEF f, g
<1>13. \A j \in DOMAIN m : j # i => m[j] # x
  BY <1>6 DEF In
<1>14. Distinct(m)
  BY <1>5, <1>6, <1>9, <1>13 DEF Distinct
<1>15. ASSUME NEW y
       PROVE  In(m, y) <=> In(l, y) \/ y = x
  BY <1>5, <1>6, <1>7 DEF In
<1>16. ASSUME NEW y, NEW z
       PROVE  Precedes(m, y, z) <=> \/ Precedes(l, y, z)
                                    \/ z = x /\ In(l, y) /\ At(l, y) < i
                                    \/ y = x /\ In(l, z) /\ i <= At(l, z)
  <2>1. ASSUME Precedes(m, y, z)
        PROVE  \/ Precedes(l, y, z)
               \/ z = x /\ In(l, y) /\ At(l, y) < i
               \/ y = x /\ In(l, z) /\ i <= At(l, z)
    <3>1. PICK j, k \in DOMAIN m : j < k /\ m[j] = y /\ m[k] = z
      BY <2>1 DEF Precedes
    <3>2. CASE j # i /\ k # i
      BY <1>6, <1>8, <3>1, <3>2 DEF Precedes
    <3>3. CASE k = i
      <4>1. j # i /\ j < i
        BY <1>1, <1>4, <3>1, <3>3
      <4>2. f(j) \in DOMAIN l /\ l[f(j)] = y /\ f(j) < i
        BY <1>6, <1>12, <3>1, <4>1
      <4>3. In(l, y) /\ At(l, y) = f(j)
        BY <4>2, AtIsTheOne
      <4> QED
        BY <1>5, <3>1, <3>3, <4>2, <4>3
    <3>4. CASE j = i
      <4>1. k # i /\ i < k
        BY <1>1, <1>4, <3>1, <3>4
      <4>2. f(k) \in DOMAIN l /\ l[f(k)] = z /\ i <= f(k)
        BY <1>6, <1>12, <3>1, <4>1
      <4>3. In(l, z) /\ At(l, z) = f(k)
        BY <4>2, AtIsTheOne
      <4> QED
        BY <1>5, <3>1, <3>4, <4>2, <4>3
    <3> QED
      BY <3>2, <3>3, <3>4
  <2>2. ASSUME Precedes(l, y, z)
        PROVE  Precedes(m, y, z)
    BY <1>7, <1>10, <2>2 DEF Precedes
  <2>3. ASSUME z = x, In(l, y), At(l, y) < i
        PROVE  Precedes(m, y, z)
    <3>1. At(l, y) \in DOMAIN l /\ l[At(l, y)] = y
      BY <2>3, AtIsPlace
    <3> QED
      BY <1>5, <1>7, <1>11, <2>3, <3>1 DEF Precedes
  <2>4. ASSUME y = x, In(l, z), i <= At(l, z)
        PROVE  Precedes(m, y, z)
    <3>1. At(l, z) \in DOMAIN l /\ l[At(l, z)] = z
      BY <2>4, AtIsPlace
    <3> QED
      BY <1>5, <1>7, <1>11, <2>4, <3>1 DEF Precedes
  <2> QED
    BY <2>1, <2>2, <2>3, <2>4
<1> QED
  BY <1>2, <1>14, <1>15, <1>16 DEF m

\* To the front of a list.
LEMMA AtFrontOrder ==
    ASSUME NEW S, NEW l \in Seq(S), Distinct(l), NEW x \in S, ~In(l, x)
    PROVE  /\ atfront(l, x) \in Seq(S) /\ Distinct(atfront(l, x))
           /\ \A y : In(atfront(l, x), y) <=> In(l, y) \/ y = x
           /\ \A y, z : Precedes(atfront(l, x), y, z) <=>
                Precedes(l, y, z) \/ (y = x /\ In(l, z))
<1>1. Len(l) \in Nat /\ DOMAIN l = 1..Len(l) /\ 1 \in 1..(Len(l) + 1)
  OBVIOUS
<1>2. Place(l, 1, x) = atfront(l, x)
  <2>1. SubSeq(l, 1, 1 - 1) = <<>> /\ SubSeq(l, 1, Len(l)) = l
    BY <1>1, SubSeqEmpty, SubSeqFull
  <2>2. <<x>> \in Seq(S)
    OBVIOUS
  <2>3. <<>> \o <<x>> = <<x>>
    BY <2>2, ConcatEmptySeq
  <2> QED
    BY <2>1, <2>3, Zenon DEF Place, atfront
<1>3. \A z : In(l, z) => At(l, z) \in Nat /\ ~(At(l, z) < 1) /\ 1 <= At(l, z)
  BY <1>1, AtIsPlace
<1> QED
  BY <1>1, <1>2, <1>3, PlaceOrder

\* To its end.
LEMMA AtBackOrder ==
    ASSUME NEW S, NEW l \in Seq(S), Distinct(l), NEW x \in S, ~In(l, x)
    PROVE  /\ atback(l, x) \in Seq(S) /\ Distinct(atback(l, x))
           /\ \A y : In(atback(l, x), y) <=> In(l, y) \/ y = x
           /\ \A y, z : Precedes(atback(l, x), y, z) <=>
                Precedes(l, y, z) \/ (z = x /\ In(l, y))
<1> DEFINE n == Len(l) + 1
<1>1. Len(l) \in Nat /\ DOMAIN l = 1..Len(l) /\ n \in 1..(Len(l) + 1)
  OBVIOUS
<1>2. Place(l, n, x) = atback(l, x)
  <2>1. SubSeq(l, 1, n - 1) = l
    <3>1. n - 1 = Len(l)
      BY <1>1
    <3> QED
      BY <3>1, SubSeqFull
  <2>2. SubSeq(l, n, Len(l)) = <<>>
    BY <1>1, SubSeqEmpty
  <2>3. <<x>> \in Seq(S)
    OBVIOUS
  <2>4. l \o <<x>> \in Seq(S)
    BY <2>3, ConcatProperties
  <2>5. (l \o <<x>>) \o <<>> = l \o <<x>>
    BY <2>4, ConcatEmptySeq
  <2>6. Append(l, x) = l \o <<x>>
    BY AppendIsConcat
  <2> QED
    BY <2>1, <2>2, <2>5, <2>6, Zenon DEF Place, atback
<1>3. \A y : In(l, y) => At(l, y) \in Nat /\ At(l, y) < n /\ ~(n <= At(l, y))
  BY <1>1, AtIsPlace
<1> HIDE DEF n
<1> QED
  BY <1>1, <1>2, <1>3, PlaceOrder

\* Behind an entry.
LEMMA AfterOrder ==
    ASSUME NEW S, NEW l \in Seq(S), Distinct(l), NEW x \in S, ~In(l, x), NEW a, In(l, a)
    PROVE  /\ after(l, a, x) \in Seq(S) /\ Distinct(after(l, a, x))
           /\ \A y : In(after(l, a, x), y) <=> In(l, y) \/ y = x
           /\ \A y, z : Precedes(after(l, a, x), y, z) <=>
                \/ Precedes(l, y, z)
                \/ z = x /\ (y = a \/ Precedes(l, y, a))
                \/ y = x /\ Precedes(l, a, z)
<1> DEFINE n == At(l, a) + 1
<1>1. DOMAIN l = 1..Len(l) /\ At(l, a) \in 1..Len(l) /\ n \in 1..(Len(l) + 1)
  BY AtIsPlace
<1>2. \A y : In(l, y) => At(l, y) \in Nat
  BY <1>1, AtIsPlace
<1>3. ASSUME NEW y, In(l, y)
      PROVE  /\ At(l, y) < n <=> (y = a \/ Precedes(l, y, a))
             /\ n <= At(l, y) <=> Precedes(l, a, y)
  <2>1. At(l, y) = At(l, a) <=> y = a
    BY <1>3, AtIsPlace
  <2>2. At(l, y) < At(l, a) <=> Precedes(l, y, a)
    BY <1>3, AtOrder
  <2>3. At(l, a) < At(l, y) <=> Precedes(l, a, y)
    BY <1>3, AtOrder
  <2>4. At(l, y) \in Nat /\ At(l, a) \in Nat
    BY <1>2, <1>3
  <2>5. At(l, y) < n <=> At(l, y) = At(l, a) \/ At(l, y) < At(l, a)
    BY <2>4
  <2>6. n <= At(l, y) <=> At(l, a) < At(l, y)
    BY <2>4
  <2> HIDE DEF n
  <2> QED
    BY <2>1, <2>2, <2>3, <2>5, <2>6
<1>4. Place(l, n, x) = after(l, a, x)
  BY DEF after
<1>5. \A y : Precedes(l, y, a) => In(l, y)
  BY PrecedesIn
<1>6. \A y : Precedes(l, a, y) => In(l, y)
  BY PrecedesIn
<1> HIDE DEF n
<1> QED
  BY <1>1, <1>3, <1>4, <1>5, <1>6, PlaceOrder

\* In front of an entry.
LEMMA BeforeOrder ==
    ASSUME NEW S, NEW l \in Seq(S), Distinct(l), NEW x \in S, ~In(l, x), NEW a, In(l, a)
    PROVE  /\ before(l, a, x) \in Seq(S) /\ Distinct(before(l, a, x))
           /\ \A y : In(before(l, a, x), y) <=> In(l, y) \/ y = x
           /\ \A y, z : Precedes(before(l, a, x), y, z) <=>
                \/ Precedes(l, y, z)
                \/ z = x /\ Precedes(l, y, a)
                \/ y = x /\ (z = a \/ Precedes(l, a, z))
<1> DEFINE n == At(l, a)
<1>1. DOMAIN l = 1..Len(l) /\ n \in 1..Len(l) /\ n \in 1..(Len(l) + 1)
  BY AtIsPlace
<1>2. \A y : In(l, y) => At(l, y) \in Nat
  BY <1>1, AtIsPlace
<1>3. ASSUME NEW y, In(l, y)
      PROVE  /\ At(l, y) < n <=> Precedes(l, y, a)
             /\ n <= At(l, y) <=> (y = a \/ Precedes(l, a, y))
  <2>1. At(l, y) = At(l, a) <=> y = a
    BY <1>3, AtIsPlace
  <2>2. At(l, y) < At(l, a) <=> Precedes(l, y, a)
    BY <1>3, AtOrder
  <2>3. At(l, a) < At(l, y) <=> Precedes(l, a, y)
    BY <1>3, AtOrder
  <2>4. At(l, y) \in Nat /\ At(l, a) \in Nat
    BY <1>2, <1>3
  <2>5. n <= At(l, y) <=> At(l, y) = At(l, a) \/ At(l, a) < At(l, y)
    BY <2>4
  <2> QED
    BY <2>1, <2>2, <2>3, <2>5
<1>4. Place(l, n, x) = before(l, a, x)
  BY DEF before
<1>5. \A y : Precedes(l, y, a) => In(l, y)
  BY PrecedesIn
<1>6. \A y : Precedes(l, a, y) => In(l, y)
  BY PrecedesIn
<1> HIDE DEF n
<1> QED
  BY <1>1, <1>3, <1>4, <1>5, <1>6, PlaceOrder

\* A set of numbers has a least one.
LEMMA LeastExists ==
    ASSUME NEW n \in Nat, NEW T, T \subseteq 1..n, T # {}
    PROVE  \E j \in T : \A k \in T : j <= k
<1> DEFINE R == {pair \in Nat \X Nat : pair[1] < pair[2]}
<1>1. T \subseteq Nat
  OBVIOUS
<1>2. IsWellFoundedOn(R, Nat)
  BY NatLessThanWellFounded DEF OpToRel
<1> HIDE DEF R
<1>3. PICK j \in T : \A k \in T : ~(<<k, j>> \in R)
  BY <1>1, <1>2, WFMin
<1>4. \A k \in T : ~(k < j)
  BY <1>1, <1>3 DEF R
<1> QED
  BY <1>1, <1>4

\* The first route from a place on.
LEMMA FirstFromIs ==
    ASSUME NEW S, NEW l \in Seq(S), None \notin Routes, NEW i \in Nat,
           NEW x, x = FirstFrom(l, i), i >= 1
    PROVE  /\ x = None => \A j \in DOMAIN l : i <= j => l[j] \notin Routes
           /\ x # None => \E j \in DOMAIN l :
                /\ i <= j /\ l[j] = x /\ x \in Routes
                /\ \A k \in DOMAIN l : i <= k /\ l[k] \in Routes => j <= k
<1> DEFINE later == {j \in i..Len(l) : l[j] \in Routes}
<1>1. Len(l) \in Nat /\ DOMAIN l = 1..Len(l)
  OBVIOUS
<1>2. CASE later = {}
  <2>1. x = None
    BY <1>2 DEF FirstFrom
  <2> QED
    BY <1>1, <1>2, <2>1
<1>3. CASE later # {}
  <2> DEFINE p == CHOOSE j \in later : \A k \in later : j <= k
  <2>1. x = l[p]
    BY <1>3 DEF FirstFrom
  <2>2. \E j \in later : \A k \in later : j <= k
    <3>1. later \subseteq 1..Len(l)
      BY <1>1
    <3> HIDE DEF later
    <3> QED
      BY <1>1, <1>3, <3>1, LeastExists
  <2>3. p \in later /\ \A k \in later : p <= k
    BY <2>2
  <2> HIDE DEF p
  <2> QED
    BY <1>1, <2>1, <2>3
<1> QED
  BY <1>2, <1>3

\* The next route behind an entry.
LEMMA NextIs ==
    ASSUME NEW S, NEW l \in Seq(S), Distinct(l), None \notin Routes, NEW r, In(l, r),
           NEW x, x = getnext(l, r)
    PROVE  /\ x = None => \A y \in Routes : ~Precedes(l, r, y)
           /\ x # None => /\ x \in Routes /\ Precedes(l, r, x)
                          /\ \A y \in Routes : Precedes(l, r, y) => ~Precedes(l, y, x)
<1>1. Len(l) \in Nat /\ DOMAIN l = 1..Len(l) /\ At(l, r) \in 1..Len(l) /\ l[At(l, r)] = r
  BY AtIsPlace
<1> DEFINE i == At(l, r) + 1
<1>2. i \in Nat /\ i >= 1
  BY <1>1
<1>3. x = FirstFrom(l, i)
  BY DEF getnext
<1>4. ASSUME NEW y, Precedes(l, r, y)
      PROVE  In(l, y) /\ i <= At(l, y) /\ At(l, y) \in DOMAIN l /\ l[At(l, y)] = y
  <2>1. In(l, y)
    BY <1>4, PrecedesIn
  <2>2. At(l, r) < At(l, y) /\ At(l, y) \in DOMAIN l /\ l[At(l, y)] = y
    BY <1>4, <2>1, AtOrder, AtIsPlace
  <2> QED
    BY <1>1, <2>1, <2>2
<1>5. \A j \in DOMAIN l : i <= j => At(l, r) < j
  BY <1>1
<1> HIDE DEF i
<1>6. CASE x = None
  <2>1. \A j \in DOMAIN l : i <= j => l[j] \notin Routes
    BY <1>2, <1>3, <1>6, FirstFromIs
  <2> QED
    BY <1>4, <1>6, <2>1
<1>7. CASE x # None
  <2>1. PICK j \in DOMAIN l : /\ i <= j /\ l[j] = x /\ x \in Routes
                              /\ \A k \in DOMAIN l : i <= k /\ l[k] \in Routes => j <= k
    BY <1>2, <1>3, <1>7, FirstFromIs
  <2>2. Precedes(l, r, x)
    BY <1>1, <1>5, <2>1 DEF Precedes
  <2>3. ASSUME NEW y \in Routes, Precedes(l, r, y), Precedes(l, y, x)
        PROVE  FALSE
    <3>1. j <= At(l, y)
      BY <1>4, <2>1, <2>3
    <3>2. In(l, x) /\ At(l, x) = j
      BY <2>1, AtIsTheOne
    <3>3. At(l, y) < j
      BY <1>4, <2>3, <3>2, AtOrder
    <3>4. At(l, y) \in Nat /\ j \in Nat
      BY <1>1, <1>4, <2>1, <2>3
    <3> QED
      BY <3>1, <3>3, <3>4
  <2> QED
    BY <2>1, <2>2, <2>3
<1> QED
  BY <1>6, <1>7

\* The first route of the list.
LEMMA FirstIs ==
    ASSUME NEW S, NEW l \in Seq(S), Distinct(l), None \notin Routes,
           NEW y \in Routes, In(l, y)
    PROVE  getfirst(l) = y \/ (getfirst(l) \in Routes /\ Precedes(l, getfirst(l), y))
<1> DEFINE x == FirstFrom(l, 1)
<1>1. Len(l) \in Nat /\ DOMAIN l = 1..Len(l) /\ At(l, y) \in 1..Len(l) /\ l[At(l, y)] = y
  BY AtIsPlace
<1>2. getfirst(l) = x
  BY DEF getfirst
<1> HIDE DEF x
<1>2a. x = FirstFrom(l, 1)
  BY DEF x
<1>3. x # None
  BY <1>1, <1>2a, FirstFromIs
<1>4. PICK j \in DOMAIN l : /\ 1 <= j /\ l[j] = x /\ x \in Routes
                            /\ \A k \in DOMAIN l : 1 <= k /\ l[k] \in Routes => j <= k
  BY <1>2a, <1>3, FirstFromIs
<1>5. j <= At(l, y)
  BY <1>1, <1>4
<1>6. CASE j = At(l, y)
  BY <1>1, <1>2, <1>4, <1>6
<1>7. CASE j # At(l, y)
  <2>1. j < At(l, y)
    BY <1>1, <1>4, <1>5, <1>7
  <2> QED
    BY <1>1, <1>2, <1>4, <2>1 DEF Precedes
<1> QED
  BY <1>6, <1>7

\* Moving an entry, or putting a new one, to the front.
LEMMA MoveToFront ==
    ASSUME NEW S, NEW l \in Seq(S), Distinct(l), NEW r \in S,
           NEW m, m = atfront(without(l, r), r)
    PROVE  /\ m \in Seq(S) /\ Distinct(m)
           /\ \A y : In(m, y) <=> In(l, y) \/ y = r
           /\ \A y, z : Precedes(m, y, z) <=>
                \/ Precedes(l, y, z) /\ y # r /\ z # r
                \/ y = r /\ z # r /\ In(l, z)
BY WithoutOrder, AtFrontOrder

\* To the end.
LEMMA MoveToBack ==
    ASSUME NEW S, NEW l \in Seq(S), Distinct(l), NEW r \in S,
           NEW m, m = atback(without(l, r), r)
    PROVE  /\ m \in Seq(S) /\ Distinct(m)
           /\ \A y : In(m, y) <=> In(l, y) \/ y = r
           /\ \A y, z : Precedes(m, y, z) <=>
                \/ Precedes(l, y, z) /\ y # r /\ z # r
                \/ z = r /\ y # r /\ In(l, y)
BY WithoutOrder, AtBackOrder

\* Behind another entry.
LEMMA MoveBehind ==
    ASSUME NEW S, NEW l \in Seq(S), Distinct(l), NEW r \in S, NEW a, a # r, In(l, a),
           NEW m, m = after(without(l, r), a, r)
    PROVE  /\ m \in Seq(S) /\ Distinct(m)
           /\ \A y : In(m, y) <=> In(l, y) \/ y = r
           /\ \A y, z : Precedes(m, y, z) <=>
                \/ Precedes(l, y, z) /\ y # r /\ z # r
                \/ z = r /\ y # r /\ (y = a \/ Precedes(l, y, a))
                \/ y = r /\ z # r /\ Precedes(l, a, z)
<1>1. /\ without(l, r) \in Seq(S) /\ Distinct(without(l, r))
      /\ ~In(without(l, r), r) /\ In(without(l, r), a)
  BY WithoutOrder
<1> QED
  BY <1>1, WithoutOrder, AfterOrder

\* In front of another entry.
LEMMA MoveInFront ==
    ASSUME NEW S, NEW l \in Seq(S), Distinct(l), NEW r \in S, NEW a, a # r, In(l, a),
           NEW m, m = before(without(l, r), a, r)
    PROVE  /\ m \in Seq(S) /\ Distinct(m)
           /\ \A y : In(m, y) <=> In(l, y) \/ y = r
           /\ \A y, z : Precedes(m, y, z) <=>
                \/ Precedes(l, y, z) /\ y # r /\ z # r
                \/ z = r /\ y # r /\ Precedes(l, y, a)
                \/ y = r /\ z # r /\ (z = a \/ Precedes(l, a, z))
<1>1. /\ without(l, r) \in Seq(S) /\ Distinct(without(l, r))
      /\ ~In(without(l, r), r) /\ In(without(l, r), a)
  BY WithoutOrder
<1> QED
  BY <1>1, WithoutOrder, BeforeOrder

-----------------------------------------------------------------------------
(* Steps.                                                                  *)

\* What is listed is a route or a marker, and routes are no markers.
LEMMA ListedIs ==
    ASSUME Types, NEW y, Listed(y)
    PROVE  y \in Routes \cup Readers
BY DEF Types, Listed, In

\* A step says of one marker whether its version is that of its place.
LEMMA LoosenedIs ==
    ASSUME Types, NEW r \in Readers, NEW exact, loose' = Loosened(r, exact)
    PROVE  /\ loose' \subseteq Readers /\ (r \notin loose' <=> exact)
           /\ \A q : q # r => (q \in loose' <=> q \in loose)
BY DEF Types, Loosened

\* A marker that is placed anew, in its reader's callback or not.
LEMMA MovedIs ==
    ASSUME Types, NEW r \in Readers, reading' = Moved(r)
    PROVE  \E rr \in Walks :
             /\ reading' = [reading EXCEPT ![r] = rr]
             /\ rr.at = reading[r].at /\ rr.route = reading[r].route
             /\ rr.ver = reading[r].ver /\ rr.max = reading[r].max
             /\ rr.moved <=> reading[r].at = "call"
<1> DEFINE b == reading[r].at = "call"
           rr == [reading[r] EXCEPT !.moved = b]
<1>1. b \in BOOLEAN /\ reading[r] \in Walks
  BY DEF Types
<1>2. reading' = [reading EXCEPT ![r] = rr]
  BY DEF Moved, Types
<1>3. rr.moved <=> reading[r].at = "call"
  BY <1>1 DEF Walks
<1> HIDE DEF b
<1>4. /\ rr \in Walks /\ rr.at = reading[r].at /\ rr.route = reading[r].route
      /\ rr.ver = reading[r].ver /\ rr.max = reading[r].max
  BY <1>1 DEF Walks
<1> HIDE DEF rr
<1> QED
  BY <1>2, <1>3, <1>4

\* A step that moves one marker, and changes nothing else but what is kept of
\* its reader, needs the invariant for that reader only.
LEMMA MarkerMoved ==
    ASSUME Inv, Settled, NEW r \in Readers, UNCHANGED <<table, clock>>,
           list' \in Seq(Routes \cup Readers), Distinct(list'),
           \A y : y # r => (In(list', y) <=> In(list, y)),
           \A y, z : y # r /\ z # r => (Precedes(list', y, z) <=> Precedes(list, y, z)),
           NEW vr \in 0..(Wrap - 1), ver' = [ver EXCEPT ![r] = vr],
           NEW ur \in SUBSET Routes, unseen' = [unseen EXCEPT ![r] = ur],
           NEW rr \in Walks,
           reading' = [reading EXCEPT ![r] = rr],
           loose' \subseteq Readers, \A q : q # r => (q \in loose' <=> q \in loose),
           NEW gr, gr = IF rr.at = "idle" THEN vr ELSE rr.ver,
           rr.at = "call" => In(list', r) /\ rr.route \in Routes /\ rr.ver <= rr.max,
           In(list', r) => /\ vr <= clock /\ gr <= clock
                           /\ \A x \in Routes : x \in ur <=> Precedes(list', r, x),
           (IF rr.at = "idle" THEN r \notin loose' ELSE ~rr.moved) =>
               \A x \in Routes : /\ Precedes(list', x, r) => ver[x] <= gr
                                 /\ Precedes(list', r, x) => gr < ver[x],
           rr.at = "call" /\ ~rr.moved /\ Precedes(list', rr.route, r) =>
               \A y \in Routes :
                  /\ ~(Precedes(list', rr.route, y) /\ Precedes(list', y, r))
                  /\ r \notin loose' => /\ Precedes(list', y, rr.route) => ver[y] <= vr
                                       /\ vr < ver[rr.route]
    PROVE  Inv'
<1> USE DEF Inv
<1>0. \A x \in Routes : x # r
  BY RadicalAssumption
<1>1. \A y \in Routes \cup Readers : y # r => ver'[y] = ver[y]
  BY DEF Types
<1>2. ver'[r] = vr /\ unseen'[r] = ur /\ reading'[r] = rr
  BY DEF Types
<1>3. \A q \in Readers : q # r => unseen'[q] = unseen[q] /\ reading'[q] = reading[q]
  BY DEF Types
<1>4. Settled'
  BY <1>0, <1>1 DEF Settled, Listed
<1>5. Types'
  BY DEF Types
<1>6. ListInv'
  BY <1>0 DEF ListInv, Listed
<1>7. UnseenInv'
  BY <1>0, <1>2, <1>3 DEF UnseenInv, Listed
<1>8. CallInv'
  BY <1>2, <1>3, <1>4 DEF CallInv, Listed
<1>9. VersionInv'
  BY <1>0, <1>1, <1>2 DEF VersionInv, Listed
<1>10. Given(r)' = gr /\ \A q \in Readers : q # r => Given(q)' = Given(q)
  BY <1>1, <1>2, <1>3 DEF Given
<1>10a. /\ Exact(r)' <=> IF rr.at = "idle" THEN r \notin loose' ELSE ~rr.moved
        /\ \A q \in Readers : q # r => (Exact(q)' <=> Exact(q))
  BY <1>2, <1>3 DEF Exact
<1>11. GivenInv'
  <2>1. ASSUME NEW q \in Readers, In(list', q)
        PROVE  Given(q)' <= clock'
    BY <1>10, <2>1 DEF GivenInv, Listed
  <2>2. ASSUME NEW q \in Readers, NEW x \in Routes, Exact(q)'
        PROVE  /\ Precedes(list', x, q) => ver'[x] <= Given(q)'
               /\ Precedes(list', q, x) => Given(q)' < ver'[x]
    <3>1. ver'[x] = ver[x]
      BY <1>0, <1>1
    <3>2. CASE q = r
      BY <1>10, <1>10a, <2>2, <3>1, <3>2
    <3>3. CASE q # r
      <4>1. Exact(q) /\ Given(q)' = Given(q)
        BY <1>10, <1>10a, <2>2, <3>3
      <4>2. /\ Precedes(list', x, q) <=> Precedes(list, x, q)
            /\ Precedes(list', q, x) <=> Precedes(list, q, x)
        BY <1>0, <3>3
      <4> QED
        BY <3>1, <4>1, <4>2 DEF GivenInv
    <3> QED
      BY <3>2, <3>3
  <2> QED
    BY <2>1, <2>2 DEF GivenInv, Listed
<1>12. AgainInv'
  <2> SUFFICES ASSUME NEW q \in Readers, NEW y \in Routes, reading'[q].at = "call",
                      ~reading'[q].moved,
                      NEW x, x = reading'[q].route, Precedes(list', x, q)
               PROVE  /\ ~(Precedes(list', x, y) /\ Precedes(list', y, q))
                      /\ q \notin loose' => /\ Precedes(list', y, x) => ver'[y] <= ver'[q]
                                           /\ ver'[q] < ver'[x]
    BY DEF AgainInv
  <2>1. x \in Routes
    BY <1>8 DEF CallInv
  <2>2. ver'[y] = ver[y] /\ ver'[x] = ver[x] /\ y # r /\ x # r
    BY <1>0, <1>1, <2>1
  <2>3. CASE q = r
    BY <1>2, <2>1, <2>2, <2>3
  <2>4. CASE q # r
    <3>1. /\ reading[q].at = "call" /\ ~reading[q].moved /\ x = reading[q].route
          /\ ver'[q] = ver[q] /\ (q \in loose' <=> q \in loose)
      BY <1>1, <1>3, <2>4
    <3>2. /\ Precedes(list, x, q)
          /\ Precedes(list', x, y) <=> Precedes(list, x, y)
          /\ Precedes(list', y, q) <=> Precedes(list, y, q)
          /\ Precedes(list', y, x) <=> Precedes(list, y, x)
      BY <2>2, <2>4
    <3> QED
      BY <2>2, <3>1, <3>2 DEF AgainInv
  <2> QED
    BY <2>3, <2>4
<1> QED
  BY <1>5, <1>6, <1>7, <1>8, <1>9, <1>11, <1>12

\* The step leaves the reader idle.
LEMMA IdleMoved ==
    ASSUME Inv, Settled, NEW r \in Readers, UNCHANGED <<table, clock>>,
           list' \in Seq(Routes \cup Readers), Distinct(list'),
           \A y : y # r => (In(list', y) <=> In(list, y)),
           \A y, z : y # r /\ z # r => (Precedes(list', y, z) <=> Precedes(list, y, z)),
           NEW vr \in 0..(Wrap - 1), ver' = [ver EXCEPT ![r] = vr], vr <= clock,
           NEW ur \in SUBSET Routes, unseen' = [unseen EXCEPT ![r] = ur],
           NEW rr \in Walks, rr.at = "idle", reading' = [reading EXCEPT ![r] = rr],
           loose' \subseteq Readers, \A q : q # r => (q \in loose' <=> q \in loose),
           In(list', r) => \A x \in Routes : x \in ur <=> Precedes(list', r, x),
           r \notin loose' => \A x \in Routes : /\ Precedes(list', x, r) => ver[x] <= vr
                                                /\ Precedes(list', r, x) => vr < ver[x]
    PROVE  Inv'
<1>1. vr = IF rr.at = "idle" THEN vr ELSE rr.ver
  OBVIOUS
<1>2. rr.at = "call" => In(list', r) /\ rr.route \in Routes /\ rr.ver <= rr.max
  OBVIOUS
<1>3. In(list', r) => /\ vr <= clock /\ vr <= clock
                      /\ \A x \in Routes : x \in ur <=> Precedes(list', r, x)
  OBVIOUS
<1>4. (IF rr.at = "idle" THEN r \notin loose' ELSE ~rr.moved) =>
          \A x \in Routes : /\ Precedes(list', x, r) => ver[x] <= vr
                            /\ Precedes(list', r, x) => vr < ver[x]
  OBVIOUS
<1>5. rr.at = "call" /\ ~rr.moved /\ Precedes(list', rr.route, r) =>
          \A y \in Routes :
             /\ ~(Precedes(list', rr.route, y) /\ Precedes(list', y, r))
             /\ r \notin loose' => /\ Precedes(list', y, rr.route) => ver[y] <= vr
                                  /\ vr < ver[rr.route]
  OBVIOUS
<1> QED
  BY <1>1, <1>2, <1>3, <1>4, <1>5, MarkerMoved

\* The step places the marker anew and leaves its reader in its callback.
LEMMA AwayMoved ==
    ASSUME Inv, Settled, NEW r \in Readers, UNCHANGED <<table, clock>>,
           list' \in Seq(Routes \cup Readers), Distinct(list'), In(list', r),
           \A y : y # r => (In(list', y) <=> In(list, y)),
           \A y, z : y # r /\ z # r => (Precedes(list', y, z) <=> Precedes(list, y, z)),
           NEW vr \in 0..(Wrap - 1), ver' = [ver EXCEPT ![r] = vr], vr <= clock,
           NEW ur \in SUBSET Routes, unseen' = [unseen EXCEPT ![r] = ur],
           NEW rr \in Walks, reading' = [reading EXCEPT ![r] = rr],
           rr.at = "call", rr.moved, rr.route \in Routes, rr.ver <= rr.max, rr.ver <= clock,
           loose' \subseteq Readers, \A q : q # r => (q \in loose' <=> q \in loose),
           \A x \in Routes : x \in ur <=> Precedes(list', r, x)
    PROVE  Inv'
<1>1. rr.ver = IF rr.at = "idle" THEN vr ELSE rr.ver
  OBVIOUS
<1>2. rr.at = "call" => In(list', r) /\ rr.route \in Routes /\ rr.ver <= rr.max
  OBVIOUS
<1>3. In(list', r) => /\ vr <= clock /\ rr.ver <= clock
                      /\ \A x \in Routes : x \in ur <=> Precedes(list', r, x)
  OBVIOUS
<1>4. (IF rr.at = "idle" THEN r \notin loose' ELSE ~rr.moved) =>
          \A x \in Routes : /\ Precedes(list', x, r) => ver[x] <= rr.ver
                            /\ Precedes(list', r, x) => rr.ver < ver[x]
  OBVIOUS
<1>5. rr.at = "call" /\ ~rr.moved /\ Precedes(list', rr.route, r) =>
          \A y \in Routes :
             /\ ~(Precedes(list', rr.route, y) /\ Precedes(list', y, r))
             /\ r \notin loose' => /\ Precedes(list', y, rr.route) => ver[y] <= vr
                                  /\ vr < ver[rr.route]
  OBVIOUS
<1> QED
  BY <1>1, <1>2, <1>3, <1>4, <1>5, MarkerMoved

\* The step leaves the reader in its callback, with route x.
LEMMA CallMoved ==
    ASSUME Inv, Settled, NEW r \in Readers, UNCHANGED <<table, clock>>,
           list' \in Seq(Routes \cup Readers), Distinct(list'), In(list', r),
           \A y : y # r => (In(list', y) <=> In(list, y)),
           \A y, z : y # r /\ z # r => (Precedes(list', y, z) <=> Precedes(list, y, z)),
           NEW vr \in 0..(Wrap - 1), ver' = [ver EXCEPT ![r] = vr], vr <= clock,
           NEW ur \in SUBSET Routes, unseen' = [unseen EXCEPT ![r] = ur],
           NEW x \in Routes, ver[x] <= clock,
           NEW rr \in Walks,
           rr.at = "call", rr.route = x, rr.ver = ver[x], ver[x] <= rr.max,
           reading' = [reading EXCEPT ![r] = rr],
           loose' \subseteq Readers, \A q : q # r => (q \in loose' <=> q \in loose),
           \A y \in Routes : y \in ur <=> Precedes(list', r, y),
           \A y \in Routes : /\ Precedes(list', y, r) => ver[y] <= ver[x]
                             /\ Precedes(list', r, y) => ver[x] < ver[y],
           \A y \in Routes : /\ ~(Precedes(list', x, y) /\ Precedes(list', y, r))
                             /\ r \notin loose' => /\ Precedes(list', y, x) => ver[y] <= vr
                                                  /\ vr < ver[x]
    PROVE  Inv'
<1>1. rr.ver = IF rr.at = "idle" THEN vr ELSE rr.ver
  OBVIOUS
<1>2. rr.at = "call" => In(list', r) /\ rr.route \in Routes /\ rr.ver <= rr.max
  OBVIOUS
<1>3. In(list', r) => /\ vr <= clock /\ rr.ver <= clock
                      /\ \A y \in Routes : y \in ur <=> Precedes(list', r, y)
  OBVIOUS
<1>4. (IF rr.at = "idle" THEN r \notin loose' ELSE ~rr.moved) =>
          \A y \in Routes : /\ Precedes(list', y, r) => ver[y] <= rr.ver
                            /\ Precedes(list', r, y) => rr.ver < ver[y]
  OBVIOUS
<1>5. rr.at = "call" /\ ~rr.moved /\ Precedes(list', rr.route, r) =>
          \A y \in Routes :
             /\ ~(Precedes(list', rr.route, y) /\ Precedes(list', y, r))
             /\ r \notin loose' => /\ Precedes(list', y, rr.route) => ver[y] <= vr
                                  /\ vr < ver[rr.route]
  OBVIOUS
<1> QED
  BY <1>1, <1>2, <1>3, <1>4, <1>5, MarkerMoved

\* A reader that is not in a walk.
LEMMA NotReadingIs ==
    ASSUME Types
    PROVE  NotReading \in Walks /\ NotReading.at = "idle"
BY RadicalAssumption DEF NotReading, Walks, Types

\* What a reader of the walk functions may rely on about the list.
LEMMA ListFacts ==
    ASSUME Inv
    PROVE  /\ list \in Seq(Routes \cup Readers) /\ Distinct(list)
           /\ None \notin Routes /\ \A x \in Routes, r \in Readers : x # r
           /\ \A x \in Routes \cup Readers : ver[x] \in 0..(Wrap - 1)
           /\ clock \in 0..(Wrap - 1) /\ Wrap \in Nat
BY RadicalAssumption DEF Inv, Types, ListInv

\* A walk starts over: everything in the list is to come.
LEMMA WalkConstructorInv ==
    ASSUME Inv, NEW r \in Readers, WalkConstructor(r)
    PROVE  Inv'
<1> DEFINE ur == {x \in Routes : Listed(x)}
<1>1. /\ Settled /\ UNCHANGED <<table, clock>> /\ reading' = Moved(r)
      /\ list' = atfront(without(list, r), r)
      /\ ver' = [ver EXCEPT ![r] = 0] /\ unseen' = [unseen EXCEPT ![r] = ur]
      /\ loose' = Loosened(r, reading[r].at = "idle")
  BY DEF WalkConstructor
<1>2. /\ list' \in Seq(Routes \cup Readers) /\ Distinct(list')
      /\ \A y : In(list', y) <=> In(list, y) \/ y = r
      /\ \A y, z : Precedes(list', y, z) <=>
           \/ Precedes(list, y, z) /\ y # r /\ z # r
           \/ y = r /\ z # r /\ In(list, z)
  <2>1. r \in Routes \cup Readers /\ list \in Seq(Routes \cup Readers) /\ Distinct(list)
    BY ListFacts
  <2>2. list' = atfront(without(list, r), r)
    BY <1>1
  <2> HIDE DEF ur
  <2> QED
    BY <2>1, <2>2, MoveToFront
<1>3. PICK rr \in Walks :
        /\ reading' = [reading EXCEPT ![r] = rr]
        /\ rr.at = reading[r].at /\ rr.route = reading[r].route
        /\ rr.ver = reading[r].ver /\ rr.max = reading[r].max
        /\ rr.moved <=> reading[r].at = "call"
  BY <1>1, MovedIs DEF Inv
<1>4. 0 \in 0..(Wrap - 1) /\ 0 <= clock
  BY ListFacts
<1>5. ur \in SUBSET Routes /\ \A x \in Routes : x \in ur <=> Precedes(list', r, x)
  BY <1>2, ListFacts DEF Listed
<1>6. \A x \in Routes : ~Precedes(list', x, r) /\ (Precedes(list', r, x) => 0 < ver[x])
  <2>1. \A x \in Routes : In(list, x) => 0 < ver[x]
    BY <1>1, ListFacts DEF Settled, Listed
  <2> QED
    BY <1>2, <2>1, ListFacts
<1>7. \A y : y # r => (In(list', y) <=> In(list, y))
  BY <1>2
<1>8. \A y, z : y # r /\ z # r => (Precedes(list', y, z) <=> Precedes(list, y, z))
  BY <1>2
<1>9. reading[r].at = "call" => /\ reading[r].route \in Routes /\ reading[r].ver <= reading[r].max
                              /\ reading[r].ver <= clock
  BY <1>1 DEF Inv, CallInv, GivenInv, Given, Listed
<1>10. rr.at = "idle" \/ (rr.at = "call" /\ rr.moved)
  <2>1. rr.at = "idle" \/ rr.at = "call"
    BY <1>3 DEF Walks
  <2> QED
    BY <1>3, <2>1
<1>11. loose' \subseteq Readers /\ \A q : q # r => (q \in loose' <=> q \in loose)
  BY <1>1, LoosenedIs DEF Inv
<1> HIDE DEF ur
<1>14. list' \in Seq(Routes \cup Readers) /\ Distinct(list') /\ In(list', r)
  BY <1>2
<1>15. /\ Settled /\ UNCHANGED <<table, clock>> /\ reading' = [reading EXCEPT ![r] = rr]
       /\ ver' = [ver EXCEPT ![r] = 0] /\ unseen' = [unseen EXCEPT ![r] = ur]
  BY <1>1, <1>3
<1>12. CASE rr.at = "idle"
  <2>1. r \notin loose' => \A x \in Routes : /\ Precedes(list', x, r) => ver[x] <= 0
                                             /\ Precedes(list', r, x) => 0 < ver[x]
    BY <1>6
  <2> QED
    BY <1>4, <1>5, <2>1, <1>7, <1>8, <1>11, <1>12, <1>14, <1>15, IdleMoved
<1>13. CASE rr.at = "call" /\ rr.moved
  <2>1. rr.route \in Routes /\ rr.ver <= rr.max /\ rr.ver <= clock
    BY <1>3, <1>9, <1>13
  <2> QED
    BY <1>4, <1>5, <1>7, <1>8, <1>11, <1>13, <1>14, <1>15, <2>1, AwayMoved
<1> QED
  BY <1>10, <1>12, <1>13

\* A marker behind another has the same to come.
LEMMA WalkConstructorAfterInv ==
    ASSUME Inv, NEW r \in Readers, NEW a \in Readers, WalkConstructorAfter(r, a)
    PROVE  Inv'
<1> DEFINE exact == reading[r].at = "idle" /\ reading[a].at = "idle" /\ a \notin loose
<1>1. /\ Settled /\ UNCHANGED <<table, clock>> /\ reading' = Moved(r)
      /\ r # a /\ In(list, a) /\ loose' = Loosened(r, exact)
      /\ list' = after(without(list, r), a, r)
      /\ ver' = [ver EXCEPT ![r] = ver[a]] /\ unseen' = [unseen EXCEPT ![r] = unseen[a]]
  BY DEF WalkConstructorAfter, Listed
<1>2. /\ list' \in Seq(Routes \cup Readers) /\ Distinct(list')
      /\ \A y : In(list', y) <=> In(list, y) \/ y = r
      /\ \A y, z : Precedes(list', y, z) <=>
           \/ Precedes(list, y, z) /\ y # r /\ z # r
           \/ z = r /\ y # r /\ (y = a \/ Precedes(list, y, a))
           \/ y = r /\ z # r /\ Precedes(list, a, z)
  BY <1>1, ListFacts, MoveBehind
<1>3. PICK rr \in Walks :
        /\ reading' = [reading EXCEPT ![r] = rr]
        /\ rr.at = reading[r].at /\ rr.route = reading[r].route
        /\ rr.ver = reading[r].ver /\ rr.max = reading[r].max
        /\ rr.moved <=> reading[r].at = "call"
  BY <1>1, MovedIs DEF Inv
<1>4. \A x \in Routes : /\ Precedes(list', x, r) <=> Precedes(list, x, a)
                        /\ Precedes(list', r, x) <=> Precedes(list, a, x)
  BY <1>1, <1>2, ListFacts
<1>5. ver[a] \in 0..(Wrap - 1) /\ ver[a] <= clock /\ unseen[a] \in SUBSET Routes
  BY <1>1 DEF Inv, Types, VersionInv, Listed
<1>6. \A x \in Routes : x \in unseen[a] <=> Precedes(list', r, x)
  BY <1>1, <1>4 DEF Inv, UnseenInv, Listed
<1>7. exact => \A x \in Routes : /\ Precedes(list', x, r) => ver[x] <= ver[a]
                                 /\ Precedes(list', r, x) => ver[a] < ver[x]
  BY <1>1, <1>4 DEF Inv, GivenInv, Given, Exact
<1>8. \A y : y # r => (In(list', y) <=> In(list, y))
  BY <1>2
<1>9. \A y, z : y # r /\ z # r => (Precedes(list', y, z) <=> Precedes(list, y, z))
  BY <1>2
<1>10. reading[r].at = "call" => /\ reading[r].route \in Routes /\ reading[r].ver <= reading[r].max
                              /\ reading[r].ver <= clock
  BY <1>1 DEF Inv, CallInv, GivenInv, Given, Listed
<1>11. rr.at = "idle" \/ (rr.at = "call" /\ rr.moved)
  <2>1. rr.at = "idle" \/ rr.at = "call"
    BY <1>3 DEF Walks
  <2> QED
    BY <1>3, <2>1
<1>12. /\ loose' \subseteq Readers /\ (r \notin loose' <=> exact)
       /\ \A q : q # r => (q \in loose' <=> q \in loose)
  BY <1>1, LoosenedIs DEF Inv
<1> HIDE DEF exact
<1>15. list' \in Seq(Routes \cup Readers) /\ Distinct(list') /\ In(list', r)
  BY <1>2
<1>16. /\ Settled /\ UNCHANGED <<table, clock>> /\ reading' = [reading EXCEPT ![r] = rr]
       /\ ver' = [ver EXCEPT ![r] = ver[a]] /\ unseen' = [unseen EXCEPT ![r] = unseen[a]]
  BY <1>1, <1>3
<1>13. CASE rr.at = "idle"
  <2>1. r \notin loose' => \A x \in Routes : /\ Precedes(list', x, r) => ver[x] <= ver[a]
                                             /\ Precedes(list', r, x) => ver[a] < ver[x]
    BY <1>7, <1>12
  <2> QED
    BY <1>5, <1>6, <1>8, <1>9, <1>12, <1>13, <1>15, <1>16, <2>1, IdleMoved
<1>14. CASE rr.at = "call" /\ rr.moved
  <2>1. rr.route \in Routes /\ rr.ver <= rr.max /\ rr.ver <= clock
    BY <1>3, <1>10, <1>14
  <2> QED
    BY <1>5, <1>6, <1>8, <1>9, <1>12, <1>14, <1>15, <1>16, <2>1, AwayMoved
<1> QED
  BY <1>11, <1>13, <1>14

\* Without its marker a reader is promised nothing.
LEMMA WalkDestructorInv ==
    ASSUME Inv, NEW r \in Readers, WalkDestructor(r)
    PROVE  Inv'
<1>1. /\ Settled /\ reading[r].at = "idle" /\ UNCHANGED <<table, clock, reading>>
      /\ list' = without(list, r)
      /\ ver' = [ver EXCEPT ![r] = 0] /\ unseen' = [unseen EXCEPT ![r] = {}]
      /\ loose' = loose \ {r}
  BY DEF WalkDestructor
<1>2. /\ list' \in Seq(Routes \cup Readers) /\ Distinct(list')
      /\ \A y : In(list', y) <=> In(list, y) /\ y # r
      /\ \A y, z : Precedes(list', y, z) <=> Precedes(list, y, z) /\ y # r /\ z # r
  BY <1>1, ListFacts, WithoutOrder
<1>3. /\ reading' = [reading EXCEPT ![r] = reading[r]]
      /\ reading[r] \in Walks
  BY <1>1 DEF Inv, Types
<1>4. 0 \in 0..(Wrap - 1) /\ 0 <= clock /\ {} \in SUBSET Routes
  BY ListFacts
<1>5. ~In(list', r)
      /\ \A x \in Routes : /\ Precedes(list', x, r) => ver[x] <= 0
                          /\ Precedes(list', r, x) => 0 < ver[x]
  BY <1>2
<1>6. \A y : y # r => (In(list', y) <=> In(list, y))
  BY <1>2
<1>7. \A y, z : y # r /\ z # r => (Precedes(list', y, z) <=> Precedes(list, y, z))
  BY <1>2
<1>8. loose' \subseteq Readers /\ \A q : q # r => (q \in loose' <=> q \in loose)
  BY <1>1 DEF Inv, Types
<1> QED
  BY <1>1, <1>2, <1>3, <1>4, <1>5, <1>6, <1>7, <1>8, IdleMoved

\* The callback ends the walk: the marker stays, with the version of the route.
LEMMA StopInv ==
    ASSUME Inv, NEW r \in Readers, Stop(r)
    PROVE  Inv'
<1>1. /\ Settled /\ reading[r].at = "call" /\ UNCHANGED <<table, list, clock, unseen>>
      /\ ver' = [ver EXCEPT ![r] = reading[r].ver]
      /\ reading' = [reading EXCEPT ![r] = NotReading]
      /\ loose' = Loosened(r, Exact(r))
  BY DEF Stop, Processed
<1>2. list' \in Seq(Routes \cup Readers) /\ Distinct(list')
  BY <1>1, ListFacts
<1>4. unseen' = [unseen EXCEPT ![r] = unseen[r]] /\ unseen[r] \in SUBSET Routes
  BY <1>1 DEF Inv, Types
<1>5. In(list, r) /\ reading[r].ver \in 0..(Wrap - 1) /\ reading[r].ver <= clock
  BY <1>1 DEF Inv, Types, Walks, CallInv, GivenInv, Given, Listed
<1>6. \A x \in Routes : x \in unseen[r] <=> Precedes(list, r, x)
  BY <1>1, <1>5 DEF Inv, UnseenInv, Listed
<1>7. Exact(r) => \A x \in Routes : /\ Precedes(list, x, r) => ver[x] <= reading[r].ver
                                    /\ Precedes(list, r, x) => reading[r].ver < ver[x]
  BY <1>1 DEF Inv, GivenInv, Given
<1>8. /\ loose' \subseteq Readers /\ (r \notin loose' <=> Exact(r))
      /\ \A q : q # r => (q \in loose' <=> q \in loose)
  BY <1>1, LoosenedIs DEF Inv
<1> QED
  BY <1>1, <1>2, <1>4, <1>5, <1>6, <1>7, <1>8, NotReadingIs, IdleMoved DEF Inv

\* The callback asks for its route again: nothing is between it and the marker.
LEMMA AgainStepInv ==
    ASSUME Inv, NEW r \in Readers, Again(r)
    PROVE  Inv'
<1> DEFINE x == reading[r].route
<1>1. /\ Settled /\ reading[r].at = "call" /\ UNCHANGED <<table, ver, clock, loose>>
      /\ ~reading[r].moved
      /\ In(list, x) /\ At(list, x) < At(list, r)
      /\ list' = before(without(list, r), x, r)
      /\ reading' = [reading EXCEPT ![r] = NotReading]
      /\ unseen' = [unseen EXCEPT ![r] = unseen[r] \cup {x}]
  BY DEF Again, Listed, Inv, Types
<1>2. In(list, r) /\ x \in Routes /\ x # r
  BY <1>1, ListFacts DEF Inv, CallInv, Listed
<1> HIDE DEF x
<1>3. Precedes(list, x, r)
  BY <1>1, <1>2, AtOrder, ListFacts
<1>4. /\ list' \in Seq(Routes \cup Readers) /\ Distinct(list')
      /\ \A y : In(list', y) <=> In(list, y) \/ y = r
      /\ \A y, z : Precedes(list', y, z) <=>
           \/ Precedes(list, y, z) /\ y # r /\ z # r
           \/ z = r /\ y # r /\ Precedes(list, y, x)
           \/ y = r /\ z # r /\ (z = x \/ Precedes(list, x, z))
  BY <1>1, <1>2, ListFacts, MoveInFront
<1>6. ver' = [ver EXCEPT ![r] = ver[r]] /\ ver[r] \in 0..(Wrap - 1) /\ ver[r] <= clock
  BY <1>1, <1>2 DEF Inv, Types, VersionInv, Listed
<1>7. unseen[r] \cup {x} \in SUBSET Routes
  BY <1>2 DEF Inv, Types
<1>8. \A y \in Routes : /\ ~(Precedes(list, x, y) /\ Precedes(list, y, r))
                        /\ r \notin loose => /\ Precedes(list, y, x) => ver[y] <= ver[r]
                                            /\ ver[r] < ver[x]
  BY <1>1, <1>3 DEF Inv, AgainInv, x
<1>9. ASSUME NEW y \in Routes
      PROVE  Precedes(list, r, y) <=> Precedes(list, x, y)
  <2>1. Precedes(list, r, y) => Precedes(list, x, y)
    BY <1>3, OrderTransitive, ListFacts
  <2>2. ASSUME Precedes(list, x, y)
        PROVE  Precedes(list, r, y)
    <3>1. In(list, y) /\ y # r
      BY <2>2, PrecedesIn, ListFacts
    <3>2. ~Precedes(list, y, r)
      BY <1>8, <2>2
    <3> QED
      BY <1>2, <3>1, <3>2, Order, ListFacts
  <2> QED
    BY <2>1, <2>2
<1>10. \A y \in Routes : y \in unseen[r] \cup {x} <=> Precedes(list', r, y)
  <2>1. \A y \in Routes : y \in unseen[r] <=> Precedes(list, r, y)
    BY <1>2 DEF Inv, UnseenInv, Listed
  <2>2. \A y \in Routes : Precedes(list', r, y) <=> y = x \/ Precedes(list, x, y)
    BY <1>4, ListFacts
  <2> QED
    BY <1>9, <2>1, <2>2
<1>11. ASSUME r \notin loose, NEW y \in Routes
       PROVE  /\ Precedes(list', y, r) => ver[y] <= ver[r]
              /\ Precedes(list', r, y) => ver[r] < ver[y]
  <2>1. Precedes(list', y, r) => Precedes(list, y, x)
    BY <1>4, ListFacts
  <2>2. Precedes(list', r, y) => y = x \/ Precedes(list, x, y)
    BY <1>4, ListFacts
  <2>3. Precedes(list, x, y) => ver[x] < ver[y]
    BY <1>1, <1>2 DEF Inv, VersionInv
  <2>4. ver[x] \in Nat /\ ver[y] \in Nat /\ ver[r] \in Nat
    BY <1>2, ListFacts
  <2> QED
    BY <1>8, <1>11, <2>1, <2>2, <2>3, <2>4
<1>12. \A y : y # r => (In(list', y) <=> In(list, y))
  BY <1>4
<1>13. \A y, z : y # r /\ z # r => (Precedes(list', y, z) <=> Precedes(list, y, z))
  BY <1>4
<1>14. loose' \subseteq Readers /\ loose' = loose
  BY <1>1 DEF Inv, Types
<1> QED
  BY <1>1, <1>4, <1>6, <1>7, <1>10, <1>11, <1>12, <1>13, <1>14, NotReadingIs, IdleMoved DEF Inv

\* A reader that rests: it has been given all there is, or all it asked for.
LEMMA RestInv ==
    ASSUME Inv, Settled, NEW r \in Readers, Listed(r), UNCHANGED <<table, clock>>,
           NEW max \in 0..(Wrap - 1), Exact(r) => Given(r) <= max,
           NEW v, v = [ver EXCEPT ![r] = Given(r)],
           NEW x, x = getnext(list, r), x # None => v[x] > max,
           Rest(r, x, max, v)
    PROVE  Inv'
<1>0. In(list, r) /\ Given(r) \in 0..(Wrap - 1) /\ r \in Routes \cup Readers
  BY DEF Listed, Given, Inv, Types, Walks
<1>1. /\ list' = IF x = None THEN atback(without(list, r), r) ELSE before(without(list, r), x, r)
      /\ ver' = [v EXCEPT ![r] = IF x = None THEN clock ELSE max]
      /\ reading' = [reading EXCEPT ![r] = NotReading]
      /\ loose' = Loosened(r, x = None \/ Exact(r))
      /\ UNCHANGED unseen
  BY DEF Rest
<1>3. unseen' = [unseen EXCEPT ![r] = unseen[r]] /\ unseen[r] \in SUBSET Routes
  BY <1>1 DEF Inv, Types
<1>4. \A y \in Routes : y \in unseen[r] <=> Precedes(list, r, y)
  BY <1>0 DEF Inv, UnseenInv, Listed
<1>5. Exact(r) => \A y \in Routes : /\ Precedes(list, y, r) => ver[y] <= Given(r)
                                    /\ Precedes(list, r, y) => Given(r) < ver[y]
  BY DEF Inv, GivenInv
<1>8. /\ loose' \subseteq Readers /\ (r \notin loose' <=> x = None \/ Exact(r))
      /\ \A q : q # r => (q \in loose' <=> q \in loose)
  BY <1>1, LoosenedIs DEF Inv
<1>6. CASE x = None
  <2>1. ver' = [ver EXCEPT ![r] = clock] /\ clock <= clock
    <3>1. ver' = [v EXCEPT ![r] = clock]
      BY <1>1, <1>6
    <3>2. [v EXCEPT ![r] = clock] = [ver EXCEPT ![r] = clock]
      BY DEF Inv, Types
    <3> QED
      BY <3>1, <3>2, ListFacts
  <2>2. list' = atback(without(list, r), r)
    BY <1>1, <1>6
  <2>2a. r \in Routes \cup Readers /\ list \in Seq(Routes \cup Readers) /\ Distinct(list)
    BY ListFacts
  <2>3. /\ list' \in Seq(Routes \cup Readers) /\ Distinct(list')
        /\ \A y : In(list', y) <=> In(list, y) \/ y = r
        /\ \A y, z : Precedes(list', y, z) <=>
             \/ Precedes(list, y, z) /\ y # r /\ z # r
             \/ z = r /\ y # r /\ In(list, y)
    BY <2>2, <2>2a, MoveToBack
  <2>4. \A y \in Routes : ~Precedes(list, r, y)
    BY <1>0, <1>6, ListFacts, NextIs
  <2>5. \A y \in Routes : y \in unseen[r] <=> Precedes(list', r, y)
    BY <1>4, <2>3, <2>4, ListFacts
  <2>6. \A y \in Routes : In(list, y) => ver[y] <= clock
    BY DEF Inv, VersionInv, Listed
  <2>7. \A y \in Routes : /\ Precedes(list', y, r) => ver[y] <= clock
                          /\ Precedes(list', r, y) => clock < ver[y]
    BY <2>3, <2>6, ListFacts
  <2>8. \A y : y # r => (In(list', y) <=> In(list, y))
    BY <2>3
  <2>9. \A y, z : y # r /\ z # r => (Precedes(list', y, z) <=> Precedes(list, y, z))
    BY <2>3
  <2>10. clock \in 0..(Wrap - 1)
    BY ListFacts
  <2> QED
    BY <1>1, <1>3, <1>8, <2>1, <2>3, <2>5, <2>7, <2>8, <2>9, <2>10, NotReadingIs, IdleMoved DEF Inv
<1>7. CASE x # None
  <2>1. /\ x \in Routes /\ Precedes(list, r, x)
        /\ \A y \in Routes : Precedes(list, r, y) => ~Precedes(list, y, x)
    BY <1>0, <1>7, ListFacts, NextIs
  <2>2. In(list, x) /\ x # r
    BY <2>1, PrecedesIn, ListFacts
  <2>3. v[x] = ver[x] /\ max < ver[x] /\ ver[x] <= clock
    BY <1>7, <2>1, <2>2, ListFacts DEF Inv, Types, VersionInv, Listed
  <2>4. ver' = [ver EXCEPT ![r] = max] /\ max <= clock
    <3>1. ver[x] \in Nat /\ max \in Nat /\ clock \in Nat
      BY <2>1, ListFacts
    <3>2. ver' = [v EXCEPT ![r] = max]
      BY <1>1, <1>7
    <3>3. [v EXCEPT ![r] = max] = [ver EXCEPT ![r] = max]
      BY DEF Inv, Types
    <3> QED
      BY <2>3, <3>1, <3>2, <3>3
  <2>5. list' = before(without(list, r), x, r)
    BY <1>1, <1>7
  <2>6. /\ list' \in Seq(Routes \cup Readers) /\ Distinct(list')
        /\ \A y : In(list', y) <=> In(list, y) \/ y = r
        /\ \A y, z : Precedes(list', y, z) <=>
             \/ Precedes(list, y, z) /\ y # r /\ z # r
             \/ z = r /\ y # r /\ Precedes(list, y, x)
             \/ y = r /\ z # r /\ (z = x \/ Precedes(list, x, z))
    BY <1>0, <2>2, <2>5, ListFacts, MoveInFront
  <2>7. ASSUME NEW y \in Routes
        PROVE  /\ Precedes(list', r, y) <=> Precedes(list, r, y)
               /\ Precedes(list', y, r) <=> Precedes(list, y, r)
    <3>1. y # r
      BY ListFacts
    <3>2. Precedes(list', r, y) <=> y = x \/ Precedes(list, x, y)
      BY <2>6, <3>1
    <3>3. Precedes(list', y, r) <=> Precedes(list, y, x)
      BY <2>6, <3>1
    <3>4. Precedes(list, x, y) => Precedes(list, r, y)
      BY <2>1, OrderTransitive, ListFacts
    <3>5. Precedes(list, r, y) => y = x \/ Precedes(list, x, y)
      BY <2>1, <2>2, PrecedesIn, Order, ListFacts
    <3>6. Precedes(list, y, r) => Precedes(list, y, x)
      BY <2>1, OrderTransitive, ListFacts
    <3>7. Precedes(list, y, x) => Precedes(list, y, r)
      BY <1>0, <2>1, <3>1, PrecedesIn, Order, ListFacts
    <3> QED
      BY <2>1, <3>2, <3>3, <3>4, <3>5, <3>6, <3>7
  <2>8. ASSUME Exact(r), NEW y \in Routes
        PROVE  /\ Precedes(list', y, r) => ver[y] <= max
               /\ Precedes(list', r, y) => max < ver[y]
    <3>1. ver[y] \in Nat /\ ver[x] \in Nat /\ max \in Nat /\ Given(r) \in Nat
      BY <1>0, <2>1, ListFacts
    <3>2. Precedes(list', y, r) => ver[y] <= Given(r)
      BY <1>5, <2>7, <2>8
    <3>3. Precedes(list', r, y) => y = x \/ Precedes(list, x, y)
      BY <2>6, ListFacts
    <3>4. Precedes(list, x, y) => ver[x] < ver[y]
      BY <2>1 DEF Inv, VersionInv
    <3> QED
      BY <2>3, <2>8, <3>1, <3>2, <3>3, <3>4
  <2>9. \A y \in Routes : y \in unseen[r] <=> Precedes(list', r, y)
    BY <1>4, <2>7
  <2>10. \A y : y # r => (In(list', y) <=> In(list, y))
    BY <2>6
  <2>11. \A y, z : y # r /\ z # r => (Precedes(list', y, z) <=> Precedes(list, y, z))
    BY <2>6
  <2> QED
    BY <1>1, <1>3, <1>7, <1>8, <2>4, <2>6, <2>8, <2>9, <2>10, <2>11, NotReadingIs, IdleMoved DEF Inv
<1> QED
  BY <1>6, <1>7

\* A reader that is given the next route, with its marker behind it.
LEMMA GiveInv ==
    ASSUME Inv, Settled, NEW r \in Readers, Listed(r), UNCHANGED <<table, clock>>,
           NEW max \in 0..(Wrap - 1),
           NEW v, v = [ver EXCEPT ![r] = Given(r)],
           NEW x, x = getnext(list, r), x # None, ~(v[x] > max),
           Give(r, x, max, v)
    PROVE  Inv'
<1> DEFINE rr == [at |-> "call", route |-> x, ver |-> v[x], max |-> max, moved |-> FALSE]
<1>0. In(list, r) /\ Given(r) \in 0..(Wrap - 1) /\ r \in Routes \cup Readers
  BY DEF Listed, Given, Inv, Types, Walks
<1>1. /\ list' = after(without(list, r), x, r) /\ ver' = v
      /\ reading' = [reading EXCEPT ![r] = rr]
      /\ unseen' = [unseen EXCEPT ![r] = unseen[r] \ {x}]
      /\ loose' = Loosened(r, Exact(r))
  BY DEF Give, Inv, Types
<1>2. /\ x \in Routes /\ Precedes(list, r, x)
      /\ \A y \in Routes : Precedes(list, r, y) => ~Precedes(list, y, x)
  BY <1>0, ListFacts, NextIs
<1>3. In(list, x) /\ x # r
  BY <1>2, PrecedesIn, ListFacts
<1>4. v[x] = ver[x] /\ ver[x] <= max /\ ver[x] <= clock /\ ver[x] \in 0..(Wrap - 1)
  <2>1. v[x] = ver[x] /\ ver[x] <= clock
    BY <1>2, <1>3 DEF Inv, Types, VersionInv, Listed
  <2>2. ver[x] \in Nat /\ max \in Nat
    BY <1>2, ListFacts
  <2> QED
    BY <1>2, <2>1, <2>2, ListFacts
<1>5. /\ list' \in Seq(Routes \cup Readers) /\ Distinct(list')
      /\ \A y : In(list', y) <=> In(list, y) \/ y = r
      /\ \A y, z : Precedes(list', y, z) <=>
           \/ Precedes(list, y, z) /\ y # r /\ z # r
           \/ z = r /\ y # r /\ (y = x \/ Precedes(list, y, x))
           \/ y = r /\ z # r /\ Precedes(list, x, z)
  BY <1>0, <1>1, <1>3, ListFacts, MoveBehind
<1>6. /\ rr.at = "call" /\ rr.route = x /\ rr.ver = ver[x] /\ ver[x] <= rr.max
      /\ rr \in Walks
  BY <1>2, <1>4 DEF Walks
<1>6a. reading' = [reading EXCEPT ![r] = rr]
  BY <1>1
<1> HIDE DEF rr
<1>7. ver' = [ver EXCEPT ![r] = Given(r)] /\ Given(r) <= clock
  BY <1>0, <1>1 DEF Inv, GivenInv, Listed
<1>8. unseen[r] \ {x} \in SUBSET Routes
  BY DEF Inv, Types
<1>9. ASSUME NEW y \in Routes
      PROVE  /\ Precedes(list', r, y) <=> Precedes(list, x, y)
             /\ Precedes(list', y, r) <=> y = x \/ Precedes(list, y, x)
             /\ Precedes(list', x, y) <=> Precedes(list, x, y)
             /\ Precedes(list', y, x) <=> Precedes(list, y, x)
  <2>1. y # r
    BY ListFacts
  <2> QED
    BY <1>3, <1>5, <2>1
<1>10. ASSUME NEW y \in Routes
       PROVE  y \in unseen[r] \ {x} <=> Precedes(list', r, y)
  <2>1. y \in unseen[r] <=> Precedes(list, r, y)
    BY <1>0 DEF Inv, UnseenInv, Listed
  <2>2. Precedes(list, x, y) => Precedes(list, r, y) /\ y # x
    BY <1>2, OrderTransitive, Order, ListFacts
  <2>3. Precedes(list, r, y) => y = x \/ Precedes(list, x, y)
    BY <1>2, <1>3, PrecedesIn, Order, ListFacts
  <2> QED
    BY <1>9, <2>1, <2>2, <2>3
<1>11. ASSUME NEW y \in Routes
       PROVE  /\ Precedes(list', y, r) => ver[y] <= ver[x]
              /\ Precedes(list', r, y) => ver[x] < ver[y]
  <2>1. /\ Precedes(list, y, x) => ver[y] < ver[x]
        /\ Precedes(list, x, y) => ver[x] < ver[y]
    BY <1>2 DEF Inv, VersionInv
  <2>2. ver[x] \in Nat /\ ver[y] \in Nat
    BY <1>2, ListFacts
  <2> QED
    BY <1>9, <2>1, <2>2
<1>12. ASSUME NEW y \in Routes
       PROVE  /\ ~(Precedes(list', x, y) /\ Precedes(list', y, r))
              /\ Exact(r) => /\ Precedes(list', y, x) => ver[y] <= Given(r)
                             /\ Given(r) < ver[x]
  <2>1. Precedes(list, x, y) => ~Precedes(list, y, x) /\ y # x
    BY Order, ListFacts
  <2>2. Precedes(list, y, x) => Precedes(list, y, r)
    <3>1. y # r
      BY ListFacts
    <3> QED
      BY <1>0, <1>2, <3>1, PrecedesIn, Order, ListFacts
  <2>3. Exact(r) => /\ Precedes(list, y, r) => ver[y] <= Given(r)
                    /\ Precedes(list, r, x) => Given(r) < ver[x]
    BY <1>2 DEF Inv, GivenInv
  <2> QED
    BY <1>2, <1>9, <2>1, <2>2, <2>3
<1>13. \A y : y # r => (In(list', y) <=> In(list, y))
  BY <1>5
<1>14. \A y, z : y # r /\ z # r => (Precedes(list', y, z) <=> Precedes(list, y, z))
  BY <1>5
<1>15. In(list', r)
  BY <1>5
<1> QED
  <2> DEFINE ur == unseen[r] \ {x}
             vr == Given(r)
  <2>1. unseen' = [unseen EXCEPT ![r] = ur] /\ vr \in 0..(Wrap - 1)
    BY <1>0, <1>1
  <2>2. list' \in Seq(Routes \cup Readers) /\ Distinct(list') /\ x \in Routes
    BY <1>2, <1>5
  <2>3. ver[x] <= clock
    BY <1>4
  <2>4. \A y \in Routes : y \in ur <=> Precedes(list', r, y)
    BY <1>10
  <2>5. \A y \in Routes : /\ Precedes(list', y, r) => ver[y] <= ver[x]
                          /\ Precedes(list', r, y) => ver[x] < ver[y]
    BY <1>11
  <2>6. /\ loose' \subseteq Readers /\ (r \notin loose' <=> Exact(r))
        /\ \A q : q # r => (q \in loose' <=> q \in loose)
    BY <1>1, LoosenedIs DEF Inv
  <2>7. \A y \in Routes : /\ ~(Precedes(list', x, y) /\ Precedes(list', y, r))
                          /\ r \notin loose' => /\ Precedes(list', y, x) => ver[y] <= vr
                                               /\ vr < ver[x]
    BY <1>12, <2>6
  <2>8. ver' = [ver EXCEPT ![r] = vr] /\ vr <= clock /\ ur \in SUBSET Routes
    BY <1>7, <1>8
  <2> HIDE DEF ur, vr
  <2> QED
    BY <1>6, <1>6a, <2>8, <1>13, <1>14, <1>15, <2>1, <2>2, <2>3, <2>4, <2>5,
       <2>6, <2>7, CallMoved

\* One round of a walk.
LEMMA RoundInv ==
    ASSUME Inv, Settled, NEW r \in Readers, Listed(r), UNCHANGED <<table, clock>>,
           NEW max \in 0..(Wrap - 1), Exact(r) => Given(r) <= max,
           NEW v, v = [ver EXCEPT ![r] = Given(r)],
           Round(r, max, v)
    PROVE  Inv'
<1> DEFINE x == getnext(list, r)
<1>1. IF x = None \/ (x # None /\ v[x] > max) THEN Rest(r, x, max, v)
      ELSE Give(r, x, max, v)
  BY DEF Round
<1> HIDE DEF x
<1>2. x = getnext(list, r)
  BY DEF x
<1>3. CASE x = None \/ (x # None /\ v[x] > max)
  BY <1>1, <1>2, <1>3, RestInv
<1>4. CASE ~(x = None \/ (x # None /\ v[x] > max))
  BY <1>1, <1>2, <1>4, GiveInv
<1> QED
  BY <1>3, <1>4

\* A walk begins.
LEMMA WalkInv ==
    ASSUME Inv, NEW r \in Readers, NEW max \in 0..(Wrap - 1), Walk(r, max)
    PROVE  Inv'
<1>1. /\ Settled /\ reading[r].at = "idle" /\ Listed(r) /\ (r \in loose \/ max >= ver[r])
      /\ Round(r, max, ver) /\ UNCHANGED <<table, clock>>
  BY DEF Walk
<1>2. Given(r) = ver[r] /\ ver[r] \in Nat /\ ver = [ver EXCEPT ![r] = Given(r)]
  BY <1>1, ListFacts DEF Given, Inv, Types
<1>3. Exact(r) => Given(r) <= max
  BY <1>1, <1>2 DEF Exact
<1> QED
  BY <1>1, <1>2, <1>3, RoundInv

\* A walk goes on after its callback.
LEMMA GoOnInv ==
    ASSUME Inv, NEW r \in Readers, GoOn(r)
    PROVE  Inv'
<1>1. /\ Settled /\ reading[r].at = "call"
      /\ Round(r, reading[r].max, [ver EXCEPT ![r] = reading[r].ver])
      /\ UNCHANGED <<table, clock>>
  BY DEF GoOn, Processed
<1>2. reading[r].max \in 0..(Wrap - 1)
  BY DEF Inv, Types, Walks
<1>3. Listed(r) /\ reading[r].ver <= reading[r].max /\ Given(r) = reading[r].ver
  BY <1>1 DEF Inv, CallInv, Given
<1> QED
  BY <1>1, <1>2, <1>3, RoundInv

\* A route is put into the tree; the list is not concerned.
LEMMA InTreeInv ==
    ASSUME Inv, NEW x \in Routes, InTree(x)
    PROVE  Inv'
<1>1. table' = table \cup {x} /\ UNCHANGED <<list, ver, clock, reading, unseen, loose>>
  BY DEF InTree
<1>2. Types'
  BY <1>1 DEF Inv, Types
<1>3. ListInv'
  BY <1>1 DEF Inv, ListInv, Listed
<1>4. UnseenInv' /\ CallInv' /\ VersionInv'
  BY <1>1 DEF Inv, UnseenInv, CallInv, VersionInv, Listed, Settled, Quiet
<1>5. GivenInv' /\ AgainInv'
  BY <1>1 DEF Inv, GivenInv, Given, Exact, AgainInv, Listed, Settled
<1> QED
  BY <1>2, <1>3, <1>4, <1>5 DEF Inv

\* A route leaves the tree, and the list.
LEMMA RemoveInv ==
    ASSUME Inv, NEW x \in Routes, Remove(x)
    PROVE  Inv'
<1>1. /\ Settled /\ table' = table \ {x} /\ list' = without(list, x)
      /\ unseen' = [r \in Readers |-> unseen[r] \ {x}]
      /\ UNCHANGED <<ver, clock, reading, loose>>
  BY DEF Remove
<1>2. /\ list' \in Seq(Routes \cup Readers) /\ Distinct(list')
      /\ \A y : In(list', y) <=> In(list, y) /\ y # x
      /\ \A y, z : Precedes(list', y, z) <=> Precedes(list, y, z) /\ y # x /\ z # x
  BY <1>1, ListFacts, WithoutOrder
<1>3. \A r \in Readers : r # x
  BY ListFacts
<1>4. Settled'
  BY <1>1, <1>2 DEF Settled, Listed
<1>5. Types'
  BY <1>1, <1>2 DEF Inv, Types
<1>6. ListInv'
  BY <1>1, <1>2 DEF Inv, ListInv, Listed
<1>7. UnseenInv'
  BY <1>1, <1>2, <1>3 DEF Inv, UnseenInv, Listed
<1>8. CallInv'
  BY <1>1, <1>2, <1>3, <1>4 DEF Inv, CallInv, Listed
<1>9. VersionInv'
  BY <1>1, <1>2 DEF Inv, VersionInv, Listed
<1>10. GivenInv'
  BY <1>1, <1>2, <1>3 DEF Inv, GivenInv, Given, Exact, Listed
<1>11. AgainInv'
  BY <1>1, <1>2, <1>3 DEF Inv, AgainInv
<1> QED
  BY <1>5, <1>6, <1>7, <1>8, <1>9, <1>10, <1>11 DEF Inv

\* Versions are counted on, and wrap.
LEMMA NextVersion ==
    ASSUME NEW w \in Nat, NEW c \in 0..(w - 1)
    PROVE  (c + 1) % w = IF c + 1 = w THEN 0 ELSE c + 1
<1>1. w > 0 /\ c \in Nat /\ c + 1 \in Nat /\ c + 1 <= w
  OBVIOUS
<1>2. CASE c + 1 = w
  <2>1. w % w = 0
    BY <1>1
  <2> QED
    BY <1>1, <1>2, <2>1
<1>3. CASE c + 1 < w
  <2>1. (c + 1) % w = c + 1
    BY <1>1, <1>3
  <2> QED
    BY <1>1, <1>3, <2>1
<1> QED
  BY <1>1, <1>2, <1>3

\* A change: the route goes to the end, behind every marker, with a new version;
\* when that is zero the versions have to be given anew first.
LEMMA AppendInv ==
    ASSUME Inv, NEW x \in Routes, AppendToChangeList(x)
    PROVE  Inv'
<1>1. /\ Settled /\ x \in table /\ (clock + 1 = Wrap => Quiet)
      /\ clock' = (clock + 1) % Wrap
      /\ list' = atback(without(list, x), x)
      /\ ver' = [ver EXCEPT ![x] = clock']
      /\ unseen' = [r \in Readers |-> IF In(list, r) THEN unseen[r] \cup {x} ELSE {}]
      /\ UNCHANGED <<table, reading, loose>>
  BY DEF AppendToChangeList, Listed
<1>1a. x \in Routes \cup Readers /\ list \in Seq(Routes \cup Readers) /\ Distinct(list)
  BY ListFacts
<1>1b. list' = atback(without(list, x), x)
  BY <1>1
<1>2. /\ list' \in Seq(Routes \cup Readers) /\ Distinct(list')
      /\ \A y : In(list', y) <=> In(list, y) \/ y = x
      /\ \A y, z : Precedes(list', y, z) <=>
           \/ Precedes(list, y, z) /\ y # x /\ z # x
           \/ z = x /\ y # x /\ In(list, y)
  BY <1>1a, <1>1b, MoveToBack
<1>3. \A r \in Readers : r # x
  BY ListFacts
<1>4. ver'[x] = clock' /\ \A y \in Routes \cup Readers : y # x => ver'[y] = ver[y]
  BY <1>1 DEF Inv, Types
<1>5. /\ clock \in Nat /\ Wrap \in Nat /\ clock' \in 0..(Wrap - 1)
      /\ clock + 1 = Wrap => clock' = 0
      /\ clock + 1 # Wrap => clock' = clock + 1
  <2>1. clock \in 0..(Wrap - 1) /\ Wrap \in Nat
    BY ListFacts
  <2>2. clock' = (clock + 1) % Wrap
    BY <1>1
  <2>3. clock' = IF clock + 1 = Wrap THEN 0 ELSE clock + 1
    BY <2>1, <2>2, NextVersion, Zenon
  <2> QED
    BY <2>1, <2>3
<1>6. clock + 1 = Wrap => ~Settled'
  BY <1>2, <1>4, <1>5 DEF Settled, Listed
<1>7. clock + 1 # Wrap => Settled'
  BY <1>1, <1>2, <1>4, <1>5 DEF Settled, Listed
<1>8. Types'
  BY <1>1, <1>2, <1>5 DEF Inv, Types
<1>9. ListInv'
  BY <1>1, <1>2 DEF Inv, ListInv, Listed
<1>10. UnseenInv'
  <2> SUFFICES ASSUME NEW r \in Readers, NEW y \in Routes, In(list', r)
               PROVE  y \in unseen'[r] <=> Precedes(list', r, y)
    BY DEF UnseenInv, Listed
  <2>1. In(list, r) /\ unseen'[r] = unseen[r] \cup {x}
    BY <1>1, <1>2, <1>3
  <2>2. y \in unseen[r] <=> Precedes(list, r, y)
    BY <2>1 DEF Inv, UnseenInv, Listed
  <2> QED
    BY <1>2, <1>3, <2>1, <2>2
<1>11. CallInv'
  BY <1>1, <1>2, <1>3, <1>7 DEF Inv, CallInv, Listed, Quiet
<1>12. \A r \in Readers : Given(r)' = Given(r) /\ (Exact(r)' <=> Exact(r))
  BY <1>1, <1>3, <1>4 DEF Given, Exact
<1>13. CASE clock + 1 = Wrap
  BY <1>6, <1>8, <1>9, <1>10, <1>11, <1>13 DEF Inv, VersionInv, GivenInv, AgainInv
<1>14. CASE clock + 1 # Wrap
  <2>1. clock' = clock + 1 /\ clock \in Nat
    BY <1>5, <1>14
  <2>2. \A y \in Routes \cup Readers : ver[y] \in Nat
    BY ListFacts
  <2>3. VersionInv'
    <3>1. ASSUME NEW y \in Routes \cup Readers, In(list', y)
          PROVE  ver'[y] <= clock'
      BY <1>1, <1>2, <1>4, <2>1, <2>2, <3>1 DEF Inv, VersionInv, Listed
    <3>2. ASSUME NEW y \in Routes, NEW z \in Routes, Precedes(list', y, z)
          PROVE  ver'[y] < ver'[z]
      <4>1. CASE z = x
        <5>1. In(list, y) /\ ver'[y] = ver[y] /\ ver'[z] = clock + 1
          BY <1>2, <1>4, <2>1, <3>2, <4>1
        <5>2. ver[y] <= clock
          BY <1>1, <5>1 DEF Inv, VersionInv, Listed
        <5> QED
          BY <2>1, <2>2, <5>1, <5>2
      <4>2. CASE z # x
        BY <1>1, <1>2, <1>4, <3>2, <4>2 DEF Inv, VersionInv
      <4> QED
        BY <4>1, <4>2
    <3> QED
      BY <3>1, <3>2 DEF VersionInv, Listed
  <2>4. GivenInv'
    <3>0. \A r \in Readers : Given(r) \in Nat
      BY DEF Inv, Types, Walks, Given
    <3>1. ASSUME NEW r \in Readers, In(list', r)
          PROVE  In(list, r) /\ Given(r) <= clock /\ Given(r)' <= clock'
      <4>1. In(list, r)
        BY <1>2, <1>3, <3>1
      <4>2. Given(r) <= clock
        BY <1>1, <4>1 DEF Inv, GivenInv, Listed
      <4> QED
        BY <1>12, <2>1, <3>0, <4>1, <4>2
    <3>2. ASSUME NEW r \in Readers, NEW y \in Routes, Exact(r)'
          PROVE  /\ Precedes(list', y, r) => ver'[y] <= Given(r)'
                 /\ Precedes(list', r, y) => Given(r)' < ver'[y]
      <4>1. CASE y = x
        <5>1. ~Precedes(list', y, r)
          BY <1>2, <1>3, <4>1
        <5>2. ASSUME Precedes(list', r, y)
              PROVE  Given(r)' < ver'[y]
          <6>1. Given(r) <= clock
            BY <3>1, <5>2, PrecedesIn
          <6> QED
            BY <1>4, <1>12, <2>1, <3>0, <4>1, <6>1
        <5> QED
          BY <5>1, <5>2
      <4>2. CASE y # x
        <5>1. Exact(r) /\ Given(r)' = Given(r)
          BY <1>12, <3>2
        <5> QED
          BY <1>1, <1>2, <1>3, <1>4, <4>2, <5>1 DEF Inv, GivenInv
      <4> QED
        BY <4>1, <4>2
    <3> QED
      BY <3>1, <3>2 DEF GivenInv, Listed
  <2>5. AgainInv'
    <3> SUFFICES ASSUME NEW r \in Readers, NEW y \in Routes, reading[r].at = "call",
                        ~reading[r].moved,
                        NEW w, w = reading[r].route, Precedes(list', w, r)
                 PROVE  /\ ~(Precedes(list', w, y) /\ Precedes(list', y, r))
                        /\ r \notin loose => /\ Precedes(list', y, w) => ver'[y] <= ver'[r]
                                            /\ ver'[r] < ver'[w]
      BY <1>1 DEF AgainInv
    <3>1. w \in Routes /\ w # x /\ Precedes(list, w, r)
      BY <1>2, <1>3 DEF Inv, CallInv
    <3>2. ver'[r] = ver[r] /\ ver'[w] = ver[w]
      BY <1>3, <1>4, <3>1
    <3>3. /\ ~(Precedes(list, w, y) /\ Precedes(list, y, r))
          /\ r \notin loose => /\ Precedes(list, y, w) => ver[y] <= ver[r]
                              /\ ver[r] < ver[w]
      BY <1>1, <3>1 DEF Inv, AgainInv
    <3>4. y # x => ver'[y] = ver[y]
      BY <1>4
    <3> QED
      BY <1>2, <1>3, <3>1, <3>2, <3>3, <3>4
  <2> QED
    BY <1>8, <1>9, <1>10, <1>11, <2>3, <2>4, <2>5 DEF Inv
<1> QED
  BY <1>13, <1>14

-----------------------------------------------------------------------------
(* Versions anew.                                                          *)

\* The places of the first n entries that hold a route.
RoutesUpTo(l, n) == {i \in 1..n : l[i] \in Routes}

\* No entry is twice, so they are no more than the routes.
LEMMA RoutesUpToBound ==
    ASSUME NEW S, NEW l \in Seq(S), Distinct(l), NEW n \in Nat, n <= Len(l)
    PROVE  /\ IsFiniteSet(RoutesUpTo(l, n))
           /\ Cardinality(RoutesUpTo(l, n)) \in 0..(Wrap - 1)
<1> DEFINE P == RoutesUpTo(l, n)
           f == [i \in P |-> l[i]]
<1>1. P \subseteq DOMAIN l /\ \A i \in P : l[i] \in Routes
  BY DEF RoutesUpTo
<1>2. IsFiniteSet(Routes) /\ Wrap \in Nat /\ Cardinality(Routes) < Wrap
  BY RadicalAssumption
<1> HIDE DEF P
<1>3. f \in Injection(P, Routes)
  <2>1. f \in [P -> Routes]
    BY <1>1
  <2>2. \A a, b \in P : f[a] = f[b] => a = b
    BY <1>1 DEF Distinct
  <2>3. DOMAIN f = P
    OBVIOUS
  <2> HIDE DEF f
  <2> QED
    BY <2>1, <2>2, <2>3 DEF Injection, IsInjective
<1> HIDE DEF f
<1>4. IsFiniteSet(P) /\ Cardinality(P) <= Cardinality(Routes)
  BY <1>2, <1>3, FS_Injection
<1>5. Cardinality(P) \in Nat /\ Cardinality(Routes) \in Nat
  BY <1>2, <1>4, FS_CardinalityType
<1>6. IsFiniteSet(P) /\ Cardinality(P) \in 0..(Wrap - 1)
  BY <1>2, <1>4, <1>5
<1> QED
  BY <1>6 DEF P

\* Further on in the list they are no fewer, and more behind a route.
LEMMA RoutesUpToMono ==
    ASSUME NEW S, NEW l \in Seq(S), Distinct(l), NEW m \in Nat, NEW n \in Nat, m <= n, n <= Len(l)
    PROVE  /\ Cardinality(RoutesUpTo(l, m)) <= Cardinality(RoutesUpTo(l, n))
           /\ m < n /\ l[n] \in Routes =>
                Cardinality(RoutesUpTo(l, m)) < Cardinality(RoutesUpTo(l, n))
<1> DEFINE P == RoutesUpTo(l, m)
           Q == RoutesUpTo(l, n)
<1>1. P \in SUBSET Q
  BY DEF RoutesUpTo
<1>2. m < n /\ l[n] \in Routes => n \in Q /\ n \notin P
  BY DEF RoutesUpTo
<1>3. m <= Len(l)
  OBVIOUS
<1>4. IsFiniteSet(P) /\ IsFiniteSet(Q)
  BY <1>3, RoutesUpToBound
<1> HIDE DEF P, Q
<1>5. Cardinality(P) <= Cardinality(Q) /\ (Cardinality(Q) = Cardinality(P) => Q = P)
  BY <1>1, <1>4, FS_Subset
<1>6. Cardinality(P) \in Nat /\ Cardinality(Q) \in Nat
  BY <1>4, FS_CardinalityType
<1>7. m < n /\ l[n] \in Routes => Cardinality(P) < Cardinality(Q)
  BY <1>2, <1>5, <1>6
<1> QED
  BY <1>5, <1>7 DEF P, Q

\* The numbers given to what is listed follow its order.
LEMMA NumbersFollow ==
    ASSUME NEW S, NEW l \in Seq(S), Distinct(l), NEW x, NEW y, Precedes(l, x, y)
    PROVE  /\ Cardinality(RoutesUpTo(l, At(l, x))) <= Cardinality(RoutesUpTo(l, At(l, y)))
           /\ y \in Routes =>
                Cardinality(RoutesUpTo(l, At(l, x))) < Cardinality(RoutesUpTo(l, At(l, y)))
<1>1. In(l, x) /\ In(l, y)
  BY PrecedesIn
<1>2. /\ At(l, x) \in DOMAIN l /\ At(l, y) \in DOMAIN l /\ l[At(l, y)] = y
      /\ At(l, x) < At(l, y)
  BY <1>1, AtIsPlace, AtOrder
<1> DEFINE m == At(l, x)
           n == At(l, y)
<1>3. m \in Nat /\ n \in Nat /\ m < n /\ m <= n /\ n <= Len(l) /\ l[n] = y
  BY <1>2
<1> HIDE DEF m, n
<1>4. /\ Cardinality(RoutesUpTo(l, m)) <= Cardinality(RoutesUpTo(l, n))
      /\ y \in Routes => Cardinality(RoutesUpTo(l, m)) < Cardinality(RoutesUpTo(l, n))
  BY <1>3, RoutesUpToMono
<1> QED
  BY <1>4 DEF m, n

\* The versions are given anew, from one, and no reader is in the middle.
LEMMA ProcVerWrapInv ==
    ASSUME Inv, ProcVerWrap
    PROVE  Inv'
<1> DEFINE num(y) == Cardinality(RoutesUpTo(list, At(list, y)))
<1>1. /\ ~Settled /\ UNCHANGED <<table, list, reading, unseen>> /\ loose' = {}
      /\ ver' = [x \in Routes \cup Readers |-> IF In(list, x) THEN num(x) ELSE ver[x]]
  BY DEF ProcVerWrap, RoutesUpTo, Listed
<1>2. clock' = Cardinality(RoutesUpTo(list, Len(list)))
  <2>1. DOMAIN list = 1..Len(list)
    BY ListFacts
  <2>2. {i \in DOMAIN list : list[i] \in Routes} = RoutesUpTo(list, Len(list))
    BY <2>1 DEF RoutesUpTo
  <2>3. clock' = Cardinality({i \in DOMAIN list : list[i] \in Routes})
    BY DEF ProcVerWrap
  <2> QED
    BY <2>2, <2>3
<1>3. \A r \in Readers : reading[r].at = "idle" /\ reading'[r].at = "idle"
  BY <1>1 DEF Inv, CallInv, Quiet
<1>4. ASSUME NEW y, In(list, y)
      PROVE  num(y) \in 0..(Wrap - 1) /\ num(y) <= clock' /\ (y \in Routes => num(y) > 0)
  <2>1. list \in Seq(Routes \cup Readers) /\ Distinct(list)
    BY ListFacts
  <2> DEFINE n == At(list, y)
  <2>2. n \in 1..Len(list) /\ list[n] = y
    BY <1>4, <2>1, AtIsPlace
  <2>3. n \in Nat /\ Len(list) \in Nat /\ n <= Len(list) /\ 0 < n /\ 0 <= n
    BY <2>1, <2>2
  <2> HIDE DEF n
  <2>4. Cardinality(RoutesUpTo(list, n)) \in 0..(Wrap - 1)
    BY <2>1, <2>3, RoutesUpToBound
  <2>5. Cardinality(RoutesUpTo(list, n)) <= clock'
    BY <1>2, <2>1, <2>3, RoutesUpToMono
  <2>6. Cardinality(RoutesUpTo(list, 0)) = 0
    <3>1. RoutesUpTo(list, 0) = {}
      BY DEF RoutesUpTo
    <3> QED
      BY <3>1, FS_EmptySet
  <2>7. y \in Routes => Cardinality(RoutesUpTo(list, 0)) < Cardinality(RoutesUpTo(list, n))
    BY <2>1, <2>2, <2>3, RoutesUpToMono
  <2>8. y \in Routes => Cardinality(RoutesUpTo(list, n)) > 0
    BY <2>4, <2>6, <2>7
  <2> QED
    BY <2>4, <2>5, <2>8 DEF n
<1>5. \A x, y : Precedes(list, x, y) => num(x) <= num(y) /\ (y \in Routes => num(x) < num(y))
  BY NumbersFollow, ListFacts
<1>6. clock' \in 0..(Wrap - 1)
  <2>1. list \in Seq(Routes \cup Readers) /\ Distinct(list) /\ Len(list) \in Nat
    BY ListFacts
  <2> QED
    BY <1>2, <2>1, RoutesUpToBound
<1> HIDE DEF num
<1>7. \A y \in Routes \cup Readers : In(list, y) => ver'[y] = num(y)
  BY <1>1
<1>8. Settled'
  <2>1. ASSUME NEW y \in Routes, In(list, y)
        PROVE  ver'[y] # 0
    BY <1>4, <1>7, <2>1
  <2> QED
    BY <1>1, <2>1 DEF Settled, Listed
<1>9. Types'
  <2>1. ver' \in [Routes \cup Readers -> 0..(Wrap - 1)]
    BY <1>1, <1>4, ListFacts
  <2> QED
    BY <1>1, <1>6, <2>1 DEF Inv, Types
<1>10. ListInv' /\ UnseenInv'
  BY <1>1 DEF Inv, ListInv, UnseenInv, Listed
<1>11. CallInv'
  BY <1>3, <1>8 DEF CallInv
<1>12. VersionInv'
  <2>1. ASSUME NEW y \in Routes \cup Readers, In(list, y)
        PROVE  ver'[y] <= clock'
    BY <1>4, <1>7, <2>1
  <2>2. ASSUME NEW x \in Routes, NEW y \in Routes, Precedes(list, x, y)
        PROVE  ver'[x] < ver'[y]
    BY <1>5, <1>7, <2>2, PrecedesIn
  <2> QED
    BY <1>1, <2>1, <2>2 DEF VersionInv, Listed
<1>13. GivenInv'
  <2>1. ASSUME NEW r \in Readers
        PROVE  Given(r)' = ver'[r]
    BY <1>3 DEF Given
  <2>2. ASSUME NEW r \in Readers, In(list, r)
        PROVE  Given(r)' <= clock'
    BY <1>4, <1>7, <2>1, <2>2
  <2>3. ASSUME NEW r \in Readers, NEW x \in Routes
        PROVE  /\ Precedes(list, x, r) => ver'[x] <= Given(r)'
               /\ Precedes(list, r, x) => Given(r)' < ver'[x]
    BY <1>5, <1>7, <2>1, PrecedesIn
  <2> QED
    BY <1>1, <2>2, <2>3 DEF GivenInv, Listed
<1>14. AgainInv'
  BY <1>3 DEF AgainInv
<1> QED
  BY <1>9, <1>10, <1>11, <1>12, <1>13, <1>14 DEF Inv

-----------------------------------------------------------------------------
(* The invariant holds.                                                    *)

\* Nothing is listed at the start.
LEMMA InitInv == Init => Inv
<1> SUFFICES ASSUME Init
             PROVE  Inv
  OBVIOUS
<1>1. /\ table = {} /\ list = <<>> /\ clock = 0
      /\ ver = [x \in Routes \cup Readers |-> 0]
      /\ reading = [r \in Readers |-> NotReading]
      /\ unseen = [r \in Readers |-> {}] /\ loose = {}
  BY DEF Init
<1>2. list \in Seq(Routes \cup Readers) /\ DOMAIN list = {}
  BY <1>1
<1>3. \A x, y : ~In(list, x) /\ ~Precedes(list, x, y)
  BY <1>2 DEF In, Precedes
<1>4. 0 \in 0..(Wrap - 1)
  <2>1. Cardinality(Routes) \in Nat
    BY RadicalAssumption, FS_CardinalityType
  <2> QED
    BY <2>1, RadicalAssumption
<1>5. Types
  BY <1>1, <1>2, <1>4 DEF Types, Walks, NotReading
<1>6. ListInv
  BY <1>2, <1>3 DEF ListInv, Distinct, Listed
<1>7. UnseenInv /\ VersionInv /\ GivenInv /\ AgainInv
  BY <1>3 DEF UnseenInv, VersionInv, GivenInv, AgainInv, Listed
<1>8. CallInv
  <2>1. \A r \in Readers : reading[r].at = "idle"
    BY <1>1 DEF NotReading
  <2> QED
    BY <2>1 DEF CallInv, Quiet
<1> QED
  BY <1>5, <1>6, <1>7, <1>8 DEF Inv

\* Every step keeps it.
LEMMA NextInv == Inv /\ [Next]_rvars => Inv'
<1> SUFFICES ASSUME Inv, [Next]_rvars
             PROVE  Inv'
  OBVIOUS
<1>1. ASSUME NEW x \in Routes, InTree(x)
      PROVE  Inv'
  BY <1>1, InTreeInv
<1>2. ASSUME NEW x \in Routes, Remove(x)
      PROVE  Inv'
  BY <1>2, RemoveInv
<1>3. ASSUME NEW x \in Routes, AppendToChangeList(x)
      PROVE  Inv'
  BY <1>3, AppendInv
<1>4. CASE ProcVerWrap
  BY <1>4, ProcVerWrapInv
<1>5. ASSUME NEW r \in Readers, WalkConstructor(r)
      PROVE  Inv'
  BY <1>5, WalkConstructorInv
<1>6. ASSUME NEW r \in Readers, WalkDestructor(r)
      PROVE  Inv'
  BY <1>6, WalkDestructorInv
<1>7. ASSUME NEW r \in Readers, NEW a \in Readers, WalkConstructorAfter(r, a)
      PROVE  Inv'
  BY <1>7, WalkConstructorAfterInv
<1>8. ASSUME NEW r \in Readers, NEW max \in 0..(Wrap - 1), Walk(r, max)
      PROVE  Inv'
  BY <1>8, WalkInv
<1>9. ASSUME NEW r \in Readers, GoOn(r)
      PROVE  Inv'
  BY <1>9, GoOnInv
<1>10. ASSUME NEW r \in Readers, Stop(r)
       PROVE  Inv'
  BY <1>10, StopInv
<1>11. ASSUME NEW r \in Readers, Again(r)
       PROVE  Inv'
  BY <1>11, AgainStepInv
<1>12. CASE UNCHANGED rvars
  <2>1. UNCHANGED <<table, list, ver, clock, reading, unseen, loose>>
    BY <1>12 DEF rvars
  <2>2. Types' /\ ListInv' /\ UnseenInv'
    BY <2>1 DEF Inv, Types, ListInv, UnseenInv, Listed
  <2>3. CallInv' /\ VersionInv'
    BY <2>1 DEF Inv, CallInv, VersionInv, Listed, Settled, Quiet
  <2>4. GivenInv' /\ AgainInv'
    BY <2>1 DEF Inv, GivenInv, AgainInv, Given, Exact, Listed, Settled
  <2> QED
    BY <2>2, <2>3, <2>4 DEF Inv
<1> QED
  BY <1>1, <1>2, <1>3, <1>4, <1>5, <1>6, <1>7, <1>8, <1>9, <1>10, <1>11, <1>12 DEF Next

\* The invariant of the change list.
THEOREM InvHolds == Spec => []Inv
BY InitInv, NextInv, PTL DEF Spec

\* Variables keep their types: versions stay below the width they wrap at, also
\* when they are given anew.
THEOREM TypeCorrect == Spec => []TypeOK
<1>1. Inv => TypeOK
  <2> SUFFICES ASSUME Inv
               PROVE  TypeOK
    OBVIOUS
  <2>1. \A i \in DOMAIN list : list[i] \in Routes \cup Readers
    BY DEF Inv, Types
  <2>2. \A r \in Readers : reading[r].at \in {"idle", "call"}
    BY DEF Inv, Types, Walks
  <2> QED
    BY <2>1, <2>2 DEF Inv, Types, TypeOK
<1> QED
  BY <1>1, InvHolds, PTL

\* However changes, removals, other readers and callbacks that stop or ask again
\* interleave with its walks, what is behind a reader's marker is what it has
\* still to be given (std_radical_walkchangelist).
THEOREM ChangesSeen == Spec => []NoMissedChange
<1>1. Inv => NoMissedChange
  <2> SUFFICES ASSUME Inv, NEW r \in Readers, In(list, r)
               PROVE  unseen[r] = {x \in Routes : In(list, x) /\ At(list, x) > At(list, r)}
    BY DEF NoMissedChange, Listed
  <2>1. unseen[r] \subseteq Routes
    BY DEF Inv, Types
  <2>2. ASSUME NEW x \in Routes
        PROVE  x \in unseen[r] <=> In(list, x) /\ At(list, x) > At(list, r)
    <3>1. x \in unseen[r] <=> Precedes(list, r, x)
      BY DEF Inv, UnseenInv, Listed
    <3>2. In(list, x) => (At(list, r) < At(list, x) <=> Precedes(list, r, x))
      BY AtOrder, ListFacts
    <3>3. Precedes(list, r, x) => In(list, x)
      BY PrecedesIn
    <3>4. In(list, x) => At(list, x) \in Int /\ At(list, r) \in Int
      BY AtIsPlace, ListFacts
    <3> QED
      BY <3>1, <3>2, <3>3, <3>4
  <2> QED
    BY <2>1, <2>2
<1> QED
  BY <1>1, InvHolds, PTL

\* The list holds routes of the tree, each once, in the order of their versions
\* (std_radical_appendtochangelist, std_radical_procverwrap).
THEOREM ChangesInOrder == Spec => []OldestFirst
<1>1. Inv => OldestFirst
  <2> SUFFICES ASSUME Inv
               PROVE  OldestFirst
    OBVIOUS
  <2>1. \A i, j \in DOMAIN list : i < j => list[i] # list[j]
    <3>1. DOMAIN list \subseteq Int
      BY ListFacts
    <3> QED
      BY <3>1, ListFacts DEF Distinct
  <2>2. \A x \in Routes : Listed(x) => x \in table
    BY DEF Inv, ListInv
  <2>3. ASSUME Settled, NEW x \in Routes, NEW y \in Routes, In(list, x), In(list, y)
        PROVE  At(list, x) < At(list, y) <=> ver[x] < ver[y]
    <3>1. At(list, x) < At(list, y) <=> Precedes(list, x, y)
      BY <2>3, AtOrder, ListFacts
    <3>2. Precedes(list, x, y) => ver[x] < ver[y]
      BY <2>3 DEF Inv, VersionInv
    <3>3. Precedes(list, y, x) => ver[y] < ver[x]
      BY <2>3 DEF Inv, VersionInv
    <3>4. x = y \/ Precedes(list, x, y) \/ Precedes(list, y, x)
      BY <2>3, Order, ListFacts
    <3>5. ver[x] \in Nat /\ ver[y] \in Nat
      BY ListFacts
    <3> QED
      BY <3>1, <3>2, <3>3, <3>4, <3>5
  <2>4. ASSUME Settled, NEW x \in Routes, In(list, x)
        PROVE  ver[getfirst(list)] <= ver[x]
    <3> DEFINE z == getfirst(list)
    <3>1. z = x \/ (z \in Routes /\ Precedes(list, z, x))
      BY <2>4, FirstIs, ListFacts
    <3> HIDE DEF z
    <3>2. z \in Routes /\ Precedes(list, z, x) => ver[z] < ver[x]
      BY <2>4 DEF Inv, VersionInv
    <3>3. ver[x] \in Nat /\ (z \in Routes => ver[z] \in Nat)
      BY ListFacts
    <3>4. ver[z] <= ver[x]
      BY <3>1, <3>2, <3>3
    <3> QED
      BY <3>4 DEF z
  <2> QED
    BY <2>1, <2>2, <2>3, <2>4 DEF OldestFirst, Listed
<1> QED
  BY <1>1, InvHolds, PTL

\* std_radical_nextversion is zero only when nothing is to come, and the version
\* of a marker parts the changes its reader has had from those to come, unless
\* it was placed anew in its own callback or behind one in the middle of a
\* callback, and no walk of its reader has brought the two together since.
THEOREM VersionParts == Spec => []MarkerVersion
<1>1. Inv => MarkerVersion
  <2> SUFFICES ASSUME Inv, Settled, NEW r \in Readers, In(list, r)
               PROVE  /\ nextversion(r) = 0 <=> unseen[r] = {}
                      /\ reading[r].at = "idle" /\ r \notin loose =>
                           /\ \A x \in Routes : In(list, x) =>
                                (At(list, x) < At(list, r) <=> ver[x] <= ver[r])
                           /\ nextversion(r) # 0 => nextversion(r) > ver[r]
    BY DEF MarkerVersion, Listed
  <2> DEFINE y == getnext(list, r)
  <2>1. nextversion(r) = IF y = None THEN 0 ELSE ver[y]
    BY DEF nextversion
  <2> HIDE DEF y
  <2>2. /\ y = None => \A x \in Routes : ~Precedes(list, r, x)
        /\ y # None => y \in Routes /\ Precedes(list, r, y)
    BY NextIs, ListFacts DEF y
  <2>3. unseen[r] \subseteq Routes /\ \A x \in Routes : x \in unseen[r] <=> Precedes(list, r, x)
    BY DEF Inv, Types, UnseenInv, Listed
  <2>4. y # None => ver[y] \in Nat /\ ver[y] # 0 /\ nextversion(r) = ver[y]
    <3>1. y # None => In(list, y)
      BY <2>2, PrecedesIn
    <3> QED
      BY <2>1, <2>2, <3>1, ListFacts DEF Settled, Listed
  <2>5. nextversion(r) = 0 <=> unseen[r] = {}
    BY <2>1, <2>2, <2>3, <2>4
  <2>6. ASSUME reading[r].at = "idle", r \notin loose
        PROVE  /\ \A x \in Routes : In(list, x) =>
                    (At(list, x) < At(list, r) <=> ver[x] <= ver[r])
               /\ nextversion(r) # 0 => nextversion(r) > ver[r]
    <3>1. ver[r] \in Nat /\ Given(r) = ver[r] /\ Exact(r)
      BY <2>6, ListFacts DEF Given, Exact
    <3>2. ASSUME NEW x \in Routes
          PROVE  /\ Precedes(list, x, r) => ver[x] <= ver[r]
                 /\ Precedes(list, r, x) => ver[r] < ver[x]
      BY <3>1 DEF Inv, GivenInv
    <3>3. ASSUME NEW x \in Routes, In(list, x)
          PROVE  At(list, x) < At(list, r) <=> ver[x] <= ver[r]
      <4>1. At(list, x) < At(list, r) <=> Precedes(list, x, r)
        BY <3>3, AtOrder, ListFacts
      <4>2. Precedes(list, x, r) \/ Precedes(list, r, x)
        BY <3>3, Order, ListFacts
      <4>3. ver[x] \in Nat
        BY ListFacts
      <4> QED
        BY <3>1, <3>2, <4>1, <4>2, <4>3
    <3>4. y # None => ver[r] < ver[y]
      BY <2>2, <3>2
    <3>5. nextversion(r) # 0 => nextversion(r) > ver[r]
      BY <2>1, <2>4, <3>1, <3>4
    <3> QED
      BY <3>3, <3>5
  <2> QED
    BY <2>5, <2>6
<1> QED
  BY <1>1, InvHolds, PTL
=============================================================================
