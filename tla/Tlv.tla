-------------------------------- MODULE Tlv --------------------------------
(***************************************************************************)
(* Attributes in a buffer (std_tlv.h): tag, length and content one after   *)
(* the other, where the content may be attributes again.  The caller adds  *)
(* to an inner buffer and to an outer one, or adds what the inner one      *)
(* holds to the outer one.  A cell of a buffer holds a tag, a length or a  *)
(* byte of content; pointers are cell numbers, and null is zero.           *)
(***************************************************************************)
EXTENDS Integers, Sequences, SequencesExt

CONSTANTS
    Tags,
    Lengths,    \* lengths of plain contents
    Size,       \* cells of each buffer
    Garbage     \* a cell nothing was written to; content is also that

VARIABLE v      \* see Init

HDR == 2        \* STD_TLV_HDR_LEN

Fresh == [cells |-> [i \in 1..Size |-> Garbage], at |-> 1, left |-> Size,
          added |-> <<>>]       \* history: the attributes added

Init == v = [outer |-> Fresh, inner |-> Fresh]

\* std_tlv_tag, std_tlv_len, std_tlv_total_len, std_tlv_data
tag(cells, p) == cells[p]
len(cells, p) == cells[p + 1]
total_len(cells, p) == len(cells, p) + HDR
data(p) == p + HDR

\* std_tlv_add: a buffer without room stays as it is.
Add(buf, t, content, attr) ==
    LET need == Len(content) + HDR
        new == <<t, Len(content)>> \o content
    IN  IF buf.left < need THEN buf
        ELSE [cells |-> [i \in 1..Size |-> IF i \in buf.at..(buf.at + need - 1)
                                           THEN new[i - buf.at + 1] ELSE buf.cells[i]],
              at |-> buf.at + need, left |-> buf.left - need, added |-> Append(buf.added, attr)]

Plain(n) == [i \in 1..n |-> Garbage]
Used(buf) == SubSeq(buf.cells, 1, buf.at - 1)

AddInner(t, n) ==
    v' = [v EXCEPT !.inner = Add(@, t, Plain(n), [tag |-> t, size |-> n, in |-> <<>>])]
AddOuter(t, n) ==
    v' = [v EXCEPT !.outer = Add(@, t, Plain(n), [tag |-> t, size |-> n, in |-> <<>>])]
AddNested(t) ==
    /\ v.inner.added # <<>>
    /\ v' = [outer |-> Add(v.outer, t, Used(v.inner),
                           [tag |-> t, size |-> v.inner.at - 1, in |-> v.inner.added]),
             inner |-> Fresh]

Next == \E t \in Tags : AddNested(t) \/ \E n \in Lengths : AddInner(t, n) \/ AddOuter(t, n)

Spec == Init /\ [][Next]_v

\* What the searches work on: a pointer and the length behind it.  An
\* attribute's tag and length are read before its length is known to fit.
At(p, n) == [at |-> p, left |-> n]
Null == At(0, 0)

valid(cells, x) == x.at # 0 /\ x.left # 0 /\ x.left >= total_len(cells, x.at)

\* std_tlv_next
next(cells, x) == IF x.left < total_len(cells, x.at) THEN Null
                  ELSE At(x.at + total_len(cells, x.at), x.left - total_len(cells, x.at))

\* Mutant: the length left is not that behind the attribute found.
find_next_Length(cells, x, t) ==
    LET go[y \in [at : 0..(Size + 1), left : 0..Size]] ==
          IF ~valid(cells, y) THEN Null
          ELSE IF tag(cells, y.at) = t THEN At(y.at, x.left) ELSE go[next(cells, y)]
    IN  go[x]

find_next(cells, x, t) ==
    LET go[y \in [at : 0..(Size + 1), left : 0..Size]] ==
          IF ~valid(cells, y) THEN Null
          ELSE IF tag(cells, y.at) = t THEN y ELSE go[next(cells, y)]
    IN  go[x]

\* std_tlv_efind; the length is left as it was when nothing is found.
efind(cells, x, tags) ==
    IF Len(tags) = 1 THEN find_next(cells, x, tags[1])
    ELSE LET y == find_next(cells, x, tags[1])
         IN  IF y = Null THEN Null
             ELSE find_next(cells, At(data(y.at), len(cells, y.at)), tags[2])
-----------------------------------------------------------------------------
(* Properties.                                                             *)

\* The cells an attribute takes, and where the first with tag t begins, in
\* attributes that begin at cell p.
Span(attrs) == FoldLeft(LAMBDA n, a : n + a.size + HDR, 0, attrs)
First(attrs, t) == SelectInSeq(attrs, LAMBDA a : a.tag = t)
Begin(attrs, i, p) == p + Span(SubSeq(attrs, 1, i - 1))

Expected(attrs, t, p) ==
    LET i == First(attrs, t)
    IN  IF i = 0 THEN Null
        ELSE At(Begin(attrs, i, p), Span(SubSeq(attrs, i, Len(attrs))))

\* In a buffer that calls of std_tlv_add filled, until there was no room, and
\* whatever was refused on the way, a search for a tag finds the first
\* attribute of that tag, and one for two tags the first such attribute inside
\* the first of the outer tag; the length it leaves is that of the attributes
\* from there on, at that level.
FindsFirst ==
    LET whole == At(1, Size - v.outer.left)
        attrs == v.outer.added
    IN  \A t \in Tags :
          /\ efind(v.outer.cells, whole, <<t>>) = Expected(attrs, t, 1)
          /\ \A u \in Tags :
               LET i == First(attrs, t)
               IN  i # 0 /\ (attrs[i].in # <<>> \/ attrs[i].size = 0) =>
                     efind(v.outer.cells, whole, <<t, u>>) =
                        Expected(attrs[i].in, u, data(Begin(attrs, i, 1)))
=============================================================================
