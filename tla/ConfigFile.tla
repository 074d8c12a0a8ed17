----------------------------- MODULE ConfigFile -----------------------------
(***************************************************************************)
(* std_config_file.cpp: values by group and key, written to a file of      *)
(* [group] and key=value lines and read back by taking the lines apart.    *)
(* Texts are short sequences of the characters the format cares about.     *)
(***************************************************************************)
EXTENDS Integers, Sequences, SequencesExt, FiniteSets

CONSTANTS
    Groups, Keys, Values,   \* texts that the caller sets; no line breaks
    MaxPairs,               \* bound: pairs of a file
    LineMax,                \* BUFF_LEN - 1: what fgets takes at most
    None

VARIABLE c      \* [map: the handle's pairs, or None; file: its text, or None;
                \*  whole: history, the pairs of the last write without a fault;
                \*  glued: history, whether the last write left a cut line with
                \*  others behind it]

Init == c = [map |-> {}, file |-> None, whole |-> None, glued |-> FALSE]

\* A pair is a group, a key and a value; in a map a group and a key have one.
Pair(g, k, x) == [group |-> g, key |-> k, value |-> x]
Put(map, p) == {q \in map : q.group # p.group \/ q.key # p.key} \cup {p}
GroupsOf(map) == {p.group : p \in map}

\* std_config_file_get, std_config_file_get_num_keys, and
\* std_config_file_get_keys with room for len keys
get(map, g, k) == IF \E p \in map : p.group = g /\ p.key = k
                  THEN (CHOOSE p \in map : p.group = g /\ p.key = k).value ELSE None
get_num_keys(map, g) == Cardinality({p \in map : p.group = g})
get_keys(map, g, len) == IF g \notin GroupsOf(map) \/ get_num_keys(map, g) > len THEN None
                         ELSE {p.key : p \in {q \in map : q.group = g}}

\* std_config_file_create, after a close or at first
Create == c.map = None /\ c' = [c EXCEPT !.map = {}]

Close == c.map # None /\ c' = [c EXCEPT !.map = None]

\* std_config_file_set.  Bound: values are set before the first write.
Set(p) == /\ c.map # None /\ c.file = None /\ Cardinality(Put(c.map, p)) <= MaxPairs
          /\ c' = [c EXCEPT !.map = Put(@, p)]

Header(g) == <<"[">> \o g \o <<"]">>
Line(p) == p.key \o <<"=">> \o p.value
EndLine(line) == Append(line, "\n")

\* The lines of one group, in the order of its map.
Section(map, g) == <<EndLine(Header(g))>> \o [i \in 1..get_num_keys(map, g) |->
                     EndLine(Line(SetToSeq({p \in map : p.group = g})[i]))]

\* A section of which the line numbered fault.line fails, with the first
\* fault.put characters of it in the file.
Cut(section, fault) == FlattenSeq(SubSeq(section, 1, fault.line - 1))
                       \o SubSeq(section[fault.line], 1, fault.put)

\* Mutant: without a header it goes on with the next group, too.
Written_GoesOn(map, fault) ==
    LET groups == SetToSeq(GroupsOf(map))
    IN  FlattenSeq([i \in DOMAIN groups |->
          LET s == Section(map, groups[i])
          IN  IF i # fault.group THEN FlattenSeq(s)
              ELSE Cut(s, fault) \o FlattenSeq(SubSeq(s, fault.line + 1, Len(s)))])

\* std_config_file_write, when a line fails: without a header it stops, without
\* a pair it goes on with the next group.
Written(map, fault) ==
    LET groups == SetToSeq(GroupsOf(map))
        reached == IF fault.line = 1 THEN SubSeq(groups, 1, fault.group) ELSE groups
    IN  FlattenSeq([i \in DOMAIN reached |->
          LET s == Section(map, reached[i])
          IN  IF i = fault.group THEN Cut(s, fault) ELSE FlattenSeq(s)])

\* Bound: at most one line of a write fails.
NoFault == [group |-> 0, line |-> 0, put |-> 0]
Faults(map) ==
    LET groups == SetToSeq(GroupsOf(map))
        FaultsOf(i) == LET s == Section(map, groups[i])
                       IN  UNION {{[group |-> i, line |-> n, put |-> k] :
                                     k \in 0..(Len(s[n]) - 1)} : n \in DOMAIN s}
    IN  {NoFault} \cup UNION {FaultsOf(i) : i \in DOMAIN groups}

\* What fclose cannot flush is not noticed: the end of the text may be lost.
Write == c.map # None /\ \E f \in Faults(c.map) :
    LET text == Written(c.map, f)
    IN  \E len \in (IF f = NoFault THEN 0 ELSE Len(text))..Len(text) :
          c' = [c EXCEPT !.file = SubSeq(text, 1, len),
                         !.whole = IF f = NoFault /\ len = Len(text) THEN c.map ELSE None,
                         !.glued = /\ f.line > 1 /\ f.put > 0
                                   /\ f.group < Cardinality(GroupsOf(c.map))]

Find(text, ch) == SelectInSeq(text, LAMBDA x : x = ch)

trim(text) == LET solid == {i \in DOMAIN text : text[i] \notin {" ", "\n"}}
              IN  IF solid = {} THEN <<>>
                  ELSE SubSeq(text, CHOOSE i \in solid : \A j \in solid : i <= j,
                                    CHOOSE i \in solid : \A j \in solid : i >= j)

\* Mutant: the value ends at the next equals sign.
load_line_Cuts(s, line) ==
    LET eq == Find(line, "=")
        rest == SubSeq(line, eq + 1, Len(line))
        cut == IF Find(rest, "=") = 0 THEN rest ELSE SubSeq(rest, 1, Find(rest, "=") - 1)
    IN  IF Find(line, "[") = 1 /\ Find(line, "]") # 0
        THEN [s EXCEPT !.group = SubSeq(line, 2, Find(line, "]") - 1)]
        ELSE IF eq = 0 THEN s
        ELSE [s EXCEPT !.map = Put(@, Pair(s.group, trim(SubSeq(line, 1, eq - 1)), trim(cut)))]

\* A line of load_file: s is the pairs and the group so far.
load_line(s, line) ==
    LET eq == Find(line, "=")
    IN  IF Find(line, "[") = 1 /\ Find(line, "]") # 0
        THEN [s EXCEPT !.group = SubSeq(line, 2, Find(line, "]") - 1)]
        ELSE IF eq = 0 THEN s
        ELSE [s EXCEPT !.map = Put(@, Pair(s.group, trim(SubSeq(line, 1, eq - 1)),
                                           trim(SubSeq(line, eq + 1, Len(line)))))]

\* What fgets gives one after the other: a longer line comes in pieces.
Pieces(text) ==
    LET Take(s, ch) == IF ch = "\n" \/ Len(s.last) + 1 = LineMax
                       THEN [all |-> Append(s.all, Append(s.last, ch)), last |-> <<>>]
                       ELSE [s EXCEPT !.last = Append(@, ch)]
        end == FoldLeft(Take, [all |-> <<>>, last |-> <<>>], text)
    IN  IF end.last = <<>> THEN end.all ELSE Append(end.all, end.last)

load_file(text) == FoldLeft(load_line, [map |-> {}, group |-> <<>>], Pieces(text)).map

\* std_config_file_open; without a file the handle is freed again.
Open == /\ c.map = None /\ c.file # None
        /\ c' = [c EXCEPT !.map = load_file(c.file)]

Next == Create \/ Close \/ Write \/ Open
        \/ \E g \in Groups, k \in Keys, x \in Values : Set(Pair(g, k, x))

Spec == Init /\ [][Next]_c
-----------------------------------------------------------------------------
(* Properties.                                                             *)

\* Texts that the format keeps apart: a group without a closing bracket, a key
\* without an equals sign that does not pass for a header, neither key nor
\* value with blanks around it; and lines that fgets takes whole, for a longer
\* one is read as several.
Plain(p) == /\ Find(p.group, "]") = 0 /\ Find(p.key, "=") = 0
            /\ Find(p.key, "[") # 1 \/ (Find(p.key, "]") = 0 /\ Find(p.value, "]") = 0)
            /\ trim(p.key) = p.key /\ trim(p.value) = p.value
            /\ Len(Header(p.group)) <= LineMax /\ Len(Line(p)) <= LineMax

\* Pairs of such texts that were written without a fault are read back as they
\* were, group by group and value by value, whatever was in the file before.
ReadsBack ==
    c.whole # None /\ (\A p \in c.whole : Plain(p)) =>
        LET map == load_file(c.file)
        IN  /\ map = c.whole
            /\ \A g \in Groups : get_keys(map, g, MaxPairs) # None <=> get_num_keys(map, g) # 0
            /\ \A p \in c.whole : get(map, p.group, p.key) = p.value

\* A write of such texts, with groups that do not pass for a key when they are
\* cut, leaves no pair in another group than it was set in when it fails at a
\* line or the end of it is lost; of one pair the end of the value may be
\* missing.  But not when a part of the failed line is in the file and another
\* group's header follows it, which is then not seen as one.
Unmixed ==
    c'.file # c.file /\ ~c'.glued /\ (\A p \in c.map : Plain(p) /\ Find(p.group, "=") = 0) =>
        LET map == load_file(c'.file)
        IN  /\ Cardinality(map \ c.map) <= 1
            /\ \A q \in map : \E p \in c.map :
                 q.group = p.group /\ q.key = p.key /\ IsPrefix(q.value, p.value)

NothingMixed == [][Unmixed]_c
=============================================================================
