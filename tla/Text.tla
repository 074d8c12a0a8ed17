-------------------------------- MODULE Text --------------------------------
(***************************************************************************)
(* std_string_utils.cpp: a string is taken apart at a delimiter, where an  *)
(* escape before it may keep it.  A string is a sequence of Delim, Esc and *)
(* other characters.                                                       *)
(***************************************************************************)
EXTENDS Integers, Sequences, SequencesExt

CONSTANTS
    Delim, Esc, \* one character each
    Others,     \* a set of other characters
    MaxLen,     \* bound: length of strings
    None

VARIABLE x      \* [given: a string, plain, escaped: its tokens with either parser]

Strings == UNION {[1..n -> Others \cup {Delim, Esc}] : n \in 0..MaxLen}

\* The first place of ch in s from place i on, zero for none: std::string::find.
FindFrom(s, ch, i) == LET j == SelectInSeq(SubSeq(s, i, Len(s)), LAMBDA y : y = ch)
                      IN  IF j = 0 THEN 0 ELSE i + j - 1

\* The loop of the two parsers; at(s, ix) is the place of the next delimiter.
\* Nothing comes behind a delimiter at the end.
Tokens(s, at(_, _)) ==
    LET from[ix \in 1..(Len(s) + 2)] ==
          IF ix > Len(s) THEN <<>>
          ELSE LET e == IF at(s, ix) = 0 THEN Len(s) + 1 ELSE at(s, ix)
               IN  <<SubSeq(s, ix, e - 1)>> \o from[e + 1]
    IN  from[1]

\* Mutant: empty tokens are left out.
parse_string_NoEmpty(s) ==
    SelectSeq(Tokens(s, LAMBDA t, ix : FindFrom(t, Delim, ix)), LAMBDA t : t # <<>>)

\* std_parse_string
parse_string(s) == Tokens(s, LAMBDA t, ix : FindFrom(t, Delim, ix))

\* Mutant: the search goes on at the delimiter that was escaped.
find_string_with_esc_Stops(s, ix) ==
    LET go[i \in 1..(Len(s) + 1)] ==
          LET e == FindFrom(s, Delim, i)
          IN  IF e = 0 \/ FindFrom(s, Esc, i) = 0 THEN e
              ELSE IF e = 1 THEN 0
              ELSE IF s[e - 1] = Esc THEN 0 ELSE e
    IN  IF ix > Len(s) THEN 0 ELSE go[ix]

\* Mutant: the character before is compared although there is no escape.
find_string_with_esc_Throws(s, ix) ==
    LET go[i \in 1..(Len(s) + 1)] ==
          LET e == FindFrom(s, Delim, i)
          IN  IF e <= 1 THEN 0
              ELSE IF s[e - 1] = Esc THEN go[e + 1] ELSE e
    IN  IF ix > Len(s) THEN 0 ELSE go[ix]

\* std_find_string_with_esc; the compare before the first character throws, and
\* nothing is found.
find_string_with_esc(s, ix) ==
    LET go[i \in 1..(Len(s) + 1)] ==
          LET e == FindFrom(s, Delim, i)
          IN  IF e = 0 \/ FindFrom(s, Esc, i) = 0 THEN e
              ELSE IF e = 1 THEN 0
              ELSE IF s[e - 1] = Esc THEN go[e + 1] ELSE e
    IN  IF ix > Len(s) THEN 0 ELSE go[ix]

\* std_string_replace_with_esc: escapes right before a delimiter are dropped,
\* one after the other.
replace_with_esc(s) ==
    LET from[i \in 1..(Len(s) + 1)] ==
          IF i > Len(s) THEN <<>>
          ELSE IF i < Len(s) /\ s[i] = Esc /\ s[i + 1] = Delim THEN from[i + 1]
          ELSE <<s[i]>> \o from[i + 1]
    IN  from[1]

\* std_parse_string_with_esc
parse_string_with_esc(s) ==
    LET tokens == Tokens(s, find_string_with_esc)
    IN  [i \in DOMAIN tokens |-> replace_with_esc(tokens[i])]

Init == \E s \in Strings : x = [given |-> s, plain |-> None, escaped |-> None]

Parse == /\ x.plain = None
         /\ x' = [x EXCEPT !.plain = parse_string(x.given),
                           !.escaped = parse_string_with_esc(x.given)]

Next == Parse

Spec == Init /\ [][Next]_x
-----------------------------------------------------------------------------
(* Properties.                                                             *)

Join(tokens, d) == IF tokens = <<>> THEN <<>>
                   ELSE FoldLeft(LAMBDA s, t : s \o d \o t, Head(tokens), Tail(tokens))

Escape(t) == FlattenSeq([i \in DOMAIN t |-> IF t[i] = Delim THEN <<Esc, Delim>> ELSE <<t[i]>>])

\* The tokens are the pieces of the string: joined again they give it back, but
\* for a delimiter at its end.
PiecesJoin ==
    x.plain # None =>
        Join(x.plain, <<Delim>>) = IF x.given # <<>> /\ Last(x.given) = Delim
                                   THEN Front(x.given) ELSE x.given

Escapes(s) == \E i \in DOMAIN s : s[i] = Esc

\* A writer that escapes each delimiter of its tokens gets them back, if it has
\* no escape of its own in them, the first token is not empty and the last is
\* not.
EscapedComeBack ==
    \A i \in DOMAIN x.given :
        LET first == SubSeq(x.given, 1, i)
            second == SubSeq(x.given, i + 1, Len(x.given))
        IN  ~Escapes(x.given) /\ second # <<>> =>
              parse_string_with_esc(Join(<<Escape(first), Escape(second)>>, <<Delim>>))
                = <<first, second>>

\* Without escapes the two parsers agree.
ParsersAgree == x.plain # None /\ ~Escapes(x.given) => x.plain = x.escaped
=============================================================================
