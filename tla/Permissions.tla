----------------------------- MODULE Permissions -----------------------------
(***************************************************************************)
(* std_user_chmod (std_user_perm.cpp): the mode of a file changed by a     *)
(* string of clauses without anything between them.  A clause is at most   *)
(* one of a, u, g, o, at most one of +, -, = and letters of r, w, x.       *)
(***************************************************************************)
EXTENDS Integers, Sequences, SequencesExt

CONSTANTS
    Strings     \* strings of those characters and of others

VARIABLE p      \* [mode: of the file; path: it is there; ret: of the last call;
                \*  asked: history, its string]

Classes == {"u", "g", "o"}
Letters == {"r", "w", "x"}
Operations == {"=", "+", "-"}

\* The bits of a mode, all_mode_mask.
Modes == Classes \X Letters

\* _perm_map
perm(user, letter) == (IF user = "a" THEN Classes ELSE {user}) \X {letter}

\* _chomp from place i: [ok, next, op, bits]
chomp(s, i) ==
    LET at(j) == IF j > Len(s) THEN "end" ELSE s[j]
        named == at(i) \in Classes \cup {"a"}
        user == IF named THEN at(i) ELSE "u"
        j == IF named THEN i + 1 ELSE i
        k == IF at(j) \in Operations THEN j + 1 ELSE j
        last == CHOOSE n \in k..(Len(s) + 1) :
                  at(n) \notin Letters /\ \A m \in k..(n - 1) : at(m) \in Letters
    IN  [ok |-> at(k) \in Letters, next |-> last,
         op |-> IF at(j) \in Operations THEN at(j) ELSE "+",
         bits |-> UNION {perm(user, s[m]) : m \in k..(last - 1)}]

\* Mutant: the file's mode is not looked at.
changed_NoMode(s, mode) ==
    LET from[i \in 1..(Len(s) + 1), mod \in SUBSET Modes] ==
          LET c == chomp(s, i)
          IN  IF i > Len(s) THEN [ok |-> TRUE, mode |-> mod]
              ELSE IF ~c.ok THEN [ok |-> FALSE, mode |-> mode]
              ELSE from[c.next, IF c.op = "=" THEN c.bits
                                ELSE IF c.op = "+" THEN mod \cup c.bits ELSE mod \ c.bits]
    IN  from[1, {}]

\* The loop of std_user_chmod: mode is that of the file.  A clause with = sets
\* the whole mode; the file's mode is what the others begin with, and begin
\* with again where nothing is left.
changed(s, mode) ==
    LET from[i \in 1..(Len(s) + 1), mod \in SUBSET Modes] ==
          LET c == chomp(s, i)
              base == IF mod = {} THEN mode ELSE mod
          IN  IF i > Len(s) THEN [ok |-> TRUE, mode |-> mod]
              ELSE IF ~c.ok THEN [ok |-> FALSE, mode |-> mode]
              ELSE from[c.next, IF c.op = "=" THEN c.bits
                                ELSE IF c.op = "+" THEN base \cup c.bits ELSE base \ c.bits]
    IN  from[1, {}]

Init == \E mode \in {{}, Modes} : p = [mode |-> mode, path |-> TRUE, ret |-> "ok", asked |-> <<>>]

std_user_chmod(s) ==
    LET c == changed(s, p.mode)
        ret == IF ~p.path THEN "no path" ELSE IF c.ok THEN "ok" ELSE "param"
    IN  p' = [p EXCEPT !.mode = IF ret = "ok" THEN c.mode ELSE @, !.ret = ret, !.asked = s]

Unlink == p.path /\ p' = [p EXCEPT !.path = FALSE]

Next == Unlink \/ \E s \in Strings : std_user_chmod(s)

Spec == Init /\ [][Next]_p
-----------------------------------------------------------------------------
(* Properties.                                                             *)

\* The clauses of a string that is understood.
Clauses(s) ==
    LET from[i \in 1..(Len(s) + 1)] ==
          IF i > Len(s) THEN <<>> ELSE <<chomp(s, i)>> \o from[chomp(s, i).next]
    IN  from[1]

\* A string that is refused changes nothing, and an empty one, which is not, takes
\* every permission away (std_user_perm.cpp:172, :193).  After another, the last
\* clause is in force, and where no clause says =, bits that no clause names
\* are as they were, although the file's mode is taken up again in the middle.
InForce ==
    IF p'.ret # "ok" \/ p'.path # p.path THEN p'.mode = p.mode
    ELSE IF p'.asked = <<>> THEN p'.mode = {}
    ELSE LET cs == Clauses(p'.asked)
             last == cs[Len(cs)]
             named == UNION {cs[i].bits : i \in DOMAIN cs}
         IN  /\ IF last.op = "-" THEN last.bits \cap p'.mode = {} ELSE last.bits \subseteq p'.mode
             /\ (\A i \in DOMAIN cs : cs[i].op # "=") => p'.mode \ named = p.mode \ named

ClausesInForce == [][InForce]_p
=============================================================================
