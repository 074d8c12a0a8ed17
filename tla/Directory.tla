------------------------------ MODULE Directory ------------------------------
(***************************************************************************)
(* std_dir_iterate (std_directory_readdir_r.cpp), which calls back for     *)
(* every entry of a directory and of those in it, until it is told to      *)
(* stop.  Entries have the numbers dirent gives to types, and the code     *)
(* takes those for bits.                                                   *)
(***************************************************************************)
EXTENDS Integers, Sequences, SequencesExt

CONSTANTS
    Trees,      \* directories: sequences of entries [name, type, in: a directory's entries]
    Names       \* the names in them

VARIABLE i      \* [dir: a directory, recurse: it is asked for, stop: names the callback
                \*  stops at, calls: of the callback, done: it is over]

\* d_type: DT_UNKNOWN where the file system does not tell, DT_FIFO, DT_CHR, DT_DIR, DT_BLK, DT_REG, DT_LNK, DT_SOCK
UNKNOWN == 0
FIFO == 1
CHR == 2
DIR == 4
BLK == 6
REG == 8
LNK == 10
SOCK == 12

And(x, y) == \E b \in {1, 2, 4, 8} : (x \div b) % 2 = 1 /\ (y \div b) % 2 = 1

\* The last test that fits wins.
kind(type) == IF And(type, DIR) THEN "dir" ELSE IF And(type, REG) THEN "file"
              ELSE IF And(type, LNK) THEN "link" ELSE "other"

\* Mutant: the directory above is not left out.
Dot_Here(e) == kind(e.type) = "dir" /\ e.name = "."

Dot(e) == kind(e.type) = "dir" /\ e.name \in {".", ".."}

\* What is in an entry that is taken for a directory; where none is, the call
\* fails and is ignored.
RECURSIVE Iterate(_, _, _, _)
Iterate(dir, path, recurse, stop) ==
    IF dir = <<>> THEN <<>>
    ELSE LET e == Head(dir)
             name == Append(path, e.name)
             within == IF kind(e.type) = "dir" /\ recurse THEN Iterate(e.in, name, recurse, stop)
                       ELSE <<>>
             rest == Iterate(Tail(dir), path, recurse, stop)
         IN  IF Dot(e) THEN rest
             ELSE within \o <<[path |-> name, kind |-> kind(e.type)]>>
                         \o (IF e.name \in stop THEN <<>> ELSE rest)

Init == \E dir \in Trees, recurse \in BOOLEAN, stop \in SUBSET Names :
    i = [dir |-> dir, recurse |-> recurse, stop |-> stop, calls |-> <<>>, done |-> FALSE]

std_dir_iterate ==
    /\ ~i.done
    /\ i' = [i EXCEPT !.calls = Iterate(i.dir, <<>>, i.recurse, i.stop), !.done = TRUE]

Next == std_dir_iterate

Spec == Init /\ [][Next]_i
-----------------------------------------------------------------------------
(* Properties.                                                             *)

\* The paths of what is in a directory, and of what is in directories in it
\* that are known to be some.
RECURSIVE Paths(_, _, _)
Paths(dir, path, recurse) ==
    LET Known(e) == e.type # UNKNOWN
        given == {dir[j] : j \in {k \in DOMAIN dir : Known(dir[k]) => dir[k].name \notin {".", ".."}}}
    IN  UNION {{Append(path, e.name)} \cup
                 (IF recurse /\ Known(e) THEN Paths(e.in, Append(path, e.name), recurse) ELSE {}) :
               e \in given}

\* The callback is called once for each entry, and for a directory after what
\* is in it, so that a callback may delete what it is given; if it says stop,
\* for no later entry of that directory, but for those above it all the same.
\* Where types are not known that is also called for the directory itself and the
\* one above, and not for what is in directories, although all sub directories
\* were asked for (std_directory.h:65).
EachOnceInsideOut ==
    i.done =>
        /\ \A j, k \in DOMAIN i.calls : j < k =>
             /\ i.calls[j].path # i.calls[k].path
             /\ ~IsStrictPrefix(i.calls[j].path, i.calls[k].path)
        /\ i.stop = {} => {i.calls[j].path : j \in DOMAIN i.calls} = Paths(i.dir, <<>>, i.recurse)
        /\ \A j, k \in DOMAIN i.calls :
             j < k /\ Last(i.calls[j].path) \in i.stop => Front(i.calls[j].path) # Front(i.calls[k].path)
=============================================================================
