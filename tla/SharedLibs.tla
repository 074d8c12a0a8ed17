----------------------------- MODULE SharedLibs -----------------------------
(***************************************************************************)
(* std_shlib.c on top of the dynamic loader, which counts how often each   *)
(* library was opened.  The loader is external: dlopen, dlsym, dlclose.    *)
(***************************************************************************)
EXTENDS Integers, FiniteSets

CONSTANTS
    Libs,           \* names of libraries
    Funcs,          \* names of functions that callers ask for
    Has(_),         \* the functions of a library; the empty set: there is no such library
    Null

VARIABLE l      \* [refs: of the loader; handles: given and not unloaded;
                \*  pointers: those of the last function map; ret: of the last call]

Init == l = [refs |-> [x \in Libs |-> 0], handles |-> {}, pointers |-> <<>>, ret |-> "ok"]

\* dlopen, which fails for a library that is not there; dlclose
dlopen(refs, x) == [refs EXCEPT ![x] = @ + 1]
dlclose(refs, x) == [refs EXCEPT ![x] = @ - 1]

\* Mutant: it does not close.
is_loaded_Holds(refs, x) == [yes |-> refs[x] > 0, refs |-> IF refs[x] > 0 THEN dlopen(refs, x) ELSE refs]

\* std_shlib_is_loaded opens without loading and closes again.
is_loaded(refs, x) == [yes |-> refs[x] > 0,
                       refs |-> IF refs[x] > 0 THEN dlclose(dlopen(refs, x), x) ELSE refs]

\* Mutant: the library stays open when one is.
load_Open(x, fs, skip) ==
    LET known == is_loaded(l.refs, x)
        missing == (fs \ skip) \ Has(x)
        found == [f \in fs |-> IF f \in skip \cup missing THEN Null ELSE x]
    IN  l' = IF known.yes THEN [l EXCEPT !.refs = known.refs, !.ret = "EEXIST"]
             ELSE IF Has(x) = {} THEN [l EXCEPT !.refs = known.refs, !.ret = "ENOENT"]
             ELSE IF missing = {}
                  THEN [refs |-> dlopen(known.refs, x), handles |-> l.handles \cup {x},
                        pointers |-> found, ret |-> "ok"]
             ELSE [l EXCEPT !.refs = dlopen(known.refs, x), !.pointers = found, !.ret = "EFAULT"]

\* std_shlib_load of x with a map of the functions fs, optional ones without a
\* name in skip.  Every function is looked up, also after one that is missing.
load(x, fs, skip) ==
    LET known == is_loaded(l.refs, x)
        missing == (fs \ skip) \ Has(x)
        found == [f \in fs |-> IF f \in skip \cup missing THEN Null ELSE x]
    IN  l' = IF known.yes THEN [l EXCEPT !.refs = known.refs, !.ret = "EEXIST"]
             ELSE IF Has(x) = {} THEN [l EXCEPT !.refs = known.refs, !.ret = "ENOENT"]
             ELSE IF missing = {}
                  THEN [refs |-> dlopen(known.refs, x), handles |-> l.handles \cup {x},
                        pointers |-> found, ret |-> "ok"]
             ELSE [l EXCEPT !.refs = dlclose(dlopen(known.refs, x), x), !.pointers = found,
                            !.ret = "EFAULT"]

\* std_shlib_unload
unload(x) == /\ x \in l.handles
             /\ l' = [l EXCEPT !.refs = dlclose(@, x), !.handles = @ \ {x}, !.ret = "ok"]

Next == \E x \in Libs : \/ unload(x)
                       \/ \E fs \in SUBSET Funcs : \E skip \in SUBSET fs : load(x, fs, skip)

Spec == Init /\ [][Next]_l
-----------------------------------------------------------------------------
(* Properties.                                                             *)

\* A library is mapped while a handle to it is out and no longer, whatever
\* failed on the way, and a failed load tells which functions are missing.
MappedWithHandle ==
    /\ \A x \in Libs : l.refs[x] = IF x \in l.handles THEN 1 ELSE 0
    /\ l.ret = "EFAULT" => \E f \in DOMAIN l.pointers : l.pointers[f] = Null
=============================================================================
