----------------------------- MODULE MCLibrary -----------------------------
(***************************************************************************)
(* The data structures, parsers and small services of the library, which   *)
(* do not call each other, side by side in one run: a behaviour is a       *)
(* behaviour of one part, chosen at the start, over the part's own         *)
(* specification.  A property says what the part's module says, of the     *)
(* behaviours of that part; those of Radical, which this module extends,   *)
(* are checked as they are, and in the other parts its list stays empty.   *)
(***************************************************************************)
EXTENDS Radical, TLC

CONSTANTS Tags, Garbage, Walkers    \* model values

VARIABLES
    part,       \* which part it is
    s,          \* the variable of that part, where it has one
    tree, walk, version     \* those of Radix

radix == <<tree, walk, version>>
vars == <<part, s, rvars, radix>>

HalfUp(x) == (x + 1) \div 2
ItemList == INSTANCE LinkedList WITH d <- s, Items <- 1..4, KeyOf <- HalfUp, HeadNode <- 10,
                                     TailNode <- 11, Null <- 0
Tree == INSTANCE RBTree WITH rb <- s, Items <- 1..7, KeyOf <- HalfUp, Nil <- 0
RadixTree == INSTANCE Radix WITH Keys <- {<<0>>, <<0, 0>>, <<0, 1>>, <<1>>}, MaxVersion <- 1,
                                 Ranges <- {[min |-> 0, max |-> 1], [min |-> 1, max |-> 1]}

Documents == INSTANCE ConfigNode WITH n <- s, Handles <- {1, 2, 3}, Attrs <- {5},
                 Children <- <<<<"text", "element", "text", "element", "element", "text">>,
                               <<>>, <<"text">>>>
Files == INSTANCE ConfigFile WITH c <- s, MaxPairs <- 3, LineMax <- 4, Groups <- {<<"a">>, <<"[", "a">>},
             Keys <- {<<"a">>, <<"[">>, <<" ", "a">>}, Values <- {<<"]">>, <<"=", "a">>}
BitArrays == INSTANCE Bits WITH b <- s, Byte <- 4, Lengths <- {1, 3, 4, 6, 8, 9}
Sorts == INSTANCE MergeSort WITH m <- s, Keys <- 1..3, MaxLen <- 6
Attributes == INSTANCE Tlv WITH v <- s, Lengths <- {0, 1}, Size <- 8
Texts == INSTANCE Text WITH x <- s, Delim <- "/", Esc <- "\\", Others <- {"a", "b"}, MaxLen <- 5
Masks == INSTANCE IpMask WITH a <- s, Byte <- 8, V4Len <- 4, V6Len <- 16
Modes == INSTANCE Permissions WITH p <- s,
             Strings <- {<<"u", "=", "r", "x", "o", "+", "r", "x", "g", "+", "r", "x">>,
                         <<>>, <<"o", "-", "r", "w">>, <<"a", "-", "r", "w", "x", "u", "+", "r">>,
                         <<"g", "+", "w", "-", "w", "o", "w">>, <<"r", "u", "x">>, <<"u", "r", "u">>,
                         <<"o", "=", "w", "a", "-", "w">>,
                         <<"u", "-", "r", "u", "-", "w", "x", "g", "+", "r">>}
Fds == INSTANCE Descriptors WITH d <- s

HasFuncs(x) == CASE x = "x" -> {"f", "g"} [] x = "y" -> {"f"} [] OTHER -> {}
Libraries == INSTANCE SharedLibs WITH l <- s, Libs <- {"x", "y", "z"}, Funcs <- {"f", "g"},
                                      Has <- HasFuncs, Null <- None

\* Directory entries by their d_type: 4 a directory, 8 a file, 10 a link,
\* 1, 2, 6 and 12 a pipe, devices and a socket, 0 what is not known.
DirEntry(name, type, in) == [name |-> name, type |-> type, in |-> in]
Dots == <<DirEntry(".", 4, <<>>), DirEntry("..", 4, <<>>)>>
Walks == INSTANCE Directory WITH i <- s, Names <- {"a", "b", "c"},
             Trees <-
               {<<>>,
                Dots \o <<DirEntry("a", 8, <<>>),
                          DirEntry("b", 4, Dots \o <<DirEntry("a", 10, <<>>),
                                                   DirEntry("c", 4, <<DirEntry("a", 12, <<>>)>>)>>),
                          DirEntry("c", 2, <<>>)>>,
                <<DirEntry(".", 0, <<>>), DirEntry("..", 0, <<>>),
                  DirEntry("b", 0, <<DirEntry("a", 8, <<>>)>>), DirEntry("c", 8, <<>>)>>,
                <<DirEntry("c", 4, <<DirEntry("b", 1, <<>>), DirEntry("c", 8, <<>>)>>),
                  DirEntry("b", 6, <<>>)>>}

NoRadix == tree = None /\ walk = None /\ version = None
Is(name) == part = name /\ Init /\ NoRadix

PartsInit == \/ Is("list") /\ ItemList!Init
             \/ Is("rbtree") /\ Tree!Init
             \/ Is("nodes") /\ Documents!Init
             \/ Is("file") /\ Files!Init
             \/ Is("bits") /\ BitArrays!Init
             \/ Is("sort") /\ Sorts!Init
             \/ Is("tlv") /\ Attributes!Init
             \/ Is("text") /\ Texts!Init
             \/ Is("mask") /\ Masks!Init
             \/ Is("modes") /\ Modes!Init
             \/ Is("fds") /\ Fds!Init
             \/ Is("libs") /\ Libraries!Init
             \/ Is("dirs") /\ Walks!Init
             \/ Is("radical") /\ s = None
             \/ part = "routes" /\ s = None /\ Init /\ RadixTree!Init

Goes(name) == part = name /\ UNCHANGED <<part, rvars, radix>>

PartsNext == \/ Goes("list") /\ ItemList!Next
             \/ Goes("rbtree") /\ Tree!Next
             \/ Goes("nodes") /\ Documents!Next
             \/ Goes("file") /\ Files!Next
             \/ Goes("bits") /\ BitArrays!Next
             \/ Goes("sort") /\ Sorts!Next
             \/ Goes("tlv") /\ Attributes!Next
             \/ Goes("text") /\ Texts!Next
             \/ Goes("mask") /\ Masks!Next
             \/ Goes("modes") /\ Modes!Next
             \/ Goes("fds") /\ Fds!Next
             \/ Goes("libs") /\ Libraries!Next
             \/ Goes("dirs") /\ Walks!Next
             \/ part = "radical" /\ UNCHANGED <<part, s, radix>> /\ Next
             \/ part = "routes" /\ UNCHANGED <<part, s, rvars>> /\ RadixTree!Next

PartsSpec == PartsInit /\ [][PartsNext]_vars

\* Walkers of a radix tree behave alike, and so do the routes and the readers
\* of a change list.
Symmetry == Permutations(Walkers) \cup Permutations(Routes) \cup Permutations(Readers)
-----------------------------------------------------------------------------
(* Properties.  Each is explained in the module of its part; of Radical,   *)
(* NoMissedChange, OldestFirst and MarkerVersion are checked.              *)

\* Radix: its variables have their types, the pointers are those of a tree of
\* prefixes, walks stand on nodes of the tree, no node is newer than the one
\* above it, and routes removed under a walk leave the tree when it is over.
TreeSound ==
    part = "routes" => /\ RadixTree!TypeOK /\ RadixTree!WellFormed /\ RadixTree!WalksOnTree
                       /\ RadixTree!SubtreeVersions /\ RadixTree!RemovalsEnd

\* Radix: look-ups and undisturbed walks answer from the routes present.
LookupsRight == part = "routes" => RadixTree!LookupsRight /\ RadixTree!WalksInOrder

\* Radix: a version walk calls back every route of its range that stays.
WalkComplete == [][part = "routes" => RadixTree!Completed]_vars

\* Radix: it is a RouteTable, which walks do not change.
ImplementsRouteTable == /\ part = "routes" => RadixTree!Table!Init
                        /\ [][part = "routes" => RadixTree!TableStep]_vars

\* LinkedList: the list read from its tail is the list read from its head.
\* RBTree: the pointers are those of a balanced search tree, look-ups answer
\* as the sorted set does, and walks in two parts leave nothing out.
Containers ==
    /\ part = "list" => ItemList!TwoWays
    /\ part = "rbtree" => Tree!Ordered /\ Tree!Balanced /\ Tree!LookupsAgree /\ Tree!WalksWhole

\* Input is taken whole.  ConfigNode: a callback gets each element once.
\* ConfigFile: what was written is read back.  Directory: every entry once, a
\* directory after what is in it.
InputWhole ==
    /\ part = "nodes" => Documents!EachElementOnce
    /\ part = "file" => Files!ReadsBack
    /\ part = "dirs" => Walks!EachOnceInsideOut

\* Functions do what their definitions by quantifiers say.  Bits: searches
\* answer with the nearest set bit.  MergeSort: sorted, and stable.  Tlv: the
\* first attribute of a tag, and what follows.  Text: tokens joined again are
\* the string, escaped delimiters come back, and without escapes both parsers
\* agree.  IpMask: masks and prefix lengths belong together.
FunctionsRight ==
    /\ part = "bits" => BitArrays!FirstIsNearest /\ BitArrays!LastIsNearest
    /\ part = "sort" => Sorts!StableSort
    /\ part = "tlv" => Attributes!FindsFirst
    /\ part = "text" => Texts!PiecesJoin /\ Texts!EscapedComeBack /\ Texts!ParsersAgree
    /\ part = "mask" => Masks!MaskOfPrefix

\* What was taken is kept as long as it is used, and given back.  Descriptors:
\* a call that is over left none behind; namespace, stdin and stdout are all
\* the old or all the new.  SharedLibs: a library is mapped as long as a handle
\* to it is out.  ConfigNode: values live as long as their document is loaded.
ResourcesKept ==
    /\ part = "fds" => Fds!NothingLeft /\ Fds!BackOrThrough
    /\ part = "libs" => Libraries!MappedWithHandle
    /\ part = "nodes" => Documents!ValuesLive

\* Each call has the effect it promises.  LinkedList: on the list, as in
\* std_llist.h.  RBTree: on a sorted set.  ConfigFile: a failed write puts no
\* pair in another group.  Permissions: the clauses of a mode are in force.
EffectsAsPromised ==
    /\ [][part = "list" => ItemList!Promised]_vars
    /\ [][part = "rbtree" => Tree!SortedStep]_vars
    /\ [][part = "file" => Files!Unmixed]_vars
    /\ [][part = "modes" => Modes!InForce]_vars
=============================================================================
