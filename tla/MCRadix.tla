------------------------------- MODULE MCRadix -------------------------------
(***************************************************************************)
(* An instance of Radix alone, for TLC.                                    *)
(***************************************************************************)
EXTENDS Radix

\* A prefix, two below it that part at their last bit, and one beside it.
MCKeys == {<<0>>, <<0, 0>>, <<0, 1>>, <<1>>}

\* All versions, and the recent ones.
MCRanges == {[min |-> 0, max |-> 1], [min |-> 1, max |-> 1]}
=============================================================================
