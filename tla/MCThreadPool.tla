---------------------------- MODULE MCThreadPool ----------------------------
(***************************************************************************)
(* Instances of ThreadPool for TLC.  Workers and jobs are model values;    *)
(* workers are interchangeable, and so are jobs when none is endless.      *)
(***************************************************************************)
EXTENDS ThreadPool, TLC

Symmetry == Permutations(Workers) \cup Permutations(Jobs \ Endless)
=============================================================================
