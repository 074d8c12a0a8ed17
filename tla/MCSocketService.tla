-------------------------- MODULE MCSocketService --------------------------
(***************************************************************************)
(* Instances of SocketService for TLC.                                     *)
(***************************************************************************)
EXTENDS SocketService, TLC

Symmetry == Permutations(Conns \ OwnConns) \cup Permutations(Workers)
=============================================================================
