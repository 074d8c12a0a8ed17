--------------------------- MODULE MCEventService ---------------------------
(***************************************************************************)
(* Instances of EventService alone, for TLC.                               *)
(***************************************************************************)
EXTENDS EventService, EventScripts
=============================================================================
