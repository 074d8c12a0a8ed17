---------------------------- MODULE EventScripts ----------------------------
(***************************************************************************)
(* Keys, events and clients for TLC: what each connection of an instance   *)
(* of EventService asks for.                                               *)
(***************************************************************************)
EXTENDS TLC

CONSTANTS c1, c2, c3, e1, e2    \* model values

Reg(k)   == [op |-> "register", key |-> k]
Dereg(k) == [op |-> "deregister", key |-> k]
Pub(e)   == [op |-> "publish", event |-> e]

\* e1 goes to the nodes <<1>> and <<1, 2>>, e2 to <<1>> alone.
MCKeyOf == e1 :> <<1, 2>> @@ e2 :> <<1>>

\* Two publishers at once, a client at two prefixes, a change of mind.
PoolScript == c1 :> <<Reg(<<1>>), Reg(<<1, 2>>), Dereg(<<1>>)>>
              @@ c2 :> <<Reg(<<1, 2>>), Pub(e1)>>
              @@ c3 :> <<Pub(e2)>>

\* A subscriber, a publisher, and a latecomer.
LeaveScript == c1 :> <<Reg(<<1>>)>>
               @@ c2 :> <<Pub(e1), Pub(e2)>>
               @@ c3 :> <<Reg(<<1, 2>>)>>

\* One subscriber, busy registering, and two publishers.
BusyScript == c1 :> <<Reg(<<1>>), Reg(<<1, 2>>)>>
              @@ c2 :> <<Pub(e1)>>
              @@ c3 :> <<Pub(e2)>>
=============================================================================
