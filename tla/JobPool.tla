------------------------------ MODULE JobPool ------------------------------
(***************************************************************************)
(* What std_thread_pool.h promises to a caller: jobs are accepted at any   *)
(* time while the pool is open, started in the order they were accepted,   *)
(* at most Size at once, each exactly once, and none is forgotten before   *)
(* the pool is closed.  Nothing is said of threads, locks or signals.      *)
(***************************************************************************)
EXTENDS Naturals, Sequences, FiniteSets

CONSTANTS Jobs,      \* the jobs callers may hand over
          Endless,   \* those whose function never returns
          Size       \* number of jobs that can run at once

VARIABLES queue,     \* accepted, not started, oldest first
          active,    \* started, not finished
          done,      \* finished
          closed     \* the pool is being deleted

vars == <<queue, active, done, closed>>

Known == {queue[i] : i \in DOMAIN queue} \cup active \cup done

Init == queue = <<>> /\ active = {} /\ done = {} /\ closed = FALSE

Submit(j) == /\ j \notin Known
             /\ queue' = Append(queue, j)
             /\ UNCHANGED <<active, done, closed>>

Start == /\ queue # <<>>
         /\ Cardinality(active) < Size
         /\ active' = active \cup {Head(queue)}
         /\ queue' = Tail(queue)
         /\ UNCHANGED <<done, closed>>

Finish(j) == /\ j \in active \ Endless
             /\ active' = active \ {j}
             /\ done' = done \cup {j}
             /\ UNCHANGED <<queue, closed>>

Close == closed' = TRUE /\ UNCHANGED <<queue, active, done>>

Next == \/ \E j \in Jobs : Submit(j) \/ Finish(j)
        \/ Start
        \/ Close

\* An open pool with a free slot starts the oldest job; a started job whose
\* function returns is finished.
Fairness == /\ WF_vars(~closed /\ Start)
            /\ \A j \in Jobs : WF_vars(Finish(j))

SafetySpec == Init /\ [][Next]_vars

Spec == SafetySpec /\ Fairness
=============================================================================
