------------------------------ MODULE CondVar ------------------------------
(***************************************************************************)
(* The class std_condition_var (std_condition_variable.h) and the timed    *)
(* waits of std_condition_variable.c under it: threads that wait for work, *)
(* with a deadline or a quiet period, while others post it and notify.     *)
(* The predicate of every wait is that there is work.                      *)
(***************************************************************************)
EXTENDS Integers, FiniteSets

CONSTANTS
    Threads,    \* threads that wait
    Delays,     \* intervals in milliseconds
    MaxTime,    \* bound on the clock
    MaxWork,    \* bound on work posted
    Nobody

VARIABLE c      \* see Init

Idle == [at |-> "idle", call |-> "none", delay |-> 0, deadline |-> 0, timedout |-> FALSE,
         woken |-> 0]

Init == c = [mutex |-> Nobody,  \* the thread that holds it
             work |-> 0,
             posted |-> 0,      \* work posted so far
             clock |-> 0,       \* CLOCK_MONOTONIC
             th |-> [w \in Threads |-> Idle]]

Th(w) == c.th[w]
At(w, a) == c.th[w].at = a
Asleep == {w \in Threads : At(w, "asleep")}

\* A caller of wait, wait_for or defer_for comes with the mutex locked.
\* wait_for computes its deadline once.
Call(w, call, delay) ==
    /\ At(w, "idle") /\ c.mutex = Nobody
    /\ c' = [c EXCEPT !.mutex = w,
                      !.th[w] = [Idle EXCEPT !.at = "pred", !.call = call, !.delay = delay,
                                             !.deadline = c.clock + delay, !.woken = c.clock]]

\* Back to the caller, which takes the work it was promised and unlocks.
Return(w, got) ==
    c' = [c EXCEPT !.mutex = Nobody, !.work = IF got THEN @ - 1 ELSE @, !.th[w] = Idle]

\* Mutant: defer_for keeps its first deadline.
Sleep_FirstDeadline(w) ==
    /\ At(w, "pred") /\ c.work = 0
    /\ c' = [c EXCEPT !.mutex = Nobody, !.th[w].at = "asleep", !.th[w].timedout = FALSE]

\* The predicate is false: the thread sleeps without the mutex.  defer_for
\* waits for its whole interval each time.
Sleep(w) ==
    /\ At(w, "pred") /\ c.work = 0
    /\ c' = [c EXCEPT !.mutex = Nobody,
                      !.th[w] = [Th(w) EXCEPT !.at = "asleep", !.timedout = FALSE,
                                              !.deadline = IF Th(w).call = "defer_for"
                                                           THEN c.clock + Th(w).delay
                                                           ELSE Th(w).deadline]]

Satisfied(w) == At(w, "pred") /\ c.work > 0 /\ Return(w, TRUE)

Wakes(W, timedout) ==
    [w \in Threads |-> IF w \in W THEN [Th(w) EXCEPT !.at = "awake", !.timedout = timedout,
                                                     !.woken = c.clock]
                       ELSE Th(w)]

\* pthread_cond_wait may return without a signal.
Spurious(w) == w \in Asleep /\ c' = [c EXCEPT !.th = Wakes({w}, FALSE)]

Expire(w) ==
    /\ w \in Asleep /\ Th(w).call # "wait" /\ c.clock >= Th(w).deadline
    /\ c' = [c EXCEPT !.th = [Wakes({w}, TRUE) EXCEPT ![w].woken = Th(w).woken]]

\* Mutant: the timeout of wait_for is taken for success.
Relock_True(w) ==
    /\ At(w, "awake") /\ c.mutex = Nobody
    /\ IF Th(w).timedout
       THEN c' = [c EXCEPT !.work = IF Th(w).call = "wait_for" THEN @ - 1 ELSE @, !.th[w] = Idle]
       ELSE c' = [c EXCEPT !.mutex = w, !.th[w].at = "pred"]

\* The thread has the mutex again.  After a timeout wait_for looks at the
\* predicate once more, defer_for does not.
Relock(w) ==
    /\ At(w, "awake") /\ c.mutex = Nobody
    /\ IF Th(w).timedout THEN Return(w, Th(w).call = "wait_for" /\ c.work > 0)
       ELSE c' = [c EXCEPT !.mutex = w, !.th[w].at = "pred"]

\* Mutant: nobody is.
Post_Silent(all) ==
    /\ c.mutex = Nobody /\ c.posted < MaxWork
    /\ c' = [c EXCEPT !.work = @ + 1, !.posted = @ + 1]

\* Work is added and one sleeper, or all of them, notified under the mutex.
Post(all) ==
    /\ c.mutex = Nobody /\ c.posted < MaxWork
    /\ \E W \in IF Asleep = {} THEN {{}} ELSE IF all THEN {Asleep} ELSE {{w} : w \in Asleep} :
          c' = [c EXCEPT !.work = @ + 1, !.posted = @ + 1, !.th = Wakes(W, FALSE)]

Tick == c.clock < MaxTime /\ c' = [c EXCEPT !.clock = @ + 1]

Step(w) == Sleep(w) \/ Satisfied(w) \/ Expire(w) \/ Relock(w)

Next == \/ \E w \in Threads : \/ Step(w) \/ Spurious(w) \/ Call(w, "wait", 0)
                             \/ \E d \in Delays : \/ Call(w, "wait_for", d)
                                                 \/ Call(w, "defer_for", d)
        \/ \E all \in BOOLEAN : Post(all)
        \/ Tick

\* Threads that can run do: one waits for the mutex while others lock and
\* unlock it, and has it at last.
Fairness(w) == SF_c(Step(w))

Spec == Init /\ [][Next]_c /\ \A w \in Threads : Fairness(w)
-----------------------------------------------------------------------------
(* Properties.                                                             *)

Returned(w) == ~At(w, "idle") /\ c'.th[w].at = "idle"
Got == c'.work < c.work

\* Of the waiters that are told there is work none finds it taken, however
\* many wake, time out, or come in between.
NeverOvertaken == c.work >= 0

\* A caller that is not given work has waited: wait never comes back without,
\* wait_for not before its deadline nor while there is work, and defer_for
\* not before its interval has passed since it last woke.
EmptyHanded(w) ==
    /\ Th(w).call # "wait" /\ c.clock >= Th(w).deadline
    /\ Th(w).call = "wait_for" => c.work = 0
    /\ Th(w).call = "defer_for" => c.clock >= Th(w).woken + Th(w).delay

Waited == \A w \in Threads : Returned(w) /\ ~Got => EmptyHanded(w)

WaitsOut == [][Waited]_c

\* Work that is posted while threads wait is taken, whoever is notified.
Waiting == {w \in Threads : ~At(w, "idle")}
WorkTaken == c.work > 0 /\ Waiting # {} ~> c.work = 0 \/ Waiting = {}
=============================================================================
