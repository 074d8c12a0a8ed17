--------------------------- MODULE CondVar_proofs ---------------------------
(***************************************************************************)
(* Proofs about CondVar for every set of threads, all intervals and no     *)
(* bound on the clock or on the work.                                      *)
(***************************************************************************)
EXTENDS CondVar, TLAPS

(***************************************************************************)
(* The invariant.                                                          *)
(***************************************************************************)

\* What is kept of a thread.
Waiter == [at : {"idle", "pred", "asleep", "awake"},
           call : {"none", "wait", "wait_for", "defer_for"},
           delay : Nat, deadline : Nat, timedout : BOOLEAN, woken : Nat]

TypeInv == c \in [mutex : Threads \cup {Nobody}, work : Nat, posted : Nat, clock : Nat,
                  th : [Threads -> Waiter]]

\* A predicate is read with the mutex held: what it says is so still when the
\* caller takes the work.
MutexInv == \A w \in Threads : At(w, "pred") => c.mutex = w

\* From its last wake-up on, defer_for sleeps its whole interval; a thread that
\* timed out has done so at its deadline, and none does in wait.
Fine(t, now) ==
    /\ t.woken <= now
    /\ t.at = "asleep" => ~t.timedout
    /\ t.call = "defer_for" /\ (t.at = "asleep" \/ t.timedout) =>
          t.deadline >= t.woken + t.delay
    /\ t.timedout => t.at = "awake" /\ t.call # "wait" /\ now >= t.deadline

DeadlineInv == \A w \in Threads : Fine(Th(w), c.clock)

\* The parts are inductive together.
Inv == TypeInv /\ MutexInv /\ DeadlineInv

\* Nobody waits at first.
LEMMA InvInit == Init => Inv
BY DEF Init, Inv, TypeInv, MutexInv, DeadlineInv, Fine, Waiter, Idle, Th, At

\* What a thread does alone leaves it in order: it sleeps, is notified, times
\* out, or looks at the predicate.
LEMMA FineSteps ==
    ASSUME NEW t \in Waiter, NEW now \in Nat, Fine(t, now)
    PROVE  /\ \A limit \in Nat :
                 limit = (IF t.call = "defer_for" THEN now + t.delay ELSE t.deadline) =>
                 LET u == [t EXCEPT !.at = "asleep", !.timedout = FALSE, !.deadline = limit]
                 IN  u \in Waiter /\ Fine(u, now) /\ u.at # "pred"
           /\ LET u == [t EXCEPT !.at = "awake", !.timedout = FALSE, !.woken = now]
              IN  u \in Waiter /\ Fine(u, now) /\ u.at # "pred"
           /\ t.at = "asleep" /\ t.call # "wait" /\ now >= t.deadline =>
                LET u == [t EXCEPT !.at = "awake", !.timedout = TRUE]
                IN  u \in Waiter /\ Fine(u, now) /\ u.at # "pred"
           /\ ~t.timedout =>
                [t EXCEPT !.at = "pred"] \in Waiter /\ Fine([t EXCEPT !.at = "pred"], now)
           /\ Fine(t, now + 1)
<1>1. ASSUME NEW limit \in Nat,
             limit = IF t.call = "defer_for" THEN now + t.delay ELSE t.deadline,
             NEW u, u = [t EXCEPT !.at = "asleep", !.timedout = FALSE, !.deadline = limit]
      PROVE  u \in Waiter /\ Fine(u, now) /\ u.at # "pred"
  <2>1. u \in Waiter
    BY <1>1 DEF Waiter
  <2>2. Fine(u, now)
    BY <1>1 DEF Waiter, Fine
  <2>3. u.at # "pred"
    BY <1>1 DEF Waiter
  <2> QED
    BY <2>1, <2>2, <2>3
<1>2. ASSUME NEW u, u = [t EXCEPT !.at = "awake", !.timedout = FALSE, !.woken = now]
      PROVE  u \in Waiter /\ Fine(u, now) /\ u.at # "pred"
  <2>1. u \in Waiter
    BY <1>2 DEF Waiter
  <2>2. Fine(u, now)
    BY <1>2 DEF Waiter, Fine
  <2>3. u.at # "pred"
    BY <1>2 DEF Waiter
  <2> QED
    BY <2>1, <2>2, <2>3
<1>3. ASSUME t.at = "asleep", t.call # "wait", now >= t.deadline,
             NEW u, u = [t EXCEPT !.at = "awake", !.timedout = TRUE]
      PROVE  u \in Waiter /\ Fine(u, now) /\ u.at # "pred"
  BY <1>3 DEF Waiter, Fine
<1>4. ASSUME ~t.timedout, NEW u, u = [t EXCEPT !.at = "pred"]
      PROVE  u \in Waiter /\ Fine(u, now)
  BY <1>4 DEF Waiter, Fine
<1>5. Fine(t, now + 1)
  BY DEF Waiter, Fine
<1> QED
  BY <1>1, <1>2, <1>3, <1>4, <1>5

\* A step is judged by the threads it moves.
LEMMA ThreadsMove ==
    ASSUME Inv, TypeInv', c'.clock = c.clock,
           \A w \in Threads : Th(w)' = Th(w) \/ Fine(Th(w)', c.clock),
           \A w \in Threads : At(w, "pred")' => c'.mutex = w
    PROVE  Inv'
BY DEF Inv, DeadlineInv, MutexInv

\* The same for a step of one thread.
LEMMA ThreadMoves ==
    ASSUME Inv, NEW m \in Threads \cup {Nobody}, NEW n \in Nat, NEW w \in Threads,
           NEW t \in Waiter, Fine(t, c.clock),
           c' = [c EXCEPT !.mutex = m, !.work = n, !.th[w] = t],
           \A v \in Threads \ {w} : At(v, "pred") => m = v,
           t.at = "pred" => m = w
    PROVE  Inv'
<1>1. TypeInv' /\ c'.clock = c.clock /\ c'.mutex = m
  BY DEF Inv, TypeInv
<1>2. \A v \in Threads : c'.th[v] = IF v = w THEN t ELSE c.th[v]
  BY DEF Inv, TypeInv
<1>3. \A v \in Threads : Th(v)' = Th(v) \/ Fine(Th(v)', c.clock)
  BY <1>2 DEF Th
<1>4. \A v \in Threads : At(v, "pred")' => c'.mutex = v
  BY <1>1, <1>2 DEF At
<1> QED
  BY <1>1, <1>3, <1>4, ThreadsMove

\* A notification, a timeout or a spurious wake-up changes sleepers only.
LEMMA WakesCases ==
    ASSUME Inv, NEW W \in SUBSET Asleep, NEW timedout \in BOOLEAN
    PROVE  /\ Wakes(W, timedout) \in [Threads -> Waiter]
           /\ \A w \in Threads : Wakes(W, timedout)[w] =
                 IF w \in W THEN [Th(w) EXCEPT !.at = "awake", !.timedout = timedout,
                                               !.woken = c.clock]
                 ELSE Th(w)
<1> DEFINE woken(t) == [t EXCEPT !.at = "awake", !.timedout = timedout, !.woken = c.clock]
<1>1. c.th \in [Threads -> Waiter] /\ c.clock \in Nat
  BY DEF Inv, TypeInv
<1>2. ASSUME NEW t \in Waiter PROVE woken(t) \in Waiter
  BY <1>1, <1>2 DEF Waiter
<1>3. Wakes(W, timedout) = [w \in Threads |-> IF w \in W THEN woken(c.th[w]) ELSE c.th[w]]
  BY DEF Wakes, Th
<1> HIDE DEF woken
<1>4. \A w \in Threads : (IF w \in W THEN woken(c.th[w]) ELSE c.th[w]) \in Waiter
  BY <1>1, <1>2
<1>5. \A w \in Threads : Wakes(W, timedout)[w] = IF w \in W THEN woken(c.th[w]) ELSE c.th[w]
  BY <1>3
<1>6. Wakes(W, timedout) \in [Threads -> Waiter]
  BY <1>3, <1>4
<1> QED
  BY <1>5, <1>6 DEF woken, Th

\* Threads that are woken without a timeout.
LEMMA WokenMove ==
    ASSUME Inv, NEW W \in SUBSET Asleep, NEW n \in Nat, NEW p \in Nat,
           c' = [c EXCEPT !.work = n, !.posted = p, !.th = Wakes(W, FALSE)]
    PROVE  Inv'
<1>1. Wakes(W, FALSE) \in [Threads -> Waiter]
  BY WakesCases
<1>2. TypeInv' /\ c'.clock = c.clock /\ c'.mutex = c.mutex /\ c'.th = Wakes(W, FALSE)
  BY <1>1 DEF Inv, TypeInv
<1>3. ASSUME NEW w \in Threads
      PROVE  Th(w)' = Th(w) \/ (Fine(Th(w)', c.clock) /\ Th(w)'.at # "pred")
  <2>1. Th(w) \in Waiter /\ Fine(Th(w), c.clock) /\ c.clock \in Nat
    BY DEF Inv, TypeInv, DeadlineInv, Th
  <2>2. CASE w \in W
    <3>1. Th(w)' = [Th(w) EXCEPT !.at = "awake", !.timedout = FALSE, !.woken = c.clock]
      BY <1>2, <2>2, WakesCases DEF Th
    <3> QED
      BY <2>1, <3>1, FineSteps
  <2>3. CASE w \notin W
    <3>1. Wakes(W, FALSE)[w] = Th(w)
      BY <2>3, WakesCases
    <3> QED
      BY <1>2, <3>1 DEF Th
  <2> QED
    BY <2>2, <2>3
<1>4. \A w \in Threads : At(w, "pred")' => c'.mutex = w
  BY <1>2, <1>3 DEF Inv, MutexInv, At, Th
<1> QED
  BY <1>2, <1>3, <1>4, ThreadsMove

\* A thread that goes back has the mutex, and takes work only if there is some.
LEMMA ReturnKeeps ==
    ASSUME Inv, NEW w \in Threads, NEW got, got => c.work > 0, Return(w, got),
           \A v \in Threads \ {w} : ~At(v, "pred")
    PROVE  Inv'
<1> DEFINE n == IF got THEN c.work - 1 ELSE c.work
<1>1. n \in Nat /\ Idle \in Waiter /\ Fine(Idle, c.clock) /\ Idle.at # "pred"
  BY DEF Inv, TypeInv, Waiter, Idle, Fine
<1>2. c' = [c EXCEPT !.mutex = Nobody, !.work = n, !.th[w] = Idle]
  BY DEF Return
<1> HIDE DEF n
<1> QED
  BY <1>1, <1>2, ThreadMoves

\* Every step keeps the invariant.
LEMMA InvNext == ASSUME Delays \subseteq Nat, Nobody \notin Threads
                 PROVE  Inv /\ [Next]_c => Inv'
<1> SUFFICES ASSUME Inv, [Next]_c PROVE Inv'
  OBVIOUS
<1>a. \A v, w \in Threads : At(v, "pred") /\ At(w, "pred") => v = w
  BY DEF Inv, MutexInv
<1>b. c.mutex = Nobody => \A v \in Threads : ~At(v, "pred")
  BY DEF Inv, MutexInv
<1>c. \A w \in Threads : Th(w) \in Waiter /\ Fine(Th(w), c.clock)
  BY DEF Inv, TypeInv, DeadlineInv, Th
<1>d. c.work \in Nat /\ c.clock \in Nat /\ c.posted \in Nat /\ c.mutex \in Threads \cup {Nobody}
  BY DEF Inv, TypeInv
<1>1. ASSUME NEW w \in Threads, Sleep(w) PROVE Inv'
  <2>1. \A v \in Threads \ {w} : ~At(v, "pred")
    BY <1>1, <1>a DEF Sleep
  <2> DEFINE limit == IF Th(w).call = "defer_for" THEN c.clock + Th(w).delay ELSE Th(w).deadline
             t == [Th(w) EXCEPT !.at = "asleep", !.timedout = FALSE, !.deadline = limit]
  <2>2. limit \in Nat
    BY <1>c, <1>d DEF Waiter
  <2>3. t \in Waiter /\ Fine(t, c.clock) /\ t.at # "pred"
    BY <1>c, <1>d, <2>2, FineSteps
  <2>4. c' = [c EXCEPT !.mutex = Nobody, !.work = c.work, !.th[w] = t]
    BY <1>1 DEF Sleep, Inv, TypeInv, Th
  <2> HIDE DEF t
  <2> QED
    BY <1>d, <2>1, <2>3, <2>4, ThreadMoves
<1>2. ASSUME NEW w \in Threads, Satisfied(w) PROVE Inv'
  BY <1>2, <1>a, ReturnKeeps DEF Satisfied
<1>3. ASSUME NEW w \in Threads, Expire(w) PROVE Inv'
  <2> DEFINE t == [Th(w) EXCEPT !.at = "awake", !.timedout = TRUE]
  <2>1. Th(w).at = "asleep" /\ Th(w).call # "wait" /\ c.clock >= Th(w).deadline
    BY <1>3 DEF Expire, Asleep, At, Th
  <2>2. t \in Waiter /\ Fine(t, c.clock) /\ t.at # "pred"
    BY <1>c, <1>d, <2>1, FineSteps
  <2>3. [Wakes({w}, TRUE) EXCEPT ![w].woken = Th(w).woken] = [c.th EXCEPT ![w] = t]
    BY <1>3 DEF Expire, Asleep, Wakes, Inv, TypeInv, Th, Waiter
  <2>4. c' = [c EXCEPT !.mutex = c.mutex, !.work = c.work, !.th[w] = t]
    BY <1>3, <2>3 DEF Expire, Inv, TypeInv
  <2>5. \A v \in Threads \ {w} : At(v, "pred") => c.mutex = v
    BY DEF Inv, MutexInv
  <2> HIDE DEF t
  <2> QED
    BY <1>d, <2>2, <2>4, <2>5, ThreadMoves
<1>4. ASSUME NEW w \in Threads, Relock(w) PROVE Inv'
  <2>1. CASE Th(w).timedout
    <3> DEFINE got == Th(w).call = "wait_for" /\ c.work > 0
    <3>1. Return(w, got) /\ \A v \in Threads \ {w} : ~At(v, "pred")
      BY <1>4, <1>b, <2>1 DEF Relock
    <3>2. got => c.work > 0
      OBVIOUS
    <3> HIDE DEF got
    <3> QED
      BY <3>1, <3>2, ReturnKeeps
  <2>2. CASE ~Th(w).timedout
    <3> DEFINE t == [Th(w) EXCEPT !.at = "pred"]
    <3>2. t \in Waiter /\ Fine(t, c.clock)
      BY <1>c, <1>d, <2>2, FineSteps
    <3>3. c' = [c EXCEPT !.mutex = w, !.work = c.work, !.th[w] = t]
      BY <1>4, <2>2 DEF Relock, Inv, TypeInv, Waiter, Th
    <3>4. \A v \in Threads \ {w} : ~At(v, "pred")
      BY <1>4, <1>b DEF Relock
    <3> HIDE DEF t
    <3> QED
      BY <1>d, <3>2, <3>3, <3>4, ThreadMoves
  <2> QED
    BY <2>1, <2>2
<1>5. ASSUME NEW w \in Threads, Spurious(w) PROVE Inv'
  <2>1. c' = [c EXCEPT !.work = c.work, !.posted = c.posted, !.th = Wakes({w}, FALSE)]
    BY <1>5 DEF Spurious, Inv, TypeInv
  <2>2. {w} \in SUBSET Asleep
    BY <1>5 DEF Spurious
  <2> QED
    BY <1>d, <2>1, <2>2, WokenMove
<1>6. ASSUME NEW w \in Threads, NEW call \in {"wait", "wait_for", "defer_for"}, NEW d \in Nat,
             Call(w, call, d)
      PROVE  Inv'
  <2> DEFINE t == [Idle EXCEPT !.at = "pred", !.call = call, !.delay = d,
                               !.deadline = c.clock + d, !.woken = c.clock]
  <2>c. Idle \in Waiter
    BY DEF Waiter, Idle
  <2>a. t \in Waiter
    <3>1. ASSUME NEW now \in Nat, NEW limit \in Nat
          PROVE  [Idle EXCEPT !.at = "pred", !.call = call, !.delay = d, !.deadline = limit,
                              !.woken = now] \in Waiter
      BY <2>c DEF Waiter
    <3>2. c.clock \in Nat /\ c.clock + d \in Nat
      BY <1>d
    <3> QED
      BY <3>1, <3>2, Zenon
  <2>b. t.woken = c.clock /\ t.at = "pred" /\ ~t.timedout
    BY DEF Idle
  <2>1. t \in Waiter /\ Fine(t, c.clock)
    BY <1>d, <2>a, <2>b DEF Fine
  <2>2. c' = [c EXCEPT !.mutex = w, !.work = c.work, !.th[w] = t]
    BY <1>6 DEF Call, Inv, TypeInv
  <2>3. \A v \in Threads \ {w} : ~At(v, "pred")
    BY <1>6, <1>b DEF Call
  <2> HIDE DEF t
  <2> QED
    BY <1>d, <2>1, <2>2, <2>3, ThreadMoves
<1>7. ASSUME NEW all \in BOOLEAN, Post(all) PROVE Inv'
  <2>1. PICK W \in SUBSET Asleep :
           c' = [c EXCEPT !.work = @ + 1, !.posted = @ + 1, !.th = Wakes(W, FALSE)]
    BY <1>7 DEF Post
  <2>2. c.work + 1 \in Nat /\ c.posted + 1 \in Nat
    BY <1>d
  <2> QED
    BY <2>1, <2>2, WokenMove
<1>8. CASE Tick
  <2>1. TypeInv' /\ c'.clock = c.clock + 1 /\ c'.th = c.th /\ c'.mutex = c.mutex
    BY <1>8 DEF Tick, Inv, TypeInv
  <2>2. DeadlineInv'
    BY <1>c, <1>d, <2>1, FineSteps DEF DeadlineInv, Th
  <2> QED
    BY <2>1, <2>2 DEF Inv, MutexInv, At
<1>9. CASE UNCHANGED c
  BY <1>9 DEF Inv, TypeInv, MutexInv, DeadlineInv, Th, At
<1> QED
  BY <1>1, <1>2, <1>3, <1>4, <1>5, <1>6, <1>7, <1>8, <1>9 DEF Next, Step

(***************************************************************************)
(* What it gives.                                                          *)
(***************************************************************************)

\* For any number of waiters and notifications, none that is told there is
\* work finds it taken: the predicate is read with the mutex held.
THEOREM NobodyOvertaken ==
    ASSUME Delays \subseteq Nat, Nobody \notin Threads
    PROVE  Spec => []NeverOvertaken
<1>1. Inv => NeverOvertaken
  BY DEF Inv, TypeInv, NeverOvertaken
<1> QED
  BY <1>1, InvInit, InvNext, PTL DEF Spec

\* Of the steps, only Satisfied and Relock let a caller go.
LEMMA LeavesHow ==
    ASSUME Inv, [Next]_c, NEW w \in Threads, Returned(w)
    PROVE  Satisfied(w) \/ (Relock(w) /\ Th(w).timedout)
<1>a. c.th \in [Threads -> Waiter] /\ c.th[w].at # "idle" /\ c'.th[w].at = "idle"
  BY DEF Inv, TypeInv, Returned, At, Th
<1>1. ASSUME NEW v \in Threads, Sleep(v) PROVE FALSE
  <2>1. PICK t : t.at = "asleep" /\ c'.th = [c.th EXCEPT ![v] = t]
    BY <1>1, <1>a DEF Sleep, Inv, TypeInv, Waiter
  <2> QED
    BY <2>1, <1>a
<1>2. ASSUME NEW v \in Threads, Satisfied(v) PROVE v = w
  BY <1>2, <1>a DEF Satisfied, Return, Inv, TypeInv
<1>3. ASSUME NEW v \in Threads, Expire(v) PROVE FALSE
  <2> DEFINE t == [Th(v) EXCEPT !.at = "awake", !.timedout = TRUE]
  <2>1. [Wakes({v}, TRUE) EXCEPT ![v].woken = Th(v).woken] = [c.th EXCEPT ![v] = t]
    BY <1>3 DEF Expire, Asleep, Wakes, Inv, TypeInv, Th, Waiter
  <2>2. c'.th = [c.th EXCEPT ![v] = t]
    BY <1>3, <2>1 DEF Expire, Inv, TypeInv
  <2>3. t.at = "awake"
    BY <1>a DEF Th, Waiter
  <2> HIDE DEF t
  <2> QED
    BY <1>a, <2>2, <2>3
<1>4. ASSUME NEW v \in Threads, Relock(v) PROVE v = w /\ Th(w).timedout
  <2>1. c'.th = [c.th EXCEPT ![v] = Idle] \/ c'.th = [c.th EXCEPT ![v].at = "pred"]
    BY <1>4 DEF Relock, Return, Inv, TypeInv
  <2>2. v = w
    BY <1>a, <2>1
  <2>3. ~Th(v).timedout => c'.th = [c.th EXCEPT ![v].at = "pred"]
    BY <1>4 DEF Relock, Inv, TypeInv
  <2>4. c'.th # [c.th EXCEPT ![w].at = "pred"]
    BY <1>a DEF Waiter
  <2> QED
    BY <2>2, <2>3, <2>4
<1>5. ASSUME NEW W \in SUBSET Asleep, c'.th = Wakes(W, FALSE) PROVE FALSE
  BY <1>5, <1>a DEF Wakes, Th, Waiter
<1>6. ASSUME NEW v \in Threads, Spurious(v) PROVE FALSE
  <2>1. {v} \in SUBSET Asleep /\ c'.th = Wakes({v}, FALSE)
    BY <1>6 DEF Spurious, Inv, TypeInv
  <2> QED
    BY <1>5, <2>1
<1>7. ASSUME NEW v \in Threads, NEW call, NEW d, Call(v, call, d) PROVE FALSE
  <2> DEFINE t == [Idle EXCEPT !.at = "pred", !.call = call, !.delay = d,
                               !.deadline = c.clock + d, !.woken = c.clock]
  <2>1. t.at = "pred"
    BY DEF Idle
  <2>2. c'.th = [c.th EXCEPT ![v] = t]
    BY <1>7 DEF Call, Inv, TypeInv
  <2> HIDE DEF t
  <2> QED
    BY <1>a, <2>1, <2>2
<1>8. ASSUME NEW all \in BOOLEAN, Post(all) PROVE FALSE
  <2>1. PICK W \in SUBSET Asleep :
           c' = [c EXCEPT !.work = @ + 1, !.posted = @ + 1, !.th = Wakes(W, FALSE)]
    BY <1>8 DEF Post
  <2> QED
    BY <2>1, <1>5 DEF Inv, TypeInv
<1>9. CASE Tick \/ UNCHANGED c
  BY <1>9, <1>a DEF Tick, Inv, TypeInv
<1> QED
  BY <1>1, <1>2, <1>3, <1>4, <1>6, <1>7, <1>8, <1>9 DEF Next, Step

\* A caller that comes back empty-handed has waited as long as it asked to:
\* wait never does, wait_for is past its one deadline with no work there, and
\* defer_for past a whole interval since it last woke.
THEOREM CallersWait ==
    ASSUME Delays \subseteq Nat, Nobody \notin Threads
    PROVE  Spec => WaitsOut
<1>1. Inv /\ [Next]_c => [Waited]_c
  <2> SUFFICES ASSUME Inv, [Next]_c, NEW w \in Threads, Returned(w), ~Got
               PROVE  EmptyHanded(w)
    BY DEF Waited
  <2> USE DEF Inv, TypeInv, Waiter
  <2>1. ~Satisfied(w)
    <3> SUFFICES ASSUME c.work > 0, Return(w, TRUE) PROVE FALSE
      BY DEF Satisfied
    <3>1. c'.work = c.work - 1
      BY DEF Return
    <3> QED
      BY <3>1 DEF Got
  <2>2. Relock(w) /\ Th(w).timedout
    BY <2>1, LeavesHow
  <2>3. ~(Th(w).call = "wait_for" /\ c.work > 0)
    <3> SUFFICES ASSUME Th(w).call = "wait_for", c.work > 0 PROVE FALSE
      OBVIOUS
    <3>1. c'.work = c.work - 1
      BY <2>2 DEF Relock, Return
    <3> QED
      BY <3>1 DEF Got
  <2> QED
    BY <2>2, <2>3 DEF DeadlineInv, Fine, EmptyHanded, Th, At
<1> QED
  BY <1>1, InvInit, InvNext, PTL DEF Spec, WaitsOut
=============================================================================
