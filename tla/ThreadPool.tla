----------------------------- MODULE ThreadPool -----------------------------
(***************************************************************************)
(* The thread pool of std_thread_pool.cpp: worker threads share a FIFO of  *)
(* jobs under one non-recursive mutex and one condition variable; one      *)
(* managing thread creates the pool and deletes it.                        *)
(*                                                                         *)
(* A step is a stretch of code between two points where another thread can *)
(* see a difference.  The job list is only touched under the mutex, so     *)
(* lock ... unlock of a caller is one step; the shutdown flag is written   *)
(* without the mutex, so each of its two reads is a step of its own.       *)
(***************************************************************************)
EXTENDS Integers, Sequences, FiniteSets

CONSTANTS Workers,   \* the threads the pool is created with (thread_pool_size)
          Jobs,      \* the jobs callers may add
          Endless,   \* jobs whose function never returns (the socket service
                     \* runs its select loop as one)
          Nobody     \* the value of owner when the mutex is free

ASSUME ThreadPoolAssumption ==
    /\ IsFiniteSet(Workers)
    /\ Endless \subseteq Jobs
    /\ Nobody \notin Workers
    /\ Nobody \notin Jobs

VARIABLES
    pc,        \* where each worker is, see PC below
    owner,     \* holder of m_lock
    mutexOk,   \* FALSE once pthread_mutex_destroy has taken effect
    jobs,      \* the list of pending jobs
    curr,      \* the job each worker has popped and not finished
    shutdown,  \* the flag
    mgr,       \* where the creating and deleting thread is
    sigs,      \* signals do_shutdown still has to send
    done,      \* history: jobs whose function and free function have run
    busyAt     \* history: workers committed to a job when shutdown was set

vars == <<pc, owner, mutexOk, jobs, curr, shutdown, mgr, sigs, done, busyAt>>

(***************************************************************************)
(* none    the thread is not created yet                                   *)
(* start   created, about to take the mutex for the first time             *)
(* top     has the mutex, about to read shutdown in the while condition    *)
(* dequeue has the mutex, about to read shutdown in dequeue()              *)
(* take    has the mutex, about to look at the list                        *)
(* run     in the job's function, without the mutex                        *)
(* relock  after the job, about to take the mutex                          *)
(* wait    in pthread_cond_wait, not signalled                             *)
(* woken   signalled, about to take the mutex                              *)
(* exit    the thread has returned                                         *)
(***************************************************************************)
PC == {"none", "start", "top", "dequeue", "take", "run", "relock", "wait",
       "woken", "exit"}

MgrPC == {"create", "open", "signal", "condGone", "mutexGone", "freed"}

At(S) == {w \in Workers : pc[w] \in S}

Listed(q) == {q[i] : i \in DOMAIN q}

\* pthread_cond_signal: from the program counters p, one waiting thread is
\* woken if there is one.
Signalled(p) ==
    LET waiting == {w \in Workers : p[w] = "wait"}
    IN  IF waiting = {} THEN {p}
        ELSE {[p EXCEPT ![w] = "woken"] : w \in waiting}

\* A destroyed mutex no longer excludes: pthread_mutex_lock returns EINVAL,
\* which no caller looks at.
CanLock == owner = Nobody \/ ~mutexOk

Hold(w) == IF mutexOk THEN w ELSE owner

Release(w) == IF owner = w THEN Nobody ELSE owner

\* Freed memory: what a thread does after reading it is not described.
Allocated == mgr # "freed"

Init == /\ pc = [w \in Workers |-> "none"]
        /\ owner = Nobody
        /\ mutexOk = TRUE
        /\ jobs = <<>>
        /\ curr = [w \in Workers |-> Nobody]
        /\ shutdown = FALSE
        /\ mgr = "create"
        /\ sigs = 0
        /\ done = {}
        /\ busyAt = {}

-----------------------------------------------------------------------------
(* The caller of job_add.                                                  *)

\* Fault: the job is added and nobody is told.
AddWork_NoSignal(j) ==
    /\ mgr \in {"open", "signal"}
    /\ CanLock
    /\ j \notin Listed(jobs) \cup Listed(curr) \cup done
    /\ jobs' = Append(jobs, j)
    /\ UNCHANGED <<pc, owner, mutexOk, curr, shutdown, mgr, sigs, done, busyAt>>

\* add_work.  When push_back throws, the mutex is released and nothing has
\* changed: a stuttering step.
AddWork(j) ==
    /\ mgr \in {"open", "signal"}
    /\ CanLock
    /\ j \notin Listed(jobs) \cup Listed(curr) \cup done
    /\ jobs' = Append(jobs, j)
    /\ pc' \in Signalled(pc)
    /\ UNCHANGED <<owner, mutexOk, curr, shutdown, mgr, sigs, done, busyAt>>

-----------------------------------------------------------------------------
(* A worker.                                                               *)

\* lock() on entry of worker_thread, and the end of pthread_cond_wait.
Lock(w) ==
    /\ pc[w] \in {"start", "woken"}
    /\ Allocated /\ CanLock
    /\ owner' = Hold(w)
    /\ pc' = [pc EXCEPT ![w] = "top"]
    /\ UNCHANGED <<mutexOk, jobs, curr, shutdown, mgr, sigs, done, busyAt>>

\* Fault: the loop does not look at shutdown.
LoopTest_Forever(w) ==
    /\ pc[w] = "top"
    /\ Allocated
    /\ pc' = [pc EXCEPT ![w] = "dequeue"]
    /\ UNCHANGED <<owner, mutexOk, jobs, curr, shutdown, mgr, sigs, done, busyAt>>

\* while (!ctx->shutdown), and the unlock and return after the loop.
LoopTest(w) ==
    /\ pc[w] = "top"
    /\ Allocated
    /\ IF shutdown
       THEN pc' = [pc EXCEPT ![w] = "exit"] /\ owner' = Release(w)
       ELSE pc' = [pc EXCEPT ![w] = "dequeue"] /\ UNCHANGED owner
    /\ UNCHANGED <<mutexOk, jobs, curr, shutdown, mgr, sigs, done, busyAt>>

\* pthread_cond_wait gives the mutex up and waits in one step; on a
\* destroyed mutex it returns at once.
WaitPC == IF mutexOk THEN "wait" ELSE "top"

\* dequeue: if (shutdown) { signal(); return false; }, then ctx->wait().
DequeueShutdown(w) ==
    /\ pc[w] = "dequeue"
    /\ Allocated
    /\ shutdown
    /\ \E p \in Signalled(pc) : pc' = [p EXCEPT ![w] = WaitPC]
    /\ owner' = Release(w)
    /\ UNCHANGED <<mutexOk, jobs, curr, shutdown, mgr, sigs, done, busyAt>>

\* Fault: dequeue does not look at shutdown.
DequeueOpen_Always(w) ==
    /\ pc[w] = "dequeue"
    /\ Allocated
    /\ pc' = [pc EXCEPT ![w] = "take"]
    /\ UNCHANGED <<owner, mutexOk, jobs, curr, shutdown, mgr, sigs, done, busyAt>>

DequeueOpen(w) ==
    /\ pc[w] = "dequeue"
    /\ Allocated
    /\ ~shutdown
    /\ pc' = [pc EXCEPT ![w] = "take"]
    /\ UNCHANGED <<owner, mutexOk, jobs, curr, shutdown, mgr, sigs, done, busyAt>>

\* Fault: the front of the list is read and not popped.
TakeJob_Keep(w) ==
    /\ pc[w] = "take"
    /\ Allocated
    /\ jobs # <<>>
    /\ curr' = [curr EXCEPT ![w] = Head(jobs)]
    /\ pc' = [pc EXCEPT ![w] = "run"]
    /\ owner' = Release(w)
    /\ UNCHANGED <<mutexOk, jobs, shutdown, mgr, sigs, done, busyAt>>

\* dequeue with a job in the list: pop it, pass the signal on when more are
\* left, release the mutex.
TakeJob(w) ==
    /\ pc[w] = "take"
    /\ Allocated
    /\ jobs # <<>>
    /\ curr' = [curr EXCEPT ![w] = Head(jobs)]
    /\ jobs' = Tail(jobs)
    /\ LET p == [pc EXCEPT ![w] = "run"]
       IN  IF Len(jobs) > 1 THEN pc' \in Signalled(p) ELSE pc' = p
    /\ owner' = Release(w)
    /\ UNCHANGED <<mutexOk, shutdown, mgr, sigs, done, busyAt>>

\* dequeue with an empty list returns false, and the worker waits.
TakeNothing(w) ==
    /\ pc[w] = "take"
    /\ Allocated
    /\ jobs = <<>>
    /\ pc' = [pc EXCEPT ![w] = WaitPC]
    /\ owner' = Release(w)
    /\ UNCHANGED <<mutexOk, jobs, curr, shutdown, mgr, sigs, done, busyAt>>

\* job.funct(context), then free_job_func when there is one.  Neither touches
\* the pool.
RunJob(w) ==
    /\ pc[w] = "run"
    /\ curr[w] \notin Endless
    /\ pc' = [pc EXCEPT ![w] = "relock"]
    /\ done' = done \cup {curr[w]}
    /\ curr' = [curr EXCEPT ![w] = Nobody]
    /\ UNCHANGED <<owner, mutexOk, jobs, shutdown, mgr, sigs, busyAt>>

\* Fault: dequeue returns false after a job, whatever the list holds.
Relock_Wait(w) ==
    /\ pc[w] = "relock"
    /\ Allocated /\ CanLock
    /\ pc' = [pc EXCEPT ![w] = WaitPC]
    /\ UNCHANGED <<owner, mutexOk, jobs, curr, shutdown, mgr, sigs, done, busyAt>>

\* lock(); return jobs.size()>0; then continue, or wait.
Relock(w) ==
    /\ pc[w] = "relock"
    /\ Allocated /\ CanLock
    /\ IF jobs # <<>>
       THEN pc' = [pc EXCEPT ![w] = "top"] /\ owner' = Hold(w)
       ELSE pc' = [pc EXCEPT ![w] = WaitPC] /\ UNCHANGED owner
    /\ UNCHANGED <<mutexOk, jobs, curr, shutdown, mgr, sigs, done, busyAt>>

\* pthread_cond_wait may return without a signal.
SpuriousWakeup(w) ==
    /\ pc[w] = "wait"
    /\ Allocated
    /\ pc' = [pc EXCEPT ![w] = "woken"]
    /\ UNCHANGED <<owner, mutexOk, jobs, curr, shutdown, mgr, sigs, done, busyAt>>

-----------------------------------------------------------------------------
(* The thread that creates and deletes the pool.                           *)

CreateThread(w) ==
    /\ mgr = "create"
    /\ pc[w] = "none"
    /\ pc' = [pc EXCEPT ![w] = "start"]
    /\ UNCHANGED <<owner, mutexOk, jobs, curr, shutdown, mgr, sigs, done, busyAt>>

\* All threads are there: the handle is handed out.
CreateDone ==
    /\ mgr = "create"
    /\ At({"none"}) = {}
    /\ mgr' = "open"
    /\ UNCHANGED <<pc, owner, mutexOk, jobs, curr, shutdown, sigs, done, busyAt>>

\* The workers a store to shutdown comes too late for: they are past the
\* reads of shutdown with a job to run, or in it, or back from it.
Committed == At({"run", "relock"})
             \cup {w \in At({"take"}) : jobs # <<>>}

\* Fault: one signal fewer than there are threads.
BeginShutdown_OneShort ==
    /\ shutdown' = TRUE
    /\ mgr' = "signal"
    /\ LET created == Cardinality(Workers \ At({"none"}))
       IN  sigs' = IF created = 0 THEN 0 ELSE created - 1
    /\ busyAt' = Committed
    /\ UNCHANGED <<pc, owner, mutexOk, jobs, curr, done>>

\* shutdown = true, without the mutex, and the bounds of the loop in
\* do_shutdown: one signal for every thread that was created.
BeginShutdown ==
    /\ shutdown' = TRUE
    /\ mgr' = "signal"
    /\ sigs' = Cardinality(Workers \ At({"none"}))
    /\ busyAt' = Committed
    /\ UNCHANGED <<pc, owner, mutexOk, jobs, curr, done>>

\* std_thread_create fails for one of the threads.
CreateFails == mgr = "create" /\ At({"none"}) # {} /\ BeginShutdown

\* std_thread_pool_delete
Delete == mgr = "open" /\ BeginShutdown

\* Fault: ix <= mx.
SignalOne_Extra ==
    /\ mgr = "signal"
    /\ CanLock
    /\ sigs' = sigs - 1
    /\ pc' \in Signalled(pc)
    /\ UNCHANGED <<owner, mutexOk, jobs, curr, shutdown, mgr, done, busyAt>>

\* lock(); signal(); unlock();
SignalOne ==
    /\ mgr = "signal"
    /\ sigs > 0
    /\ CanLock
    /\ sigs' = sigs - 1
    /\ pc' \in Signalled(pc)
    /\ UNCHANGED <<owner, mutexOk, jobs, curr, shutdown, mgr, done, busyAt>>

\* pthread_cond_destroy.  With threads waiting it is undefined: glibc either
\* returns EBUSY or blocks until they have left, see Fairness.
DestroyCond ==
    /\ mgr = "signal"
    /\ sigs = 0
    /\ mgr' = "condGone"
    /\ UNCHANGED <<pc, owner, mutexOk, jobs, curr, shutdown, sigs, done, busyAt>>

\* pthread_mutex_destroy.  glibc counts the holder and the threads inside
\* pthread_cond_wait as users, and refuses with EBUSY while there is one.
DestroyMutex ==
    /\ mgr = "condGone"
    /\ mgr' = "mutexGone"
    /\ mutexOk' = (owner # Nobody \/ At({"wait", "woken"}) # {})
    /\ UNCHANGED <<pc, owner, jobs, curr, shutdown, sigs, done, busyAt>>

\* std_usleep(SHUTDOWN_WAIT_TIME) and delete p: ten milliseconds promise
\* nothing about what the workers have done meanwhile.
Free ==
    /\ mgr = "mutexGone"
    /\ mgr' = "freed"
    /\ UNCHANGED <<pc, owner, mutexOk, jobs, curr, shutdown, sigs, done, busyAt>>

-----------------------------------------------------------------------------
WorkerStep(w) == \/ Lock(w) \/ LoopTest(w)
                 \/ DequeueShutdown(w) \/ DequeueOpen(w)
                 \/ TakeJob(w) \/ TakeNothing(w)
                 \/ RunJob(w) \/ Relock(w)

TearDown == SignalOne \/ DestroyCond \/ DestroyMutex \/ Free

Next == \/ \E j \in Jobs : AddWork(j)
        \/ \E w \in Workers : WorkerStep(w)
        \/ \E w \in Workers : SpuriousWakeup(w) \/ CreateThread(w)
        \/ CreateDone \/ CreateFails \/ Delete
        \/ TearDown

\* A thread that can always take its next step takes it.  Nothing obliges a
\* caller to add jobs or to delete the pool.  The deleting thread is only sure
\* to get past pthread_cond_destroy when no thread is waiting.
Fairness ==
    /\ \A w \in Workers : WF_vars(WorkerStep(w)) /\ WF_vars(CreateThread(w))
    /\ WF_vars(CreateDone)
    /\ WF_vars(SignalOne)
    /\ WF_vars(DestroyCond /\ At({"wait"}) = {})
    /\ WF_vars(DestroyMutex)
    /\ WF_vars(Free)

SafetySpec == Init /\ [][Next]_vars

Spec == SafetySpec /\ Fairness
-----------------------------------------------------------------------------
(* Properties.                                                             *)

TypeOK ==
    /\ pc \in [Workers -> PC]
    /\ owner \in Workers \cup {Nobody}
    /\ mutexOk \in BOOLEAN
    /\ jobs \in Seq(Jobs)
    /\ curr \in [Workers -> Jobs \cup {Nobody}]
    /\ shutdown \in BOOLEAN
    /\ mgr \in MgrPC
    /\ sigs \in 0..Cardinality(Workers)
    /\ done \subseteq Jobs
    /\ busyAt \subseteq Workers

\* Workers that will look at the list before they wait again.
Awake == {"start", "woken", "top", "dequeue", "take", "relock"}

\* While the pool is open, a pending job never meets only waiting and busy
\* workers: when some worker waits, another is on its way to the list.  One
\* signal per add_work and one per dequeue of a longer list are enough
\* because a worker only waits after it saw the list empty.
NoLostWakeup ==
    jobs # <<>> /\ ~shutdown /\ At({"wait"}) # {} => At(Awake) # {}

\* A worker holds a job exactly while it is in the job's function.
BusyHasJob == \A w \in Workers : curr[w] # Nobody <=> pc[w] = "run"

ListedOnce == \A a, b \in DOMAIN jobs : jobs[a] = jobs[b] => a = b

NotShared == \A v, w \in Workers : curr[v] = curr[w] /\ curr[v] # Nobody => v = w

NotListedAgain == \A i \in DOMAIN jobs : jobs[i] \notin Listed(curr) \cup done

NotRunAgain == \A w \in Workers : curr[w] \notin done

\* A job is in one place: once in the list, or with one worker, or finished.
\* No interleaving of callers and workers loses, repeats or shares a job.
EachJobOnce == BusyHasJob /\ ListedOnce /\ NotShared /\ NotListedAgain /\ NotRunAgain

\* The one signal per thread that do_shutdown sends reaches every worker that
\* was not committed to a job when shutdown was set, although the flag is
\* written without the mutex and a worker may wait after it was set.
OnlyBusyLeftWaiting ==
    mgr \notin {"create", "open"} /\ sigs = 0 => At({"wait"}) \subseteq busyAt

\* Once shutdown is set, a worker starts a job only if it had already passed
\* the test in dequeue() with that job in the list.
NoStartAfterShutdown ==
    [][\A w \in Workers :
         shutdown /\ pc[w] # "run" /\ pc'[w] = "run" => w \in busyAt]_vars

\* std_thread_pool_delete returns when it finds no worker in a job.
DeleteReturns == (mgr = "signal" /\ busyAt = {}) ~> (mgr = "freed")

\* The pool keeps the promise of JobPool: accepted jobs start in order, each
\* once, and none is forgotten while the pool is open, whatever the endless
\* jobs do, as long as they do not take every worker.
Promise == INSTANCE JobPool WITH
             Size <- Cardinality(Workers),
             queue <- jobs,
             active <- Listed(curr) \ {Nobody},
             closed <- shutdown

KeepsPromise == Promise!Spec

\* std_thread_pool.h:65 "Delete an active thread pool.  Will attempt to
\* shutdown all threads in the pool": once the last signal is sent, no worker
\* is left waiting for another.
AllThreadsShutDown ==
    mgr \notin {"create", "open"} /\ sigs = 0 => At({"wait"}) = {}
=============================================================================
