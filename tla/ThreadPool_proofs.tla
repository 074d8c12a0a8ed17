-------------------------- MODULE ThreadPool_proofs --------------------------
(***************************************************************************)
(* Proofs about ThreadPool for every set of workers and jobs.              *)
(***************************************************************************)
EXTENDS ThreadPool, FiniteSetTheorems, TLAPS

(***************************************************************************)
(* Facts about the helpers.                                                *)
(***************************************************************************)

\* signal() only ever changes one program counter, from wait to woken.
LEMMA SignalledCases ==
    ASSUME NEW p \in [Workers -> PC], NEW q \in Signalled(p)
    PROVE  /\ q \in [Workers -> PC]
           /\ \/ q = p /\ {w \in Workers : p[w] = "wait"} = {}
              \/ \E w \in Workers : p[w] = "wait" /\ q = [p EXCEPT ![w] = "woken"]
BY DEF Signalled, PC

\* The number of signals delete sends is at most the number of workers.
LEMMA CreatedBound ==
    ASSUME NEW S \in SUBSET Workers
    PROVE  /\ Cardinality(S) \in 0..Cardinality(Workers)
           /\ Cardinality(S) \in Nat /\ Cardinality(Workers) \in Nat
<1>1. IsFiniteSet(Workers)
  BY ThreadPoolAssumption
<1>2. IsFiniteSet(S) /\ Cardinality(S) <= Cardinality(Workers)
  BY <1>1, FS_Subset
<1>3. Cardinality(S) \in Nat /\ Cardinality(Workers) \in Nat
  BY <1>1, <1>2, FS_CardinalityType
<1> QED
  BY <1>2, <1>3

(***************************************************************************)
(* Type correctness.                                                       *)
(***************************************************************************)

\* std_thread_pool_create starts from values of the right types.
LEMMA TypeInit == Init => TypeOK /\ BusyHasJob
<1> SUFFICES ASSUME Init PROVE TypeOK /\ BusyHasJob
  OBVIOUS
<1>1. Cardinality(Workers) \in Nat
  BY CreatedBound
<1>2. jobs \in Seq(Jobs) /\ sigs \in 0..Cardinality(Workers)
  BY <1>1 DEF Init
<1>3. pc \in [Workers -> PC] /\ curr \in [Workers -> Jobs \cup {Nobody}]
  BY DEF Init, PC
<1> QED
  BY <1>2, <1>3 DEF Init, TypeOK, MgrPC, BusyHasJob

\* Every action keeps every variable in its type.
LEMMA TypeNext == TypeOK /\ BusyHasJob /\ [Next]_vars => TypeOK'
<1> SUFFICES ASSUME TypeOK, BusyHasJob, [Next]_vars PROVE TypeOK'
  OBVIOUS
<1> USE DEF TypeOK
<1>1. ASSUME NEW j \in Jobs, AddWork(j) PROVE TypeOK'
  <2>1. pc' \in [Workers -> PC]
    BY <1>1, SignalledCases DEF AddWork
  <2>2. jobs' \in Seq(Jobs)
    BY <1>1 DEF AddWork
  <2> QED
    BY <1>1, <2>1, <2>2 DEF AddWork
<1>2. ASSUME NEW w \in Workers, Lock(w) PROVE TypeOK'
  BY <1>2 DEF Lock, Hold, PC
<1>3. ASSUME NEW w \in Workers, LoopTest(w) PROVE TypeOK'
  BY <1>3 DEF LoopTest, Release, PC
<1>4. ASSUME NEW w \in Workers, DequeueShutdown(w) PROVE TypeOK'
  <2>1. PICK p \in Signalled(pc) : pc' = [p EXCEPT ![w] = WaitPC]
    BY <1>4 DEF DequeueShutdown
  <2>2. p \in [Workers -> PC]
    BY SignalledCases
  <2>3. pc' \in [Workers -> PC]
    BY <2>1, <2>2 DEF WaitPC, PC
  <2> QED
    BY <1>4, <2>3 DEF DequeueShutdown, Release
<1>5. ASSUME NEW w \in Workers, DequeueOpen(w) PROVE TypeOK'
  BY <1>5 DEF DequeueOpen, PC
<1>6. ASSUME NEW w \in Workers, TakeJob(w) PROVE TypeOK'
  <2> DEFINE p == [pc EXCEPT ![w] = "run"]
  <2>1. p \in [Workers -> PC]
    BY DEF PC
  <2>2. pc' \in [Workers -> PC]
    BY <1>6, <2>1, SignalledCases DEF TakeJob
  <2>3. Head(jobs) \in Jobs /\ Tail(jobs) \in Seq(Jobs)
    BY <1>6 DEF TakeJob
  <2> QED
    BY <1>6, <2>2, <2>3 DEF TakeJob, Release
<1>7. ASSUME NEW w \in Workers, TakeNothing(w) PROVE TypeOK'
  BY <1>7 DEF TakeNothing, WaitPC, Release, PC
<1>8. ASSUME NEW w \in Workers, RunJob(w) PROVE TypeOK'
  BY <1>8 DEF RunJob, PC, BusyHasJob
<1>9. ASSUME NEW w \in Workers, Relock(w) PROVE TypeOK'
  BY <1>9 DEF Relock, WaitPC, Hold, PC
<1>10. ASSUME NEW w \in Workers, SpuriousWakeup(w) PROVE TypeOK'
  BY <1>10 DEF SpuriousWakeup, PC
<1>11. ASSUME NEW w \in Workers, CreateThread(w) PROVE TypeOK'
  BY <1>11 DEF CreateThread, PC
<1>12. CASE CreateDone
  BY <1>12 DEF CreateDone, MgrPC
<1>13. ASSUME BeginShutdown PROVE TypeOK'
  <2>1. sigs' \in 0..Cardinality(Workers)
    BY <1>13, CreatedBound DEF BeginShutdown
  <2>2. busyAt' \subseteq Workers
    BY <1>13 DEF BeginShutdown, Committed, At
  <2> QED
    BY <1>13, <2>1, <2>2 DEF BeginShutdown, MgrPC
<1>14. CASE SignalOne
  <2>1. sigs' \in 0..Cardinality(Workers)
    BY <1>14, CreatedBound DEF SignalOne
  <2>2. pc' \in [Workers -> PC]
    BY <1>14, SignalledCases DEF SignalOne
  <2> QED
    BY <1>14, <2>1, <2>2 DEF SignalOne
<1>15. CASE DestroyCond
  BY <1>15 DEF DestroyCond, MgrPC
<1>16. CASE DestroyMutex
  BY <1>16 DEF DestroyMutex, MgrPC
<1>17. CASE Free
  BY <1>17 DEF Free, MgrPC
<1>18. CASE UNCHANGED vars
  BY <1>18 DEF vars
<1> QED
  BY <1>1, <1>2, <1>3, <1>4, <1>5, <1>6, <1>7, <1>8, <1>9, <1>10, <1>11,
     <1>12, <1>13, <1>14, <1>15, <1>16, <1>17, <1>18
  DEF Next, WorkerStep, TearDown, CreateFails, Delete

\* A worker gets a job when it starts to run and gives it up when it stops;
\* signals do not touch a worker in a job.
LEMMA BusyNext == TypeOK /\ BusyHasJob /\ [Next]_vars => BusyHasJob'
<1> SUFFICES ASSUME TypeOK, BusyHasJob, [Next]_vars,
                    NEW v \in Workers
             PROVE  (curr'[v] # Nobody <=> pc'[v] = "run")
  BY DEF BusyHasJob
<1> USE DEF TypeOK, BusyHasJob
<1>a. ASSUME NEW p \in [Workers -> PC], NEW q \in Signalled(p)
      PROVE  q[v] = "run" <=> p[v] = "run"
  BY <1>a, SignalledCases
<1>1. ASSUME NEW j \in Jobs, AddWork(j) PROVE curr'[v] # Nobody <=> pc'[v] = "run"
  BY <1>1, <1>a DEF AddWork
<1>2. ASSUME NEW w \in Workers, Lock(w) \/ LoopTest(w) \/ DequeueOpen(w)
             \/ SpuriousWakeup(w) \/ CreateThread(w)
      PROVE  curr'[v] # Nobody <=> pc'[v] = "run"
  BY <1>2 DEF Lock, LoopTest, DequeueOpen, SpuriousWakeup, CreateThread
<1>3. ASSUME NEW w \in Workers, TakeNothing(w) \/ Relock(w)
      PROVE  curr'[v] # Nobody <=> pc'[v] = "run"
  BY <1>3 DEF TakeNothing, Relock, WaitPC
<1>4. ASSUME NEW w \in Workers, DequeueShutdown(w)
      PROVE  curr'[v] # Nobody <=> pc'[v] = "run"
  <2>1. PICK p \in Signalled(pc) : pc' = [p EXCEPT ![w] = WaitPC]
    BY <1>4 DEF DequeueShutdown
  <2>2. p \in [Workers -> PC] /\ (p[v] = "run" <=> pc[v] = "run")
    BY <1>a, SignalledCases
  <2> QED
    BY <1>4, <2>1, <2>2 DEF DequeueShutdown, WaitPC
<1>5. ASSUME NEW w \in Workers, TakeJob(w)
      PROVE  curr'[v] # Nobody <=> pc'[v] = "run"
  <2> DEFINE p == [pc EXCEPT ![w] = "run"]
  <2>1. p \in [Workers -> PC]
    BY DEF PC
  <2>2. pc'[v] = "run" <=> p[v] = "run"
    BY <1>5, <1>a, <2>1 DEF TakeJob
  <2>3. Head(jobs) \in Jobs
    BY <1>5 DEF TakeJob
  <2> QED
    BY <1>5, <2>2, <2>3, ThreadPoolAssumption DEF TakeJob
<1>6. ASSUME NEW w \in Workers, RunJob(w)
      PROVE  curr'[v] # Nobody <=> pc'[v] = "run"
  BY <1>6 DEF RunJob
<1>7. CASE SignalOne
  BY <1>7, <1>a DEF SignalOne
<1>8. CASE CreateDone \/ BeginShutdown \/ DestroyCond \/ DestroyMutex \/ Free
           \/ UNCHANGED vars
  BY <1>8 DEF CreateDone, BeginShutdown, DestroyCond, DestroyMutex, Free, vars
<1> QED
  BY <1>1, <1>2, <1>3, <1>4, <1>5, <1>6, <1>7, <1>8
  DEF Next, WorkerStep, TearDown, CreateFails, Delete

\* The pool's variables keep their types, whatever the numbers of workers and
\* jobs and however their steps interleave.
THEOREM TypeCorrect == SafetySpec => [](TypeOK /\ BusyHasJob)
BY TypeInit, TypeNext, BusyNext, PTL DEF SafetySpec

(***************************************************************************)
(* No lost wake-up.                                                        *)
(***************************************************************************)

\* NoLostWakeup is inductive: callers and TakeJob signal when a worker waits,
\* and a worker waits only with an empty list or after shutdown.
LEMMA WakeupNext == TypeOK /\ NoLostWakeup /\ [Next]_vars => NoLostWakeup'
<1> SUFFICES ASSUME TypeOK, NoLostWakeup, [Next]_vars,
                    jobs' # <<>>, ~shutdown',
                    NEW v \in Workers, pc'[v] = "wait"
             PROVE  \E u \in Workers : pc'[u] \in Awake
  BY DEF NoLostWakeup, At
<1> USE DEF TypeOK, Awake
<1>a. ASSUME NEW p \in [Workers -> PC], NEW q \in Signalled(p), q[v] = "wait"
      PROVE  \E u \in Workers : q[u] = "woken"
  BY <1>a, SignalledCases DEF Signalled
<1>b. ASSUME jobs # <<>>, ~shutdown, pc[v] = "wait"
      PROVE  \E u \in Workers : pc[u] \in Awake
  BY <1>b DEF NoLostWakeup, At
<1>1. ASSUME NEW j \in Jobs, AddWork(j) PROVE \E u \in Workers : pc'[u] \in Awake
  BY <1>1, <1>a DEF AddWork
<1>2. ASSUME NEW w \in Workers, Lock(w) \/ LoopTest(w) \/ DequeueOpen(w)
             \/ SpuriousWakeup(w) \/ CreateThread(w)
      PROVE  \E u \in Workers : pc'[u] \in Awake
  BY <1>2, <1>b DEF Lock, LoopTest, DequeueOpen, SpuriousWakeup, CreateThread
<1>3. ASSUME NEW w \in Workers, TakeNothing(w) PROVE FALSE
  BY <1>3 DEF TakeNothing
<1>4. ASSUME NEW w \in Workers, DequeueShutdown(w) PROVE FALSE
  BY <1>4 DEF DequeueShutdown
<1>5. ASSUME NEW w \in Workers, TakeJob(w) PROVE \E u \in Workers : pc'[u] \in Awake
  <2> DEFINE p == [pc EXCEPT ![w] = "run"]
  <2>1. p \in [Workers -> PC]
    BY DEF PC
  <2>2. Len(jobs) > 1
    BY <1>5 DEF TakeJob
  <2> QED
    BY <1>5, <1>a, <2>1, <2>2 DEF TakeJob
<1>6. ASSUME NEW w \in Workers, RunJob(w) PROVE \E u \in Workers : pc'[u] \in Awake
  BY <1>6 DEF RunJob
<1>7. ASSUME NEW w \in Workers, Relock(w) PROVE \E u \in Workers : pc'[u] \in Awake
  BY <1>7 DEF Relock
<1>8. CASE SignalOne
  BY <1>8, <1>a DEF SignalOne
<1>9. CASE CreateDone \/ DestroyCond \/ DestroyMutex \/ Free \/ UNCHANGED vars
  BY <1>9, <1>b DEF CreateDone, DestroyCond, DestroyMutex, Free, vars
<1>10. CASE BeginShutdown
  BY <1>10 DEF BeginShutdown
<1> QED
  BY <1>1, <1>2, <1>3, <1>4, <1>5, <1>6, <1>7, <1>8, <1>9, <1>10
  DEF Next, WorkerStep, TearDown, CreateFails, Delete

\* With any number of workers, a pending job of an open pool never waits on
\* sleeping and busy workers alone (add_work, dequeue and worker_thread).
THEOREM WakeupCorrect == SafetySpec => []NoLostWakeup
<1>1. Init => NoLostWakeup
  BY DEF Init, NoLostWakeup
<1> QED
  BY <1>1, WakeupNext, TypeCorrect, PTL DEF SafetySpec

(***************************************************************************)
(* The mutex, the shutdown flag and the life of the pool.                  *)
(***************************************************************************)

\* Where worker_thread and dequeue hold the mutex.
Holding == {"top", "dequeue", "take"}

\* While the mutex works, whoever is between lock() and unlock() owns it.
MutexInv == \A w \in Workers : mutexOk /\ pc[w] \in Holding => owner = w

\* The flag is set exactly from the start of do_shutdown on, and the mutex
\* goes after the last signal, when no worker can wait or read the list.
TearDownInv ==
    /\ shutdown <=> mgr \notin {"create", "open"}
    /\ ~mutexOk => /\ mgr \in {"mutexGone", "freed"}
                   /\ At({"dequeue", "take", "wait", "woken"}) = {}

\* After shutdown only workers counted in busyAt have a job, come back from
\* one, or are about to take one.
LateInv ==
    shutdown => \A w \in Workers :
                  \/ pc[w] \in {"run", "relock"}
                  \/ pc[w] = "take" /\ jobs # <<>>
                  => w \in busyAt

\* Workers that do_shutdown may still have to wake: each of its signals meets
\* one of them, or there is no waiting worker at all.
ToWake == At({"wait", "dequeue", "take", "run", "relock"})

\* Idle workers that a shutdown must wake.
Stranded == At({"wait", "dequeue", "take"}) \ busyAt

\* Enough signals are left for whoever has to be woken.
CountInv ==
    shutdown => Stranded = {} \/ (mgr = "signal" /\ Cardinality(ToWake) <= sigs)

\* A pool under construction satisfies all parts of the invariant.
LEMMA LifeInit == Init => MutexInv /\ TearDownInv /\ LateInv /\ CountInv
BY DEF Init, MutexInv, TearDownInv, LateInv, CountInv, Holding, At

\* What every signal leaves alone: all program counters but those of waiting
\* and woken workers.
LEMMA SignalKeeps ==
    ASSUME NEW p \in [Workers -> PC], NEW q \in Signalled(p), NEW v \in Workers
    PROVE  q[v] = p[v] \/ (p[v] = "wait" /\ q[v] = "woken")
BY SignalledCases

\* A worker enters the critical section with the mutex and leaves it before
\* it gives the mutex up.
LEMMA MutexNext == TypeOK /\ MutexInv /\ TearDownInv /\ [Next]_vars => MutexInv'
<1> SUFFICES ASSUME TypeOK, MutexInv, TearDownInv, [Next]_vars,
                    NEW v \in Workers, mutexOk', pc'[v] \in Holding
             PROVE  owner' = v
  BY DEF MutexInv
<1> USE DEF TypeOK, Holding
<1>a. mutexOk /\ pc[v] \in Holding => owner = v
  BY DEF MutexInv
<1>1. ASSUME NEW j \in Jobs, AddWork(j) PROVE owner' = v
  BY <1>1, <1>a, SignalKeeps DEF AddWork
<1>2. ASSUME NEW w \in Workers, Lock(w) PROVE owner' = v
  BY <1>2, <1>a, ThreadPoolAssumption DEF Lock, CanLock, Hold
<1>3. ASSUME NEW w \in Workers, LoopTest(w) \/ DequeueOpen(w) \/ TakeNothing(w)
      PROVE  owner' = v
  BY <1>3, <1>a DEF LoopTest, DequeueOpen, TakeNothing, Release, WaitPC, MutexInv
<1>4. ASSUME NEW w \in Workers, DequeueShutdown(w) PROVE owner' = v
  <2>1. PICK p \in Signalled(pc) : pc' = [p EXCEPT ![w] = WaitPC]
    BY <1>4 DEF DequeueShutdown
  <2>2. p \in [Workers -> PC] /\ (p[v] \in Holding => pc[v] \in Holding)
    BY SignalKeeps, SignalledCases
  <2>3. mutexOk /\ owner = w /\ v # w
    BY <1>4, <2>1, <2>2 DEF DequeueShutdown, WaitPC, MutexInv
  <2> QED
    BY <1>4, <1>a, <2>1, <2>2, <2>3 DEF DequeueShutdown
<1>5. ASSUME NEW w \in Workers, TakeJob(w) PROVE owner' = v
  <2> DEFINE p == [pc EXCEPT ![w] = "run"]
  <2>1. p \in [Workers -> PC]
    BY DEF PC
  <2>2. p[v] \in Holding
    BY <1>5, <2>1, SignalKeeps DEF TakeJob
  <2>3. v # w /\ pc[v] \in Holding
    BY <2>2
  <2> QED
    BY <1>5, <1>a, <2>3 DEF TakeJob, MutexInv
<1>6. ASSUME NEW w \in Workers, Relock(w) PROVE owner' = v
  BY <1>6, <1>a, ThreadPoolAssumption DEF Relock, CanLock, Hold, WaitPC
<1>7. ASSUME NEW w \in Workers, RunJob(w) \/ SpuriousWakeup(w) \/ CreateThread(w)
      PROVE  owner' = v
  BY <1>7, <1>a DEF RunJob, SpuriousWakeup, CreateThread
<1>8. CASE SignalOne
  BY <1>8, <1>a, SignalKeeps DEF SignalOne
<1>9. CASE CreateDone \/ BeginShutdown \/ DestroyCond \/ DestroyMutex \/ Free
           \/ UNCHANGED vars
  BY <1>9, <1>a
  DEF CreateDone, BeginShutdown, DestroyCond, DestroyMutex, Free, vars, TearDownInv
<1> HIDE DEF TypeOK, Holding
<1> QED
  BY <1>1, <1>2, <1>3, <1>4, <1>5, <1>6, <1>7, <1>8, <1>9
  DEF Next, WorkerStep, TearDown, CreateFails, Delete

\* The mutex is gone only when nobody was inside it, and then shutdown turns
\* every worker away from the list and from waiting.
LEMMA TearDownNext ==
    TypeOK /\ MutexInv /\ TearDownInv /\ [Next]_vars => TearDownInv'
<1> SUFFICES ASSUME TypeOK, MutexInv, TearDownInv, [Next]_vars PROVE TearDownInv'
  OBVIOUS
<1> DEFINE Away(f) == \A v \in Workers : f[v] \notin {"dequeue", "take", "wait", "woken"}
<1> SUFFICES /\ shutdown' <=> mgr' \notin {"create", "open"}
             /\ ~mutexOk' => mgr' \in {"mutexGone", "freed"} /\ Away(pc')
  BY DEF TearDownInv, At
<1>a. /\ shutdown <=> mgr \notin {"create", "open"}
      /\ ~mutexOk => mgr \in {"mutexGone", "freed"} /\ shutdown /\ Away(pc)
  BY DEF TearDownInv, At
<1> USE DEF TypeOK
<1>1. ASSUME NEW j \in Jobs, AddWork(j) PROVE mutexOk' /\ UNCHANGED <<shutdown, mgr>>
  BY <1>1, <1>a DEF AddWork
<1>2. ASSUME NEW w \in Workers,
             WorkerStep(w) \/ SpuriousWakeup(w) \/ CreateThread(w)
      PROVE  UNCHANGED <<shutdown, mgr, mutexOk>> /\ (~mutexOk => Away(pc'))
  <2>1. UNCHANGED <<shutdown, mgr, mutexOk>>
    BY <1>2 DEF WorkerStep, Lock, LoopTest, DequeueShutdown, DequeueOpen, TakeJob,
                TakeNothing, RunJob, Relock, SpuriousWakeup, CreateThread
  <2>2. ASSUME ~mutexOk PROVE Away(pc')
    <3>1. pc[w] \notin {"dequeue", "take", "wait", "woken"} /\ Away(pc) /\ shutdown
      BY <1>a, <2>2
    <3>2. CASE Lock(w) \/ LoopTest(w) \/ RunJob(w) \/ Relock(w) \/ CreateThread(w)
      BY <2>2, <3>1, <3>2 DEF Lock, LoopTest, RunJob, Relock, WaitPC, CreateThread
    <3>3. CASE DequeueShutdown(w) \/ DequeueOpen(w) \/ TakeJob(w) \/ TakeNothing(w)
               \/ SpuriousWakeup(w)
      BY <3>1, <3>3
      DEF DequeueShutdown, DequeueOpen, TakeJob, TakeNothing, SpuriousWakeup
    <3> QED
      BY <1>2, <3>2, <3>3 DEF WorkerStep
  <2> QED
    BY <2>1, <2>2
<1>3. CASE CreateDone \/ CreateFails \/ Delete \/ SignalOne \/ DestroyCond
  BY <1>3, <1>a
  DEF CreateDone, CreateFails, Delete, BeginShutdown, SignalOne, DestroyCond
<1>4. CASE DestroyMutex
  <2>1. mutexOk
    BY <1>4, <1>a DEF DestroyMutex
  <2>2. ASSUME ~mutexOk' PROVE Away(pc')
    BY <1>4, <2>1, <2>2, ThreadPoolAssumption DEF DestroyMutex, MutexInv, Holding, At
  <2> QED
    BY <1>4, <1>a, <2>2 DEF DestroyMutex
<1>5. CASE Free \/ UNCHANGED vars
  BY <1>5, <1>a DEF Free, vars
<1> HIDE DEF TypeOK, Away
<1>6. CASE \E j \in Jobs : AddWork(j)
  BY <1>6, <1>1, <1>a
<1>7. CASE \E w \in Workers : WorkerStep(w) \/ SpuriousWakeup(w) \/ CreateThread(w)
  BY <1>7, <1>2, <1>a
<1> QED
  BY <1>3, <1>4, <1>5, <1>6, <1>7 DEF Next, TearDown

\* After shutdown no worker passes the test in dequeue(), and the list cannot
\* grow under a worker that is about to look at it.
LEMMA LateNext ==
    TypeOK /\ MutexInv /\ TearDownInv /\ LateInv /\ [Next]_vars => LateInv'
<1> DEFINE Late(f, q, v) == f[v] \in {"run", "relock"} \/ (f[v] = "take" /\ q # <<>>)
<1> SUFFICES ASSUME TypeOK, MutexInv, TearDownInv, LateInv, [Next]_vars,
                    shutdown', NEW v \in Workers, Late(pc', jobs', v)
             PROVE  v \in busyAt'
  BY DEF LateInv
<1> USE DEF TypeOK
<1>a. shutdown /\ Late(pc, jobs, v) => v \in busyAt
  BY DEF LateInv
<1>1. ASSUME NEW j \in Jobs, AddWork(j) PROVE v \in busyAt'
  <2>1. pc[v] = pc'[v]
    BY <1>1, SignalKeeps DEF AddWork
  <2>2. mutexOk /\ owner = Nobody
    BY <1>1 DEF AddWork, CanLock, TearDownInv
  <2>3. pc[v] # "take"
    BY <2>2, ThreadPoolAssumption DEF MutexInv, Holding
  <2> QED
    BY <1>1, <1>a, <2>1, <2>3 DEF AddWork
<1>2. ASSUME NEW w \in Workers, Lock(w) \/ LoopTest(w) \/ DequeueOpen(w)
             \/ RunJob(w) \/ SpuriousWakeup(w) \/ CreateThread(w)
      PROVE  v \in busyAt'
  BY <1>2, <1>a DEF Lock, LoopTest, DequeueOpen, RunJob, SpuriousWakeup, CreateThread
<1>3. ASSUME NEW w \in Workers, TakeNothing(w) \/ Relock(w) PROVE v \in busyAt'
  BY <1>3, <1>a DEF TakeNothing, Relock, WaitPC
<1>4. ASSUME NEW w \in Workers, DequeueShutdown(w) PROVE v \in busyAt'
  <2>1. PICK p \in Signalled(pc) : pc' = [p EXCEPT ![w] = WaitPC]
    BY <1>4 DEF DequeueShutdown
  <2>2. p \in [Workers -> PC] /\ (p[v] = pc[v] \/ p[v] = "woken")
    BY SignalKeeps, SignalledCases
  <2> QED
    BY <1>4, <1>a, <2>1, <2>2 DEF DequeueShutdown, WaitPC
<1>5. ASSUME NEW w \in Workers, TakeJob(w) PROVE v \in busyAt'
  <2> DEFINE p == [pc EXCEPT ![w] = "run"]
  <2>1. p \in [Workers -> PC]
    BY DEF PC
  <2>2. p[v] = pc'[v]
    BY <1>5, <2>1, SignalKeeps DEF TakeJob
  <2>3. Late(pc, jobs, v)
    BY <1>5, <2>2 DEF TakeJob
  <2> QED
    BY <1>5, <1>a, <2>3 DEF TakeJob
<1>6. CASE SignalOne
  <2>1. pc[v] = pc'[v]
    BY <1>6, SignalKeeps DEF SignalOne
  <2> QED
    BY <1>6, <1>a, <2>1 DEF SignalOne
<1>7. CASE BeginShutdown
  BY <1>7 DEF BeginShutdown, Committed, At
<1>8. CASE CreateDone \/ DestroyCond \/ DestroyMutex \/ Free \/ UNCHANGED vars
  BY <1>8, <1>a DEF CreateDone, DestroyCond, DestroyMutex, Free, vars
<1> HIDE DEF TypeOK, Late
<1> QED
  BY <1>1, <1>2, <1>3, <1>4, <1>5, <1>6, <1>7, <1>8
  DEF Next, WorkerStep, TearDown, CreateFails, Delete

\* Mutual exclusion on the list, the order of tear-down, and who still has a
\* job after shutdown: what the theorems about deletion rest on.
THEOREM LifeCorrect == SafetySpec => [](MutexInv /\ TearDownInv /\ LateInv)
BY LifeInit, TypeCorrect, MutexNext, TearDownNext, LateNext, PTL DEF SafetySpec

\* A job that starts after delete has set the flag was already past the test
\* in dequeue(): deleting a pool starts no further job.
THEOREM NoStartCorrect == SafetySpec => NoStartAfterShutdown
<1>1. ASSUME TypeOK, LateInv, [Next]_vars
      PROVE  [\A w \in Workers :
                shutdown /\ pc[w] # "run" /\ pc'[w] = "run" => w \in busyAt]_vars
  <2> SUFFICES ASSUME NEW v \in Workers, shutdown, pc[v] # "run", pc'[v] = "run"
               PROVE  v \in busyAt
    OBVIOUS
  <2> USE <1>1 DEF TypeOK
  <2>1. ASSUME NEW w \in Workers, TakeJob(w) PROVE v \in busyAt
    <3> DEFINE p == [pc EXCEPT ![w] = "run"]
    <3>1. p \in [Workers -> PC]
      BY DEF PC
    <3>2. pc'[v] = p[v] \/ pc'[v] = "woken"
      BY <2>1, <3>1, SignalKeeps DEF TakeJob
    <3>3. v = w
      BY <3>2
    <3> QED
      BY <2>1, <3>3 DEF TakeJob, LateInv
  <2>2. ASSUME NEW w \in Workers, DequeueShutdown(w) PROVE FALSE
    <3>1. PICK p \in Signalled(pc) : pc' = [p EXCEPT ![w] = WaitPC]
      BY <2>2 DEF DequeueShutdown
    <3>2. p \in [Workers -> PC] /\ (p[v] = pc[v] \/ p[v] = "woken")
      BY SignalKeeps, SignalledCases
    <3> QED
      BY <3>1, <3>2 DEF WaitPC
  <2>3. ASSUME NEW w \in Workers, Lock(w) \/ LoopTest(w) \/ DequeueOpen(w)
               \/ TakeNothing(w) \/ RunJob(w) \/ Relock(w)
               \/ SpuriousWakeup(w) \/ CreateThread(w)
        PROVE  FALSE
    BY <2>3 DEF Lock, LoopTest, DequeueOpen, TakeNothing, RunJob, Relock, WaitPC,
                SpuriousWakeup, CreateThread
  <2>4. ASSUME NEW j \in Jobs, AddWork(j) PROVE FALSE
    BY <2>4, SignalKeeps DEF AddWork
  <2>5. CASE SignalOne
    BY <2>5, SignalKeeps DEF SignalOne
  <2>6. CASE CreateDone \/ BeginShutdown \/ DestroyCond \/ DestroyMutex \/ Free
             \/ UNCHANGED vars
    BY <2>6 DEF CreateDone, BeginShutdown, DestroyCond, DestroyMutex, Free, vars
  <2> HIDE DEF TypeOK
  <2> QED
    BY <2>1, <2>2, <2>3, <2>4, <2>5, <2>6
    DEF Next, WorkerStep, TearDown, CreateFails, Delete
<1> QED
  BY <1>1, TypeCorrect, LifeCorrect, PTL DEF SafetySpec, NoStartAfterShutdown

(***************************************************************************)
(* The signals of do_shutdown.                                             *)
(***************************************************************************)

\* The workers at a set of places are finitely many.
LEMMA AtFinite ==
    ASSUME NEW S
    PROVE  /\ At(S) \subseteq Workers /\ IsFiniteSet(At(S))
           /\ Cardinality(At(S)) \in Nat
<1>1. At(S) \subseteq Workers
  BY DEF At
<1>2. IsFiniteSet(At(S))
  BY <1>1, FS_Subset, ThreadPoolAssumption
<1> QED
  BY <1>1, <1>2, FS_CardinalityType

\* After shutdown a worker never comes back under do_shutdown's care.
LEMMA ToWakeShrinks ==
    ASSUME TypeOK, MutexInv, TearDownInv, LateInv, shutdown, Next
    PROVE  /\ ToWake' \subseteq ToWake
           /\ Stranded' \subseteq Stranded
<1> SUFFICES ASSUME NEW v \in Workers
             PROVE  /\ v \in ToWake' => v \in ToWake
                    /\ v \in Stranded' => v \in Stranded
  BY DEF ToWake, Stranded, At
<1> DEFINE Care == {"wait", "dequeue", "take", "run", "relock"}
<1> DEFINE Wait == {"wait", "dequeue", "take"}
<1> SUFFICES /\ pc'[v] \in Care => pc[v] \in Care
             /\ pc'[v] \in Wait /\ v \notin busyAt' => pc[v] \in Wait /\ v \notin busyAt
  BY DEF ToWake, Stranded, At
<1> USE DEF TypeOK
<1>1. ASSUME NEW j \in Jobs, AddWork(j)
      PROVE  (pc'[v] = pc[v] \/ pc'[v] = "woken") /\ busyAt' = busyAt
  BY <1>1, SignalKeeps DEF AddWork
<1>2. ASSUME NEW w \in Workers, Lock(w) \/ LoopTest(w) \/ SpuriousWakeup(w)
             \/ RunJob(w) \/ CreateThread(w)
      PROVE  /\ pc'[v] \in Care => pc[v] \in Care
             /\ pc'[v] \in Wait => pc[v] \in Wait
             /\ busyAt' = busyAt
  BY <1>2 DEF Lock, LoopTest, SpuriousWakeup, RunJob, CreateThread
<1>3. ASSUME NEW w \in Workers, TakeNothing(w) \/ DequeueOpen(w)
      PROVE  /\ pc'[v] \in Care => pc[v] \in Care
             /\ pc'[v] \in Wait => pc[v] \in Wait
             /\ busyAt' = busyAt
  BY <1>3 DEF TakeNothing, DequeueOpen, WaitPC
<1>4. ASSUME NEW w \in Workers, Relock(w)
      PROVE  /\ pc'[v] \in Care => pc[v] \in Care
             /\ pc'[v] \in Wait => pc[v] \in Wait \/ v \in busyAt
             /\ busyAt' = busyAt
  BY <1>4 DEF Relock, WaitPC, LateInv
<1>5. ASSUME NEW w \in Workers, DequeueShutdown(w)
      PROVE  /\ pc'[v] \in Care => pc[v] \in Care
             /\ pc'[v] \in Wait => pc[v] \in Wait
             /\ busyAt' = busyAt
  <2>1. PICK p \in Signalled(pc) : pc' = [p EXCEPT ![w] = WaitPC]
    BY <1>5 DEF DequeueShutdown
  <2>2. p \in [Workers -> PC] /\ (p[v] = pc[v] \/ p[v] = "woken")
    BY SignalKeeps, SignalledCases
  <2> QED
    BY <1>5, <2>1, <2>2 DEF DequeueShutdown, WaitPC
<1>6. ASSUME NEW w \in Workers, TakeJob(w)
      PROVE  /\ pc'[v] \in Care => pc[v] \in Care
             /\ pc'[v] \in Wait => pc[v] \in Wait
             /\ busyAt' = busyAt
  <2> DEFINE p == [pc EXCEPT ![w] = "run"]
  <2>1. p \in [Workers -> PC]
    BY DEF PC
  <2>2. pc'[v] = p[v] \/ pc'[v] = "woken"
    BY <1>6, <2>1, SignalKeeps DEF TakeJob
  <2> QED
    BY <1>6, <2>2 DEF TakeJob
<1>7. CASE SignalOne
  <2>1. (pc'[v] = pc[v] \/ pc'[v] = "woken") /\ busyAt' = busyAt
    BY <1>7, SignalKeeps DEF SignalOne
  <2> QED
    BY <2>1
<1>8. CASE CreateDone \/ DestroyCond \/ DestroyMutex \/ Free
  BY <1>8 DEF CreateDone, DestroyCond, DestroyMutex, Free
<1>9. ~CreateFails /\ ~Delete
  BY DEF CreateFails, Delete, TearDownInv
<1>10. CASE \E j \in Jobs : AddWork(j)
  BY <1>1, <1>10
<1>11. CASE \E w \in Workers : WorkerStep(w) \/ SpuriousWakeup(w) \/ CreateThread(w)
  <2> HIDE DEF TypeOK, Care, Wait
  <2> QED
    BY <1>2, <1>3, <1>4, <1>5, <1>6, <1>11 DEF WorkerStep
<1> HIDE DEF TypeOK, Care, Wait
<1> QED
  BY <1>7, <1>8, <1>9, <1>10, <1>11 DEF Next, TearDown

\* Each signal that do_shutdown sends wakes a worker in its care, or nobody
\* it has to wake is waiting.
LEMMA SignalCounts ==
    ASSUME TypeOK, MutexInv, TearDownInv, LateInv, CountInv, SignalOne
    PROVE  CountInv'
<1>1. mutexOk /\ owner = Nobody /\ shutdown /\ UNCHANGED <<mgr, busyAt>>
  BY DEF SignalOne, CanLock, TearDownInv, TypeOK
<1>2. mgr = "signal" /\ sigs' = sigs - 1 /\ pc' \in Signalled(pc)
  BY DEF SignalOne
<1>3. ToWake' \subseteq ToWake /\ Stranded' \subseteq Stranded
  BY <1>1, ToWakeShrinks DEF Next, TearDown
<1>4. CASE Stranded = {}
  BY <1>3, <1>4 DEF CountInv
<1>5. CASE Stranded # {}
  <2>1. PICK u \in Workers : pc[u] = "wait"
    BY <1>1, <1>5, ThreadPoolAssumption DEF Stranded, At, MutexInv, Holding
  <2>2. PICK w \in Workers : pc[w] = "wait" /\ pc' = [pc EXCEPT ![w] = "woken"]
    BY <1>2, <2>1, SignalledCases DEF TypeOK
  <2>3. w \in ToWake /\ w \notin ToWake'
    BY <2>2 DEF ToWake, At, TypeOK
  <2>4. ToWake' \subseteq ToWake \ {w}
    BY <1>3, <2>3
  <2>5. /\ IsFiniteSet(ToWake) /\ Cardinality(ToWake) \in Nat
        /\ Cardinality(ToWake') \in Nat
    <3>1. ToWake' \subseteq Workers
      BY DEF ToWake, At
    <3>2. IsFiniteSet(ToWake')
      BY <3>1, FS_Subset, ThreadPoolAssumption
    <3> QED
      BY <3>2, AtFinite, FS_CardinalityType DEF ToWake
  <2>6. IsFiniteSet(ToWake \ {w}) /\ Cardinality(ToWake \ {w}) = Cardinality(ToWake) - 1
    BY <2>3, <2>5, FS_RemoveElement
  <2>7. Cardinality(ToWake') <= Cardinality(ToWake) - 1
    BY <2>4, <2>6, FS_Subset
  <2>8. Cardinality(ToWake) <= sigs
    BY <1>1, <1>5 DEF CountInv
  <2>9. sigs \in Nat
    BY CreatedBound DEF TypeOK
  <2> QED
    BY <1>1, <1>2, <2>5, <2>7, <2>8, <2>9 DEF CountInv
<1> QED
  BY <1>4, <1>5

\* At first there are at least as many signals to send as workers in care.
LEMMA BeginCounts ==
    ASSUME TypeOK, BeginShutdown
    PROVE  CountInv'
<1> DEFINE Created == Workers \ At({"none"})
<1>1. mgr' = "signal" /\ sigs' = Cardinality(Created)
  BY DEF BeginShutdown
<1>2. ToWake' \subseteq Created
  BY DEF BeginShutdown, ToWake, At
<1>3. IsFiniteSet(Created)
  BY FS_Subset, ThreadPoolAssumption
<1>4. Cardinality(ToWake') <= Cardinality(Created)
  BY <1>2, <1>3, FS_Subset
<1> QED
  BY <1>1, <1>4 DEF CountInv

\* No step of a worker, a caller or the deleting thread spoils the count.
LEMMA CountNext ==
    TypeOK /\ MutexInv /\ TearDownInv /\ LateInv /\ CountInv /\ [Next]_vars => CountInv'
<1> SUFFICES ASSUME TypeOK, MutexInv, TearDownInv, LateInv, CountInv, [Next]_vars
             PROVE  CountInv'
  OBVIOUS
<1>1. CASE SignalOne
  BY <1>1, SignalCounts
<1>2. CASE CreateFails \/ Delete
  BY <1>2, BeginCounts DEF CreateFails, Delete
<1>3. CASE UNCHANGED vars
  BY <1>3 DEF vars, CountInv, ToWake, Stranded, At
<1>4. ASSUME Next, ~SignalOne, ~CreateFails, ~Delete
      PROVE  /\ shutdown' = shutdown /\ sigs' = sigs
             /\ mgr' = mgr \/ mgr # "signal" \/ sigs = 0
  BY <1>4 DEF Next, WorkerStep, TearDown, AddWork, Lock, LoopTest, DequeueShutdown,
     DequeueOpen, TakeJob, TakeNothing, RunJob, Relock, SpuriousWakeup, CreateThread,
     CreateDone, DestroyCond, DestroyMutex, Free
<1>5. ASSUME Next, ~SignalOne, ~CreateFails, ~Delete, shutdown, Stranded # {}
      PROVE  CountInv'
  <2>1. mgr = "signal" /\ Cardinality(ToWake) <= sigs
    BY <1>5 DEF CountInv
  <2>2. ToWake' \subseteq ToWake
    BY <1>5, ToWakeShrinks
  <2>3. IsFiniteSet(ToWake) /\ Cardinality(ToWake) \in Nat
    BY AtFinite DEF ToWake
  <2>4. IsFiniteSet(ToWake') /\ Cardinality(ToWake') <= Cardinality(ToWake)
    BY <2>2, <2>3, FS_Subset
  <2>5. Cardinality(ToWake') \in Nat
    BY <2>4, FS_CardinalityType
  <2>6. sigs \in Nat
    BY CreatedBound DEF TypeOK
  <2>7. Cardinality(ToWake) # 0
    <3>1. ToWake # {}
      BY <1>5 DEF Stranded, ToWake, At
    <3> QED
      BY <2>3, <3>1, FS_EmptySet
  <2>8. sigs # 0
    BY <2>1, <2>3, <2>6, <2>7
  <2>9. Cardinality(ToWake') <= sigs
    BY <2>1, <2>3, <2>4, <2>5, <2>6
  <2> QED
    BY <1>4, <1>5, <2>1, <2>8, <2>9 DEF CountInv
<1>6. ASSUME Next, ~SignalOne, ~CreateFails, ~Delete, shutdown, Stranded = {}
      PROVE  CountInv'
  BY <1>6, ToWakeShrinks DEF CountInv
<1>7. ASSUME Next, ~SignalOne, ~CreateFails, ~Delete, ~shutdown
      PROVE  CountInv'
  BY <1>4, <1>7 DEF CountInv
<1> QED
  BY <1>1, <1>2, <1>3, <1>5, <1>6, <1>7

\* For any number of workers, the signals of do_shutdown leave no worker
\* waiting but those that were committed to a job when shutdown was set.
THEOREM DeleteWakesIdleWorkers == SafetySpec => []OnlyBusyLeftWaiting
<1>1. TypeOK /\ TearDownInv /\ CountInv => OnlyBusyLeftWaiting
  <2> SUFFICES ASSUME TypeOK, TearDownInv, CountInv,
                      mgr \notin {"create", "open"}, sigs = 0
               PROVE  Stranded = {}
    BY DEF OnlyBusyLeftWaiting, Stranded, At
  <2>1. ASSUME Cardinality(ToWake) <= 0 PROVE ToWake = {}
    <3>1. IsFiniteSet(ToWake) /\ Cardinality(ToWake) \in Nat
      BY AtFinite DEF ToWake
    <3> QED
      BY <2>1, <3>1, FS_EmptySet
  <2>2. Stranded \subseteq ToWake
    BY DEF Stranded, ToWake, At
  <2> QED
    BY <2>1, <2>2 DEF TearDownInv, CountInv
<1> QED
  BY <1>1, LifeInit, TypeCorrect, LifeCorrect, CountNext, PTL DEF SafetySpec

(***************************************************************************)
(* Each job is in one place.                                               *)
(***************************************************************************)

\* What Head and Tail do to the elements and indices of a nonempty list.
LEMMA TailFacts ==
    ASSUME NEW s \in Seq(Jobs), s # <<>>
    PROVE  /\ Head(s) = s[1] /\ 1 \in DOMAIN s /\ Head(s) \in Jobs
           /\ Tail(s) \in Seq(Jobs)
           /\ \A i \in DOMAIN Tail(s) : i + 1 \in DOMAIN s /\ Tail(s)[i] = s[i + 1]
                                        /\ i + 1 # 1 /\ i \in Nat
OBVIOUS

\* push_back adds one element at the end and moves no other.
LEMMA AppendFacts ==
    ASSUME NEW s \in Seq(Jobs), NEW j \in Jobs
    PROVE  /\ \A i \in DOMAIN Append(s, j) :
                \/ i \in DOMAIN s /\ Append(s, j)[i] = s[i]
                \/ i = Len(s) + 1 /\ Append(s, j)[i] = j
           /\ Len(s) + 1 \notin DOMAIN s
OBVIOUS

\* The conditions a step has to keep, for the three moves a job can make.
LEMMA OnceNext ==
    TypeOK /\ EachJobOnce /\ [Next]_vars
      => (ListedOnce /\ NotShared /\ NotListedAgain /\ NotRunAgain)'
<1> SUFFICES ASSUME TypeOK, EachJobOnce, [Next]_vars
             PROVE  ListedOnce' /\ NotShared' /\ NotListedAgain' /\ NotRunAgain'
  OBVIOUS
<1>a. /\ \A a, b \in DOMAIN jobs : jobs[a] = jobs[b] => a = b
      /\ \A v, w \in Workers : curr[v] = curr[w] /\ curr[v] # Nobody => v = w
      /\ \A i \in DOMAIN jobs, w \in Workers : jobs[i] # curr[w]
      /\ \A i \in DOMAIN jobs : jobs[i] \notin done
      /\ \A w \in Workers : curr[w] \notin done
      /\ DOMAIN curr = Workers
  BY DEF EachJobOnce, ListedOnce, NotShared, NotListedAgain, NotRunAgain, Listed, TypeOK
<1>b. ASSUME /\ \A a, b \in DOMAIN jobs' : jobs'[a] = jobs'[b] => a = b
             /\ \A v, w \in Workers : curr'[v] = curr'[w] /\ curr'[v] # Nobody => v = w
             /\ \A i \in DOMAIN jobs', w \in Workers : jobs'[i] # curr'[w]
             /\ \A i \in DOMAIN jobs' : jobs'[i] \notin done'
             /\ \A w \in Workers : curr'[w] \notin done'
             /\ DOMAIN curr' = Workers
      PROVE  ListedOnce' /\ NotShared' /\ NotListedAgain' /\ NotRunAgain'
  BY <1>b DEF ListedOnce, NotShared, NotListedAgain, NotRunAgain, Listed
<1>1. ASSUME NEW j \in Jobs, AddWork(j)
      PROVE  ListedOnce' /\ NotShared' /\ NotListedAgain' /\ NotRunAgain'
  <2>1. jobs' = Append(jobs, j) /\ curr' = curr /\ done' = done
    BY <1>1 DEF AddWork
  <2>2. /\ \A i \in DOMAIN jobs : jobs[i] # j
        /\ \A w \in Workers : curr[w] # j
        /\ j \notin done
    BY <1>1, <1>a DEF AddWork, Listed
  <2>3. jobs \in Seq(Jobs)
    BY DEF TypeOK
  <2>4. \A i \in DOMAIN jobs' : \/ i \in DOMAIN jobs /\ jobs'[i] = jobs[i]
                                \/ i = Len(jobs) + 1 /\ jobs'[i] = j
    BY <2>1, <2>3, AppendFacts
  <2> QED
    BY <1>a, <1>b, <2>1, <2>2, <2>4
<1>2. ASSUME NEW w \in Workers, TakeJob(w)
      PROVE  ListedOnce' /\ NotShared' /\ NotListedAgain' /\ NotRunAgain'
  <2>1. /\ jobs # <<>> /\ jobs \in Seq(Jobs)
        /\ jobs' = Tail(jobs) /\ done' = done
        /\ curr' = [curr EXCEPT ![w] = Head(jobs)]
    BY <1>2 DEF TakeJob, TypeOK
  <2>2. Head(jobs) = jobs[1] /\ 1 \in DOMAIN jobs
    BY <2>1, TailFacts
  <2>3. \A i \in DOMAIN jobs' : i + 1 \in DOMAIN jobs /\ jobs'[i] = jobs[i + 1]
                                /\ i + 1 # 1 /\ i \in Nat
    BY <2>1, TailFacts
  <2>4. \A v \in Workers : curr'[v] = IF v = w THEN jobs[1] ELSE curr[v]
    BY <1>a, <2>1, <2>2
  <2>5. \A a, b \in DOMAIN jobs' : jobs'[a] = jobs'[b] => a = b
    BY <1>a, <2>3
  <2>6. \A i \in DOMAIN jobs' : jobs'[i] # jobs[1] /\ jobs'[i] \notin done
    BY <1>a, <2>2, <2>3
  <2>7. \A i \in DOMAIN jobs', v \in Workers : jobs'[i] # curr'[v]
    BY <1>a, <2>3, <2>4, <2>6
  <2>8. \A u, v \in Workers : curr'[u] = curr'[v] /\ curr'[u] # Nobody => u = v
    BY <1>a, <2>2, <2>4
  <2>9. \A v \in Workers : curr'[v] \notin done'
    BY <1>a, <2>1, <2>2, <2>4
  <2> QED
    BY <1>a, <1>b, <2>1, <2>5, <2>6, <2>7, <2>8, <2>9
<1>3. ASSUME NEW w \in Workers, RunJob(w)
      PROVE  ListedOnce' /\ NotShared' /\ NotListedAgain' /\ NotRunAgain'
  <2>1. /\ jobs' = jobs /\ done' = done \cup {curr[w]}
        /\ curr' = [curr EXCEPT ![w] = Nobody]
        /\ curr[w] # Nobody
    BY <1>3 DEF RunJob, EachJobOnce, BusyHasJob
  <2>2. \A v \in Workers : curr'[v] = IF v = w THEN Nobody ELSE curr[v]
    BY <1>a, <2>1
  <2>3. Nobody \notin done /\ \A i \in DOMAIN jobs : jobs[i] # Nobody
    BY ThreadPoolAssumption DEF TypeOK
  <2>4. \A v \in Workers : curr'[v] \notin done'
    BY <1>a, <2>1, <2>2, <2>3
  <2> QED
    BY <1>a, <1>b, <2>1, <2>2, <2>3, <2>4
<1>4. ASSUME UNCHANGED <<jobs, curr, done>>
      PROVE  ListedOnce' /\ NotShared' /\ NotListedAgain' /\ NotRunAgain'
  BY <1>4, <1>a, <1>b
<1>5. ASSUME NEW w \in Workers, ~TakeJob(w), ~RunJob(w),
             WorkerStep(w) \/ SpuriousWakeup(w) \/ CreateThread(w)
      PROVE  UNCHANGED <<jobs, curr, done>>
  BY <1>5 DEF WorkerStep, Lock, LoopTest, DequeueShutdown, DequeueOpen, TakeNothing,
              Relock, SpuriousWakeup, CreateThread
<1>6. CASE CreateDone \/ CreateFails \/ Delete \/ TearDown \/ UNCHANGED vars
  <2>1. UNCHANGED <<jobs, curr, done>>
    BY <1>6 DEF CreateDone, CreateFails, Delete, BeginShutdown, TearDown, SignalOne,
                DestroyCond, DestroyMutex, Free, vars
  <2> QED
    BY <1>4, <2>1
<1> QED
  BY <1>1, <1>2, <1>3, <1>4, <1>5, <1>6 DEF Next

\* No interleaving of any number of callers and workers loses a job's place,
\* gives it to two workers or runs it twice.
THEOREM JobsCorrect == SafetySpec => []EachJobOnce
<1>1. Init => EachJobOnce
  BY ThreadPoolAssumption
  DEF Init, EachJobOnce, BusyHasJob, ListedOnce, NotShared, NotListedAgain, NotRunAgain
<1>2. TypeOK /\ EachJobOnce /\ [Next]_vars => EachJobOnce'
  BY BusyNext, OnceNext DEF EachJobOnce
<1> QED
  BY <1>1, <1>2, TypeCorrect, PTL DEF SafetySpec

(***************************************************************************)
(* The pool implements JobPool.                                            *)
(***************************************************************************)

\* The jobs that a worker has popped and not finished.
Active == Listed(curr) \ {Nobody}

\* There are never more jobs active than workers, and one fewer while some
\* worker has none.
LEMMA ActiveBound ==
    ASSUME TypeOK, NEW w \in Workers, curr[w] = Nobody
    PROVE  Cardinality(Active) < Cardinality(Workers)
<1> DEFINE Others == Workers \ {w}
<1> DEFINE Img == {curr[v] : v \in Others}
<1>1. IsFiniteSet(Workers) /\ Cardinality(Workers) \in Nat
  BY ThreadPoolAssumption, FS_CardinalityType
<1>2. IsFiniteSet(Others) /\ Cardinality(Others) = Cardinality(Workers) - 1
  BY <1>1, FS_RemoveElement
<1>3. IsFiniteSet(Img) /\ Cardinality(Img) <= Cardinality(Others)
  <2> DEFINE f == [v \in Others |-> curr[v]]
  <2>1. f \in Surjection(Others, Img)
    BY DEF Surjection
  <2> QED
    BY <1>2, <2>1, FS_Surjection
<1>4. Active \subseteq Img
  BY DEF Active, Listed, TypeOK
<1>5. Cardinality(Active) <= Cardinality(Img) /\ IsFiniteSet(Active)
  BY <1>3, <1>4, FS_Subset
<1>6. Cardinality(Active) \in Nat /\ Cardinality(Img) \in Nat /\ Cardinality(Others) \in Nat
  BY <1>2, <1>3, <1>5, FS_CardinalityType
<1> QED
  BY <1>1, <1>2, <1>3, <1>5, <1>6

\* add_work, dequeue, the end of a job and the start of do_shutdown are the
\* four steps of JobPool; every other step is invisible to a caller.
LEMMA PromiseStep ==
    ASSUME TypeOK, EachJobOnce, [Next]_vars
    PROVE  [Promise!Next]_(Promise!vars)
<1> USE DEF Promise!vars
<1>a. DOMAIN curr = Workers
  BY DEF TypeOK
<1>1. ASSUME NEW j \in Jobs, AddWork(j) PROVE Promise!Submit(j)
  BY <1>1 DEF AddWork, Promise!Submit, Promise!Known, Listed
<1>2. ASSUME NEW w \in Workers, TakeJob(w) PROVE Promise!Start
  <2>1. /\ curr[w] = Nobody /\ jobs # <<>> /\ jobs' = Tail(jobs) /\ done' = done
        /\ shutdown' = shutdown /\ curr' = [curr EXCEPT ![w] = Head(jobs)]
    BY <1>2 DEF TakeJob, EachJobOnce, BusyHasJob
  <2>2. Cardinality(Listed(curr) \ {Nobody}) < Cardinality(Workers)
    BY <2>1, ActiveBound DEF Active
  <2>3. Head(jobs) \in Jobs
    BY <2>1, TailFacts DEF TypeOK
  <2>4. Listed(curr') \ {Nobody} = (Listed(curr) \ {Nobody}) \cup {Head(jobs)}
    <3>1. \A v \in Workers : curr'[v] = IF v = w THEN Head(jobs) ELSE curr[v]
      BY <1>a, <2>1
    <3>2. DOMAIN curr' = Workers
      BY <1>a, <2>1
    <3>3. Head(jobs) # Nobody
      BY <2>3, ThreadPoolAssumption
    <3> QED
      BY <1>a, <2>1, <3>1, <3>2, <3>3 DEF Listed
  <2>5. Promise!Cardinality(Listed(curr) \ {Nobody}) = Cardinality(Listed(curr) \ {Nobody})
    BY DEF Cardinality, Promise!Cardinality, IsFiniteSet, Promise!IsFiniteSet
  <2> QED
    BY <2>1, <2>2, <2>4, <2>5 DEF Promise!Start
<1>3. ASSUME NEW w \in Workers, RunJob(w) PROVE \E j \in Jobs : Promise!Finish(j)
  <2>1. /\ curr[w] # Nobody /\ curr[w] \notin Endless /\ curr[w] \in Jobs
        /\ jobs' = jobs /\ shutdown' = shutdown /\ done' = done \cup {curr[w]}
        /\ curr' = [curr EXCEPT ![w] = Nobody]
    BY <1>3 DEF RunJob, EachJobOnce, BusyHasJob, TypeOK
  <2>2. \A v \in Workers : curr'[v] = IF v = w THEN Nobody ELSE curr[v]
    BY <1>a, <2>1
  <2>3. DOMAIN curr' = Workers
    BY <1>a, <2>1
  <2>4. \A v \in Workers : curr[v] = curr[w] => v = w
    BY <2>1 DEF EachJobOnce, NotShared
  <2>5. Listed(curr') \ {Nobody} = (Listed(curr) \ {Nobody}) \ {curr[w]}
    BY <1>a, <2>1, <2>2, <2>3, <2>4 DEF Listed
  <2>6. curr[w] \in (Listed(curr) \ {Nobody}) \ Endless
    BY <1>a, <2>1 DEF Listed
  <2> QED
    BY <2>1, <2>5, <2>6 DEF Promise!Finish
<1>4. ASSUME BeginShutdown PROVE Promise!Close
  BY <1>4 DEF BeginShutdown, Promise!Close
<1>5. ASSUME NEW w \in Workers, ~TakeJob(w), ~RunJob(w),
             WorkerStep(w) \/ SpuriousWakeup(w) \/ CreateThread(w)
      PROVE  UNCHANGED <<jobs, curr, done, shutdown>>
  BY <1>5 DEF WorkerStep, Lock, LoopTest, DequeueShutdown, DequeueOpen, TakeNothing,
              Relock, SpuriousWakeup, CreateThread
<1>6. CASE CreateDone \/ TearDown \/ UNCHANGED vars
  BY <1>6 DEF CreateDone, TearDown, SignalOne, DestroyCond, DestroyMutex, Free, vars
<1> QED
  BY <1>1, <1>2, <1>3, <1>4, <1>5, <1>6 DEF Next, CreateFails, Delete, Promise!Next

\* Threads, lock, signals and shutdown implement the pool a caller sees:
\* jobs start in the order they were added, at most one per worker at a time,
\* each once (the safety part of KeepsPromise, which also asks for progress).
THEOREM PoolImplementsJobPool == SafetySpec => Promise!SafetySpec
<1>1. Init => Promise!Init
  <2> SUFFICES ASSUME Init PROVE Promise!Init
    OBVIOUS
  <2>1. Listed(curr) \ {Nobody} = {}
    BY DEF Init, Listed
  <2> QED
    BY <2>1 DEF Init, Promise!Init
<1>2. TypeOK /\ EachJobOnce /\ [Next]_vars => [Promise!Next]_(Promise!vars)
  BY PromiseStep
<1> QED
  BY <1>1, <1>2, TypeCorrect, JobsCorrect, PTL DEF SafetySpec, Promise!SafetySpec
=============================================================================
