------------------------ MODULE SocketService_proofs ------------------------
(***************************************************************************)
(* Proofs about SocketService for every set of connections, descriptors    *)
(* and workers, every pipe and any number of messages.                     *)
(***************************************************************************)
EXTENDS SocketService, FiniteSetTheorems, WellFoundedInduction, TLAPS

(***************************************************************************)
(* Facts about the helpers.                                                *)
(***************************************************************************)

\* A set of descriptors that is not empty has a least one: the next client
\* that process_sockets serves.
LEMMA LeastExists ==
    ASSUME NEW C \in SUBSET Nat, C # {}
    PROVE  \E m \in C : \A f \in C : m <= f
<1>1. PICK m \in C : \A f \in C : ~(<<f, m>> \in OpToRel(<, Nat))
  BY WFMin, NatLessThanWellFounded
<1>2. \A f \in C : ~(f < m)
  BY <1>1 DEF OpToRel
<1> QED
  BY <1>2

\* And a greatest one, by descent on the size of sets that had none.
LEMMA GreatestExists ==
    ASSUME NEW C \in SUBSET Nat, IsFiniteSet(C), C # {}
    PROVE  \E m \in C : \A f \in C : f <= m
<1> DEFINE Bad(D) == D # {} /\ IsFiniteSet(D) /\ ~ \E m \in D : \A f \in D : f <= m
           Sizes == {n \in Nat : \E D \in SUBSET C : Bad(D) /\ Cardinality(D) = n}
<1>1. SUFFICES ASSUME Bad(C) PROVE FALSE
  OBVIOUS
<1>2. Cardinality(C) \in Nat
  BY FS_CardinalityType
<1>3. Sizes \in SUBSET Nat /\ Sizes # {}
  BY <1>1, <1>2
<1>4. PICK n \in Sizes : \A k \in Sizes : n <= k
  BY <1>3, LeastExists
<1>5. PICK D \in SUBSET C : Bad(D) /\ Cardinality(D) = n
  BY <1>4
<1>6. PICK x \in D : TRUE
  BY <1>5
<1>7. IsFiniteSet(D \ {x}) /\ Cardinality(D \ {x}) = n - 1 /\ n \in Nat
  BY <1>4, <1>5, <1>6, FS_RemoveElement
<1>8. Cardinality(D \ {x}) \in Nat
  BY <1>7, FS_CardinalityType
<1>9. ~Bad(D \ {x})
  <2>1. Bad(D \ {x}) => n - 1 \in Sizes
    BY <1>7, <1>8
  <2> QED
    BY <2>1, <1>4, <1>7
<1>10. x \in Nat /\ D \subseteq Nat
  BY <1>6
<1>11. CASE D \ {x} = {}
  BY <1>5, <1>6, <1>10, <1>11
<1>12. CASE D \ {x} # {}
  <2>1. PICK m \in D \ {x} : \A f \in D \ {x} : f <= m
    BY <1>7, <1>9, <1>12
  <2>2. CASE m <= x
    BY <2>1, <2>2, <1>5, <1>6, <1>10
  <2>3. CASE x <= m
    BY <2>1, <2>3, <1>5, <1>6, <1>10
  <2> QED
    BY <2>1, <2>2, <2>3, <1>10
<1> QED
  BY <1>11, <1>12

\* setup_max_fd is never below a client.
LEMMA MaxFdBounds ==
    ASSUME NEW C \in SUBSET FDs
    PROVE  MaxFd(C) \in C \cup {0} /\ \A f \in C : f <= MaxFd(C)
<1>1. C \subseteq Nat /\ IsFiniteSet(C)
  BY SocketServiceAssumption, FS_Subset
<1>2. \E m \in C \cup {0} : \A f \in C : f <= m
  BY <1>1, GreatestExists
<1> QED
  BY <1>2 DEF MaxFd

\* The queue of the pool grows at its end,
LEMMA Appended ==
    ASSUME NEW q \in Seq(Job), NEW j \in Job
    PROVE  /\ Append(q, j) \in Seq(Job)
           /\ DOMAIN Append(q, j) = DOMAIN q \cup {Len(q) + 1}
           /\ Append(q, j)[Len(q) + 1] = j
           /\ Len(q) + 1 \notin DOMAIN q
           /\ \A i \in DOMAIN q : Append(q, j)[i] = q[i]
OBVIOUS

\* and is served at its head.
LEMMA Advanced ==
    ASSUME NEW q \in Seq(Job), q # <<>>
    PROVE  /\ Head(q) \in Job /\ Head(q) = q[1] /\ 1 \in DOMAIN q
           /\ Tail(q) \in Seq(Job)
           /\ \A i \in DOMAIN Tail(q) : i + 1 \in DOMAIN q \ {1} /\ Tail(q)[i] = q[i + 1]
           /\ \A i \in DOMAIN q \ {1} : i - 1 \in DOMAIN Tail(q) /\ Tail(q)[i - 1] = q[i]
           /\ \A i, k \in DOMAIN Tail(q) : i + 1 = k + 1 => i = k
OBVIOUS

(***************************************************************************)
(* Types, and what they rest on.                                           *)
(***************************************************************************)

\* A thread has a job until it is idle; nothing is read that was not sent; the
\* loop reads a byte that is in the pipe, and nothing else fills its set with
\* the service's own descriptors.
ShapeInv ==
    /\ TypeOK
    /\ \A t \in Threads : at[t] = "idle" <=> job[t] = None
    /\ \A c \in Conns : (sent[c] = -1 => rx[c] = 0) /\ (sent[c] >= 0 => rx[c] <= sent[c])
    /\ loop = "select" => rset \subseteq FDs
    /\ loop = "serve" /\ Ctl \in rset => pipe > 0

\* The service before its loop first runs.
LEMMA ShapeInit == Init => ShapeInv
<1> SUFFICES ASSUME Init PROVE ShapeInv
  OBVIOUS
<1>1. PipeCap \in Nat /\ MaxSends \in Nat /\ Modes \subseteq BOOLEAN
  BY SocketServiceAssumption
<1> QED
  BY <1>1 DEF Init, ShapeInv, TypeOK

\* The job of a thread that is at work.
LEMMA AtWork ==
    ASSUME ShapeInv, NEW t \in Threads, at[t] # "idle"
    PROVE  job[t] \in Job /\ job[t].fd \in FDs /\ job[t].conn \in Conns \cup {None}
BY DEF ShapeInv, TypeOK, Job

\* And of one that is queued.
LEMMA InQueue ==
    ASSUME ShapeInv, NEW i \in DOMAIN queue
    PROVE  queue[i] \in Job /\ queue[i].fd \in FDs /\ queue[i].conn \in Conns \cup {None}
<1>1. queue \in Seq(Job)
  BY DEF ShapeInv, TypeOK
<1>2. queue[i] \in Job
  BY <1>1
<1> QED
  BY <1>2 DEF Job

\* A job that is queued, or cannot be and is given up.
LEMMA QueueJobTypes ==
    ASSUME TypeOK, NEW f \in FDs, NEW fn \in {"add", "data", "ext"}, QueueJob(fn, f),
           open'[f] \in Conns \cup {None}
    PROVE  queue' \in Seq(Job) /\ pclose' \subseteq FDs /\ asked' \subseteq Conns \cup {None}
<1>1. [fn |-> fn, fd |-> f, conn |-> open'[f]] \in Job
  BY DEF Job
<1>2. CASE queue' = Append(queue, [fn |-> fn, fd |-> f, conn |-> open'[f]])
           /\ UNCHANGED <<pclose, asked>>
  BY <1>1, <1>2, Appended DEF TypeOK
<1>3. CASE pclose' = pclose \cup {f} /\ asked' = asked \cup {open'[f]} /\ UNCHANGED queue
  BY <1>3 DEF TypeOK
<1> QED
  BY <1>2, <1>3 DEF QueueJob

\* process_sockets takes one connection, or none.
LEMMA ServeCases ==
    ASSUME Serve
    PROVE  /\ backlog' \subseteq backlog
           /\ \/ UNCHANGED <<open, clients, queue, pclose, asked>>
              \/ \E c \in backlog, f \in FDs :
                    /\ open[f] = None
                    /\ open' = [open EXCEPT ![f] = c]
                    /\ clients' = clients \cup {f}
                    /\ QueueJob("add", f)
<1>1. CASE Listen \in rset
  <2>1. PICK c \in backlog : Accept(c)
    BY <1>1 DEF Serve
  <2> QED
    BY <2>1 DEF Accept
<1>2. CASE Listen \notin rset
  BY <1>2 DEF Serve
<1> QED
  BY <1>1, <1>2

\* The client that is served next is one of those that are ready.
LEMMA ServeClientCases ==
    ASSUME ShapeInv, ServeClient
    PROVE  \E f \in ToServe : /\ pending' = pending \ {f} /\ rset' = rset \ {f}
                              /\ UNCHANGED open /\ QueueJob("data", f)
<1> DEFINE f == CHOOSE g \in ToServe : \A h \in ToServe : g <= h
<1>1. ToServe \subseteq Nat /\ ToServe # {}
  BY SocketServiceAssumption DEF ShapeInv, TypeOK, ToServe, ServeClient
<1>2. f \in ToServe
  BY <1>1, LeastExists
<1>3. /\ pending' = pending \ {f} /\ rset' = rset \ {f}
      /\ UNCHANGED open /\ QueueJob("data", f)
  BY DEF ServeClient
<1> HIDE DEF f
<1> QED
  BY <1>2, <1>3

\* Every action keeps the types.
LEMMA ShapeNext == ShapeInv /\ [Next]_vars => ShapeInv'
<1> SUFFICES ASSUME ShapeInv, [Next]_vars PROVE ShapeInv'
  OBVIOUS
<1> USE DEF ShapeInv, TypeOK, kernel, tables, pool, history
<1>0. /\ PipeCap \in Nat /\ MaxSends \in Nat
      /\ FDs \subseteq Nat \ {0} /\ Listen \notin FDs /\ Ctl \notin FDs
  BY SocketServiceAssumption DEF Listen, Ctl
<1>1. CASE UNCHANGED vars
  BY <1>1 DEF vars
<1>2. ASSUME NEW c \in Conns, UNCHANGED inline, Connect(c) PROVE ShapeInv'
  BY <1>0, <1>2 DEF Connect
<1>3. ASSUME NEW c \in Conns, UNCHANGED inline, PeerSends(c) PROVE ShapeInv'
  BY <1>0, <1>3 DEF PeerSends
<1>4. ASSUME NEW c \in Conns, UNCHANGED inline, PeerCloses(c) PROVE ShapeInv'
  BY <1>0, <1>4 DEF PeerCloses
<1>5. ASSUME NEW f \in FDs, UNCHANGED inline, BreakClient(f) PROVE ShapeInv'
  BY <1>0, <1>5 DEF BreakClient
<1>6. ASSUME NEW f \in FDs, UNCHANGED inline, ClientClose(f) PROVE ShapeInv'
  BY <1>0, <1>6 DEF ClientClose
<1>7. ASSUME NEW c \in Conns, NEW f \in FDs, UNCHANGED inline, ClientAdd(c, f)
      PROVE  ShapeInv'
  BY <1>0, <1>7, JobAssumption DEF ClientAdd, Job, Threads
<1>8. ASSUME UNCHANGED inline, ProcessClosed PROVE ShapeInv'
  BY <1>0, <1>8, MaxFdBounds DEF ProcessClosed
<1>9. ASSUME UNCHANGED inline, SelectReady PROVE ShapeInv'
  <2>1. Ready \subseteq FDs \cup {Listen, Ctl}
    BY <1>9 DEF SelectReady, Ready, Watched
  <2>2. Ctl \in Ready => pipe > 0
    BY <1>0, <1>9 DEF SelectReady, Ready, Watched, Listen, Ctl
  <2> QED
    BY <1>9, <2>1, <2>2 DEF SelectReady
<1>10. ASSUME UNCHANGED inline, SelectTimeout PROVE ShapeInv'
  BY <1>0, <1>10 DEF SelectTimeout
<1>11. ASSUME UNCHANGED inline, SelectFails PROVE ShapeInv'
  BY <1>0, <1>11 DEF SelectFails, Broken, Watched
<1>12. ASSUME UNCHANGED inline, Serve PROVE ShapeInv'
  <2> DEFINE Typed == /\ open' \in [FDs -> Conns \cup {None}] /\ clients' \subseteq FDs
                      /\ queue' \in Seq(Job) /\ pclose' \subseteq FDs
                      /\ asked' \subseteq Conns \cup {None}
  <2>1. ASSUME NEW c \in backlog, NEW f \in FDs, open' = [open EXCEPT ![f] = c],
               clients' = clients \cup {f}, QueueJob("add", f)
        PROVE  Typed
    <3>1. open' \in [FDs -> Conns \cup {None}] /\ open'[f] \in Conns \cup {None}
      BY <2>1
    <3> QED
      BY <2>1, <3>1, QueueJobTypes
  <2>2. Typed /\ backlog' \subseteq Conns
    BY <1>12, <2>1, ServeCases
  <2>3. pipe' \in 0..PipeCap
    BY <1>0, <1>12 DEF Serve
  <2> QED
    BY <1>12, <2>2, <2>3 DEF Serve
<1>13. ASSUME UNCHANGED inline, ServeClient PROVE ShapeInv'
  <2>1. PICK f \in ToServe : /\ pending' = pending \ {f} /\ rset' = rset \ {f}
                             /\ UNCHANGED open /\ QueueJob("data", f)
    BY <1>13, ServeClientCases
  <2>2. f \in FDs /\ open'[f] \in Conns \cup {None}
    BY <2>1 DEF ToServe
  <2>3. queue' \in Seq(Job) /\ pclose' \subseteq FDs /\ asked' \subseteq Conns \cup {None}
    BY <2>1, <2>2, QueueJobTypes
  <2> QED
    BY <1>13, <2>1, <2>3 DEF ServeClient
<1>14. ASSUME UNCHANGED inline, ServeDone PROVE ShapeInv'
  BY <1>0, <1>14 DEF ServeDone
<1>15. ASSUME NEW w \in Workers, UNCHANGED inline, StartJob(w) PROVE ShapeInv'
  <2>1. w \in Threads /\ Head(queue) \in Job /\ Tail(queue) \in Seq(Job)
    BY <1>15, Advanced DEF StartJob, Threads
  <2> QED
    BY <1>15, <2>1, JobAssumption DEF StartJob
<1>16. ASSUME NEW t \in Threads, UNCHANGED inline, CallNewClient(t) PROVE ShapeInv'
  <2>1. job[t] \in Job /\ job[t].fd \in FDs /\ job[t].conn \in Conns \cup {None}
    BY <1>16, AtWork DEF CallNewClient
  <2>2. known' \subseteq Conns /\ asked' \subseteq Conns \cup {None}
    BY <1>16, <2>1 DEF CallNewClient
  <2>3. \E place \in {"add", "drop"} : Goto(t, place)
    BY <1>16 DEF CallNewClient
  <2> QED
    BY <1>16, <2>1, <2>2, <2>3 DEF CallNewClient, Goto
<1>17. ASSUME NEW t \in Threads, UNCHANGED inline, CallSomeData(t) PROVE ShapeInv'
  <2>1. job[t] \in Job /\ job[t].fd \in FDs /\ job[t].conn \in Conns \cup {None}
    BY <1>17, AtWork DEF CallSomeData
  <2>2. rx' \in [Conns -> 0..MaxSends] /\ \A c \in Conns : rx'[c] <= rx[c]
    <3>1. \A c \in Conns : rx[c] \in 0..MaxSends
      OBVIOUS
    <3>2. CASE rx' = rx
      BY <1>0, <3>1, <3>2
    <3>3. CASE \E c \in Conns : rx[c] > 0 /\ rx' = [rx EXCEPT ![c] = @ - 1]
      <4>1. PICK c \in Conns : rx[c] > 0 /\ rx' = [rx EXCEPT ![c] = @ - 1]
        BY <3>3
      <4>2. rx[c] - 1 \in 0..MaxSends /\ rx[c] - 1 <= rx[c]
        BY <1>0, <3>1, <4>1
      <4> QED
        BY <1>0, <3>1, <4>1, <4>2
    <3> QED
      BY <1>17, <2>1, <3>2, <3>3 DEF CallSomeData
  <2>3. /\ \A c \in Conns : sent[c] \in -1..MaxSends /\ rx[c] \in 0..MaxSends
        /\ \A c \in Conns : rx'[c] \in 0..MaxSends
    BY <2>2
  <2>4. \A c \in Conns : (sent[c] = -1 => rx'[c] = 0) /\ (sent[c] >= 0 => rx'[c] <= sent[c])
    BY <1>0, <2>2, <2>3
  <2>5. known' \subseteq Conns /\ asked' \subseteq Conns \cup {None}
    BY <1>17, <2>1 DEF CallSomeData
  <2>6. \E place \in {"return", "drop"} : Goto(t, place)
    BY <1>17 DEF CallSomeData
  <2>7. UNCHANGED <<open, backlog, sent, eof, pipe, tables, lock, loop, rset, queue>>
    BY <1>17 DEF CallSomeData
  <2>8. job' = job /\ \E place \in {"return", "drop"} : at' = [at EXCEPT ![t] = place]
    BY <2>6 DEF Goto
  <2>9. \A u \in Threads : at'[u] = "idle" <=> job'[u] = None
    BY <1>17, <2>8 DEF CallSomeData
  <2> QED
    BY <1>17, <2>2, <2>4, <2>5, <2>7, <2>8, <2>9
<1>18. ASSUME NEW t \in Threads, UNCHANGED inline, PendClose(t) PROVE ShapeInv'
  BY <1>18, AtWork DEF PendClose, Finish
<1>19. ASSUME NEW t \in Threads, UNCHANGED inline, NewConn(t) PROVE ShapeInv'
  BY <1>0, <1>19, AtWork DEF NewConn, Goto, Larger
<1>20. ASSUME NEW t \in Threads, UNCHANGED inline, WakeNew(t) PROVE ShapeInv'
  BY <1>0, <1>20, AtWork DEF WakeNew, Goto
<1>21. ASSUME NEW t \in Threads, UNCHANGED inline, Returned(t) PROVE ShapeInv'
  <2>1. job[t].fd \in FDs
    BY <1>21, AtWork DEF Returned
  <2>2. pending' \subseteq FDs /\ lock' \in Threads \cup {None}
    BY <1>21, <2>1 DEF Returned
  <2>3. Goto(t, "wake") \/ Finish(t)
    BY <1>21 DEF Returned
  <2>4. UNCHANGED <<kernel, pipe, clients, pclose, maxfd, loop, rset, queue, history>>
    BY <1>21 DEF Returned
  <2>5. CASE Goto(t, "wake")
    <3>1. at[t] # "idle"
      BY <1>21 DEF Returned
    <3>2. \A u \in Threads : at'[u] = "idle" <=> job'[u] = None
      BY <2>5, <3>1 DEF Goto
    <3> QED
      BY <1>21, <2>2, <2>4, <2>5, <3>2 DEF Goto
  <2>6. CASE Finish(t)
    <3>1. \A u \in Threads : at'[u] = "idle" <=> job'[u] = None
      BY <2>6 DEF Finish
    <3> QED
      BY <1>21, <2>2, <2>4, <2>6, <3>1 DEF Finish
  <2> QED
    BY <2>3, <2>5, <2>6
<1>22. ASSUME NEW t \in Threads, UNCHANGED inline, Wake(t) PROVE ShapeInv'
  BY <1>0, <1>22, AtWork DEF Wake, Finish
<1> QED
  BY <1>1, <1>2, <1>3, <1>4, <1>5, <1>6, <1>7, <1>8, <1>9, <1>10, <1>11, <1>12, <1>13, <1>14,
     <1>15, <1>16, <1>17, <1>18, <1>19, <1>20, <1>21, <1>22
     DEF Next, LoopStep, JobStep, Environment

(***************************************************************************)
(* No client is forgotten, whatever the application closes, and however.   *)
(***************************************************************************)

\* Where a client is while it is not armed or about to be closed.
InAJob(f) == (\E i \in DOMAIN queue : queue[i].fd = f) \/ (\E t \in Threads : Has(t, f))

\* What the loop queues is queued, or given up.
LEMMA QueueJobKeeps ==
    ASSUME TypeOK, NEW f \in FDs, NEW fn \in {"add", "data", "ext"}, QueueJob(fn, f),
           open'[f] \in Conns \cup {None}
    PROVE  /\ f \in pclose' \/ \E i \in DOMAIN queue' : queue'[i].fd = f
           /\ pclose \subseteq pclose'
           /\ \A i \in DOMAIN queue : i \in DOMAIN queue' /\ queue'[i] = queue[i]
<1> DEFINE j == [fn |-> fn, fd |-> f, conn |-> open'[f]]
<1>1. j \in Job /\ j.fd = f
  BY DEF Job
<1> HIDE DEF j
<1>2. CASE queue' = Append(queue, j) /\ UNCHANGED <<pclose, asked>>
  BY <1>1, <1>2, Appended DEF TypeOK
<1>3. CASE pclose' = pclose \cup {f} /\ UNCHANGED queue
  BY <1>3
<1> QED
  BY <1>2, <1>3 DEF QueueJob, j

\* No action loses a client.
LEMMA ForgottenNext ==
    ShapeInv /\ NoForgottenClient /\ [Next]_vars => NoForgottenClient'
<1> SUFFICES ASSUME ShapeInv, NoForgottenClient, [Next]_vars PROVE NoForgottenClient'
  OBVIOUS
<1> DEFINE Kept(f) == f \in pending \cup pclose \/ InAJob(f)
           Goal == (\A f \in clients' : Kept(f)') /\ pending' \subseteq clients'
<1>0. /\ \A f \in clients : Kept(f)
      /\ pending \subseteq clients /\ clients \subseteq FDs
  BY DEF NoForgottenClient, InAJob, QueuedOn, ShapeInv, TypeOK
<1> SUFFICES Goal
  BY DEF NoForgottenClient, InAJob, QueuedOn
<1> USE DEF kernel, tables, pool, history
<1>1. CASE UNCHANGED <<clients, pending, pclose, queue, job, at>>
  BY <1>0, <1>1 DEF InAJob, Has
<1>2. CASE UNCHANGED <<clients, pending, queue, job, at>> /\ pclose \subseteq pclose'
  BY <1>0, <1>2 DEF InAJob, Has
<1>3. ASSUME NEW c \in Conns, NEW f \in FDs, ClientAdd(c, f) PROVE Goal
  <2>1. \A t \in Threads : job[t] # None => job'[t] = job[t] /\ at'[t] = at[t]
    BY <1>3 DEF ClientAdd, ShapeInv, TypeOK
  <2> QED
    BY <1>0, <1>3, <2>1 DEF ClientAdd, InAJob, Has
<1>4. CASE ProcessClosed
  BY <1>0, <1>4 DEF ProcessClosed, InAJob, Has
<1>5. CASE Serve
  <2>1. UNCHANGED <<pending, job, at>>
    BY <1>5 DEF Serve
  <2>2. ASSUME NEW c \in backlog, NEW f \in FDs, open' = [open EXCEPT ![f] = c],
               clients' = clients \cup {f}, QueueJob("add", f)
        PROVE  Goal
    <3>1. open'[f] \in Conns \cup {None} /\ TypeOK
      BY <2>2 DEF ShapeInv, TypeOK
    <3>2. /\ f \in pclose' \/ \E i \in DOMAIN queue' : queue'[i].fd = f
          /\ pclose \subseteq pclose'
          /\ \A i \in DOMAIN queue : i \in DOMAIN queue' /\ queue'[i] = queue[i]
      BY <2>2, <3>1, QueueJobKeeps
    <3> QED
      BY <1>0, <2>1, <2>2, <3>2 DEF InAJob, Has
  <2> QED
    BY <1>1, <1>5, <2>1, <2>2, ServeCases
<1>6. CASE ServeClient
  <2>1. PICK f \in ToServe : /\ pending' = pending \ {f} /\ rset' = rset \ {f}
                             /\ UNCHANGED open /\ QueueJob("data", f)
    BY <1>6, ServeClientCases
  <2>2. f \in FDs /\ open'[f] \in Conns \cup {None} /\ TypeOK
    BY <2>1 DEF ToServe, ShapeInv, TypeOK
  <2>3. /\ f \in pclose' \/ \E i \in DOMAIN queue' : queue'[i].fd = f
        /\ pclose \subseteq pclose'
        /\ \A i \in DOMAIN queue : i \in DOMAIN queue' /\ queue'[i] = queue[i]
    BY <2>1, <2>2, QueueJobKeeps
  <2> QED
    BY <1>0, <1>6, <2>1, <2>3 DEF ServeClient, InAJob, Has
<1>7. ASSUME NEW w \in Workers, StartJob(w) PROVE Goal
  <2>1. PICK j \in Job : /\ j = queue[1] /\ 1 \in DOMAIN queue /\ w \in Threads
                         /\ job' = [job EXCEPT ![w] = j] /\ at' = [at EXCEPT ![w] = "call"]
                         /\ queue' = Tail(queue) /\ queue # <<>> /\ queue \in Seq(Job)
                         /\ job[w] = None /\ UNCHANGED <<clients, pending, pclose>>
    <3>1. queue \in Seq(Job) /\ queue # <<>> /\ w \in Threads
      BY <1>7 DEF StartJob, ShapeInv, TypeOK, Threads
    <3>2. Head(queue) \in Job /\ Head(queue) = queue[1] /\ 1 \in DOMAIN queue
      BY <3>1, Advanced
    <3> QED
      BY <1>7, <3>1, <3>2 DEF StartJob
  <2>2. /\ job'[w] = j /\ at'[w] = "call" /\ j # None
        /\ \A t \in Threads : job[t] # None => job'[t] = job[t] /\ at'[t] = at[t]
    BY <2>1, JobAssumption DEF ShapeInv, TypeOK
  <2>3. ASSUME NEW i \in DOMAIN queue
        PROVE  queue[i] = j \/ \E k \in DOMAIN queue' : queue'[k] = queue[i]
    <3>1. CASE i = 1
      BY <2>1, <3>1
    <3>2. CASE i # 1
      <4>1. i - 1 \in DOMAIN Tail(queue) /\ Tail(queue)[i - 1] = queue[i]
        BY <2>1, <3>2, Advanced
      <4> QED
        BY <2>1, <4>1
    <3> QED
      BY <3>1, <3>2
  <2>4. ASSUME NEW f, InAJob(f) PROVE InAJob(f)'
    <3>1. Has(w, j.fd)'
      BY <2>2 DEF Has
    <3>2. ASSUME NEW t \in Threads, Has(t, f) PROVE Has(t, f)'
      BY <2>2, <3>2 DEF Has
    <3> QED
      BY <2>1, <2>3, <2>4, <3>1, <3>2 DEF InAJob
  <2> QED
    BY <1>0, <2>1, <2>4
<1>8. ASSUME NEW t \in Threads, at[t] # "idle", NEW place, Goto(t, place),
             UNCHANGED <<queue, pending, pclose>>, place # "wake",
             clients' \subseteq clients \cup {job[t].fd}, clients \subseteq clients'
      PROVE  Goal
  <2>1. job[t] # None /\ Has(t, job[t].fd)'
    BY <1>8 DEF Goto, Has, ShapeInv, TypeOK
  <2>2. ASSUME NEW f, InAJob(f) PROVE InAJob(f)'
    <3>1. ASSUME NEW u \in Threads, Has(u, f) PROVE Has(u, f)'
      BY <1>8, <2>1, <3>1 DEF Goto, Has, ShapeInv, TypeOK
    <3> QED
      BY <1>8, <2>2, <3>1 DEF InAJob
  <2>3. InAJob(job[t].fd)'
    BY <2>1 DEF InAJob
  <2>4. job' = job
    BY <1>8 DEF Goto
  <2> QED
    BY <1>0, <1>8, <2>2, <2>3, <2>4
<1>9. ASSUME NEW t \in Threads, job'[t] = None \/ at'[t] = "wake",
             \A u \in Threads \ {t} : job'[u] = job[u] /\ at'[u] = at[u],
             job[t].fd \in clients => job[t].fd \in pending' \cup pclose',
             pending \subseteq pending', pclose \subseteq pclose',
             pending' \subseteq clients, UNCHANGED <<queue, clients>>
      PROVE  Goal
  BY <1>0, <1>9 DEF InAJob, Has
<1>10. ASSUME NEW t \in Threads, CallNewClient(t) \/ CallSomeData(t) \/ NewConn(t) \/ WakeNew(t)
       PROVE  Goal
  <2>1. \E place : Goto(t, place) /\ place # "wake"
    BY <1>10 DEF CallNewClient, CallSomeData, NewConn, WakeNew
  <2>2. /\ at[t] # "idle" /\ UNCHANGED <<queue, pending, pclose>>
        /\ clients' \subseteq clients \cup {job[t].fd} /\ clients \subseteq clients'
    BY <1>10 DEF CallNewClient, CallSomeData, NewConn, WakeNew
  <2> QED
    BY <1>8, <2>1, <2>2
<1>11. ASSUME NEW t \in Threads, PendClose(t) \/ Returned(t) \/ Wake(t) PROVE Goal
  <2>1. /\ job'[t] = None \/ at'[t] = "wake"
        /\ \A u \in Threads \ {t} : job'[u] = job[u] /\ at'[u] = at[u]
        /\ pending \subseteq pending' /\ pclose \subseteq pclose'
        /\ pending' \subseteq clients /\ UNCHANGED <<queue, clients>>
    BY <1>0, <1>11 DEF PendClose, Returned, Wake, Finish, Goto, ShapeInv, TypeOK
  <2>2. CASE Wake(t)
    BY <1>0, <2>1, <2>2 DEF Wake, InAJob, Has
  <2>3. CASE ~Wake(t)
    <3>1. job[t].fd \in clients => job[t].fd \in pending' \cup pclose'
      BY <1>11, <2>3 DEF PendClose, Returned
    <3> QED
      BY <1>9, <2>1, <3>1
  <2> QED
    BY <2>2, <2>3
<1>12. CASE UNCHANGED vars
  BY <1>1, <1>12 DEF vars
<1>13. CASE LoopStep
  <2>1. CASE SelectReady \/ SelectTimeout \/ ServeDone
    BY <1>1, <2>1 DEF SelectReady, SelectTimeout, ServeDone
  <2>2. CASE SelectFails
    BY <1>2, <2>2 DEF SelectFails
  <2> QED
    BY <1>4, <1>5, <1>6, <1>13, <2>1, <2>2 DEF LoopStep
<1>14. CASE Environment
  <2>1. ASSUME NEW c \in Conns, Connect(c) \/ PeerSends(c) \/ PeerCloses(c) PROVE Goal
    BY <1>1, <2>1 DEF Connect, PeerSends, PeerCloses
  <2>2. ASSUME NEW f \in FDs, BreakClient(f) PROVE Goal
    BY <1>1, <2>2 DEF BreakClient
  <2>3. ASSUME NEW f \in FDs, ClientClose(f) PROVE Goal
    BY <1>2, <2>3 DEF ClientClose
  <2> QED
    BY <1>3, <1>14, <2>1, <2>2, <2>3 DEF Environment
<1> HIDE DEF Goal
<1> QED
  BY <1>7, <1>10, <1>11, <1>12, <1>13, <1>14 DEF Next, JobStep

(***************************************************************************)
(* A client belongs to one job at a time.  When the application closes     *)
(* clients while a pool runs jobs, or descriptors behind the service, this *)
(* fails, as the run socket_stale shows: the results below are about an    *)
(* application that does neither, but may call client_close when jobs run  *)
(* in the loop.                                                            *)
(***************************************************************************)

\* A thread has a client until it has given it back or up; then it only wakes the
\* server.
Busy(t) == job[t] # None /\ at[t] # "wake"

\* The application keeps out of the way of the jobs.
ModeInv == ~AppMayBreak /\ (AppMayClose => inline)

\* No two jobs have one client; an armed client has none, and one that is about
\* to be closed has none either, unless the loop, which closes, waits for jobs.
TokenInv ==
    /\ \A i, j \in DOMAIN queue : queue[i].fd = queue[j].fd => i = j
    /\ \A t, u \in Threads : Busy(t) /\ Busy(u) /\ job[t].fd = job[u].fd => t = u
    /\ \A t \in Threads, i \in DOMAIN queue : Busy(t) => job[t].fd # queue[i].fd
    /\ \A i \in DOMAIN queue : queue[i].fd \notin pending
    /\ \A t \in Threads : Busy(t) => job[t].fd \notin pending
    /\ \A i \in DOMAIN queue : queue[i].fd \in pclose => inline
    /\ \A t \in Threads : Busy(t) /\ job[t].fd \in pclose => inline /\ t # App
    /\ pending \cap pclose # {} => inline

\* The descriptors the service works with are open, and lead where they did.
OpenInv ==
    /\ \A f \in pending \cup pclose : open[f] # None
    /\ \A i \in DOMAIN queue : open[queue[i].fd] = queue[i].conn /\ queue[i].conn # None
    /\ \A t \in Threads : Busy(t) => open[job[t].fd] = job[t].conn /\ job[t].conn # None

\* What select watches is armed until it is served.
RsetInv == loop # "close" => rset \cap FDs \subseteq pending

\* The parts are inductive together.
Owned == ModeInv /\ TokenInv /\ OpenInv /\ RsetInv

\* No client is there yet.
LEMMA OwnedInit == ~AppMayBreak /\ (AppMayClose => Modes \subseteq {TRUE}) /\ Init => Owned
<1> SUFFICES ASSUME ~AppMayBreak, AppMayClose => Modes \subseteq {TRUE}, Init PROVE Owned
  OBVIOUS
<1>1. DOMAIN queue = {} /\ \A t \in Threads : ~Busy(t)
  BY DEF Init, Busy
<1>2. ModeInv
  BY DEF Init, ModeInv
<1>3. TokenInv /\ OpenInv /\ RsetInv
  BY <1>1 DEF Init, TokenInv, OpenInv, RsetInv
<1> QED
  BY <1>2, <1>3 DEF Owned

\* A job that is queued: the client has no other, and its descriptor is open.
LEMMA QueuedOwned ==
    ASSUME ShapeInv, Owned, NEW f \in FDs, NEW fn \in {"add", "data", "ext"}, QueueJob(fn, f),
           open' \in [FDs -> Conns \cup {None}], open'[f] # None,
           \A g \in FDs \ {f} : open'[g] = open[g],
           \A i \in DOMAIN queue : queue[i].fd # f,
           \A t \in Threads : Busy(t) => job[t].fd # f,
           f \in pclose => inline /\ open'[f] = open[f], UNCHANGED <<inline, job, at>>,
           pending' = pending \ {f}
    PROVE  TokenInv' /\ OpenInv'
<1> DEFINE j == [fn |-> fn, fd |-> f, conn |-> open'[f]]
<1>1. j \in Job /\ j.fd = f /\ j.conn = open'[f]
  BY DEF Job
<1> HIDE DEF j
<1>2. /\ queue \in Seq(Job) /\ \A i \in DOMAIN queue : queue[i].fd \in FDs
      /\ pending \subseteq FDs /\ pclose \subseteq FDs
  BY InQueue DEF ShapeInv, TypeOK
<1>3. \A t \in Threads : Busy(t) => job[t].fd \in FDs
  BY DEF ShapeInv, TypeOK, Job, Busy
<1>4. \A t \in Threads : Busy(t)' <=> Busy(t)
  BY DEF Busy
<1>5. CASE queue' = Append(queue, j) /\ UNCHANGED pclose
  <2>1. /\ DOMAIN queue' = DOMAIN queue \cup {Len(queue) + 1}
        /\ queue'[Len(queue) + 1] = j /\ Len(queue) + 1 \notin DOMAIN queue
        /\ \A i \in DOMAIN queue : queue'[i] = queue[i]
    BY <1>1, <1>2, <1>5, Appended
  <2>2. \A i \in DOMAIN queue' : i \in DOMAIN queue \/ queue'[i] = j
    BY <2>1
  <2>3. \A i, k \in DOMAIN queue' : queue'[i].fd = queue'[k].fd => i = k
    BY <1>1, <2>1 DEF Owned, TokenInv
  <2>4. TokenInv'
    BY <1>1, <1>4, <1>5, <2>1, <2>2, <2>3 DEF Owned, TokenInv
  <2>5. OpenInv'
    BY <1>1, <1>2, <1>3, <1>4, <1>5, <2>1, <2>2 DEF Owned, OpenInv
  <2> QED
    BY <2>4, <2>5
<1>6. CASE ~inline /\ pclose' = pclose \cup {f} /\ UNCHANGED queue
  <2>1. TokenInv'
    BY <1>4, <1>6 DEF Owned, TokenInv
  <2>2. OpenInv'
    BY <1>2, <1>3, <1>4, <1>6 DEF Owned, OpenInv
  <2> QED
    BY <2>1, <2>2
<1> QED
  BY <1>5, <1>6 DEF QueueJob, j

\* Each action of the loop, of jobs and of their surroundings.
LEMMA OwnedNext == ShapeInv /\ Owned /\ [Next]_vars => Owned'
<1> SUFFICES ASSUME ShapeInv, Owned, [Next]_vars PROVE Owned'
  OBVIOUS
<1> USE DEF kernel, tables, pool, history
<1>0. ModeInv /\ ModeInv'
  BY DEF Owned, ModeInv, Next, LoopStep, JobStep, Environment, vars
<1>a. /\ FDs \subseteq Nat \ {0} /\ Listen \notin FDs /\ Ctl \notin FDs /\ None \notin Conns
      /\ App \in Threads /\ App \notin Workers
  BY SocketServiceAssumption DEF Listen, Ctl, Threads
<1>b. /\ open \in [FDs -> Conns \cup {None}] /\ known \subseteq Conns
      /\ queue \in Seq(Job) /\ \A i \in DOMAIN queue : queue[i].fd \in FDs
      /\ pending \subseteq FDs /\ pclose \subseteq FDs
      /\ \A t \in Threads : job[t] # None => job[t] \in Job /\ job[t].fd \in FDs
  BY InQueue, AtWork DEF ShapeInv, TypeOK
<1>1. CASE UNCHANGED <<inline, open, queue, job, at, pending, pclose, rset, loop>>
  BY <1>0, <1>1 DEF Owned, TokenInv, OpenInv, RsetInv, Busy
<1>2. ASSUME NEW f \in FDs, UNCHANGED inline, ClientClose(f) PROVE Owned'
  <2>1. UNCHANGED <<inline, open, queue, job, at, pending, rset, loop>>
        /\ pclose' = pclose \cup {f} /\ open[f] \in Conns
        /\ (job[App] # None => job[App].fd # f) /\ inline
    BY <1>0, <1>b, <1>2 DEF ClientClose, ModeInv
  <2>2. TokenInv' /\ RsetInv'
    BY <2>1 DEF Owned, TokenInv, RsetInv, Busy
  <2>3. OpenInv'
    BY <1>a, <2>1 DEF Owned, OpenInv, Busy
  <2> QED
    BY <1>0, <2>2, <2>3 DEF Owned
<1>3. ASSUME NEW c \in Conns, NEW f \in FDs, UNCHANGED inline, ClientAdd(c, f)
      PROVE  Owned'
  <2> DEFINE j == [fn |-> "ext", fd |-> f, conn |-> c]
  <2>1. j \in Job /\ j.fd = f /\ j.conn = c
    BY DEF Job
  <2> HIDE DEF j
  <2>2. /\ open[f] = None /\ open' = [open EXCEPT ![f] = c] /\ job' = [job EXCEPT ![App] = j]
        /\ at' = [at EXCEPT ![App] = "add"] /\ job[App] = None
        /\ UNCHANGED <<inline, queue, pending, pclose, rset, loop>>
    BY <1>3 DEF ClientAdd, j
  <2>3. /\ f \notin pending \cup pclose
        /\ \A i \in DOMAIN queue : queue[i].fd # f
        /\ \A t \in Threads : Busy(t) => job[t].fd # f
    BY <2>2 DEF Owned, OpenInv
  <2>4. /\ Busy(App)' /\ job'[App] = j
        /\ \A t \in Threads \ {App} : (Busy(t)' <=> Busy(t)) /\ job'[t] = job[t]
        /\ open'[f] = c /\ \A g \in FDs \ {f} : open'[g] = open[g]
    BY <1>a, <1>b, <2>1, <2>2, JobAssumption DEF Busy, ShapeInv, TypeOK
  <2>5. TokenInv'
    BY <1>a, <2>1, <2>2, <2>3, <2>4 DEF Owned, TokenInv
  <2>6. OpenInv'
    BY <1>a, <1>b, <2>1, <2>2, <2>3, <2>4 DEF Owned, OpenInv, Busy
  <2>7. RsetInv'
    BY <2>2 DEF Owned, RsetInv
  <2> QED
    BY <1>0, <2>5, <2>6, <2>7 DEF Owned
<1>4. ASSUME UNCHANGED inline, ProcessClosed PROVE Owned'
  <2>1. /\ open' = [f \in FDs |-> IF f \in pclose THEN None ELSE open[f]]
        /\ pending' = pending \ pclose /\ pclose' = {} /\ rset' = pending'
        /\ UNCHANGED <<inline, queue, job, at>> /\ LoopFree
    BY <1>4 DEF ProcessClosed
  <2>2. \A t \in Threads : Busy(t)' <=> Busy(t)
    BY <2>1 DEF Busy
  <2>3. /\ \A i \in DOMAIN queue : queue[i].fd \notin pclose
        /\ \A t \in Threads : Busy(t) => job[t].fd \notin pclose
    BY <2>1 DEF LoopFree, Owned, TokenInv, Busy, Threads
  <2>4. TokenInv'
    BY <2>1, <2>2 DEF Owned, TokenInv
  <2>5. OpenInv'
    BY <1>b, <2>1, <2>2, <2>3 DEF Owned, OpenInv, Busy
  <2>6. RsetInv'
    BY <2>1 DEF RsetInv
  <2> QED
    BY <1>0, <2>4, <2>5, <2>6 DEF Owned
<1>5. ASSUME UNCHANGED <<inline, open, queue, job, at, pending, pclose>>, RsetInv' PROVE Owned'
  BY <1>0, <1>5 DEF Owned, TokenInv, OpenInv, Busy
<1>6. ASSUME UNCHANGED inline, SelectReady \/ SelectTimeout \/ SelectFails \/ ServeDone
      PROVE Owned'
  <2>1. CASE SelectReady
    <3>1. RsetInv'
      BY <1>a, <2>1 DEF SelectReady, Ready, Watched, RsetInv, Owned
    <3> QED
      BY <1>5, <1>6, <2>1, <3>1 DEF SelectReady
  <2>2. CASE SelectTimeout \/ ServeDone
    <3>1. RsetInv'
      BY <2>2 DEF SelectTimeout, ServeDone, RsetInv
    <3> QED
      BY <1>5, <1>6, <2>2, <3>1 DEF SelectTimeout, ServeDone
  <2>3. CASE SelectFails
    <3>1. Broken = {}
      BY <2>3 DEF SelectFails, Broken, Watched, ShapeInv, Owned, RsetInv, OpenInv
    <3> QED
      BY <2>3, <3>1 DEF SelectFails
  <2> QED
    BY <1>6, <2>1, <2>2, <2>3
<1>7. ASSUME UNCHANGED inline, Serve PROVE Owned'
  <2>1. UNCHANGED <<inline, pending, job, at, rset>> /\ loop = "serve" /\ loop' = "clients"
    BY <1>7 DEF Serve
  <2>2. RsetInv'
    BY <2>1 DEF Owned, RsetInv
  <2>3. ASSUME NEW c \in backlog, NEW f \in FDs, open[f] = None, open' = [open EXCEPT ![f] = c],
               QueueJob("add", f)
        PROVE  TokenInv' /\ OpenInv'
    <3>1. c \in Conns
      BY <2>3 DEF ShapeInv, TypeOK
    <3>2. /\ open' \in [FDs -> Conns \cup {None}] /\ open'[f] # None
          /\ \A g \in FDs \ {f} : open'[g] = open[g]
      BY <1>a, <1>b, <2>3, <3>1
    <3>3. /\ f \notin pending \cup pclose
          /\ \A i \in DOMAIN queue : queue[i].fd # f
          /\ \A t \in Threads : Busy(t) => job[t].fd # f
      BY <2>3 DEF Owned, OpenInv
    <3>4. pending' = pending \ {f}
      BY <2>1, <3>3
    <3> QED
      BY <2>1, <2>3, <3>2, <3>3, <3>4, QueuedOwned
  <2> QED
    BY <1>0, <1>5, <1>7, <2>1, <2>2, <2>3, ServeCases DEF Owned
<1>8. ASSUME UNCHANGED inline, ServeClient PROVE Owned'
  <2>1. PICK f \in ToServe : /\ pending' = pending \ {f} /\ rset' = rset \ {f}
                             /\ UNCHANGED open /\ QueueJob("data", f)
    BY <1>8, ServeClientCases
  <2>2. UNCHANGED <<inline, job, at, loop>> /\ loop = "clients"
    BY <1>8 DEF ServeClient
  <2>3. f \in FDs /\ f \in pending
    BY <1>b, <2>2, <2>1 DEF ToServe, Owned, RsetInv, ShapeInv, TypeOK
  <2>4. /\ open[f] # None
        /\ \A i \in DOMAIN queue : queue[i].fd # f
        /\ \A t \in Threads : Busy(t) => job[t].fd # f
        /\ f \in pclose => inline
    BY <2>3 DEF Owned, OpenInv, TokenInv
  <2>5. TokenInv' /\ OpenInv'
    BY <1>b, <2>1, <2>2, <2>3, <2>4, QueuedOwned
  <2>6. RsetInv'
    BY <2>1, <2>2 DEF Owned, RsetInv
  <2> QED
    BY <1>0, <2>5, <2>6 DEF Owned
<1>9. ASSUME NEW w \in Workers, UNCHANGED inline, StartJob(w) PROVE Owned'
  <2>1. PICK j \in Job : /\ j = queue[1] /\ 1 \in DOMAIN queue /\ w \in Threads
                         /\ job' = [job EXCEPT ![w] = j] /\ at' = [at EXCEPT ![w] = "call"]
                         /\ queue' = Tail(queue) /\ queue # <<>>
                         /\ job[w] = None /\ UNCHANGED <<inline, open, pending, pclose, rset, loop>>
    BY <1>9, <1>b, Advanced DEF StartJob, Threads
  <2>2. /\ Busy(w)' /\ job'[w] = j /\ ~Busy(w)
        /\ \A t \in Threads \ {w} : (Busy(t)' <=> Busy(t)) /\ job'[t] = job[t]
    BY <2>1, JobAssumption DEF Busy, ShapeInv, TypeOK
  <2>3. \A i \in DOMAIN queue' : i + 1 \in DOMAIN queue \ {1} /\ queue'[i] = queue[i + 1]
    BY <1>b, <2>1, Advanced
  <2>4. \A i, k \in DOMAIN queue' : i + 1 = k + 1 => i = k
    BY <1>b, <2>1, Advanced
  <2>5. \A i, k \in DOMAIN queue' : queue'[i].fd = queue'[k].fd => i = k
    BY <2>3, <2>4 DEF Owned, TokenInv
  <2>6. \A i \in DOMAIN queue' : queue'[i].fd # j.fd
    BY <2>1, <2>3 DEF Owned, TokenInv
  <2>7. w # App
    BY <1>a
  <2>8. TokenInv'
    BY <2>1, <2>2, <2>3, <2>5, <2>6, <2>7 DEF Owned, TokenInv
  <2>9. OpenInv'
    BY <2>1, <2>2, <2>3 DEF Owned, OpenInv
  <2>10. RsetInv'
    BY <2>1 DEF Owned, RsetInv
  <2> QED
    BY <1>0, <2>8, <2>9, <2>10 DEF Owned
<1>10. ASSUME NEW t \in Threads, UNCHANGED inline,
              CallNewClient(t) \/ CallSomeData(t) \/ NewConn(t) \/ WakeNew(t)
       PROVE  Owned'
  <2>1. \E place : Goto(t, place) /\ place # "wake"
    BY <1>10 DEF CallNewClient, CallSomeData, NewConn, WakeNew
  <2>2. /\ at[t] # "wake"
        /\ UNCHANGED <<inline, open, queue, pending, pclose, rset, loop>>
    BY <1>10 DEF CallNewClient, CallSomeData, NewConn, WakeNew
  <2>3. job' = job /\ \A u \in Threads : Busy(u)' <=> Busy(u)
    BY <2>1, <2>2 DEF Goto, Busy, ShapeInv, TypeOK
  <2> QED
    BY <1>0, <2>2, <2>3 DEF Owned, TokenInv, OpenInv, RsetInv
<1>11. ASSUME NEW t \in Threads, UNCHANGED inline, PendClose(t) \/ Returned(t) \/ Wake(t)
       PROVE  Owned'
  <2>1. /\ ~Busy(t)'
        /\ \A u \in Threads \ {t} : (Busy(u)' <=> Busy(u)) /\ job'[u] = job[u]
        /\ UNCHANGED <<inline, open, queue, rset, loop>>
    BY <1>11 DEF PendClose, Returned, Wake, Finish, Goto, Busy, ShapeInv, TypeOK
  <2>2. CASE UNCHANGED <<pending, pclose>>
    BY <1>0, <2>1, <2>2 DEF Owned, TokenInv, OpenInv, RsetInv
  <2>3. CASE ~UNCHANGED <<pending, pclose>>
    <3>1. \/ pending' = pending \cup {job[t].fd} /\ UNCHANGED pclose
          \/ pclose' = pclose \cup {job[t].fd} /\ UNCHANGED pending
      BY <1>11, <2>3 DEF PendClose, Returned, Wake
    <3>2. Busy(t)
      BY <1>11, <2>3 DEF PendClose, Returned, Wake, Busy, ShapeInv, TypeOK
    <3>3. /\ open[job[t].fd] # None
          /\ \A i \in DOMAIN queue : queue[i].fd # job[t].fd
          /\ \A u \in Threads \ {t} : Busy(u) => job[u].fd # job[t].fd
          /\ job[t].fd \notin pending
          /\ job[t].fd \in pclose => inline
      BY <3>2 DEF Owned, TokenInv, OpenInv
    <3>4. TokenInv'
      BY <2>1, <3>1, <3>3 DEF Owned, TokenInv
    <3>5. OpenInv'
      BY <2>1, <3>1, <3>3 DEF Owned, OpenInv
    <3>6. RsetInv'
      BY <2>1, <3>1 DEF Owned, RsetInv
    <3> QED
      BY <1>0, <3>4, <3>5, <3>6 DEF Owned
  <2> QED
    BY <2>2, <2>3
<1>12. CASE UNCHANGED vars
  BY <1>1, <1>12 DEF vars
<1>13. CASE LoopStep
  BY <1>4, <1>6, <1>7, <1>8, <1>13 DEF LoopStep
<1>14. CASE Environment
  <2>1. ASSUME NEW c \in Conns, UNCHANGED inline, Connect(c) \/ PeerSends(c) \/ PeerCloses(c)
        PROVE  Owned'
    BY <1>1, <2>1 DEF Connect, PeerSends, PeerCloses
  <2>2. ASSUME NEW f \in FDs, BreakClient(f) PROVE Owned'
    BY <1>0, <2>2 DEF BreakClient, ModeInv
  <2> QED
    BY <1>2, <1>3, <1>14, <2>1, <2>2 DEF Environment
<1> QED
  BY <1>9, <1>10, <1>11, <1>12, <1>13, <1>14 DEF Next, JobStep

\* A set of which any two elements are the same.
LEMMA AtMostOne ==
    ASSUME NEW S, \A x, y \in S : x = y
    PROVE  Cardinality(S) = IF S = {} THEN 0 ELSE 1
<1>1. CASE S = {}
  BY <1>1, FS_EmptySet
<1>2. CASE S # {}
  <2>1. PICK x \in S : TRUE
    BY <1>2
  <2>2. S = {x}
    BY <2>1
  <2> QED
    BY <1>2, <2>2, FS_Singleton
<1> QED
  BY <1>1, <1>2

\* What was counted, from who has what.
LEMMA OwnedMeansOneJob == ShapeInv /\ Owned => OneJobPerClient
<1> SUFFICES ASSUME ShapeInv, Owned, NEW f \in FDs
             PROVE  /\ Cardinality(QueuedOn(f)) + Cardinality(BusyOn(f)) <= 1
                    /\ f \in pending => QueuedOn(f) = {} /\ BusyOn(f) = {}
  BY DEF OneJobPerClient
<1>1. \A i, k \in QueuedOn(f) : i = k
  BY DEF QueuedOn, Owned, TokenInv
<1>2. \A t, u \in BusyOn(f) : t = u
  BY DEF BusyOn, Has, Busy, Owned, TokenInv
<1>3. QueuedOn(f) = {} \/ BusyOn(f) = {}
  BY DEF QueuedOn, BusyOn, Has, Busy, Owned, TokenInv
<1>4. f \in pending => QueuedOn(f) = {} /\ BusyOn(f) = {}
  BY DEF QueuedOn, BusyOn, Has, Busy, Owned, TokenInv
<1>5. /\ Cardinality(QueuedOn(f)) = IF QueuedOn(f) = {} THEN 0 ELSE 1
      /\ Cardinality(BusyOn(f)) = IF BusyOn(f) = {} THEN 0 ELSE 1
  BY <1>1, <1>2, AtMostOne
<1> QED
  BY <1>3, <1>4, <1>5

\* OpenInv says it of queued and of running jobs.
LEMMA OwnedMeansNoStaleJob == Owned => NoStaleJob
BY DEF Owned, OpenInv, NoStaleJob, Busy

(***************************************************************************)
(* max_fd covers what is armed and what will be.                           *)
(***************************************************************************)

\* Clients are entered before max_fd is raised for them, and client_add enters
\* its own with max_fd.
Entered(t) == job[t].fn = "ext" => at[t] # "add"

\* The jobs that will arm their client.
Arming(t) == at[t] \in {"return", "wakeNew", "arm"} \/ (at[t] = "call" /\ job[t].fn = "data")

\* setup_max_fd looks at m_clients alone, so that what is armed or will be has to
\* be in it when another client is closed.
MaxInv ==
    /\ \A i \in DOMAIN queue : queue[i].fd \in clients
    /\ \A t \in Threads : Busy(t) /\ Entered(t) => job[t].fd \in clients
    /\ pending \subseteq clients /\ MaxFdCovers
    /\ \A i \in DOMAIN queue : queue[i].fn = "data" => queue[i].fd <= maxfd
    /\ \A t \in Threads : Busy(t) /\ Arming(t) => job[t].fd <= maxfd
    /\ \A t \in Threads : at[t] = "call" => job[t].fn # "ext"
    /\ \A i \in DOMAIN queue : queue[i].fn # "ext"

\* Nothing is armed yet.
LEMMA MaxInit == Init => MaxInv
<1> SUFFICES ASSUME Init PROVE MaxInv
  OBVIOUS
<1>1. DOMAIN queue = {} /\ \A t \in Threads : ~Busy(t)
  BY DEF Init, Busy
<1> QED
  BY <1>1 DEF Init, MaxInv, MaxFdCovers

\* A job that is queued for a client.
LEMMA QueuedCovered ==
    ASSUME ShapeInv, MaxInv, NEW f \in FDs, NEW fn \in {"add", "data"}, QueueJob(fn, f),
           open'[f] \in Conns \cup {None}, f \in clients', clients \subseteq clients',
           pending' \subseteq pending, fn = "data" => f <= maxfd, UNCHANGED <<maxfd, job, at>>
    PROVE  MaxInv'
<1> DEFINE j == [fn |-> fn, fd |-> f, conn |-> open'[f]]
<1>1. j \in Job /\ j.fd = f /\ j.fn = fn
  BY DEF Job
<1> HIDE DEF j
<1>2. queue \in Seq(Job)
  BY DEF ShapeInv, TypeOK
<1>3. \A t \in Threads : (Busy(t)' <=> Busy(t)) /\ (Entered(t)' <=> Entered(t))
                         /\ (Arming(t)' <=> Arming(t))
  BY DEF Busy, Entered, Arming
<1>4. CASE queue' = Append(queue, j) /\ UNCHANGED <<pclose, asked>>
  <2>1. \A i \in DOMAIN queue' : (i \in DOMAIN queue /\ queue'[i] = queue[i]) \/ queue'[i] = j
    BY <1>1, <1>2, <1>4, Appended
  <2> QED
    BY <1>1, <1>3, <2>1 DEF MaxInv, MaxFdCovers
<1>5. CASE UNCHANGED queue
  BY <1>3, <1>5 DEF MaxInv, MaxFdCovers
<1> QED
  BY <1>4, <1>5 DEF QueueJob, j

\* A client is entered and max_fd raised for it before it is armed; process_closed
\* lowers max_fd to the greatest client that is left.
LEMMA MaxNext == ShapeInv /\ Owned /\ MaxInv /\ [Next]_vars => MaxInv'
<1> SUFFICES ASSUME ShapeInv, Owned, MaxInv, [Next]_vars PROVE MaxInv'
  OBVIOUS
<1> USE DEF kernel, tables, pool, history
<1>a. /\ FDs \subseteq Nat /\ App \in Threads /\ clients \subseteq FDs /\ pclose \subseteq FDs
      /\ maxfd \in Nat /\ pending \subseteq FDs /\ open \in [FDs -> Conns \cup {None}]
  BY SocketServiceAssumption DEF Threads, ShapeInv, TypeOK
<1>b. \A t \in Threads : job[t] # None => job[t] \in Job /\ job[t].fd \in FDs
  BY AtWork DEF ShapeInv
<1>1. CASE UNCHANGED <<queue, job, at, clients, pending, maxfd>>
  BY <1>1 DEF MaxInv, MaxFdCovers, Busy, Entered, Arming
<1>2. ASSUME NEW c \in Conns, NEW f \in FDs, ClientAdd(c, f) PROVE MaxInv'
  <2> DEFINE j == [fn |-> "ext", fd |-> f, conn |-> c]
  <2>1. j.fn = "ext" /\ j.fd = f
    OBVIOUS
  <2> HIDE DEF j
  <2>2. /\ job' = [job EXCEPT ![App] = j] /\ at' = [at EXCEPT ![App] = "add"]
        /\ UNCHANGED <<queue, clients, pending, maxfd>>
    BY <1>2 DEF ClientAdd, j
  <2>3. /\ job'[App] = j /\ at'[App] = "add"
        /\ \A t \in Threads \ {App} : job'[t] = job[t] /\ at'[t] = at[t]
    BY <1>a, <2>2 DEF ShapeInv, TypeOK
  <2> QED
    BY <2>1, <2>2, <2>3 DEF MaxInv, MaxFdCovers, Busy, Entered, Arming
<1>3. CASE ProcessClosed
  <2>1. /\ clients' = clients \ pclose /\ pending' = pending \ pclose
        /\ maxfd' = (IF pclose = {} THEN maxfd ELSE MaxFd(clients'))
        /\ UNCHANGED <<queue, job, at>> /\ LoopFree
    BY <1>3 DEF ProcessClosed
  <2>2. /\ \A i \in DOMAIN queue : queue[i].fd \notin pclose
        /\ \A t \in Threads : Busy(t) => job[t].fd \notin pclose
    BY <2>1 DEF LoopFree, Owned, TokenInv, Busy, Threads
  <2>3. \A f \in clients' : f <= maxfd => f <= maxfd'
    BY <1>a, <2>1, MaxFdBounds
  <2>4. \A t \in Threads : (Busy(t)' <=> Busy(t)) /\ (Entered(t)' <=> Entered(t))
                           /\ (Arming(t)' <=> Arming(t))
    BY <2>1 DEF Busy, Entered, Arming
  <2>5. \A t \in Threads : Busy(t) /\ Arming(t) => Entered(t)
    BY DEF Entered, Arming
  <2> QED
    BY <2>1, <2>2, <2>3, <2>4, <2>5 DEF MaxInv, MaxFdCovers
<1>4. CASE Serve
  <2>1. UNCHANGED <<pending, maxfd, job, at>>
    BY <1>4 DEF Serve
  <2>2. ASSUME NEW c \in backlog, NEW f \in FDs, open' = [open EXCEPT ![f] = c],
               clients' = clients \cup {f}, QueueJob("add", f)
        PROVE  MaxInv'
    <3>1. open'[f] \in Conns \cup {None}
      BY <1>a, <2>2 DEF ShapeInv, TypeOK
    <3> QED
      BY <2>1, <2>2, <3>1, QueuedCovered
  <2> QED
    BY <1>1, <1>4, <2>1, <2>2, ServeCases
<1>5. CASE ServeClient
  <2>1. PICK f \in ToServe : /\ pending' = pending \ {f} /\ rset' = rset \ {f}
                             /\ UNCHANGED open /\ QueueJob("data", f)
    BY <1>5, ServeClientCases
  <2>2. UNCHANGED <<clients, maxfd, job, at>> /\ loop = "clients"
    BY <1>5 DEF ServeClient
  <2>3. f \in FDs /\ f \in clients /\ f \in pending
    BY <1>a, <2>1, <2>2 DEF ToServe, Owned, RsetInv
  <2>4. open'[f] \in Conns \cup {None} /\ f <= maxfd
    BY <1>a, <2>1, <2>3 DEF MaxInv, MaxFdCovers
  <2> QED
    BY <2>1, <2>2, <2>3, <2>4, QueuedCovered
<1>6. ASSUME NEW w \in Workers, StartJob(w) PROVE MaxInv'
  <2>1. PICK j \in Job : /\ j = queue[1] /\ 1 \in DOMAIN queue /\ w \in Threads
                         /\ job' = [job EXCEPT ![w] = j] /\ at' = [at EXCEPT ![w] = "call"]
                         /\ queue' = Tail(queue) /\ queue # <<>> /\ queue \in Seq(Job)
                         /\ UNCHANGED <<clients, pending, maxfd>>
    BY <1>6, Advanced DEF StartJob, Threads, ShapeInv, TypeOK
  <2>2. /\ job'[w] = j /\ at'[w] = "call"
        /\ \A t \in Threads \ {w} : job'[t] = job[t] /\ at'[t] = at[t]
    BY <2>1 DEF ShapeInv, TypeOK
  <2>3. \A i \in DOMAIN queue' : \E k \in DOMAIN queue : queue'[i] = queue[k]
    BY <2>1, Advanced
  <2> QED
    BY <2>1, <2>2, <2>3 DEF MaxInv, MaxFdCovers, Busy, Entered, Arming
<1>7. ASSUME NEW t \in Threads,
             CallNewClient(t) \/ CallSomeData(t) \/ PendClose(t) \/ WakeNew(t) \/ Wake(t)
      PROVE  MaxInv'
  <2>1. UNCHANGED <<queue, clients, pending, maxfd>>
    BY <1>7 DEF CallNewClient, CallSomeData, PendClose, WakeNew, Wake
  <2>2. \A u \in Threads \ {t} : job'[u] = job[u] /\ at'[u] = at[u]
    BY <1>7 DEF CallNewClient, CallSomeData, PendClose, WakeNew, Wake, Goto, Finish, ShapeInv,
                TypeOK
  <2>3. \/ job'[t] = None /\ at'[t] = "idle"
        \/ /\ job'[t] = job[t] /\ Busy(t) /\ at[t] = "call" /\ at'[t] \in {"add", "drop"}
        \/ /\ job'[t] = job[t] /\ Busy(t) /\ Arming(t) /\ Entered(t)
           /\ at'[t] \in {"return", "drop", "arm"}
    BY <1>7 DEF CallNewClient, CallSomeData, PendClose, WakeNew, Wake, Goto, Finish, Busy,
                Arming, Entered, ShapeInv, TypeOK
  <2> QED
    BY <2>1, <2>2, <2>3 DEF MaxInv, MaxFdCovers, Busy, Entered, Arming
<1>8. ASSUME NEW t \in Threads, NewConn(t) PROVE MaxInv'
  <2>1. /\ UNCHANGED <<queue, pending, job>> /\ maxfd' = Larger(job[t].fd, maxfd)
        /\ clients' = (IF job[t].fn = "ext" THEN clients \cup {job[t].fd} ELSE clients)
        /\ at' = [at EXCEPT ![t] = "wakeNew"] /\ at[t] = "add"
    BY <1>8 DEF NewConn, Goto
  <2>2. job[t].fd \in FDs /\ Busy(t)
    BY <1>b, <2>1 DEF Busy, ShapeInv
  <2>3. job[t].fd <= maxfd' /\ maxfd <= maxfd' /\ maxfd' \in Nat
    BY <1>a, <2>1, <2>2 DEF Larger
  <2>4. job[t].fd \in clients' /\ clients \subseteq clients'
    BY <2>1, <2>2 DEF MaxInv, Entered
  <2>5. at'[t] = "wakeNew" /\ \A u \in Threads \ {t} : at'[u] = at[u]
    BY <2>1 DEF ShapeInv, TypeOK
  <2>6. \A f \in FDs : f <= maxfd => f <= maxfd'
    BY <1>a, <2>3
  <2>7. pending' \subseteq clients' /\ \A f \in pending' : f <= maxfd'
    BY <1>a, <2>1, <2>4, <2>6 DEF MaxInv, MaxFdCovers
  <2>8. \A u \in Threads : Busy(u)' => Busy(u)
    BY <2>1, <2>2, <2>5 DEF Busy
  <2> QED
    BY <1>a, <1>b, <2>1, <2>3, <2>4, <2>5, <2>6, <2>7, <2>8
       DEF MaxInv, MaxFdCovers, Busy, Entered, Arming
<1>9. ASSUME NEW t \in Threads, Returned(t) PROVE MaxInv'
  <2>1. /\ UNCHANGED <<queue, clients, maxfd>> /\ at[t] \in {"return", "arm"}
        /\ pending' \subseteq pending \cup {job[t].fd}
        /\ \/ job'[t] = None /\ at'[t] = "idle"
           \/ job'[t] = job[t] /\ at'[t] = "wake"
        /\ \A u \in Threads \ {t} : job'[u] = job[u] /\ at'[u] = at[u]
    BY <1>9 DEF Returned, Goto, Finish, ShapeInv, TypeOK
  <2>2. Busy(t) /\ Entered(t) /\ Arming(t)
    BY <2>1 DEF Busy, Entered, Arming, ShapeInv
  <2> QED
    BY <2>1, <2>2 DEF MaxInv, MaxFdCovers, Busy, Entered, Arming
<1>10. CASE UNCHANGED vars
  BY <1>1, <1>10 DEF vars
<1>11. CASE LoopStep
  <2>1. CASE SelectReady \/ SelectTimeout \/ SelectFails \/ ServeDone
    BY <1>1, <2>1 DEF SelectReady, SelectTimeout, SelectFails, ServeDone
  <2> QED
    BY <1>3, <1>4, <1>5, <1>11, <2>1 DEF LoopStep
<1>12. CASE Environment
  <2>1. ASSUME NEW c \in Conns, Connect(c) \/ PeerSends(c) \/ PeerCloses(c) PROVE MaxInv'
    BY <1>1, <2>1 DEF Connect, PeerSends, PeerCloses
  <2>2. ASSUME NEW f \in FDs, BreakClient(f) \/ ClientClose(f) PROVE MaxInv'
    BY <1>1, <2>2 DEF BreakClient, ClientClose
  <2> QED
    BY <1>2, <1>12, <2>1, <2>2 DEF Environment
<1> QED
  BY <1>6, <1>7, <1>8, <1>9, <1>10, <1>11, <1>12 DEF Next, JobStep

(***************************************************************************)
(* A connection is closed when its end was asked for.                      *)
(***************************************************************************)

\* So from the decision to drop a client to the close in process_closed.
AskedInv ==
    /\ \A f \in pclose : open[f] \in asked
    /\ \A t \in Threads : at[t] = "drop" => job[t].conn \in asked

\* Nothing is to be closed yet.
LEMMA AskedInit == Init => AskedInv
BY DEF Init, AskedInv

\* A descriptor comes into pclose with its connection's end asked for, and leads to
\* that connection until process_closed has closed it.
LEMMA AskedNext == ShapeInv /\ Owned /\ AskedInv /\ [Next]_vars => AskedInv'
<1> SUFFICES ASSUME ShapeInv, Owned, AskedInv, [Next]_vars PROVE AskedInv'
  OBVIOUS
<1> USE DEF kernel, tables, pool, history
<1>1. CASE UNCHANGED <<open, pclose, job, at>> /\ asked \subseteq asked'
  BY <1>1 DEF AskedInv
<1>2. CASE asked \subseteq asked' /\ (\A f \in pclose' : open'[f] \in asked')
           /\ \A t \in Threads : at'[t] = "drop" => at[t] = "drop" /\ job'[t] = job[t]
  BY <1>2 DEF AskedInv
<1>3. ASSUME NEW f \in FDs, ClientClose(f) PROVE AskedInv'
  BY <1>3 DEF ClientClose, AskedInv
<1>4. ASSUME NEW c \in Conns, NEW f \in FDs, ClientAdd(c, f) PROVE AskedInv'
  <2>1. f \notin pclose /\ \A g \in pclose : open'[g] = open[g]
    BY <1>4 DEF ClientAdd, Owned, OpenInv, ShapeInv, TypeOK
  <2>2. \A t \in Threads : at'[t] = "drop" => at[t] = "drop" /\ job'[t] = job[t]
    BY <1>4 DEF ClientAdd, ShapeInv, TypeOK
  <2> QED
    BY <1>2, <1>4, <2>1, <2>2 DEF ClientAdd, AskedInv
<1>5. CASE ProcessClosed
  BY <1>2, <1>5 DEF ProcessClosed
<1>6. CASE Serve
  <2>1. UNCHANGED <<job, at>>
    BY <1>6 DEF Serve
  <2>2. ASSUME NEW c \in backlog, NEW f \in FDs, open[f] = None,
               open' = [open EXCEPT ![f] = c], QueueJob("add", f)
        PROVE  AskedInv'
    <3>1. f \notin pclose /\ \A g \in pclose : open'[g] = open[g]
      BY <2>2 DEF Owned, OpenInv, ShapeInv, TypeOK
    <3> QED
      BY <2>1, <2>2, <3>1 DEF QueueJob, AskedInv
  <2> QED
    BY <1>1, <1>6, <2>1, <2>2, ServeCases
<1>7. CASE ServeClient
  <2>1. PICK f \in ToServe : UNCHANGED open /\ QueueJob("data", f)
    BY <1>7, ServeClientCases
  <2>2. UNCHANGED <<job, at>>
    BY <1>7 DEF ServeClient
  <2> QED
    BY <2>1, <2>2 DEF QueueJob, AskedInv
<1>8. ASSUME NEW w \in Workers, StartJob(w) PROVE AskedInv'
  BY <1>8 DEF StartJob, AskedInv, ShapeInv, TypeOK, Threads
<1>9. ASSUME NEW t \in Threads, CallNewClient(t) PROVE AskedInv'
  BY <1>9 DEF CallNewClient, Goto, AskedInv, ShapeInv, TypeOK
<1>10. ASSUME NEW t \in Threads, CallSomeData(t) PROVE AskedInv'
  BY <1>10 DEF CallSomeData, Goto, AskedInv, ShapeInv, TypeOK
<1>11. ASSUME NEW t \in Threads, PendClose(t) PROVE AskedInv'
  <2>1. open[job[t].fd] \in asked
    BY <1>11 DEF PendClose, AskedInv, Owned, OpenInv, Busy, ShapeInv
  <2>2. \A u \in Threads : at'[u] = "drop" => at[u] = "drop" /\ job'[u] = job[u]
    BY <1>11 DEF PendClose, Finish, ShapeInv, TypeOK
  <2> QED
    BY <1>2, <1>11, <2>1, <2>2 DEF PendClose, AskedInv
<1>12. ASSUME NEW t \in Threads, NewConn(t) \/ WakeNew(t) \/ Returned(t) \/ Wake(t)
       PROVE  AskedInv'
  <2>1. UNCHANGED <<open, pclose, asked>>
    BY <1>12 DEF NewConn, WakeNew, Returned, Wake
  <2>2. \A u \in Threads : at'[u] = "drop" => at[u] = "drop" /\ job'[u] = job[u]
    BY <1>12 DEF NewConn, WakeNew, Returned, Wake, Goto, Finish, ShapeInv, TypeOK
  <2> QED
    BY <1>2, <2>1, <2>2 DEF AskedInv
<1>13. CASE UNCHANGED vars
  BY <1>1, <1>13 DEF vars
<1>14. CASE LoopStep
  <2>1. CASE SelectReady \/ SelectTimeout \/ ServeDone
    BY <1>1, <2>1 DEF SelectReady, SelectTimeout, ServeDone
  <2>2. CASE SelectFails
    <3>1. Broken = {}
      BY <2>2 DEF SelectFails, Broken, Watched, ShapeInv, Owned, RsetInv, OpenInv
    <3> QED
      BY <2>2, <3>1 DEF SelectFails
  <2> QED
    BY <1>5, <1>6, <1>7, <1>14, <2>1, <2>2 DEF LoopStep
<1>15. CASE Environment
  <2>1. ASSUME NEW c \in Conns, Connect(c) \/ PeerSends(c) \/ PeerCloses(c) PROVE AskedInv'
    BY <1>1, <2>1 DEF Connect, PeerSends, PeerCloses
  <2>2. ASSUME NEW f \in FDs, BreakClient(f) PROVE AskedInv'
    BY <2>2 DEF BreakClient, Owned, ModeInv
  <2> QED
    BY <1>3, <1>4, <1>15, <2>1, <2>2 DEF Environment
<1> QED
  BY <1>8, <1>9, <1>10, <1>11, <1>12, <1>13, <1>14, <1>15 DEF Next, JobStep

\* Only process_closed closes, and only what is in pclose.
LEMMA ClosesStep ==
    ASSUME ShapeInv, Owned, AskedInv, [Next]_vars, NEW f \in FDs, open[f] # None, open'[f] = None
    PROVE  open[f] \in asked
<1> USE DEF kernel, tables, pool, history
<1>1. UNCHANGED open => FALSE
  OBVIOUS
<1>2. ASSUME NEW c \in Conns, NEW g \in FDs, open' = [open EXCEPT ![g] = c] PROVE FALSE
  BY <1>2, SocketServiceAssumption DEF ShapeInv, TypeOK
<1>3. CASE ProcessClosed
  BY <1>3 DEF ProcessClosed, AskedInv
<1>4. ~Serve
  BY <1>1, <1>2, ServeCases DEF ShapeInv, TypeOK
<1>5. ~(SelectReady \/ SelectTimeout \/ SelectFails \/ ServeClient \/ ServeDone)
  BY <1>1 DEF SelectReady, SelectTimeout, SelectFails, ServeClient, ServeDone
<1>6. ~ \E t \in Threads : JobStep(t)
  BY <1>1 DEF JobStep, StartJob, CallNewClient, CallSomeData, PendClose, NewConn, WakeNew,
              Returned, Wake
<1>7. ~Environment
  BY <1>1, <1>2 DEF Environment, Connect, PeerSends, PeerCloses, BreakClient, ClientClose,
                    ClientAdd, Owned, ModeInv
<1> QED
  BY <1>1, <1>3, <1>4, <1>5, <1>6, <1>7 DEF Next, LoopStep, vars

(***************************************************************************)
(* The theorems.                                                           *)
(***************************************************************************)

\* The types, whatever the application does.
LEMMA ShapeAlways == Spec => []ShapeInv
<1>1. Init => ShapeInv
  BY ShapeInit
<1>2. ShapeInv /\ [Next]_vars => ShapeInv'
  BY ShapeNext
<1> QED
  BY <1>1, <1>2, PTL DEF Spec, SafetySpec

\* Every variable of the service keeps its type: the pipe never holds more than
\* its capacity, select's set never has what is not a descriptor, and jobs are
\* on threads that are at work on them.
THEOREM TypeCorrect == Spec => []TypeOK
<1>1. ShapeInv => TypeOK
  BY DEF ShapeInv
<1> QED
  BY <1>1, ShapeAlways, PTL

\* pend_close, process_closed and returned, racing each other and an application
\* that closes clients or their very descriptors: each client is armed, in a job
\* or about to be closed, and none that is gone is armed.
THEOREM NobodyForgotten == Spec => []NoForgottenClient
<1>1. Init => NoForgottenClient
  BY DEF Init, NoForgottenClient
<1>2. ShapeInv /\ NoForgottenClient /\ [Next]_vars => NoForgottenClient'
  BY ForgottenNext
<1> QED
  BY <1>1, <1>2, ShapeAlways, PTL DEF Spec, SafetySpec

\* What the rest is about: an application that leaves descriptors alone, and
\* calls client_close when jobs run in the loop, if at all.
LEMMA OwnedAlways ==
    ASSUME ~AppMayBreak, AppMayClose => Modes \subseteq {TRUE}
    PROVE  Spec => [](ShapeInv /\ Owned /\ MaxInv /\ AskedInv)
<1>1. Init => ShapeInv /\ Owned /\ MaxInv /\ AskedInv
  BY ShapeInit, OwnedInit, MaxInit, AskedInit
<1>2. ShapeInv /\ Owned /\ MaxInv /\ AskedInv /\ [Next]_vars =>
      (ShapeInv /\ Owned /\ MaxInv /\ AskedInv)'
  BY ShapeNext, OwnedNext, MaxNext, AskedNext
<1> QED
  BY <1>1, <1>2, PTL DEF Spec, SafetySpec

\* From busy() to returned() a client belongs to one job: its callbacks never
\* overlap, on however many pool threads.
THEOREM OneJobEach ==
    ASSUME ~AppMayBreak, AppMayClose => Modes \subseteq {TRUE}
    PROVE  Spec => []OneJobPerClient
<1>1. ShapeInv /\ Owned => OneJobPerClient
  BY OwnedMeansOneJob
<1> QED
  BY <1>1, OwnedAlways, PTL

\* A job that was queued for a connection finds that connection behind the
\* descriptor, however long it waited and whatever was closed and accepted since.
THEOREM JobsMeetTheirConnection ==
    ASSUME ~AppMayBreak, AppMayClose => Modes \subseteq {TRUE}
    PROVE  Spec => []NoStaleJob
<1>1. Owned => NoStaleJob
  BY OwnedMeansNoStaleJob
<1> QED
  BY <1>1, OwnedAlways, PTL

\* max_fd, raised by new_conn and recomputed by process_closed from m_clients,
\* is never below an armed client: select misses none.
THEOREM ArmedAreWatched ==
    ASSUME ~AppMayBreak, AppMayClose => Modes \subseteq {TRUE}
    PROVE  Spec => []MaxFdCovers
<1>1. MaxInv => MaxFdCovers
  BY DEF MaxInv
<1> QED
  BY <1>1, OwnedAlways, PTL

\* The service closes the connection whose end was decided, and no other that
\* has got its descriptor since.
THEOREM ClosesAsAsked ==
    ASSUME ~AppMayBreak, AppMayClose => Modes \subseteq {TRUE}
    PROVE  Spec => ClosesOnlyRequested
<1>1. ShapeInv /\ Owned /\ AskedInv /\ [Next]_vars =>
      [\A f \in FDs : open[f] # None /\ open'[f] = None => open[f] \in asked]_vars
  BY ClosesStep
<1> QED
  BY <1>1, OwnedAlways, PTL DEF Spec, SafetySpec, ClosesOnlyRequested
=============================================================================
