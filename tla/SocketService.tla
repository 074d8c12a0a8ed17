---------------------------- MODULE SocketService ----------------------------
(***************************************************************************)
(* The socket service of std_socket_service.cpp: a loop selects over the   *)
(* listening socket, a wake-up pipe and the armed clients, and hands each  *)
(* ready client to the thread pool, whose job calls the application and    *)
(* gives the client back.  The pool is used through what JobPool promises: *)
(* jobs start in order on the workers the loop does not occupy.            *)
(*                                                                         *)
(* A connection is told apart from the descriptor it has for a while: the  *)
(* kernel hands a closed descriptor out again, and the code only ever      *)
(* knows the number.                                                       *)
(***************************************************************************)
EXTENDS Integers, Sequences, FiniteSets

CONSTANTS
    Conns,        \* connections that may be made
    OwnConns,     \* those the application makes itself and passes to client_add
    FDs,          \* descriptors the kernel has for clients, numbers above 0
    Workers,      \* pool threads beside the one the loop occupies
    App,          \* an application thread outside the pool
    PipeCap,      \* bytes the wake-up pipe holds (65536 on Linux)
    Modes,        \* values of inline to start with
    AppMayClose,  \* whether the application calls client_close
    AppMayBreak,  \* whether it closes a client's descriptor behind the service
    MaxSends,     \* bound: messages a peer sends on a connection
    None

ASSUME SocketServiceAssumption ==
    /\ FDs \subseteq Nat \ {0} /\ IsFiniteSet(FDs)
    /\ OwnConns \subseteq Conns
    /\ App \notin Workers
    /\ None \notin Conns \cup Workers \cup {App}
    /\ PipeCap \in Nat \ {0} /\ MaxSends \in Nat
    /\ Modes \subseteq BOOLEAN /\ {AppMayClose, AppMayBreak} \subseteq BOOLEAN

VARIABLES
    inline,   \* TRUE when thread_pool_size <= 1: jobs run in the loop
    open,     \* kernel: the connection behind each descriptor, or None
    backlog,  \* kernel: connections waiting to be accepted
    sent,     \* environment: messages sent so far on each connection, -1 before
              \* the connection is made
    rx,       \* kernel: messages not read yet
    eof,      \* connections whose peer has closed
    pipe,     \* bytes in the wake-up pipe
    clients,  \* m_clients
    pending,  \* the client bits of pending: the armed clients
    pclose,   \* m_pending_close
    maxfd,    \* max_fd, 0 standing for the service's own descriptors
    lock,     \* holder of m_mutex
    loop,     \* where the loop is: close, select, serve, clients
    rset,     \* rset, with Listen and Ctl for the service's own descriptors
    queue,    \* pool: jobs not started
    job,      \* the job of each thread, or None
    at,       \* where each thread is in its job
    known,    \* history: connections the application has accepted and keeps
    asked     \* history: connections whose end was asked for or decided

vars == <<inline, open, backlog, sent, rx, eof, pipe, clients, pending, pclose, maxfd,
          lock, loop, rset, queue, job, at, known, asked>>

kernel  == <<open, backlog, sent, rx, eof>>
tables  == <<clients, pending, pclose, maxfd>>
pool    == <<queue, job, at>>
history == <<known, asked>>

Listen == -1
Ctl    == -2

Threads == Workers \cup {App}

\* A job: the callback it runs, its descriptor, and the connection that was
\* behind the descriptor when the job was made (which the code does not know).
Job == [fn : {"add", "data", "ext"}, fd : FDs, conn : Conns \cup {None}]

ASSUME JobAssumption == None \notin Job

Opened == {open[f] : f \in FDs} \ {None}

Queued == {queue[i] : i \in DOMAIN queue}

Running == {job[t] : t \in Threads} \ {None}

\* With one thread a job runs inside the loop, which waits for it.
LoopFree == inline => queue = <<>> /\ \A w \in Workers : job[w] = None

Larger(a, b) == IF a > b THEN a ELSE b

\* setup_max_fd
MaxFd(C) == CHOOSE m \in C \cup {0} : \A f \in C : f <= m

Init == /\ inline \in Modes
        /\ open = [f \in FDs |-> None]
        /\ backlog = {} /\ eof = {}
        /\ sent = [c \in Conns |-> -1]
        /\ rx = [c \in Conns |-> 0]
        /\ pipe = 0
        /\ clients = {} /\ pending = {} /\ pclose = {}
        /\ maxfd = 0
        /\ lock = None
        /\ loop = "close" /\ rset = {}
        /\ queue = <<>>
        /\ job = [t \in Threads |-> None]
        /\ at = [t \in Threads |-> "idle"]
        /\ known = {} /\ asked = {}

-----------------------------------------------------------------------------
(* Peers and the application's own doing.                                  *)

Connect(c) ==
    /\ c \notin OwnConns /\ sent[c] = -1
    /\ sent' = [sent EXCEPT ![c] = 0]
    /\ backlog' = backlog \cup {c}
    /\ UNCHANGED <<open, rx, eof, pipe, tables, lock, loop, rset, pool, history>>

PeerSends(c) ==
    /\ sent[c] \in 0..(MaxSends - 1) /\ c \notin eof
    /\ c \in Opened \cup backlog
    /\ sent' = [sent EXCEPT ![c] = @ + 1]
    /\ rx' = [rx EXCEPT ![c] = @ + 1]
    /\ UNCHANGED <<open, backlog, eof, pipe, tables, lock, loop, rset, pool, history>>

PeerCloses(c) ==
    /\ sent[c] >= 0 /\ c \notin eof
    /\ c \in Opened \cup backlog
    /\ eof' = eof \cup {c}
    /\ UNCHANGED <<open, backlog, sent, rx, pipe, tables, lock, loop, rset, pool, history>>

\* The application closes the descriptor itself instead of asking the service.
BreakClient(f) ==
    /\ AppMayBreak
    /\ f \in clients /\ open[f] \in known
    /\ open' = [open EXCEPT ![f] = None]
    /\ UNCHANGED <<backlog, sent, rx, eof, pipe, tables, lock, loop, rset, pool, history>>

\* std_socket_service_client_close on a connection the application has (and has
\* finished adding): only pend_close, and the loop is not woken.
ClientClose(f) ==
    /\ AppMayClose
    /\ open[f] \in known
    /\ job[App] # None => job[App].fd # f
    /\ lock = None
    /\ pclose' = pclose \cup {f}
    /\ asked' = asked \cup {open[f]}
    /\ UNCHANGED <<kernel, pipe, clients, pending, maxfd, lock, loop, rset, pool, known>>

\* std_socket_service_client_add: from here on like the end of an add job.
ClientAdd(c, f) ==
    /\ c \in OwnConns /\ sent[c] = -1
    /\ open[f] = None
    /\ job[App] = None
    /\ open' = [open EXCEPT ![f] = c]
    /\ sent' = [sent EXCEPT ![c] = 0]
    /\ known' = known \cup {c}
    /\ job' = [job EXCEPT ![App] = [fn |-> "ext", fd |-> f, conn |-> c]]
    /\ at' = [at EXCEPT ![App] = "add"]
    /\ UNCHANGED <<backlog, rx, eof, pipe, tables, lock, loop, rset, queue, asked>>

-----------------------------------------------------------------------------
(* The loop.                                                               *)

\* Mutant: the pending closes are not erased.
ProcessClosed_KeepsList ==
    /\ loop = "close" /\ LoopFree
    /\ lock = None
    /\ open' = [f \in FDs |-> IF f \in pclose THEN None ELSE open[f]]
    /\ clients' = clients \ pclose
    /\ pending' = pending \ pclose
    /\ maxfd' = IF pclose = {} THEN maxfd ELSE MaxFd(clients')
    /\ rset' = pending'
    /\ loop' = "select"
    /\ UNCHANGED <<backlog, sent, rx, eof, pipe, pclose, lock, pool, history>>

\* process_closed, then the copy of pending for select.  The copy is taken
\* without the mutex; what is armed in between could have been armed before.
ProcessClosed ==
    /\ loop = "close" /\ LoopFree
    /\ lock = None
    /\ open' = [f \in FDs |-> IF f \in pclose THEN None ELSE open[f]]
    /\ clients' = clients \ pclose
    /\ pending' = pending \ pclose
    /\ pclose' = {}
    /\ maxfd' = IF pclose = {} THEN maxfd ELSE MaxFd(clients')
    /\ rset' = pending'
    /\ loop' = "select"
    /\ UNCHANGED <<backlog, sent, rx, eof, pipe, lock, pool, history>>

Watched == {f \in rset : f <= maxfd}

Broken == {f \in Watched : open[f] = None}

HasInput(f) == open[f] # None /\ (rx[open[f]] > 0 \/ open[f] \in eof)

Ready == {f \in Watched : HasInput(f)}
         \cup (IF backlog # {} THEN {Listen} ELSE {})
         \cup (IF pipe > 0 THEN {Ctl} ELSE {})

SelectReady ==
    /\ loop = "select"
    /\ Broken = {} /\ Ready # {}
    /\ rset' = Ready
    /\ loop' = "serve"
    /\ UNCHANGED <<kernel, pipe, tables, lock, pool, history>>

\* One second passed: the timeout callback, and round again.
SelectTimeout ==
    /\ loop = "select"
    /\ Broken = {} /\ Ready = {}
    /\ loop' = "close"
    /\ UNCHANGED <<kernel, pipe, tables, lock, rset, pool, history>>

\* Mutant: the bad descriptor is not closed.
SelectFails_Ignored ==
    /\ loop = "select"
    /\ Broken # {}
    /\ loop' = "close"
    /\ UNCHANGED <<kernel, pipe, tables, lock, rset, pool, history>>

\* select fails: every descriptor is probed alone, and the bad ones closed.
SelectFails ==
    /\ loop = "select"
    /\ Broken # {}
    /\ lock = None
    /\ pclose' = pclose \cup Broken
    /\ loop' = "close"
    /\ UNCHANGED <<kernel, pipe, clients, pending, maxfd, lock, rset, pool, history>>

\* Mutant: the caller ignores that queue_job failed.
QueueJob_FailureIgnored(fn, f) ==
    \/ /\ queue' = Append(queue, [fn |-> fn, fd |-> f, conn |-> open'[f]])
       /\ UNCHANGED <<pclose, asked>>
    \/ ~inline /\ UNCHANGED <<queue, pclose, asked>>

\* queue_job succeeds, or has no memory for the job and the caller gives the
\* client up.
QueueJob(fn, f) ==
    \/ /\ queue' = Append(queue, [fn |-> fn, fd |-> f, conn |-> open'[f]])
       /\ UNCHANGED <<pclose, asked>>
    \/ /\ ~inline
       /\ lock = None
       /\ pclose' = pclose \cup {f}
       /\ asked' = asked \cup {open'[f]}
       /\ UNCHANGED queue

\* accept and queue_job for the connection; accept also fails when the peer
\* is gone already, or when no descriptor is left.
Accept(c) ==
    \/ \E f \in FDs : /\ open[f] = None
                      /\ open' = [open EXCEPT ![f] = c]
                      /\ clients' = clients \cup {f}
                      /\ backlog' = backlog \ {c}
                      /\ QueueJob("add", f)
    \/ /\ \/ c \in eof /\ backlog' = backlog \ {c}
          \/ None \notin {open[f] : f \in FDs} /\ UNCHANGED backlog
       /\ UNCHANGED <<open, clients, queue, pclose, asked>>

\* Mutant: the pipe is read without looking at the set.
Serve_DrainAlways ==
    /\ loop = "serve"
    /\ pipe' = pipe - 1
    /\ loop' = "clients"
    /\ IF Listen \in rset
       THEN \E c \in backlog : Accept(c)
       ELSE UNCHANGED <<open, backlog, clients, queue, pclose, asked>>
    /\ UNCHANGED <<sent, rx, eof, pending, maxfd, lock, rset, job, at, known>>

\* process_sockets up to the clients: one byte of the pipe, one connection.
\* m_clients is changed without the mutex here.
Serve ==
    /\ loop = "serve"
    /\ pipe' = IF Ctl \in rset THEN pipe - 1 ELSE pipe
    /\ loop' = "clients"
    /\ IF Listen \in rset
       THEN \E c \in backlog : Accept(c)
       ELSE UNCHANGED <<open, backlog, clients, queue, pclose, asked>>
    /\ UNCHANGED <<sent, rx, eof, pending, maxfd, lock, rset, job, at, known>>

ToServe == rset \cap clients

\* Mutant: the client stays armed while its job runs.
ServeClient_NotBusy ==
    /\ loop = "clients" /\ LoopFree
    /\ ToServe # {}
    /\ LET f == CHOOSE g \in ToServe : \A h \in ToServe : g <= h
       IN  /\ rset' = rset \ {f}
           /\ UNCHANGED <<open, pending>>
           /\ QueueJob("data", f)
    /\ UNCHANGED <<backlog, sent, rx, eof, pipe, clients, maxfd, lock, loop, job, at,
                   known>>

\* The next ready client, in the order of the set: busy, then queue_job.
ServeClient ==
    /\ loop = "clients" /\ LoopFree
    /\ ToServe # {}
    /\ lock = None
    /\ LET f == CHOOSE g \in ToServe : \A h \in ToServe : g <= h
       IN  /\ pending' = pending \ {f}
           /\ rset' = rset \ {f}
           /\ UNCHANGED open
           /\ QueueJob("data", f)
    /\ UNCHANGED <<backlog, sent, rx, eof, pipe, clients, maxfd, lock, loop, job, at,
                   known>>

ServeDone ==
    /\ loop = "clients" /\ LoopFree
    /\ ToServe = {}
    /\ loop' = "close"
    /\ UNCHANGED <<kernel, pipe, tables, lock, rset, pool, history>>

-----------------------------------------------------------------------------
(* The jobs, on a pool thread; the application thread joins in client_add. *)

Finish(t) == /\ job' = [job EXCEPT ![t] = None]
             /\ at' = [at EXCEPT ![t] = "idle"]

Goto(t, place) == at' = [at EXCEPT ![t] = place] /\ UNCHANGED job

StartJob(w) ==
    /\ job[w] = None
    /\ queue # <<>>
    /\ job' = [job EXCEPT ![w] = Head(queue)]
    /\ at' = [at EXCEPT ![w] = "call"]
    /\ queue' = Tail(queue)
    /\ UNCHANGED <<kernel, pipe, tables, lock, loop, rset, history>>

\* queue_and_add_socket calls new_client.
CallNewClient(w) ==
    /\ at[w] = "call" /\ job[w].fn = "add"
    /\ \/ /\ known' = known \cup ({open[job[w].fd]} \ {None})
          /\ Goto(w, "add")
          /\ UNCHANGED asked
       \/ /\ asked' = asked \cup {job[w].conn}
          /\ Goto(w, "drop")
          /\ UNCHANGED known
    /\ UNCHANGED <<kernel, pipe, tables, lock, loop, rset, queue>>

\* process_socket_data calls some_data, which reads one message (and waits for
\* one if there is none), and del_client when some_data returned false: the
\* application may always be done with a client, and is with one that has gone.
CallSomeData(w) ==
    /\ at[w] = "call" /\ job[w].fn = "data"
    /\ LET c == open[job[w].fd]
           input == c # None /\ rx[c] > 0
       IN  /\ c = None \/ HasInput(job[w].fd)
           /\ rx' = IF input THEN [rx EXCEPT ![c] = @ - 1] ELSE rx
           /\ \/ /\ input
                 /\ Goto(w, "return")
                 /\ UNCHANGED history
              \/ /\ known' = known \ {c}
                 /\ asked' = asked \cup {job[w].conn}
                 /\ Goto(w, "drop")
    /\ UNCHANGED <<open, backlog, sent, eof, pipe, tables, lock, loop, rset, queue>>

\* Mutant: the job only ends.
PendClose_Forgets(w) ==
    /\ at[w] = "drop"
    /\ Finish(w)
    /\ UNCHANGED <<kernel, pipe, tables, lock, loop, rset, queue, history>>

\* pend_close at the end of a job
PendClose(w) ==
    /\ at[w] = "drop"
    /\ lock = None
    /\ pclose' = pclose \cup {job[w].fd}
    /\ Finish(w)
    /\ UNCHANGED <<kernel, pipe, clients, pending, maxfd, lock, loop, rset, queue, history>>

\* Mutant: max_fd is left to process_closed.
NewConn_KeepsMax(t) ==
    /\ at[t] = "add"
    /\ lock = None
    /\ lock' = t
    /\ clients' = IF job[t].fn = "ext" THEN clients \cup {job[t].fd} ELSE clients
    /\ Goto(t, "wakeNew")
    /\ UNCHANGED <<kernel, pipe, pending, pclose, maxfd, loop, rset, queue, history>>

\* The mutex taken around new_conn and returned, and max_fd; client_add enters
\* the descriptor first.
NewConn(t) ==
    /\ at[t] = "add"
    /\ lock = None
    /\ lock' = t
    /\ maxfd' = Larger(job[t].fd, maxfd)
    /\ clients' = IF job[t].fn = "ext" THEN clients \cup {job[t].fd} ELSE clients
    /\ Goto(t, "wakeNew")
    /\ UNCHANGED <<kernel, pipe, pending, pclose, loop, rset, queue, history>>

\* server_wakeup in new_conn: a blocking write with the mutex held.
WakeNew(t) ==
    /\ at[t] = "wakeNew"
    /\ pipe < PipeCap
    /\ pipe' = pipe + 1
    /\ Goto(t, "arm")
    /\ UNCHANGED <<kernel, tables, lock, loop, rset, queue, history>>

\* Mutant: the descriptor is armed without looking whether it is a client still.
Returned_NoCheck(t) ==
    /\ \/ at[t] = "return" /\ lock = None
       \/ at[t] = "arm"
    /\ pending' = pending \cup {job[t].fd}
    /\ lock' = t
    /\ Goto(t, "wake")
    /\ UNCHANGED <<kernel, pipe, clients, pclose, maxfd, loop, rset, queue, history>>

\* Mutant: the loop is woken, and the client not armed.
Returned_NotArmed(t) ==
    /\ \/ at[t] = "return" /\ lock = None
       \/ at[t] = "arm"
    /\ lock' = t
    /\ Goto(t, "wake")
    /\ UNCHANGED <<kernel, pipe, tables, loop, rset, queue, history>>

\* returned: on its own it takes the mutex, within add it has it.
Returned(t) ==
    /\ \/ at[t] = "return" /\ lock = None
       \/ at[t] = "arm"
    /\ IF job[t].fd \in clients
       THEN /\ pending' = pending \cup {job[t].fd}
            /\ lock' = t
            /\ Goto(t, "wake")
       ELSE /\ lock' = None
            /\ Finish(t)
            /\ UNCHANGED pending
    /\ UNCHANGED <<kernel, pipe, clients, pclose, maxfd, loop, rset, queue, history>>

\* server_wakeup in returned, and the release of the mutex.
Wake(t) ==
    /\ at[t] = "wake"
    /\ pipe < PipeCap
    /\ pipe' = pipe + 1
    /\ lock' = None
    /\ Finish(t)
    /\ UNCHANGED <<kernel, tables, loop, rset, queue, history>>

-----------------------------------------------------------------------------
LoopStep == /\ \/ ProcessClosed
               \/ SelectReady \/ SelectTimeout \/ SelectFails
               \/ Serve \/ ServeClient \/ ServeDone
            /\ UNCHANGED inline

JobStep(t) == /\ \/ t \in Workers /\ StartJob(t)
                 \/ CallNewClient(t) \/ CallSomeData(t) \/ PendClose(t)
                 \/ NewConn(t) \/ WakeNew(t) \/ Returned(t) \/ Wake(t)
              /\ UNCHANGED inline

Environment == /\ \/ \E c \in Conns : Connect(c) \/ PeerSends(c) \/ PeerCloses(c)
                  \/ \E f \in FDs : BreakClient(f) \/ ClientClose(f)
                  \/ \E c \in Conns, f \in FDs : ClientAdd(c, f)
               /\ UNCHANGED inline

Next == LoopStep \/ (\E t \in Threads : JobStep(t)) \/ Environment

\* The loop and every thread keep running, and callbacks return.  Nothing
\* obliges a peer or the application to do anything.
Fairness == WF_vars(LoopStep) /\ \A t \in Threads : WF_vars(JobStep(t))

SafetySpec == Init /\ [][Next]_vars

Spec == SafetySpec /\ Fairness

-----------------------------------------------------------------------------
(* Properties.                                                             *)

TypeOK ==
    /\ inline \in BOOLEAN
    /\ open \in [FDs -> Conns \cup {None}]
    /\ backlog \subseteq Conns /\ eof \subseteq Conns
    /\ sent \in [Conns -> -1..MaxSends] /\ rx \in [Conns -> 0..MaxSends]
    /\ pipe \in 0..PipeCap
    /\ clients \subseteq FDs /\ pending \subseteq FDs /\ pclose \subseteq FDs
    /\ maxfd \in FDs \cup {0}
    /\ lock \in Threads \cup {None}
    /\ loop \in {"close", "select", "serve", "clients"}
    /\ rset \subseteq FDs \cup {Listen, Ctl}
    /\ queue \in Seq(Job)
    /\ job \in [Threads -> Job \cup {None}]
    /\ at \in [Threads -> {"idle", "call", "drop", "add", "wakeNew", "arm", "return", "wake"}]
    /\ known \subseteq Conns /\ asked \subseteq Conns \cup {None}

\* Threads that still have the client of their job: past FD_SET in returned
\* the loop has it again.
Has(t, f) == job[t] # None /\ job[t].fd = f /\ at[t] # "wake"

QueuedOn(f) == {i \in DOMAIN queue : queue[i].fd = f}

BusyOn(f) == {t \in Threads : Has(t, f)}

\* The callbacks of one client never overlap, and none starts before
\* new_client has returned: from busy() to returned() a client belongs to one
\* job, and is not armed.
OneJobPerClient ==
    \A f \in FDs : /\ Cardinality(QueuedOn(f)) + Cardinality(BusyOn(f)) <= 1
                  /\ f \in pending => QueuedOn(f) = {} /\ BusyOn(f) = {}

\* A job finds behind its descriptor the connection it was made for.
NoStaleJob ==
    /\ \A i \in DOMAIN queue : open[queue[i].fd] = queue[i].conn
    /\ \A t \in Threads : job[t] # None /\ at[t] # "wake" => open[job[t].fd] = job[t].conn

\* select looks at every armed client: max_fd, kept in four places, is never
\* below one of them.
MaxFdCovers == \A f \in pending : f <= maxfd

\* Each client of the service is armed, in a job, or about to be closed, and
\* nothing else is armed: closing may race with a job on the same descriptor,
\* and neither drops a client out of the loop with its descriptor open, nor
\* leaves a dead descriptor in the set select works on.
NoForgottenClient ==
    /\ \A f \in clients :
          f \in pending \cup pclose \/ QueuedOn(f) # {} \/ \E t \in Threads : Has(t, f)
    /\ pending \subseteq clients

\* std_socket_service.h:76 "@param fd the file descriptor that will be
\* closed": the service closes a connection only when the end of that very
\* connection was asked for by client_close or decided by its own callbacks.
ClosesOnlyRequested ==
    [][\A f \in FDs : open[f] # None /\ open'[f] = None => open[f] \in asked]_vars

\* Data on a connection the application has is read, or the connection ends.
DataServed ==
    \A c \in Conns : (c \in known \cap Opened /\ rx[c] > 0) ~> (rx[c] = 0 \/ c \notin Opened)

\* The descriptor of a peer that has gone is given back.
NoDescriptorLeak == \A c \in Conns : (c \in Opened \cap eof) ~> (c \notin Opened)

\* A requested close happens although pend_close does not wake the loop: the
\* timeout of select bounds the delay.
CloseHappens == \A f \in FDs : (f \in pclose) ~> (f \notin pclose)

\* A client whose descriptor the application closed behind the service is
\* found and forgotten.
Recovers == \A f \in FDs : (f \in clients /\ open[f] = None) ~> (f \notin clients \/ open[f] # None)

\* std_socket_service.h:55-56 "connections can be made to the socket service
\* but no actual handling of the connection request will happen until the run is
\* started", and :66 "Have the socket service start to listen": once the loop
\* runs, a connection request is handled.
ConnectionsHandled == \A c \in Conns : (c \in backlog) ~> (c \notin backlog)
=============================================================================
