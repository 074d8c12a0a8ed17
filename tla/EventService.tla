---------------------------- MODULE EventService ----------------------------
(***************************************************************************)
(* The event server of std_event_service.cpp: clients register keys in a   *)
(* tree and publish events, and every client registered at a prefix of an  *)
(* event's key is sent a copy.  It runs as the callbacks of the socket     *)
(* service, which appears here as what SocketService shows of it: one job  *)
(* at a time for an armed client, closes carried out later by the loop,    *)
(* descriptors handed out again.                                           *)
(*                                                                         *)
(* Sections under the write lock are one step each; a publish keeps the    *)
(* read lock over many, because it may wait for a slow client.             *)
(***************************************************************************)
EXTENDS Integers, Sequences, FiniteSets

CONSTANTS
    Conns,      \* connections clients may make
    Script,     \* the requests each connection sends, in order
    FDs,        \* descriptors the kernel has for clients
    Workers,    \* pool threads beside the one the loop occupies
    Events,     \* events, each published at most once
    KeyOf,      \* the key of each event, a sequence
    Room,       \* pieces of events a connection buffers
    MayStall,   \* whether a client may leave its buffer full for 100 ms
    MayLeave,   \* whether a client may close its connection
    None

VARIABLES
    conn,       \* kernel: the connection behind each descriptor, or None
    used,       \* connections made so far
    pos,        \* requests received so far on each connection
    wire,       \* pieces written to each connection, oldest first
    read,       \* how many of them its client has read
    left,       \* connections closed by their client
    clients,    \* m_clients of the socket service
    queue,      \* the pool's jobs: descriptors and what is for them, oldest first
    armed,      \* descriptors select watches
    pclose,     \* m_pending_close
    known,      \* m_event_clients
    regs,       \* m_reg_tree: pairs of a key and a descriptor
    job,        \* the job of each worker, or None
    interest    \* history: the keys each connection is registered for

vars == <<conn, used, pos, wire, read, left, clients, queue, armed, pclose,
          known, regs, job, interest>>

Keys == {KeyOf[e] : e \in Events}
        \cup {r.key : r \in {q \in UNION {{Script[c][i] : i \in DOMAIN Script[c]} :
                                          c \in Conns} : q.op # "publish"}}

\* Mutant: the last node of the key is left out.
Covers_OneShort(k, e) == /\ Len(k) \in 1..(Len(KeyOf[e]) - 1)
                         /\ k = SubSeq(KeyOf[e], 1, Len(k))

\* find: the nodes on the way to an event's node, the root left out.
Covers(k, e) == /\ Len(k) \in 1..Len(KeyOf[e])
                /\ k = SubSeq(KeyOf[e], 1, Len(k))

\* m_tree_lock is held by the workers that publish.
NoReader == \A w \in Workers : job[w] # None => job[w].at # "publish"

Init == /\ conn = [f \in FDs |-> None]
        /\ used = {} /\ left = {}
        /\ pos = [c \in Conns |-> 0]
        /\ wire = [c \in Conns |-> <<>>]
        /\ read = [c \in Conns |-> 0]
        /\ clients = {} /\ queue = <<>> /\ armed = {} /\ pclose = {}
        /\ known = {} /\ regs = {}
        /\ job = [w \in Workers |-> None]
        /\ interest = [c \in Conns |-> {}]

-----------------------------------------------------------------------------
(* Clients.                                                                *)

\* std_server_client_connect; accept gives it a descriptor.
Connect(c, f) ==
    /\ c \notin used /\ conn[f] = None
    /\ used' = used \cup {c}
    /\ conn' = [conn EXCEPT ![f] = c]
    /\ clients' = clients \cup {f}
    /\ queue' = Append(queue, [fd |-> f, at |-> "new"])
    /\ UNCHANGED <<pos, wire, read, left, armed, pclose, known, regs, job, interest>>

ReadPiece(c) ==
    /\ c \notin left /\ read[c] < Len(wire[c])
    /\ read' = [read EXCEPT ![c] = @ + 1]
    /\ UNCHANGED <<conn, used, pos, wire, left, clients, queue, armed, pclose, known,
                   regs, job, interest>>

\* std_server_client_disconnect
Disconnect(c) ==
    /\ MayLeave
    /\ c \in used \ left
    /\ left' = left \cup {c}
    /\ UNCHANGED <<conn, used, pos, wire, read, clients, queue, armed, pclose, known,
                   regs, job, interest>>

-----------------------------------------------------------------------------
(* The socket service.                                                     *)

CloseLoop ==
    /\ pclose # {}
    /\ conn' = [f \in FDs |-> IF f \in pclose THEN None ELSE conn[f]]
    /\ clients' = clients \ pclose
    /\ armed' = armed \ pclose
    /\ pclose' = {}
    /\ UNCHANGED <<used, pos, wire, read, left, queue, known, regs, job, interest>>

HasInput(f) == /\ conn[f] # None
               /\ conn[f] \in left \/ pos[conn[f]] < Len(Script[conn[f]])

\* process_sockets: busy takes the client out of pending until its job is
\* over; the job may start much later.
QueueData(f) ==
    /\ f \in armed
    /\ HasInput(f)
    /\ armed' = armed \ {f}
    /\ queue' = Append(queue, [fd |-> f, at |-> "data"])
    /\ UNCHANGED <<conn, used, pos, wire, read, left, clients, pclose, known, regs, job,
                   interest>>

\* What a job has of the connection it serves: req is the request it has
\* received, done the descriptors publish has been through, todo the pieces
\* it still has to write to the present one.
NewJob(f, place) == [fd |-> f, conn |-> conn[f], at |-> place, req |-> None,
                     done |-> {}, todo |-> 2]

Start(w) ==
    /\ job[w] = None /\ queue # <<>>
    /\ queue' = Tail(queue)
    /\ job' = [job EXCEPT ![w] = NewJob(Head(queue).fd, Head(queue).at)]
    /\ UNCHANGED <<conn, used, pos, wire, read, left, clients, armed, pclose, known,
                   regs, interest>>

Goto(w, place) == job' = [job EXCEPT ![w].at = place]

\* Mutant: armed whether or not it is a client still.
Return_NoCheck(w) ==
    /\ job[w] # None /\ job[w].at = "return"
    /\ armed' = armed \cup {job[w].fd}
    /\ job' = [job EXCEPT ![w] = None]
    /\ UNCHANGED <<conn, used, pos, wire, read, left, clients, queue, pclose, known,
                   regs, interest>>

\* some_data or new_client returned true
Return(w) ==
    /\ job[w] # None /\ job[w].at = "return"
    /\ armed' = IF job[w].fd \in clients THEN armed \cup {job[w].fd} ELSE armed
    /\ job' = [job EXCEPT ![w] = None]
    /\ UNCHANGED <<conn, used, pos, wire, read, left, clients, queue, pclose, known,
                   regs, interest>>

\* or false
Drop(w) ==
    /\ job[w] # None /\ job[w].at = "drop"
    /\ pclose' = pclose \cup {job[w].fd}
    /\ job' = [job EXCEPT ![w] = None]
    /\ UNCHANGED <<conn, used, pos, wire, read, left, clients, queue, armed, known,
                   regs, interest>>

-----------------------------------------------------------------------------
(* The callbacks of the event server.                                      *)

Interested(w, K) ==
    interest' = [c \in Conns |-> IF c = job[w].conn THEN K ELSE interest[c]]

\* Mutant: the tree keeps the client.
ForgetClient_KeepsTree(f) ==
    /\ known' = known \ {f}
    /\ UNCHANGED regs

\* close_client_connection
ForgetClient(f) ==
    /\ known' = known \ {f}
    /\ regs' = {r \in regs : r[2] # f}

\* event_new_client
NewClient(w) ==
    /\ job[w] # None /\ job[w].at = "new"
    /\ NoReader
    /\ IF job[w].fd \in known
       THEN ForgetClient(job[w].fd) /\ Goto(w, "drop")
       ELSE known' = known \cup {job[w].fd} /\ UNCHANGED regs /\ Goto(w, "return")
    /\ UNCHANGED <<conn, used, pos, wire, read, left, clients, queue, armed, pclose,
                   interest>>

\* event_some_data up to the request: m_event_clients is searched without the
\* lock and the request received, or the end of the connection.
Receive(w) ==
    /\ job[w] # None /\ job[w].at = "data"
    /\ LET f == job[w].fd
           c == conn[f]
       IN  \/ /\ f \in known /\ c # None
              /\ pos[c] < Len(Script[c])
              /\ pos' = [pos EXCEPT ![c] = @ + 1]
              /\ LET r == Script[c][pos[c] + 1]
                 IN  job' = [job EXCEPT ![w].at = r.op, ![w].req = r,
                                              ![w].conn = c]
           \/ /\ f \notin known \/ c = None \/ c \in left
              /\ Goto(w, "gone")
              /\ UNCHANGED pos
    /\ UNCHANGED <<conn, used, wire, read, left, clients, queue, armed, pclose, known,
                   regs, interest>>

\* event_del_client
DelClient(w) ==
    /\ job[w] # None /\ job[w].at = "gone"
    /\ NoReader
    /\ ForgetClient(job[w].fd)
    /\ Goto(w, "drop")
    /\ Interested(w, {})
    /\ UNCHANGED <<conn, used, pos, wire, read, left, clients, queue, armed, pclose>>

\* reg_message
Register(w) ==
    /\ job[w] # None /\ job[w].at = "register"
    /\ NoReader
    /\ regs' = regs \cup {<<job[w].req.key, job[w].fd>>}
    /\ Interested(w, interest[job[w].conn] \cup {job[w].req.key})
    /\ Goto(w, "return")
    /\ UNCHANGED <<conn, used, pos, wire, read, left, clients, queue, armed, pclose, known>>

\* Mutant: the node is found and nothing removed.
Deregister_Keeps(w) ==
    /\ job[w] # None /\ job[w].at = "deregister"
    /\ NoReader
    /\ Interested(w, interest[job[w].conn] \ {job[w].req.key})
    /\ Goto(w, "return")
    /\ UNCHANGED <<conn, used, pos, wire, read, left, clients, queue, armed, pclose, known,
                   regs>>

\* dereg_message
Deregister(w) ==
    /\ job[w] # None /\ job[w].at = "deregister"
    /\ NoReader
    /\ regs' = regs \ {<<job[w].req.key, job[w].fd>>}
    /\ Interested(w, interest[job[w].conn] \ {job[w].req.key})
    /\ Goto(w, "return")
    /\ UNCHANGED <<conn, used, pos, wire, read, left, clients, queue, armed, pclose, known>>

Publishing(w) == job[w] # None /\ job[w].at = "publish"

\* The descriptors a publish has still to go through, and the next one: node
\* by node down the key, in the order of the descriptors within a node.
Targets(w) ==
    {f \in FDs \ job[w].done :
        \E r \in regs : r[2] = f /\ Covers(r[1], job[w].req.event)}

Depth(f, e) == CHOOSE n \in 1..Len(KeyOf[e]) :
                 /\ <<SubSeq(KeyOf[e], 1, n), f>> \in regs
                 /\ \A m \in 1..(n - 1) : <<SubSeq(KeyOf[e], 1, m), f>> \notin regs

Target(w) ==
    LET e == job[w].req.event
    IN  CHOOSE f \in Targets(w) :
          \A g \in Targets(w) : \/ Depth(f, e) < Depth(g, e)
                                \/ Depth(f, e) = Depth(g, e) /\ f <= g

Free(c) == Room - (Len(wire[c]) - read[c])

Pieces(e) == <<[event |-> e, part |-> "head"], [event |-> e, part |-> "tail"]>>

Reachable(f) == conn[f] # None /\ conn[f] \notin left

\* Mutant: already_sent does not remember the descriptor.
Passed_Forgotten(w) == job' = [job EXCEPT ![w].todo = 2]

\* The send to the present target is over.
Passed(w) == job' = [job EXCEPT ![w].done = @ \cup {Target(w)}, ![w].todo = 2]

\* Mutant: the rest of a partial write is not sent.
Send_Once(w) ==
    /\ Publishing(w) /\ Targets(w) # {}
    /\ Reachable(Target(w))
    /\ LET c == conn[Target(w)]
           n == IF Free(c) < 2 THEN Free(c) ELSE 2
       IN  /\ n > 0
           /\ wire' = [wire EXCEPT ![c] = @ \o SubSeq(Pieces(job[w].req.event), 1, n)]
    /\ Passed(w)
    /\ UNCHANGED <<conn, used, pos, read, left, clients, queue, armed, pclose, known,
                   regs, interest>>

\* Mutant: a client that was sent the whole event is not passed.
Send_NeverOver(w) ==
    /\ Publishing(w) /\ Targets(w) # {}
    /\ Reachable(Target(w))
    /\ LET c == conn[Target(w)]
           n == IF Free(c) < job[w].todo THEN Free(c) ELSE job[w].todo
           first == 3 - job[w].todo
       IN  /\ n > 0
           /\ wire' = [wire EXCEPT ![c] = @ \o SubSeq(Pieces(job[w].req.event), first,
                                                      first + n - 1)]
           /\ job' = [job EXCEPT ![w].todo = @ - n]
    /\ UNCHANGED <<conn, used, pos, read, left, clients, queue, armed, pclose, known,
                   regs, interest>>

\* std_event_util_event_send: a non-blocking write takes what there is room
\* for, and the rest follows when select reports room.
Send(w) ==
    /\ Publishing(w) /\ Targets(w) # {}
    /\ Reachable(Target(w))
    /\ LET c == conn[Target(w)]
           n == IF Free(c) < job[w].todo THEN Free(c) ELSE job[w].todo
           first == 3 - job[w].todo
       IN  /\ n > 0
           /\ wire' = [wire EXCEPT ![c] = @ \o SubSeq(Pieces(job[w].req.event), first,
                                                      first + n - 1)]
           /\ IF n = job[w].todo THEN Passed(w)
              ELSE job' = [job EXCEPT ![w].todo = @ - n]
    /\ UNCHANGED <<conn, used, pos, read, left, clients, queue, armed, pclose, known,
                   regs, interest>>

\* Mutant: the same client is tried again.
SendFails_Retries(w) ==
    /\ Publishing(w) /\ Targets(w) # {}
    /\ Reachable(Target(w)) => MayStall /\ Free(conn[Target(w)]) = 0
    /\ pclose' = pclose \cup {Target(w)}
    /\ UNCHANGED <<conn, used, pos, wire, read, left, clients, queue, armed, known, regs,
                   job, interest>>

\* The write fails, or there was no room for 100 ms: client_close, and on.
SendFails(w) ==
    /\ Publishing(w) /\ Targets(w) # {}
    /\ Reachable(Target(w)) => MayStall /\ Free(conn[Target(w)]) = 0
    /\ pclose' = pclose \cup {Target(w)}
    /\ Passed(w)
    /\ UNCHANGED <<conn, used, pos, wire, read, left, clients, queue, armed, known, regs,
                   interest>>

PublishDone(w) ==
    /\ Publishing(w) /\ Targets(w) = {}
    /\ Goto(w, "return")
    /\ UNCHANGED <<conn, used, pos, wire, read, left, clients, queue, armed, pclose,
                   known, regs, interest>>

-----------------------------------------------------------------------------
JobStep(w) == \/ Start(w) \/ Return(w) \/ Drop(w)
              \/ NewClient(w) \/ Receive(w) \/ DelClient(w)
              \/ Register(w) \/ Deregister(w)
              \/ Send(w) \/ SendFails(w) \/ PublishDone(w)

Next == \/ \E w \in Workers : JobStep(w)
        \/ CloseLoop \/ \E f \in FDs : QueueData(f)
        \/ \E c \in Conns : ReadPiece(c) \/ Disconnect(c)
        \/ \E c \in Conns, f \in FDs : Connect(c, f)

\* Threads that can run do.  No client is obliged to do anything.
Fairness == /\ WF_vars(CloseLoop) /\ \A f \in FDs : WF_vars(QueueData(f))
            /\ \A w \in Workers : WF_vars(JobStep(w))

SafetySpec == Init /\ [][Next]_vars

Spec == SafetySpec /\ Fairness
-----------------------------------------------------------------------------
(* Properties.                                                             *)

Request ==
    [op : {"register", "deregister"}, key : Keys] \cup [op : {"publish"}, event : Events]

Piece == [event : Events, part : {"head", "tail"}]

QueuedJob == [fd : FDs, at : {"new", "data"}]

JobType ==
    [fd : FDs, conn : Conns \cup {None}, done : SUBSET FDs, todo : 1..2,
     at : {"new", "data", "gone", "register", "deregister", "publish", "return", "drop"},
     req : Request \cup {None}]

TypeOK ==
    /\ conn \in [FDs -> Conns \cup {None}]
    /\ used \subseteq Conns /\ left \subseteq used
    /\ \A c \in Conns : /\ pos[c] \in 0..Len(Script[c])
                       /\ wire[c] \in Seq(Piece)
                       /\ Free(c) \in 0..Room
                       /\ interest[c] \subseteq Keys
    /\ clients \subseteq FDs /\ armed \subseteq clients /\ pclose \subseteq FDs
    /\ queue \in Seq(QueuedJob)
    /\ known \subseteq FDs /\ regs \subseteq Keys \X FDs
    /\ \A w \in Workers : job[w] = None \/ job[w] \in JobType

\* A client registered at several prefixes of an event's key, or publishing
\* to itself, is sent one copy of it: already_sent joins the nodes.
AtMostOnce ==
    \A c \in Conns : \A i, k \in DOMAIN wire[c] : wire[c][i] = wire[c][k] => i = k

\* What a client reads is a sequence of whole events, the last perhaps not
\* complete yet: the pieces of two events never mix on one connection.
WholeEvents ==
    \A c \in Conns : \A i \in DOMAIN wire[c] :
        IF wire[c][i].part = "tail"
        THEN i > 1 /\ wire[c][i - 1] = [wire[c][i] EXCEPT !.part = "head"]
        ELSE i > 1 => wire[c][i - 1].part = "tail"

\* A connection is registered for an event at one of the prefixes of its key.
Wants(c, e) == \E n \in 1..Len(KeyOf[e]) : SubSeq(KeyOf[e], 1, n) \in interest[c]

\* When a publish is over, every connected client that was registered for the
\* event all along has its copy, however registrations, other publishes and
\* slow readers interleave.
Copied ==
    \A w \in Workers : PublishDone(w) =>
        LET e == job[w].req.event
        IN  \A f \in FDs : conn[f] # None /\ Wants(conn[f], e) =>
              [event |-> e, part |-> "tail"] \in
                  {wire[conn[f]][i] : i \in DOMAIN wire[conn[f]]}

CopyToAll == [][Copied]_vars

\* Of clients that stay: one is sent the beginning of an event only while it is
\* registered for it, so that none follows a registration it took back.  Where
\* clients leave this is not so: a publish that fails closes a descriptor without
\* event_del_client (std_event_service.cpp:192), and until its new_client job the
\* next connection on it is sent what the old one registered for.
SentAsRegistered ==
    \A c \in Conns : wire'[c] # wire[c] =>
        LET p == wire'[c][Len(wire[c]) + 1]
        IN  p.part = "head" => Wants(c, p.event)

OnlyRegistered == [][SentAsRegistered]_vars

\* Every registration in the tree is one that a connection on its descriptor
\* asked for and has not taken back: an orderly leave (event_del_client) leaves
\* none behind.  What outlives its connection is of one that was closed after a
\* failed publish, with no event_del_client.
RegistrationsOwned ==
    \A r \in regs : \E c \in used :
        r[1] \in interest[c] /\ \A f \in FDs : conn[f] = c => f = r[2]

\* A request that was received is carried out: a publish goes on after 100 ms
\* when clients stop reading, and so do the registrations that wait for it.
Requested(w) == job[w] # None /\ job[w].at \in {"register", "deregister", "publish"}
RequestsEnd == \A w \in Workers : Requested(w) ~> job[w] = None

\* std_event_service.h:100 "connect to the event service from another process
\* (or thread)", and the comment at std_event_service.cpp:369, "something
\* wrong.. cleanup and exit": a new connection is not taken for one the server
\* knows already, and refused.
NewcomerKept ==
    \A w \in Workers : job[w] # None /\ job[w].at = "new" => job[w].fd \notin known
=============================================================================
