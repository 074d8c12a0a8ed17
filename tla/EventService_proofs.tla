------------------------ MODULE EventService_proofs ------------------------
(***************************************************************************)
(* Proofs about EventService for every set of connections, descriptors,    *)
(* workers and events, and whatever the clients ask for.                   *)
(***************************************************************************)
EXTENDS EventService, SequenceTheorems, WellFoundedInduction, TLAPS

\* Clients send requests, keys are finite, descriptors are numbers.
EventAssumption ==
    /\ FDs \subseteq Nat /\ Room \in Nat
    /\ \A e \in Events : KeyOf[e] \in Seq({KeyOf[e][i] : i \in DOMAIN KeyOf[e]})
    /\ \A c \in Conns : Script[c] \in Seq(Request)
    /\ None \notin Conns \cup JobType

(***************************************************************************)
(* Facts about the helpers.                                                *)
(***************************************************************************)

\* A set of numbers that is not empty has a least one.
LEMMA LeastExists ==
    ASSUME NEW C \in SUBSET Nat, C # {}
    PROVE  \E m \in C : \A f \in C : m <= f
<1>1. PICK m \in C : \A f \in C : ~(<<f, m>> \in OpToRel(<, Nat))
  BY WFMin, NatLessThanWellFounded
<1>2. \A f \in C : ~(f < m)
  BY <1>1 DEF OpToRel
<1> QED
  BY <1>2

\* The two pieces of an event.
HeadOf(e) == [event |-> e, part |-> "head"]
TailOf(e) == [event |-> e, part |-> "tail"]

\* What stands at a place of a sequence.
LEMMA ElementOf ==
    ASSUME NEW S, NEW q \in Seq(S), NEW i \in 1..Len(q)
    PROVE  i \in DOMAIN q /\ q[i] \in S
OBVIOUS

\* The next element of a sequence of which n are read.
LEMMA NextElement ==
    ASSUME NEW S, NEW q \in Seq(S), NEW n \in Nat, n < Len(q)
    PROVE  n + 1 \in DOMAIN q /\ q[n + 1] \in S
OBVIOUS

\* What a connection has after a write of n pieces of an event of which todo
\* were left.
Wrote(s, e, todo, n) == s \o SubSeq(Pieces(e), 3 - todo, 3 - todo + n - 1)

\* The pieces that were there stay, and those of the event follow in order.
LEMMA Written ==
    ASSUME NEW e \in Events, NEW s \in Seq(Piece), NEW todo \in 1..2, NEW n \in 1..todo
    PROVE  LET q == Wrote(s, e, todo, n)
           IN  /\ q \in Seq(Piece) /\ Len(q) = Len(s) + n
               /\ \A i \in 1..Len(s) : q[i] = s[i]
               /\ todo = 2 => q[Len(s) + 1] = HeadOf(e)
               /\ n = 2 => q[Len(s) + 2] = TailOf(e)
               /\ todo = 1 => q[Len(s) + 1] = TailOf(e)
<1> DEFINE r == SubSeq(Pieces(e), 3 - todo, 3 - todo + n - 1)
           q == Wrote(s, e, todo, n)
<1>1. HeadOf(e) \in Piece /\ TailOf(e) \in Piece
  BY DEF Piece, HeadOf, TailOf
<1>2. Pieces(e) = <<HeadOf(e), TailOf(e)>>
  BY DEF Pieces, HeadOf, TailOf
<1>3. Pieces(e)[1] = HeadOf(e) /\ Pieces(e)[2] = TailOf(e)
  BY <1>2
<1>4. \A i \in (3 - todo)..(3 - todo + n - 1) : Pieces(e)[i] \in Piece
  BY <1>1, <1>3
<1>5. /\ r \in Seq(Piece) /\ Len(r) = n
      /\ \A i \in 1..n : r[i] = Pieces(e)[3 - todo + i - 1]
  BY <1>4, SubSeqProperties
<1> HIDE DEF r
<1>6. q = s \o r
  BY DEF r, Wrote
<1> HIDE DEF q
<1>7. /\ q \in Seq(Piece) /\ Len(q) = Len(s) + n
      /\ \A i \in 1..Len(s) : q[i] = s[i]
      /\ \A i \in 1..n : q[Len(s) + i] = r[i]
  BY <1>5, <1>6
<1>8. \A i \in 1..n : q[Len(s) + i] = Pieces(e)[3 - todo + i - 1]
  BY <1>5, <1>7
<1>9. todo = 2 => q[Len(s) + 1] = HeadOf(e)
  BY <1>3, <1>8
<1>10. n = 2 => q[Len(s) + 2] = TailOf(e)
  BY <1>3, <1>8
<1>11. todo = 1 => q[Len(s) + 1] = TailOf(e)
  BY <1>3, <1>8
<1> QED
  BY <1>7, <1>9, <1>10, <1>11 DEF q

\* A target is registered at a node on the way to the event's; the first such
\* node is its depth.
LEMMA DepthExists ==
    ASSUME EventAssumption, NEW w \in Workers, NEW f \in Targets(w), regs \subseteq Keys \X FDs,
           job[w].req.event \in Events
    PROVE  Depth(f, job[w].req.event) \in Nat
<1> DEFINE e == job[w].req.event
           At == {n \in 1..Len(KeyOf[e]) : <<SubSeq(KeyOf[e], 1, n), f>> \in regs}
<1>1. Len(KeyOf[e]) \in Nat
  BY DEF EventAssumption
<1>2. PICK r \in regs : r[2] = f /\ Covers(r[1], e)
  BY DEF Targets
<1>3. r = <<r[1], r[2]>>
  BY <1>2
<1>4. Len(r[1]) \in At
  BY <1>2, <1>3 DEF Covers
<1>5. At \subseteq Nat
  BY <1>1
<1>6. PICK n \in At : \A m \in At : n <= m
  BY <1>4, <1>5, LeastExists
<1>7. \A m \in 1..(n - 1) : m \in 1..Len(KeyOf[e]) /\ ~(n <= m)
  BY <1>1, <1>6
<1>8. n \in 1..Len(KeyOf[e]) /\ <<SubSeq(KeyOf[e], 1, n), f>> \in regs
      /\ \A m \in 1..(n - 1) : <<SubSeq(KeyOf[e], 1, m), f>> \notin regs
  BY <1>6, <1>7
<1> HIDE DEF e
<1>9. Depth(f, e) \in 1..Len(KeyOf[e])
  BY <1>8 DEF Depth
<1> QED
  BY <1>1, <1>9 DEF e

\* So there is a next target while there are targets.
LEMMA TargetExists ==
    ASSUME EventAssumption, NEW w \in Workers, regs \subseteq Keys \X FDs,
           job[w].req.event \in Events, Targets(w) # {}
    PROVE  Target(w) \in Targets(w)
<1> DEFINE e == job[w].req.event
           D == {Depth(f, e) : f \in Targets(w)}
<1>1. D \subseteq Nat /\ D # {}
  BY DepthExists
<1>2. PICK d \in D : \A m \in D : d <= m
  BY <1>1, LeastExists
<1> DEFINE T == {f \in Targets(w) : Depth(f, e) = d}
<1>3. T \subseteq Nat /\ T # {}
  BY <1>2 DEF EventAssumption, Targets
<1>4. PICK f \in T : \A g \in T : f <= g
  BY <1>3, LeastExists
<1>5. \A g \in Targets(w) : \/ Depth(f, e) < Depth(g, e)
                            \/ Depth(f, e) = Depth(g, e) /\ f <= g
  BY <1>1, <1>2, <1>4
<1>6. f \in Targets(w)
  BY <1>4
<1> QED
  BY <1>5, <1>6 DEF Target

(***************************************************************************)
(* Types, and what they rest on.                                           *)
(***************************************************************************)

\* Everything but the workers' jobs.
TablesTyped ==
    /\ conn \in [FDs -> Conns \cup {None}]
    /\ used \subseteq Conns /\ left \subseteq used
    /\ pos \in [Conns -> Nat] /\ \A c \in Conns : pos[c] <= Len(Script[c])
    /\ wire \in [Conns -> Seq(Piece)] /\ read \in [Conns -> Nat]
    /\ \A c \in Conns : Free(c) \in 0..Room
    /\ interest \in [Conns -> SUBSET Keys]
    /\ clients \subseteq FDs /\ armed \subseteq clients /\ pclose \subseteq FDs
    /\ queue \in Seq(QueuedJob)
    /\ known \subseteq FDs /\ regs \subseteq Keys \X FDs

\* A worker carries out the kind of request it has received.
Consistent(j) ==
    j.at \in {"register", "deregister", "publish"} => j.req \in Request /\ j.req.op = j.at

\* Every worker is idle or has a job.
JobsTyped ==
    /\ job \in [Workers -> JobType \cup {None}]
    /\ \A w \in Workers : job[w] # None => Consistent(job[w])

\* The two parts are inductive together.
ShapeInv == TablesTyped /\ JobsTyped

\* The type invariant of the runs is a part of it.
LEMMA ShapeMeansType == ASSUME EventAssumption, ShapeInv PROVE TypeOK
<1>1. \A c \in Conns : Len(Script[c]) \in Nat
  BY DEF EventAssumption
<1> QED
  BY <1>1 DEF ShapeInv, TablesTyped, JobsTyped, TypeOK

\* No client has connected.
LEMMA ShapeInit == ASSUME EventAssumption, Init PROVE ShapeInv
<1>1. \A c \in Conns : Len(Script[c]) \in Nat
  BY DEF EventAssumption
<1> QED
  BY <1>1 DEF EventAssumption, Init, ShapeInv, TablesTyped, JobsTyped, Free

\* What requests name.
LEMMA Requests ==
    ASSUME NEW r \in Request
    PROVE  /\ r.op \in {"register", "deregister", "publish"}
           /\ r.op # "publish" => r.key \in Keys
           /\ r.op = "publish" => r.event \in Events
BY DEF Request

\* A job that goes on: what it keeps.
Same(k, j) == k \in JobType /\ k.fd = j.fd /\ k.conn = j.conn

\* Goto changes the place only.
LEMMA JobMoves ==
    ASSUME NEW j \in JobType, NEW k,
           NEW place \in {"new", "data", "gone", "register", "deregister", "publish",
                          "return", "drop"},
           k = [j EXCEPT !.at = place]
    PROVE  Same(k, j) /\ k.at = place /\ k.req = j.req /\ k.done = j.done /\ k.todo = j.todo
BY DEF JobType, Same

\* Receive enters the request and goes where it is carried out.
LEMMA JobReceives ==
    ASSUME NEW j \in JobType, NEW k, NEW r \in Request, NEW c \in Conns,
           k = [j EXCEPT !.at = r.op, !.req = r, !.conn = c]
    PROVE  /\ k \in JobType /\ k.fd = j.fd /\ k.conn = c
           /\ k.at = r.op /\ k.req = r /\ k.done = j.done /\ k.todo = j.todo
<1>1. r.op \in {"register", "deregister", "publish"}
  BY Requests
<1> DEFINE m == [j EXCEPT !.at = r.op, !.req = r]
<1>2. m \in JobType /\ k = [m EXCEPT !.conn = c]
  BY <1>1 DEF JobType
<1>3. m.fd = j.fd /\ m.at = r.op /\ m.req = r /\ m.done = j.done /\ m.todo = j.todo
  BY DEF JobType
<1> HIDE DEF m
<1> QED
  BY <1>2, <1>3 DEF JobType

\* A job whose present target is passed, d being those it has been through.
Past(j, d) == [j EXCEPT !.done = d, !.todo = 2]

\* Passing a target changes nothing else.
LEMMA JobPasses ==
    ASSUME NEW j \in JobType, NEW d \in SUBSET FDs
    PROVE  /\ Same(Past(j, d), j) /\ Past(j, d).at = j.at /\ Past(j, d).req = j.req
           /\ Past(j, d).done = d /\ Past(j, d).todo = 2
<1> DEFINE m == [j EXCEPT !.done = d]
<1>1. m \in JobType /\ Past(j, d) = [m EXCEPT !.todo = 2]
  BY DEF JobType, Past
<1> HIDE DEF m
<1>2. Past(j, d) \in JobType
  BY <1>1 DEF JobType
<1>3. Past(j, d).fd = j.fd /\ Past(j, d).conn = j.conn /\ Past(j, d).at = j.at
      /\ Past(j, d).req = j.req
  BY DEF JobType, Past
<1>4. Past(j, d).done = d /\ Past(j, d).todo = 2
  BY DEF JobType, Past
<1> QED
  BY <1>2, <1>3, <1>4 DEF Same

\* A partial write changes only what is left to write.
LEMMA JobWrites ==
    ASSUME NEW j \in JobType, NEW k, NEW n \in 1..2, n < j.todo,
           k = [j EXCEPT !.todo = j.todo - n]
    PROVE  Same(k, j) /\ k.at = j.at /\ k.req = j.req /\ k.done = j.done /\ k.todo = j.todo - n
BY DEF JobType, Same

\* A step is that of the tables and of one worker's job.
LEMMA JobChange ==
    ASSUME JobsTyped, NEW w \in Workers, NEW k \in JobType \cup {None}, k # None => Consistent(k),
           job' = [job EXCEPT ![w] = k]
    PROVE  JobsTyped'
BY DEF JobsTyped

\* What a worker that is at work has.
LEMMA AtWork ==
    ASSUME ShapeInv, NEW w \in Workers, job[w] # None
    PROVE  /\ job[w] \in JobType /\ job[w].fd \in FDs /\ job[w].conn \in Conns \cup {None}
           /\ job[w].todo \in 1..2 /\ job[w].done \subseteq FDs
           /\ job[w].at \in {"register", "deregister", "publish"} =>
                job[w].req \in Request /\ job[w].req.op = job[w].at
           /\ job[w].at \in {"register", "deregister"} => job[w].req.key \in Keys
           /\ job[w].at = "publish" => job[w].req.event \in Events
<1>1. job[w] \in JobType /\ Consistent(job[w])
  BY DEF ShapeInv, JobsTyped
<1>2. job[w].fd \in FDs /\ job[w].conn \in Conns \cup {None} /\ job[w].todo \in 1..2
      /\ job[w].done \subseteq FDs
  BY <1>1 DEF JobType
<1> QED
  BY <1>1, <1>2, Requests DEF Consistent

\* A new job.
LEMMA NewJobs ==
    ASSUME ShapeInv, NEW f \in FDs, NEW place \in {"new", "data"}
    PROVE  /\ NewJob(f, place) \in JobType /\ Consistent(NewJob(f, place))
           /\ NewJob(f, place).fd = f /\ NewJob(f, place).at = place
           /\ NewJob(f, place).conn = conn[f]
<1>1. conn[f] \in Conns \cup {None}
  BY DEF ShapeInv, TablesTyped
<1> QED
  BY <1>1 DEF NewJob, JobType, Consistent

\* A job that goes to a place where it needs no request.
LEMMA JobGoes ==
    ASSUME EventAssumption, ShapeInv, NEW w \in Workers, job[w] # None,
           NEW place \in {"gone", "return", "drop"}, Goto(w, place)
    PROVE  /\ JobsTyped' /\ Same(job'[w], job[w]) /\ job'[w].at = place /\ job'[w] # None
           /\ \A v \in Workers \ {w} : job'[v] = job[v]
<1> DEFINE k == [job[w] EXCEPT !.at = place]
<1>1. job[w] \in JobType
  BY AtWork
<1>2. Same(k, job[w]) /\ k.at = place
  BY <1>1, JobMoves
<1>3. job' = [job EXCEPT ![w] = k]
  BY DEF Goto
<1> HIDE DEF k
<1>4. k \in JobType /\ Consistent(k) /\ k # None
  BY <1>2 DEF Same, Consistent, EventAssumption
<1>5. JobsTyped'
  BY <1>3, <1>4, JobChange DEF ShapeInv
<1>6. job'[w] = k /\ \A v \in Workers \ {w} : job'[v] = job[v]
  BY <1>3 DEF ShapeInv, JobsTyped
<1> QED
  BY <1>2, <1>4, <1>5, <1>6

\* What a write does: the connection gets one or both of the pieces that were
\* left, and the worker goes on to the next client when it was both.
Sends(w, f, c, n) ==
    /\ f = Target(w) /\ f \in Targets(w) /\ conn[f] = c /\ c \notin left
    /\ n <= job[w].todo /\ n <= Free(c)
    /\ wire' = [wire EXCEPT ![c] = Wrote(wire[c], job[w].req.event, job[w].todo, n)]
    /\ \/ /\ n < job[w].todo
          /\ job' = [job EXCEPT ![w] = [job[w] EXCEPT !.todo = job[w].todo - n]]
       \/ /\ n = job[w].todo
          /\ job' = [job EXCEPT ![w] = [job[w] EXCEPT !.done = job[w].done \cup {f}, !.todo = 2]]

\* Every Send is one of these, to a connected client with room.
LEMMA SendCases ==
    ASSUME EventAssumption, ShapeInv, NEW w \in Workers, Send(w)
    PROVE  \E f \in FDs, c \in Conns, n \in 1..2 : Sends(w, f, c, n)
<1> DEFINE f == Target(w)
           c == conn[f]
           n == IF Free(c) < job[w].todo THEN Free(c) ELSE job[w].todo
<1>1. job[w].todo \in 1..2 /\ job[w].req.event \in Events /\ Targets(w) # {}
  BY AtWork DEF Send, Publishing
<1>2. f \in Targets(w)
  BY <1>1, TargetExists DEF ShapeInv, TablesTyped
<1>3. f \in FDs /\ c \in Conns /\ c \notin left
  BY <1>2 DEF Targets, Send, Reachable, ShapeInv, TablesTyped
<1>4. Free(c) \in 0..Room /\ Room \in Nat
  BY <1>3 DEF ShapeInv, TablesTyped, EventAssumption
<1>5. n > 0 /\ wire' = [wire EXCEPT ![c] = Wrote(wire[c], job[w].req.event, job[w].todo, n)]
  BY DEF Send, Wrote
<1>6. IF n = job[w].todo THEN Passed(w)
      ELSE job' = [job EXCEPT ![w] = [job[w] EXCEPT !.todo = job[w].todo - n]]
  BY DEF Send
<1>7. n \in 1..2 /\ n <= job[w].todo /\ n <= Free(c)
  BY <1>1, <1>4, <1>5
<1>8. Passed(w) => job' = [job EXCEPT ![w] = [job[w] EXCEPT !.done = job[w].done \cup {f},
                                                             !.todo = 2]]
  BY DEF Passed
<1>9. f = Target(w) /\ conn[f] = c
  OBVIOUS
<1> HIDE DEF n, c, f
<1>10. Sends(w, f, c, n)
  BY <1>1, <1>2, <1>3, <1>5, <1>6, <1>7, <1>8, <1>9 DEF Sends
<1> QED
  BY <1>3, <1>7, <1>10

\* What the worker and the connection have after it.
LEMMA AfterSend ==
    ASSUME ShapeInv, NEW w \in Workers, job[w] # None, job[w].at = "publish",
           NEW f \in FDs, NEW c \in Conns, NEW n \in 1..2, Sends(w, f, c, n)
    PROVE  /\ wire'[c] = Wrote(wire[c], job[w].req.event, job[w].todo, n)
           /\ wire' \in [Conns -> Seq(Piece)]
           /\ \A d \in Conns \ {c} : wire'[d] = wire[d]
           /\ JobsTyped' /\ \A v \in Workers \ {w} : job'[v] = job[v]
           /\ Same(job'[w], job[w]) /\ job'[w].at = "publish" /\ job'[w].req = job[w].req
           /\ n = job[w].todo => job'[w].todo = 2 /\ job'[w].done = job[w].done \cup {f}
           /\ n # job[w].todo => job'[w].todo = job[w].todo - n /\ job'[w].done = job[w].done
<1>1. /\ job[w] \in JobType /\ job[w].todo \in 1..2 /\ job[w].req.event \in Events
      /\ job[w].done \cup {f} \in SUBSET FDs
  BY AtWork
<1>2. n \in 1..job[w].todo
  BY <1>1 DEF Sends
<1>3. Wrote(wire[c], job[w].req.event, job[w].todo, n) \in Seq(Piece)
  BY <1>1, <1>2, Written DEF ShapeInv, TablesTyped
<1>4. /\ wire'[c] = Wrote(wire[c], job[w].req.event, job[w].todo, n)
      /\ wire' \in [Conns -> Seq(Piece)]
      /\ \A d \in Conns \ {c} : wire'[d] = wire[d]
  BY <1>3 DEF Sends, ShapeInv, TablesTyped
<1>5. PICK k : /\ job' = [job EXCEPT ![w] = k]
               /\ Same(k, job[w]) /\ k.at = job[w].at /\ k.req = job[w].req
               /\ n = job[w].todo => k.todo = 2 /\ k.done = job[w].done \cup {f}
               /\ n # job[w].todo => k.todo = job[w].todo - n /\ k.done = job[w].done
  <2>1. CASE n < job[w].todo
    <3> DEFINE k == [job[w] EXCEPT !.todo = job[w].todo - n]
    <3>1. /\ Same(k, job[w]) /\ k.at = job[w].at /\ k.req = job[w].req
          /\ k.todo = job[w].todo - n /\ k.done = job[w].done
      BY <1>1, <2>1, JobWrites
    <3>2. job' = [job EXCEPT ![w] = k] /\ n # job[w].todo
      BY <1>1, <2>1 DEF Sends
    <3> HIDE DEF k
    <3> QED
      BY <3>1, <3>2
  <2>2. CASE n = job[w].todo
    <3> DEFINE k == Past(job[w], job[w].done \cup {f})
    <3>1. job' = [job EXCEPT ![w] = k]
      BY <1>1, <2>2 DEF Sends, Past
    <3>2. /\ Same(k, job[w]) /\ k.at = job[w].at /\ k.req = job[w].req
          /\ k.todo = 2 /\ k.done = job[w].done \cup {f}
      BY <1>1, JobPasses
    <3> HIDE DEF k
    <3> QED
      BY <2>2, <3>1, <3>2
  <2>3. n < job[w].todo \/ n = job[w].todo
    BY <1>1, <1>2
  <2> QED
    BY <2>1, <2>2, <2>3
<1>6. k \in JobType /\ Consistent(k)
  BY <1>5 DEF Same, Consistent, ShapeInv, JobsTyped
<1>7. JobsTyped' /\ job'[w] = k /\ \A v \in Workers \ {w} : job'[v] = job[v]
  BY <1>5, <1>6, JobChange DEF ShapeInv, JobsTyped
<1> QED
  BY <1>4, <1>5, <1>7

\* A write that fails.
LEMMA FailCases ==
    ASSUME EventAssumption, ShapeInv, NEW w \in Workers, SendFails(w)
    PROVE  /\ Target(w) \in Targets(w) /\ Target(w) \in FDs
           /\ JobsTyped' /\ \A v \in Workers \ {w} : job'[v] = job[v]
           /\ Same(job'[w], job[w]) /\ job'[w].at = "publish" /\ job'[w].req = job[w].req
           /\ job'[w].todo = 2 /\ job'[w].done = job[w].done \cup {Target(w)}
<1>1. /\ job[w] \in JobType /\ job[w].req.event \in Events /\ Targets(w) # {}
      /\ job[w].at = "publish" /\ job[w].done \subseteq FDs /\ job[w] # None
  BY AtWork DEF SendFails, Publishing
<1>2. Target(w) \in Targets(w)
  BY <1>1, TargetExists DEF ShapeInv, TablesTyped
<1>3. Target(w) \in FDs
  BY <1>2 DEF Targets
<1> DEFINE k == Past(job[w], job[w].done \cup {Target(w)})
<1>4. job' = [job EXCEPT ![w] = k]
  BY <1>1 DEF SendFails, Passed, Past
<1>5. /\ Same(k, job[w]) /\ k.at = "publish" /\ k.req = job[w].req
      /\ k.todo = 2 /\ k.done = job[w].done \cup {Target(w)}
  BY <1>1, <1>3, JobPasses
<1> HIDE DEF k
<1>6. k \in JobType /\ Consistent(k)
  BY <1>1, <1>5 DEF Same, Consistent, ShapeInv, JobsTyped
<1>7. JobsTyped' /\ job'[w] = k /\ \A v \in Workers \ {w} : job'[v] = job[v]
  BY <1>4, <1>6, JobChange DEF ShapeInv, JobsTyped
<1> QED
  BY <1>2, <1>3, <1>5, <1>7

\* A worker takes up a client.
LEMMA StartCases ==
    ASSUME ShapeInv, NEW w \in Workers, NEW f \in FDs, NEW place \in {"new", "data"},
           job' = [job EXCEPT ![w] = NewJob(f, place)]
    PROVE  /\ JobsTyped' /\ \A v \in Workers \ {w} : job'[v] = job[v]
           /\ job'[w] \in JobType /\ job'[w].fd = f /\ job'[w].at = place
           /\ job'[w].conn = conn[f]
<1>1. NewJob(f, place) \in JobType /\ Consistent(NewJob(f, place))
  BY NewJobs
<1>2. JobsTyped'
  BY <1>1, JobChange DEF ShapeInv
<1>3. job'[w] = NewJob(f, place) /\ \A v \in Workers \ {w} : job'[v] = job[v]
  BY DEF ShapeInv, JobsTyped
<1> QED
  BY <1>2, <1>3, NewJobs

\* And leaves it.
LEMMA EndCases ==
    ASSUME ShapeInv, NEW w \in Workers, job' = [job EXCEPT ![w] = None]
    PROVE  JobsTyped' /\ job'[w] = None /\ \A v \in Workers \ {w} : job'[v] = job[v]
<1>1. JobsTyped'
  BY JobChange DEF ShapeInv
<1> QED
  BY <1>1 DEF ShapeInv, JobsTyped

\* A request, or the end of the connection.
LEMMA ReceiveCases ==
    ASSUME EventAssumption, ShapeInv, NEW w \in Workers, Receive(w)
    PROVE  /\ JobsTyped' /\ \A v \in Workers \ {w} : job'[v] = job[v]
           /\ job'[w] \in JobType /\ job'[w].fd = job[w].fd /\ job'[w] # None
           /\ job'[w].done = job[w].done /\ job'[w].todo = job[w].todo
           /\ \/ \E c \in Conns :
                    /\ job'[w].conn = c
                    /\ c = conn[job[w].fd] /\ job[w].fd \in known /\ pos[c] < Len(Script[c])
                    /\ pos' = [pos EXCEPT ![c] = pos[c] + 1] /\ pos[c] + 1 \in DOMAIN Script[c]
                    /\ job'[w].req = Script[c][pos[c] + 1] /\ job'[w].at = job'[w].req.op
                    /\ job'[w].req \in Request
              \/ /\ job'[w].at = "gone" /\ job'[w].conn = job[w].conn
                 /\ UNCHANGED pos
<1>1. job[w] \in JobType /\ job[w] # None /\ job[w].fd \in FDs
  BY AtWork DEF Receive
<1>2. CASE Goto(w, "gone") /\ UNCHANGED pos
  <2>1. job'[w].done = job[w].done /\ job'[w].todo = job[w].todo
    BY <1>1, <1>2 DEF Goto, ShapeInv, JobsTyped, JobType
  <2> QED
    BY <1>1, <1>2, <2>1, JobGoes DEF Same
<1> DEFINE c == conn[job[w].fd]
           r == Script[c][pos[c] + 1]
           Got == /\ job[w].fd \in known /\ c # None /\ pos[c] < Len(Script[c])
                  /\ pos' = [pos EXCEPT ![c] = pos[c] + 1]
                  /\ job' = [job EXCEPT ![w].at = r.op, ![w].req = r, ![w].conn = c]
<1>3. Got \/ (Goto(w, "gone") /\ UNCHANGED pos)
  BY DEF Receive
<1>4. c = conn[job[w].fd] /\ r = Script[c][pos[c] + 1]
  OBVIOUS
<1> HIDE DEF c, r
<1>5. CASE Got
  <2>1. c \in Conns
    BY <1>1, <1>4, <1>5 DEF ShapeInv, TablesTyped
  <2>2. Script[c] \in Seq(Request) /\ pos[c] \in Nat
    BY <2>1 DEF EventAssumption, ShapeInv, TablesTyped
  <2>3. pos[c] + 1 \in DOMAIN Script[c] /\ r \in Request
    BY <1>4, <1>5, <2>2, NextElement
  <2> DEFINE k == [job[w] EXCEPT !.at = r.op, !.req = r, !.conn = c]
  <2>4. job' = [job EXCEPT ![w] = k]
    BY <1>1, <1>5 DEF ShapeInv, JobsTyped
  <2>5. /\ k \in JobType /\ k.fd = job[w].fd /\ k.conn = c
        /\ k.at = r.op /\ k.req = r /\ k.done = job[w].done /\ k.todo = job[w].todo
    BY <1>1, <2>1, <2>3, JobReceives
  <2> HIDE DEF k
  <2>6. k \in JobType /\ Consistent(k) /\ k # None
    BY <2>3, <2>5 DEF Consistent, EventAssumption
  <2>7. JobsTyped' /\ job'[w] = k /\ \A v \in Workers \ {w} : job'[v] = job[v]
    BY <2>4, <2>6, JobChange DEF ShapeInv, JobsTyped
  <2> QED
    BY <1>4, <1>5, <2>1, <2>3, <2>5, <2>6, <2>7
<1> QED
  BY <1>2, <1>3, <1>5

\* The registrations of a connection change with its requests.
LEMMA InterestTyped ==
    ASSUME ShapeInv, NEW w \in Workers, NEW K \in SUBSET Keys, Interested(w, K)
    PROVE  interest' \in [Conns -> SUBSET Keys]
BY DEF Interested, ShapeInv, TablesTyped

\* Every action keeps the types.
LEMMA ShapeNext == ASSUME EventAssumption, ShapeInv, [Next]_vars PROVE ShapeInv'
<1> USE DEF TablesTyped
<1>0. TablesTyped /\ JobsTyped /\ Room \in Nat /\ FDs \subseteq Nat
  BY DEF ShapeInv, EventAssumption
<1>a. SUFFICES TablesTyped' /\ JobsTyped'
  BY DEF ShapeInv
<1>b. ASSUME UNCHANGED <<wire, read>> PROVE \A c \in Conns : Free(c)' \in 0..Room
  BY <1>0, <1>b DEF Free
<1>1. CASE UNCHANGED vars
  BY <1>0, <1>1 DEF vars, JobsTyped, Free
<1>2. ASSUME NEW c \in Conns, NEW f \in FDs, Connect(c, f) PROVE TablesTyped' /\ JobsTyped'
  <2>1. queue' \in Seq(QueuedJob)
    BY <1>0, <1>2 DEF Connect, QueuedJob
  <2> QED
    BY <1>0, <1>2, <1>b, <2>1 DEF Connect, JobsTyped
<1>3. ASSUME NEW c \in Conns, ReadPiece(c) PROVE TablesTyped' /\ JobsTyped'
  <2>1. read[c] \in Nat /\ read[c] < Len(wire[c]) /\ Len(wire[c]) \in Nat
    BY <1>0, <1>3 DEF ReadPiece
  <2>2. \A d \in Conns : Free(d)' \in 0..Room
    BY <1>0, <1>3, <2>1 DEF ReadPiece, Free
  <2>3. read' \in [Conns -> Nat]
    BY <1>0, <1>3, <2>1 DEF ReadPiece
  <2>4. JobsTyped'
    BY <1>0, <1>3 DEF ReadPiece, JobsTyped
  <2> QED
    BY <1>0, <1>3, <2>2, <2>3, <2>4 DEF ReadPiece
<1>4. ASSUME NEW c \in Conns, Disconnect(c) PROVE TablesTyped' /\ JobsTyped'
  BY <1>0, <1>4, <1>b DEF Disconnect, JobsTyped
<1>5. CASE CloseLoop
  BY <1>0, <1>5, <1>b DEF CloseLoop, JobsTyped
<1>6. ASSUME NEW w \in Workers, Start(w) PROVE TablesTyped' /\ JobsTyped'
  <2>1. Head(queue) \in QueuedJob /\ Tail(queue) \in Seq(QueuedJob)
    BY <1>0, <1>6 DEF Start
  <2>2. JobsTyped'
    BY <1>6, <2>1, StartCases DEF Start, QueuedJob
  <2> QED
    BY <1>0, <1>6, <1>b, <2>1, <2>2 DEF Start
<1>7. ASSUME NEW f \in FDs, QueueData(f) PROVE TablesTyped' /\ JobsTyped'
  <2>1. queue' \in Seq(QueuedJob)
    BY <1>0, <1>7 DEF QueueData, QueuedJob
  <2> QED
    BY <1>0, <1>7, <1>b, <2>1 DEF QueueData, JobsTyped
<1>8. ASSUME NEW w \in Workers, Return(w) \/ Drop(w) PROVE TablesTyped' /\ JobsTyped'
  <2>1. JobsTyped' /\ job[w].fd \in FDs
    BY <1>8, EndCases, AtWork DEF Return, Drop
  <2> QED
    BY <1>0, <1>8, <1>b, <2>1 DEF Return, Drop
<1>9. ASSUME NEW w \in Workers, NewClient(w) PROVE TablesTyped' /\ JobsTyped'
  <2>1. JobsTyped' /\ job[w].fd \in FDs
    BY <1>9, JobGoes, AtWork DEF NewClient
  <2> QED
    BY <1>0, <1>9, <1>b, <2>1 DEF NewClient, ForgetClient
<1>10. ASSUME NEW w \in Workers, Receive(w) PROVE TablesTyped' /\ JobsTyped'
  <2>1. pos' \in [Conns -> Nat] /\ \A c \in Conns : pos'[c] <= Len(Script[c])
    <3>1. CASE UNCHANGED pos
      BY <1>0, <3>1
    <3>2. ASSUME NEW c \in Conns, pos[c] < Len(Script[c]), pos' = [pos EXCEPT ![c] = pos[c] + 1]
          PROVE  <2>1
      <4>1. Len(Script[c]) \in Nat /\ pos[c] \in Nat
        BY <1>0 DEF EventAssumption
      <4> QED
        BY <1>0, <3>2, <4>1
    <3> QED
      BY <1>10, <3>1, <3>2, ReceiveCases
  <2> QED
    BY <1>0, <1>10, <1>b, <2>1, ReceiveCases DEF Receive
<1>11. ASSUME NEW w \in Workers, DelClient(w) PROVE TablesTyped' /\ JobsTyped'
  <2>1. JobsTyped' /\ interest' \in [Conns -> SUBSET Keys]
    BY <1>11, JobGoes, InterestTyped DEF DelClient
  <2> QED
    BY <1>0, <1>11, <1>b, <2>1 DEF DelClient, ForgetClient
<1>12. ASSUME NEW w \in Workers, Register(w) \/ Deregister(w) PROVE TablesTyped' /\ JobsTyped'
  <2>1. job[w].req.key \in Keys /\ job[w].fd \in FDs /\ job[w].conn \in Conns \cup {None}
    BY <1>12, AtWork DEF Register, Deregister
  <2>2. PICK K : Interested(w, K) /\ (K = interest[job[w].conn] \cup {job[w].req.key}
                                      \/ K = interest[job[w].conn] \ {job[w].req.key})
    BY <1>12 DEF Register, Deregister
  <2>3. interest' \in [Conns -> SUBSET Keys]
    BY <1>0, <2>1, <2>2 DEF Interested
  <2>4. JobsTyped'
    BY <1>12, JobGoes DEF Register, Deregister
  <2>5. regs' \subseteq Keys \X FDs
    BY <1>0, <1>12, <2>1 DEF Register, Deregister
  <2> QED
    BY <1>0, <1>12, <1>b, <2>3, <2>4, <2>5 DEF Register, Deregister
<1>13. ASSUME NEW w \in Workers, Send(w) PROVE TablesTyped' /\ JobsTyped'
  <2>1. PICK f \in FDs, c \in Conns, n \in 1..2 : Sends(w, f, c, n)
    BY <1>13, SendCases
  <2>2. /\ job[w].todo \in 1..2 /\ job[w].req.event \in Events /\ n <= job[w].todo /\ n <= Free(c)
        /\ wire[c] \in Seq(Piece) /\ read[c] \in Nat /\ Free(c) \in 0..Room
    BY <1>0, <1>13, <2>1, AtWork DEF Send, Publishing, Sends
  <2>3. /\ wire' \in [Conns -> Seq(Piece)] /\ JobsTyped'
        /\ \A d \in Conns \ {c} : wire'[d] = wire[d]
        /\ wire'[c] = Wrote(wire[c], job[w].req.event, job[w].todo, n)
    <3>1. job[w] # None /\ job[w].at = "publish"
      BY <1>13 DEF Send, Publishing
    <3> QED
      BY <2>1, <3>1, AfterSend
  <2>4. Len(wire'[c]) = Len(wire[c]) + n
    <3> DEFINE q == wire[c]
               e == job[w].req.event
               todo == job[w].todo
    <3>1. e \in Events /\ q \in Seq(Piece) /\ todo \in 1..2 /\ n \in 1..todo
      BY <2>2
    <3>2. wire'[c] = Wrote(q, e, todo, n)
      BY <2>3
    <3> HIDE DEF q, e, todo
    <3>3. Len(Wrote(q, e, todo, n)) = Len(q) + n
      BY <3>1, Written
    <3> QED
      BY <3>2, <3>3 DEF q
  <2>5. \A d \in Conns : Free(d)' \in 0..Room
    <3>1. read' = read
      BY <1>13 DEF Send
    <3>2. Free(c)' \in 0..Room
      BY <1>0, <2>2, <2>4, <3>1 DEF Free
    <3>3. \A d \in Conns \ {c} : Free(d)' = Free(d)
      BY <2>3, <3>1 DEF Free
    <3> QED
      BY <1>0, <3>2, <3>3
  <2> QED
    BY <1>0, <1>13, <2>3, <2>5 DEF Send
<1>14. ASSUME NEW w \in Workers, SendFails(w) PROVE TablesTyped' /\ JobsTyped'
  BY <1>0, <1>14, <1>b, FailCases DEF SendFails
<1>15. ASSUME NEW w \in Workers, PublishDone(w) PROVE TablesTyped' /\ JobsTyped'
  BY <1>0, <1>15, <1>b, JobGoes DEF PublishDone, Publishing
<1> QED
  BY <1>1, <1>2, <1>3, <1>4, <1>5, <1>6, <1>7, <1>8, <1>9, <1>10, <1>11, <1>12, <1>13, <1>14,
     <1>15 DEF Next, JobStep

(***************************************************************************)
(* One copy.                                                               *)
(***************************************************************************)

\* Each event is published once.
PublishedOnce ==
    \A c, d \in Conns : \A i \in DOMAIN Script[c], k \in DOMAIN Script[d] :
        /\ Script[c][i].op = "publish" /\ Script[d][k].op = "publish"
        /\ Script[c][i].event = Script[d][k].event
        => c = d /\ i = k

\* The server has received the request to publish e.
Received(e) ==
    \E c \in Conns : \E i \in DOMAIN Script[c] :
        i <= pos[c] /\ Script[c][i].op = "publish" /\ Script[c][i].event = e

\* A connection has one descriptor, and what is written went to it.
ConnInv ==
    /\ \A f, g \in FDs : conn[f] = conn[g] /\ conn[f] # None => f = g
    /\ \A f \in FDs : conn[f] # None => conn[f] \in used
    /\ \A c \in Conns : Len(wire[c]) > 0 => c \in used

\* What is written was published, and is published by one worker.
PubInv ==
    /\ \A c \in Conns : \A i \in DOMAIN wire[c] : Received(wire[c][i].event)
    /\ \A w \in Workers : Publishing(w) => Received(job[w].req.event)
    /\ \A v, w \in Workers : Publishing(v) /\ Publishing(w)
                             /\ job[v].req.event = job[w].req.event => v = w

\* What a connection has not been sent of an event.
NoPiece(c, e) == \A i \in DOMAIN wire[c] : wire[c][i].event # e
NoTail(c, e) == \A i \in DOMAIN wire[c] : wire[c][i] # TailOf(e)

\* A publish has sent nothing to the clients it has not been through, and to the
\* present one what it keeps account of.
SentInv ==
    \A w \in Workers : Publishing(w) =>
        \A f \in FDs \ job[w].done : conn[f] # None =>
            IF job[w].todo = 1 /\ f = Target(w)
            THEN NoTail(conn[f], job[w].req.event)
            ELSE NoPiece(conn[f], job[w].req.event)

\* The parts are inductive together.
CopyInv == ConnInv /\ PubInv /\ SentInv /\ AtMostOnce

\* Nothing is written and nobody publishes yet.
LEMMA CopyInit == ASSUME EventAssumption, Init PROVE CopyInv
<1>1. \A w \in Workers : ~Publishing(w)
  BY DEF Init, Publishing
<1>2. \A c \in Conns : wire[c] = <<>> /\ Len(wire[c]) = 0 /\ DOMAIN wire[c] = {}
  BY DEF Init
<1>3. \A f \in FDs : conn[f] = None
  BY DEF Init
<1> QED
  BY <1>1, <1>2, <1>3 DEF CopyInv, ConnInv, PubInv, SentInv, AtMostOnce

\* The next target depends on the tree and on what the publish has been through.
LEMMA TargetSame ==
    ASSUME NEW w \in Workers, UNCHANGED regs, job'[w].done = job[w].done,
           job'[w].req = job[w].req
    PROVE  Target(w)' = Target(w) /\ Targets(w)' = Targets(w)
<1>1. Targets(w)' = Targets(w)
  BY DEF Targets
<1>2. \A f, e : Depth(f, e)' = Depth(f, e)
  BY DEF Depth
<1> QED
  BY <1>1, <1>2 DEF Target

\* What a write adds, piece by piece.
LEMMA SendAdds ==
    ASSUME EventAssumption, ShapeInv, NEW w \in Workers, job[w] # None, job[w].at = "publish",
           NEW f \in FDs, NEW c \in Conns, NEW n \in 1..2, Sends(w, f, c, n)
    PROVE  LET e == job[w].req.event
               l == Len(wire[c])
           IN  /\ DOMAIN wire[c] \subseteq DOMAIN wire'[c]
               /\ \A i \in DOMAIN wire[c] : wire'[c][i] = wire[c][i] /\ i # l + 1 /\ i # l + 2
               /\ \A i \in DOMAIN wire'[c] :
                     \/ i \in DOMAIN wire[c]
                     \/ i = l + 1 /\ wire'[c][i] = HeadOf(e) /\ job[w].todo = 2
                     \/ i = l + 2 /\ wire'[c][i] = TailOf(e) /\ job[w].todo = 2 /\ n = 2
                     \/ i = l + 1 /\ wire'[c][i] = TailOf(e) /\ job[w].todo = 1 /\ n = 1
<1> DEFINE e == job[w].req.event
           l == Len(wire[c])
           q == Wrote(wire[c], e, job[w].todo, n)
<1>1. job[w].todo \in 1..2 /\ e \in Events /\ wire[c] \in Seq(Piece)
  BY AtWork DEF ShapeInv, TablesTyped
<1>2. n \in 1..job[w].todo
  BY <1>1 DEF Sends
<1>3. wire'[c] = q
  BY AfterSend
<1>4. /\ q \in Seq(Piece) /\ Len(q) = l + n
      /\ \A i \in 1..l : q[i] = wire[c][i]
      /\ job[w].todo = 2 => q[l + 1] = HeadOf(e)
      /\ n = 2 => q[l + 2] = TailOf(e)
      /\ job[w].todo = 1 => q[l + 1] = TailOf(e)
  BY <1>1, <1>2, Written
<1>5. DOMAIN wire[c] = 1..l /\ l \in Nat
  BY <1>1
<1> HIDE DEF q, l, e
<1>6. DOMAIN q = 1..(l + n)
  BY <1>4
<1>7. \A i \in 1..(l + n) : i \in 1..l \/ i = l + 1 \/ (i = l + 2 /\ n = 2)
  BY <1>5
<1>8. (job[w].todo = 2 \/ (job[w].todo = 1 /\ n = 1)) /\ (n = 2 => job[w].todo = 2)
  BY <1>1, <1>2
<1>9. \A i \in 1..l : i \in 1..(l + n) /\ i # l + 1 /\ i # l + 2
  BY <1>5
<1> QED
  BY <1>3, <1>4, <1>5, <1>6, <1>7, <1>8, <1>9 DEF l, e

\* Connections are new when they are given a descriptor.
LEMMA ConnNext == ASSUME EventAssumption, ShapeInv, ConnInv, [Next]_vars PROVE ConnInv'
<1> USE DEF ConnInv
<1>1. CASE UNCHANGED <<conn, used, wire>>
  BY <1>1
<1>2. ASSUME NEW c \in Conns, NEW f \in FDs, Connect(c, f) PROVE ConnInv'
  <2>1. conn \in [FDs -> Conns \cup {None}] /\ None \notin Conns
    BY DEF EventAssumption, ShapeInv, TablesTyped
  <2>2. conn' = [conn EXCEPT ![f] = c] /\ c \notin used /\ used' = used \cup {c} /\ wire' = wire
    BY <1>2 DEF Connect
  <2>3. \A g \in FDs : conn'[g] = (IF g = f THEN c ELSE conn[g]) /\ conn[g] # c
    BY <2>1, <2>2
  <2> QED
    BY <2>2, <2>3
<1>3. CASE CloseLoop
  BY <1>3 DEF CloseLoop
<1>4. ASSUME NEW w \in Workers, Send(w) PROVE ConnInv'
  <2>1. PICK f \in FDs, c \in Conns, n \in 1..2 : Sends(w, f, c, n)
    BY <1>4, SendCases
  <2>2. conn[f] = c /\ c # None /\ \A d \in Conns \ {c} : wire'[d] = wire[d]
    BY <1>4, <2>1, AfterSend DEF Sends, Send, Publishing, EventAssumption
  <2> QED
    BY <1>4, <2>2 DEF Send
<1> QED
  BY <1>1, <1>2, <1>3, <1>4 DEF Next, JobStep, vars, ReadPiece, Disconnect, Start, QueueData,
     Return, Drop, NewClient, Receive, DelClient, Register, Deregister, SendFails, PublishDone

\* A step that writes nothing, and in which no worker begins or goes on with a
\* publish, keeps it all.
Quietly ==
    /\ wire' = wire
    /\ \A e : Received(e) => Received(e)'
    /\ \A f \in FDs : conn'[f] # None => conn'[f] = conn[f] \/ conn'[f] \in Conns \ used
    /\ \A w \in Workers : Publishing(w)' =>
          Publishing(w) /\ job'[w].req = job[w].req /\ job'[w].done = job[w].done
          /\ job'[w].todo = job[w].todo /\ UNCHANGED regs

\* Steps that write nothing keep it.
LEMMA CopyKept ==
    ASSUME EventAssumption, ShapeInv, CopyInv, ConnInv', Quietly PROVE CopyInv'
<1> USE DEF Quietly
<1>1. PubInv'
  <2>1. \A c \in Conns : \A i \in DOMAIN wire[c] : Received(wire[c][i].event)
    BY DEF CopyInv, PubInv
  <2>2. (\A c \in Conns : \A i \in DOMAIN wire[c] : Received(wire[c][i].event))'
    BY <2>1
  <2>3. (\A w \in Workers : Publishing(w) => Received(job[w].req.event))'
    BY DEF CopyInv, PubInv
  <2>4. (\A v, w \in Workers : Publishing(v) /\ Publishing(w)
                              /\ job[v].req.event = job[w].req.event => v = w)'
    BY DEF CopyInv, PubInv
  <2> QED
    BY <2>2, <2>3, <2>4 DEF PubInv
<1>2. AtMostOnce'
  BY DEF CopyInv, AtMostOnce
<1>3. ASSUME NEW w \in Workers, Publishing(w)', NEW f \in FDs \ job'[w].done,
             NEW c \in Conns, c = conn'[f], NEW e, e = job'[w].req.event
      PROVE  IF job'[w].todo = 1 /\ f = Target(w)' THEN NoTail(c, e)' ELSE NoPiece(c, e)'
  <2>1. Publishing(w) /\ job'[w].req = job[w].req /\ job'[w].done = job[w].done
        /\ job'[w].todo = job[w].todo /\ UNCHANGED regs
    BY <1>3
  <2>2. Target(w)' = Target(w)
    BY <2>1, TargetSame
  <2>3. (NoTail(c, e) => NoTail(c, e)') /\ (NoPiece(c, e) => NoPiece(c, e)')
    BY DEF NoTail, NoPiece
  <2>4. CASE conn'[f] = conn[f]
    <3>1. conn[f] # None
      BY <1>3, <2>4 DEF EventAssumption
    <3>2. IF job[w].todo = 1 /\ f = Target(w) THEN NoTail(c, e) ELSE NoPiece(c, e)
      BY <1>3, <2>1, <2>4, <3>1 DEF CopyInv, SentInv
    <3> QED
      BY <2>1, <2>2, <2>3, <3>2
  <2>5. CASE conn'[f] \in Conns \ used
    <3>1. wire[c] \in Seq(Piece) /\ ~(Len(wire[c]) > 0)
      BY <1>3, <2>5 DEF CopyInv, ConnInv, ShapeInv, TablesTyped
    <3>2. DOMAIN wire[c] = {}
      BY <3>1
    <3>3. NoTail(c, e) /\ NoPiece(c, e)
      BY <3>2 DEF NoTail, NoPiece
    <3> QED
      BY <2>3, <3>3
  <2>6. c # None
    BY <1>3 DEF EventAssumption
  <2> QED
    BY <1>3, <2>4, <2>5, <2>6
<1>4. SentInv'
  <2> SUFFICES ASSUME NEW w \in Workers, Publishing(w)', NEW f \in FDs \ job'[w].done,
                      conn'[f] # None
               PROVE  (IF job[w].todo = 1 /\ f = Target(w)
                       THEN NoTail(conn[f], job[w].req.event)
                       ELSE NoPiece(conn[f], job[w].req.event))'
    BY DEF SentInv
  <2>1. conn'[f] \in Conns
    BY DEF ShapeInv, TablesTyped
  <2> QED
    BY <1>3, <2>1 DEF NoTail, NoPiece
<1> QED
  BY <1>1, <1>2, <1>4 DEF CopyInv

\* A request that is received: if it is a publish, its event is a new one.
LEMMA CopyReceive ==
    ASSUME EventAssumption, PublishedOnce, ShapeInv, CopyInv, ConnInv', NEW w \in Workers,
           Receive(w)
    PROVE  CopyInv'
<1>1. UNCHANGED <<conn, used, wire, regs>>
  BY DEF Receive
<1>3. /\ \A v \in Workers \ {w} : job'[v] = job[v]
      /\ job'[w] # None
  BY ReceiveCases
<1>4. CASE job'[w].at = "gone" /\ UNCHANGED pos
  <2>1. Quietly
    BY <1>1, <1>3, <1>4 DEF Quietly, Publishing, Received
  <2> QED
    BY <2>1, CopyKept
<1>5. ASSUME NEW c \in Conns, pos[c] < Len(Script[c]), pos[c] + 1 \in DOMAIN Script[c],
             pos' = [pos EXCEPT ![c] = pos[c] + 1],
             job'[w].req = Script[c][pos[c] + 1], job'[w].at = job'[w].req.op
      PROVE  CopyInv'
  <2>1. pos \in [Conns -> Nat]
    BY DEF ShapeInv, TablesTyped
  <2>2. \A d \in Conns : pos'[d] >= pos[d]
    BY <1>5, <2>1
  <2>3. ASSUME NEW x, Received(x) PROVE Received(x)'
    <3>1. PICK d \in Conns : \E i \in DOMAIN Script[d] :
            i <= pos[d] /\ Script[d][i].op = "publish" /\ Script[d][i].event = x
      BY <2>3 DEF Received
    <3>a. PICK i \in DOMAIN Script[d] :
            i <= pos[d] /\ Script[d][i].op = "publish" /\ Script[d][i].event = x
      BY <3>1
    <3>2. i \in Nat /\ pos[d] \in Nat /\ pos'[d] \in Nat
      BY <1>5, <2>1 DEF EventAssumption
    <3>3. i <= pos'[d]
      BY <2>2, <3>a, <3>2
    <3> QED
      BY <3>a, <3>3 DEF Received
  <2>4. CASE job'[w].at # "publish"
    <3>1. Quietly
      BY <1>1, <1>3, <2>3, <2>4 DEF Quietly, Publishing
    <3> QED
      BY <3>1, CopyKept
  <2>5. CASE job'[w].at = "publish"
    <3> SUFFICES ASSUME NEW e, e = job'[w].req.event PROVE CopyInv'
      OBVIOUS
    <3> DEFINE k == pos[c] + 1
    <3>0. k \in DOMAIN Script[c] /\ Script[c][k].op = "publish" /\ Script[c][k].event = e
      BY <1>5, <2>5
    <3>1. ~Received(e)
      <4>1. ASSUME NEW d \in Conns, NEW i \in DOMAIN Script[d], i <= pos[d],
                   Script[d][i].op = "publish", Script[d][i].event = e
            PROVE  FALSE
        <5>1. d = c /\ i = k
          BY <3>0, <4>1 DEF PublishedOnce
        <5> QED
          BY <2>1, <4>1, <5>1
      <4> QED
        BY <4>1 DEF Received
    <3>2. Received(e)'
      <4>1. k <= pos'[c]
        BY <1>5, <2>1
      <4> QED
        BY <3>0, <4>1 DEF Received
    <3>3. \A d \in Conns : NoPiece(d, e)
      BY <3>1 DEF CopyInv, PubInv, NoPiece
    <3>4. \A v \in Workers \ {w} : Publishing(v)' => Publishing(v) /\ job'[v].req.event # e
      BY <1>3, <3>1 DEF CopyInv, PubInv, Publishing
    <3>5. \A v \in Workers \ {w} : Publishing(v)' => Received(job[v].req.event)
      BY <3>4 DEF CopyInv, PubInv
    <3> HIDE DEF k
    <3>6. PubInv'
      <4>1. (\A d \in Conns : \A i \in DOMAIN wire[d] : Received(wire[d][i].event))'
        BY <1>1, <2>3 DEF CopyInv, PubInv
      <4>2. (\A v \in Workers : Publishing(v) => Received(job[v].req.event))'
        <5> SUFFICES ASSUME NEW v \in Workers, Publishing(v)', NEW x, x = job'[v].req.event
                     PROVE  Received(x)'
          BY DEF Received
        <5>1. v # w => Received(x)
          BY <1>3, <3>5
        <5> QED
          BY <2>3, <3>2, <5>1
      <4>3. (\A u, v \in Workers : Publishing(u) /\ Publishing(v)
                               /\ job[u].req.event = job[v].req.event => u = v)'
        BY <1>3, <3>4 DEF CopyInv, PubInv
      <4> QED
        BY <4>1, <4>2, <4>3 DEF PubInv
    <3>7. AtMostOnce'
      BY <1>1 DEF CopyInv, AtMostOnce
    <3>8. SentInv'
      <4> SUFFICES ASSUME NEW v \in Workers, Publishing(v)', NEW f \in FDs \ job'[v].done,
                          NEW d \in Conns, d = conn[f], d # None
                   PROVE  /\ (job[v].todo = 1 /\ f = Target(v) => NoTail(d, job[v].req.event))'
                          /\ (~(job[v].todo = 1 /\ f = Target(v)) => NoPiece(d, job[v].req.event))'
        <5>1. conn \in [FDs -> Conns \cup {None}] /\ conn' = conn
          BY <1>1 DEF ShapeInv, TablesTyped
        <5> QED
          BY <5>1 DEF SentInv, NoTail, NoPiece
      <4>1. CASE v = w
        <5>1. \A i \in DOMAIN wire[d] : wire[d][i].event # e
          BY <3>3 DEF NoPiece
        <5>2. \A i \in DOMAIN wire'[d] : wire'[d][i].event # job'[v].req.event
          BY <1>1, <4>1, <5>1
        <5>3. \A i \in DOMAIN wire'[d] : wire'[d][i] # TailOf(job'[v].req.event)
          BY <5>2 DEF TailOf
        <5> QED
          BY <5>2, <5>3 DEF NoTail, NoPiece
      <4>2. CASE v # w
        <5>1. job'[v] = job[v] /\ Publishing(v)
          BY <1>3, <3>4, <4>2
        <5>2. Target(v)' = Target(v)
          BY <1>1, <5>1, TargetSame
        <5>3. IF job[v].todo = 1 /\ f = Target(v) THEN NoTail(d, job[v].req.event)
              ELSE NoPiece(d, job[v].req.event)
          BY <5>1 DEF CopyInv, SentInv
        <5> QED
          BY <1>1, <5>1, <5>2, <5>3 DEF NoTail, NoPiece
      <4> QED
        BY <4>1, <4>2
    <3> QED
      BY <3>6, <3>7, <3>8 DEF CopyInv
  <2> QED
    BY <2>4, <2>5
<1> QED
  BY <1>4, <1>5, ReceiveCases

\* A client that is given up is not written to any more.
LEMMA CopyFail ==
    ASSUME EventAssumption, ShapeInv, CopyInv, ConnInv', NEW w \in Workers, SendFails(w)
    PROVE  CopyInv'
<1>1. UNCHANGED <<conn, used, pos, wire, regs>>
  BY DEF SendFails
<1>2. /\ Target(w) \in FDs /\ \A v \in Workers \ {w} : job'[v] = job[v]
      /\ job'[w].at = "publish" /\ job'[w].req = job[w].req
      /\ job'[w].todo = 2 /\ job'[w].done = job[w].done \cup {Target(w)}
  BY FailCases
<1>3. Publishing(w) /\ \A v \in Workers : Publishing(v)' => Publishing(v)
  BY <1>2 DEF Publishing, SendFails
<1>4. AtMostOnce'
  BY <1>1 DEF CopyInv, AtMostOnce
<1>5. PubInv'
  <2>1. \A v \in Workers : job'[v].req = job[v].req
    BY <1>2
  <2>2. \A x : Received(x)' <=> Received(x)
    BY <1>1 DEF Received
  <2> QED
    BY <1>1, <1>3, <2>1, <2>2 DEF CopyInv, PubInv
<1>6. SentInv'
  <2> SUFFICES ASSUME NEW v \in Workers, Publishing(v)', NEW f \in FDs \ job'[v].done,
                      conn[f] # None
               PROVE  /\ (job[v].todo = 1 /\ f = Target(v) => NoTail(conn[f], job[v].req.event))'
                      /\ (~(job[v].todo = 1 /\ f = Target(v))
                           => NoPiece(conn[f], job[v].req.event))'
    BY <1>1 DEF SentInv
  <2>1. CASE v = w
    <3>1. f \notin job[w].done /\ f # Target(w) /\ Publishing(w)
      BY <1>2, <1>3, <2>1
    <3>2. NoPiece(conn[f], job[w].req.event)
      BY <3>1 DEF CopyInv, SentInv
    <3> QED
      BY <1>1, <1>2, <2>1, <3>2 DEF NoPiece
  <2>2. CASE v # w
    <3>1. job'[v] = job[v] /\ Publishing(v)
      BY <1>2, <1>3, <2>2
    <3>2. Target(v)' = Target(v)
      BY <1>1, <3>1, TargetSame
    <3>3. IF job[v].todo = 1 /\ f = Target(v) THEN NoTail(conn[f], job[v].req.event)
          ELSE NoPiece(conn[f], job[v].req.event)
      BY <3>1 DEF CopyInv, SentInv
    <3> QED
      BY <1>1, <3>1, <3>2, <3>3 DEF NoTail, NoPiece
  <2> QED
    BY <2>1, <2>2
<1> QED
  BY <1>4, <1>5, <1>6 DEF CopyInv

\* What is written is the next piece of the event, to a client that has not had
\* it.
LEMMA CopySend ==
    ASSUME EventAssumption, ShapeInv, CopyInv, ConnInv', NEW w \in Workers, Send(w)
    PROVE  CopyInv'
<1> DEFINE e == job[w].req.event
<1>1. UNCHANGED <<conn, used, pos, regs>>
  BY DEF Send
<1>2. PICK f \in FDs, c \in Conns, n \in 1..2 : Sends(w, f, c, n)
  BY SendCases
<1>3. job[w] # None /\ job[w].at = "publish" /\ Publishing(w) /\ job[w].todo \in 1..2
  BY AtWork DEF Send, Publishing
<1>a. wire \in [Conns -> Seq(Piece)]
  BY DEF ShapeInv, TablesTyped
<1>b. Same(job'[w], job[w])
  BY <1>2, <1>3, AfterSend
<1>c. job'[w] # None
  BY <1>b DEF Same, EventAssumption
<1>4. /\ wire' \in [Conns -> Seq(Piece)] /\ wire \in [Conns -> Seq(Piece)]
      /\ \A d \in Conns \ {c} : wire'[d] = wire[d]
      /\ \A v \in Workers \ {w} : job'[v] = job[v]
      /\ job'[w].at = "publish" /\ job'[w].req = job[w].req /\ job'[w] # None
      /\ n = job[w].todo => job'[w].todo = 2 /\ job'[w].done = job[w].done \cup {f}
      /\ n # job[w].todo => job'[w].todo = job[w].todo - n /\ job'[w].done = job[w].done
  <2>1. /\ wire' \in [Conns -> Seq(Piece)] /\ \A d \in Conns \ {c} : wire'[d] = wire[d]
        /\ \A v \in Workers \ {w} : job'[v] = job[v]
    BY <1>2, <1>3, AfterSend
  <2>2. job'[w].at = "publish" /\ job'[w].req = job[w].req
    BY <1>2, <1>3, AfterSend
  <2>3. /\ n = job[w].todo => job'[w].todo = 2 /\ job'[w].done = job[w].done \cup {f}
        /\ n # job[w].todo => job'[w].todo = job[w].todo - n /\ job'[w].done = job[w].done
    BY <1>2, <1>3, AfterSend
  <2> QED
    BY <1>a, <1>c, <2>1, <2>2, <2>3
<1>5. /\ f = Target(w) /\ f \notin job[w].done /\ conn[f] = c /\ c # None
      /\ n <= job[w].todo
  BY <1>2 DEF Sends, Targets, EventAssumption
<1> DEFINE l == Len(wire[c])
<1>6. /\ DOMAIN wire[c] \subseteq DOMAIN wire'[c]
      /\ \A i \in DOMAIN wire[c] : wire'[c][i] = wire[c][i] /\ i # l + 1 /\ i # l + 2
      /\ \A i \in DOMAIN wire'[c] :
            \/ i \in DOMAIN wire[c]
            \/ i = l + 1 /\ wire'[c][i] = HeadOf(e) /\ job[w].todo = 2
            \/ i = l + 2 /\ wire'[c][i] = TailOf(e) /\ job[w].todo = 2 /\ n = 2
            \/ i = l + 1 /\ wire'[c][i] = TailOf(e) /\ job[w].todo = 1 /\ n = 1
  BY <1>2, <1>3, SendAdds
<1>7. (job[w].todo = 2 => NoPiece(c, e)) /\ (job[w].todo = 1 => NoTail(c, e))
  <2>1. IF job[w].todo = 1 /\ f = Target(w) THEN NoTail(conn[f], e) ELSE NoPiece(conn[f], e)
    BY <1>3, <1>5 DEF CopyInv, SentInv
  <2> QED
    BY <1>5, <2>1
<1>8. HeadOf(e).event = e /\ TailOf(e).event = e /\ HeadOf(e) # TailOf(e)
  BY DEF HeadOf, TailOf
<1> HIDE DEF l, e
<1>11. \A v \in Workers : job'[v].req = job[v].req /\ (Publishing(v)' <=> Publishing(v))
  BY <1>3, <1>4 DEF Publishing
<1>12. PubInv'
  <2>1. \A x : Received(x)' <=> Received(x)
    BY <1>1 DEF Received
  <2>2. Received(e)
    BY <1>3 DEF e, CopyInv, PubInv
  <2>3. \A d \in Conns : \A i \in DOMAIN wire'[d] : Received(wire'[d][i].event)
    <3>1. ASSUME NEW i \in DOMAIN wire'[c] PROVE Received(wire'[c][i].event)
      <4>1. CASE i \in DOMAIN wire[c]
        BY <1>6, <4>1 DEF CopyInv, PubInv
      <4>2. CASE i \notin DOMAIN wire[c]
        <5>1. wire'[c][i].event = e
          BY <1>6, <1>8, <4>2
        <5> QED
          BY <2>2, <5>1
      <4> QED
        BY <4>1, <4>2
    <3> QED
      BY <1>4, <3>1 DEF CopyInv, PubInv
  <2> QED
    BY <1>11, <2>1, <2>3 DEF CopyInv, PubInv
<1>13. AtMostOnce'
  <2>1. ASSUME NEW i \in DOMAIN wire[c], NEW k \in DOMAIN wire'[c] \ DOMAIN wire[c]
        PROVE  wire'[c][i] # wire'[c][k]
    <3>1. wire'[c][i] = wire[c][i]
      BY <1>6
    <3>2. CASE job[w].todo = 2
      <4>1. wire'[c][k].event = e
        BY <1>6, <1>8, <2>1
      <4> QED
        BY <1>7, <3>1, <3>2, <4>1 DEF NoPiece
    <3>3. CASE job[w].todo = 1
      <4>1. wire'[c][k] = TailOf(e)
        BY <1>6, <2>1, <3>3
      <4> QED
        BY <1>7, <3>1, <3>3, <4>1 DEF NoTail
    <3> QED
      BY <1>3, <3>2, <3>3
  <2>2. ASSUME NEW i \in DOMAIN wire'[c] \ DOMAIN wire[c], NEW k \in DOMAIN wire'[c] \ DOMAIN wire[c],
               wire'[c][i] = wire'[c][k]
        PROVE  i = k
    BY <1>6, <1>8, <2>2
  <2>3. ASSUME NEW i \in DOMAIN wire[c], NEW k \in DOMAIN wire[c], wire'[c][i] = wire'[c][k]
        PROVE  i = k
    BY <1>6, <2>3 DEF CopyInv, AtMostOnce
  <2>4. \A i, k \in DOMAIN wire'[c] : wire'[c][i] = wire'[c][k] => i = k
    BY <2>1, <2>2, <2>3
  <2>5. ASSUME NEW d \in Conns \ {c}
        PROVE  \A i, k \in DOMAIN wire'[d] : wire'[d][i] = wire'[d][k] => i = k
    <3>1. wire'[d] = wire[d]
      BY <1>4
    <3> QED
      BY <3>1 DEF CopyInv, AtMostOnce
  <2> QED
    BY <2>4, <2>5 DEF AtMostOnce
<1>14. SentInv'
  <2> SUFFICES ASSUME NEW v \in Workers, Publishing(v)', NEW g \in FDs \ job'[v].done,
                      NEW d \in Conns, d = conn[g], d # None, NEW x, x = job[v].req.event
               PROVE  /\ (job[v].todo = 1 /\ g = Target(v) => NoTail(d, x))'
                      /\ (~(job[v].todo = 1 /\ g = Target(v)) => NoPiece(d, x))'
    <3>1. conn \in [FDs -> Conns \cup {None}]
      BY DEF ShapeInv, TablesTyped
    <3> QED
      BY <1>1, <1>11, <3>1 DEF SentInv, NoTail, NoPiece
  <2>1. Publishing(v)
    BY <1>11
  <2>2. CASE v # w
    <3>1. job'[v] = job[v] /\ x # e
      BY <1>3, <1>4, <2>1, <2>2 DEF CopyInv, PubInv, e
    <3>2. Target(v)' = Target(v)
      BY <1>1, <3>1, TargetSame
    <3>3. IF job[v].todo = 1 /\ g = Target(v) THEN NoTail(d, x) ELSE NoPiece(d, x)
      BY <2>1, <3>1 DEF CopyInv, SentInv
    <3>4. (NoPiece(d, x) => NoPiece(d, x)') /\ (NoTail(d, x) => NoTail(d, x)')
      <4>1. CASE d # c
        BY <1>4, <4>1 DEF NoPiece, NoTail
      <4>2. CASE d = c
        <5>1. \A i \in DOMAIN wire'[c] : i \in DOMAIN wire[c] \/ wire'[c][i].event # x
          BY <1>6, <1>8, <3>1
        <5>2. TailOf(x).event = x
          BY DEF TailOf
        <5>3. \A i \in DOMAIN wire'[c] : i \in DOMAIN wire[c] \/ wire'[c][i] # TailOf(x)
          BY <5>1, <5>2
        <5> QED
          BY <1>6, <4>2, <5>1, <5>3 DEF NoPiece, NoTail
      <4> QED
        BY <4>1, <4>2
    <3> QED
      BY <3>1, <3>2, <3>3, <3>4
  <2>3. CASE v = w /\ g # f
    <3>1. d # c /\ g \notin job[w].done
      BY <1>4, <1>5, <2>3 DEF CopyInv, ConnInv
    <3>2. NoPiece(d, x)
      BY <1>5, <2>1, <2>3, <3>1 DEF CopyInv, SentInv
    <3>3. NoPiece(d, x)'
      BY <1>4, <3>1, <3>2 DEF NoPiece
    <3>4. (\A i \in DOMAIN wire[d] : wire[d][i] # TailOf(x))'
      BY <3>3 DEF NoPiece, TailOf
    <3> QED
      BY <3>3, <3>4 DEF NoTail
  <2>4. CASE v = w /\ g = f
    <3>1. n # job[w].todo /\ d = c /\ x = e /\ job'[w].done = job[w].done
      BY <1>4, <1>5, <2>4 DEF e
    <3>2. job[w].todo = 2 /\ n = 1 /\ job'[w].todo = 1
      BY <1>3, <1>4, <1>5, <3>1
    <3>3. Target(w)' = f
      BY <1>1, <1>4, <1>5, <3>1, TargetSame
    <3>4. NoTail(c, e)
      BY <1>7, <1>8, <3>2 DEF NoPiece, NoTail
    <3>5. \A i \in DOMAIN wire'[c] : wire'[c][i] # TailOf(x)
      BY <1>6, <1>8, <3>1, <3>2, <3>4 DEF NoTail
    <3> QED
      BY <2>4, <3>1, <3>2, <3>3, <3>5 DEF NoTail
  <2> QED
    BY <2>2, <2>3, <2>4
<1> QED
  BY <1>12, <1>13, <1>14 DEF CopyInv

\* Everything else writes nothing; registrations change when nobody publishes.
LEMMA CopyNext ==
    ASSUME EventAssumption, PublishedOnce, ShapeInv, CopyInv, [Next]_vars
    PROVE  CopyInv'
<1> USE DEF Quietly, Received
<1>0. conn \in [FDs -> Conns \cup {None}] /\ None \notin Conns /\ job \in [Workers -> JobType \cup {None}]
  BY DEF EventAssumption, ShapeInv, TablesTyped, JobsTyped
<1>c. ConnInv'
  BY ConnNext DEF CopyInv
<1>a. ASSUME Quietly PROVE CopyInv'
  BY <1>a, <1>c, CopyKept
<1>1. CASE UNCHANGED vars
  BY <1>1, <1>a DEF vars, Publishing
<1>2. ASSUME NEW c \in Conns, NEW f \in FDs, Connect(c, f) PROVE CopyInv'
  <2>1. conn' = [conn EXCEPT ![f] = c] /\ c \notin used /\ used' = used \cup {c}
    BY <1>2 DEF Connect
  <2>2. \A g \in FDs : conn'[g] = IF g = f THEN c ELSE conn[g]
    BY <1>0, <2>1
  <2>3. Quietly
    BY <1>2, <2>1, <2>2 DEF Connect, Publishing
  <2> QED
    BY <1>a, <2>3
<1>3. ASSUME NEW c \in Conns, ReadPiece(c) \/ Disconnect(c) PROVE CopyInv'
  BY <1>3, <1>a DEF ReadPiece, Disconnect, Publishing
<1>4. CASE CloseLoop
  BY <1>4, <1>a DEF CloseLoop, Publishing
<1>5. ASSUME NEW w \in Workers, Start(w) PROVE CopyInv'
  <2>1. Head(queue) \in QueuedJob
    BY <1>5 DEF Start, ShapeInv, TablesTyped
  <2>2. job'[w].at \in {"new", "data"} /\ \A v \in Workers \ {w} : job'[v] = job[v]
    BY <1>5, <2>1, StartCases DEF Start, QueuedJob
  <2> QED
    BY <1>5, <1>a, <2>2 DEF Start, Publishing
<1>6. ASSUME NEW f \in FDs, QueueData(f) PROVE CopyInv'
  BY <1>6, <1>a DEF QueueData, Publishing
<1>7. ASSUME NEW w \in Workers, Return(w) \/ Drop(w) PROVE CopyInv'
  <2>1. job'[w] = None /\ \A v \in Workers \ {w} : job'[v] = job[v]
    BY <1>7, EndCases DEF Return, Drop
  <2> QED
    BY <1>7, <1>a, <2>1 DEF Return, Drop, Publishing
<1>b. ASSUME NEW w \in Workers, job[w] # None, NEW place \in {"gone", "return", "drop"},
             Goto(w, place), NoReader, UNCHANGED <<conn, used, pos, wire>>
      PROVE  CopyInv'
  <2>1. job'[w].at = place /\ \A v \in Workers \ {w} : job'[v] = job[v]
    BY <1>b, JobGoes
  <2>2. \A v \in Workers : ~Publishing(v)'
    BY <1>b, <2>1 DEF NoReader, Publishing
  <2> QED
    BY <1>a, <1>b, <2>2
<1>8. ASSUME NEW w \in Workers, NewClient(w) PROVE CopyInv'
  BY <1>8, <1>b DEF NewClient
<1>9. ASSUME NEW w \in Workers, Receive(w) PROVE CopyInv'
  BY <1>9, <1>c, CopyReceive
<1>10. ASSUME NEW w \in Workers, DelClient(w) PROVE CopyInv'
  BY <1>10, <1>b DEF DelClient
<1>11. ASSUME NEW w \in Workers, Register(w) \/ Deregister(w) PROVE CopyInv'
  BY <1>11, <1>b DEF Register, Deregister
<1>12. ASSUME NEW w \in Workers, Send(w) PROVE CopyInv'
  BY <1>12, <1>c, CopySend
<1>13. ASSUME NEW w \in Workers, SendFails(w) PROVE CopyInv'
  BY <1>13, <1>c, CopyFail
<1>14. ASSUME NEW w \in Workers, PublishDone(w) PROVE CopyInv'
  <2>1. job'[w].at = "return" /\ \A v \in Workers \ {w} : job'[v] = job[v]
    BY <1>14, JobGoes DEF PublishDone, Publishing
  <2> QED
    BY <1>14, <1>a, <2>1 DEF PublishDone, Publishing
<1> QED
  BY <1>1, <1>2, <1>3, <1>4, <1>5, <1>6, <1>7, <1>8, <1>9, <1>10, <1>11, <1>12, <1>13,
     <1>14 DEF Next, JobStep

\* The tables of the server, the socket service's and the jobs of the workers
\* hold what the code puts there; no closed descriptor is armed.
THEOREM TypeCorrect == ASSUME EventAssumption PROVE Spec => []TypeOK
<1>1. Spec => []ShapeInv
  BY ShapeInit, ShapeNext, PTL DEF Spec, SafetySpec
<1> QED
  BY <1>1, ShapeMeansType, PTL

\* std_event_service.cpp:260, already_sent: a client is sent an event once,
\* whatever nodes of the key it is registered at, however many workers publish,
\* and whether clients leave, stall, or have descriptors that were another's.
THEOREM OneCopy == ASSUME EventAssumption, PublishedOnce PROVE Spec => []AtMostOnce
<1>1. Spec => []ShapeInv
  BY ShapeInit, ShapeNext, PTL DEF Spec, SafetySpec
<1>2. ShapeInv /\ CopyInv /\ [Next]_vars => CopyInv'
  BY CopyNext
<1>3. Init => CopyInv
  BY CopyInit
<1>4. CopyInv => AtMostOnce
  BY DEF CopyInv
<1> QED
  BY <1>1, <1>2, <1>3, <1>4, PTL DEF Spec, SafetySpec

(***************************************************************************)
(* Registrations are those their connections asked for.                    *)
(***************************************************************************)

\* at[c] is the descriptor connection c was given, also when it is closed: what
\* is behind a descriptor, what a worker serves and what is registered agree on it.
OwnedAt(at) ==
    /\ \A f \in FDs : conn[f] # None => conn[f] \in used /\ at[conn[f]] = f
    /\ \A w \in Workers : job[w] # None /\ job[w].conn # None =>
          job[w].conn \in used /\ at[job[w].conn] = job[w].fd
    /\ \A w \in Workers : Requested(w) => job[w].conn # None
    /\ \A r \in regs : \E c \in used : at[c] = r[2] /\ r[1] \in interest[c]

OwnedInv == \E at \in [Conns -> FDs \cup {None}] : OwnedAt(at)

\* So they are registrations of connections on their descriptor.
LEMMA OwnedMeans == ASSUME EventAssumption, ShapeInv, OwnedInv PROVE RegistrationsOwned
<1>1. PICK at \in [Conns -> FDs \cup {None}] : OwnedAt(at)
  BY DEF OwnedInv
<1> SUFFICES ASSUME NEW r \in regs
             PROVE  \E c \in used : r[1] \in interest[c] /\ \A f \in FDs : conn[f] = c => f = r[2]
  BY DEF RegistrationsOwned
<1>2. PICK c \in used : at[c] = r[2] /\ r[1] \in interest[c]
  BY <1>1 DEF OwnedAt
<1>3. c # None
  BY DEF EventAssumption, ShapeInv, TablesTyped
<1> QED
  BY <1>1, <1>2, <1>3 DEF OwnedAt

\* Nobody has connected.
LEMMA OwnedInit == ASSUME EventAssumption, Init PROVE OwnedInv
<1> DEFINE at == [c \in Conns |-> None]
<1>1. at \in [Conns -> FDs \cup {None}] /\ OwnedAt(at)
  BY DEF Init, OwnedAt, Requested
<1> HIDE DEF at
<1> QED
  BY <1>1 DEF OwnedInv

\* A worker goes on with the same connection, and no new request.
LEMMA OwnedMoves ==
    ASSUME NEW at, OwnedAt(at), NEW w \in Workers, job[w] # None,
           \A v \in Workers \ {w} : job'[v] = job[v],
           job'[w] = None \/ Same(job'[w], job[w]),
           Requested(w)' => Requested(w),
           \A f \in FDs : conn'[f] # None => conn'[f] = conn[f],
           used' = used,
           \A r \in regs' : \E c \in used : at[c] = r[2] /\ r[1] \in interest'[c]
    PROVE  OwnedAt(at)'
BY DEF OwnedAt, Same, Requested

\* A connection is new when it is given a descriptor, and a worker that carries out
\* its request, or forgets it, does so under the descriptor it was given.
LEMMA OwnedNext == ASSUME EventAssumption, ShapeInv, OwnedInv, [Next]_vars PROVE OwnedInv'
<1>0. PICK at \in [Conns -> FDs \cup {None}] : OwnedAt(at)
  BY DEF OwnedInv
<1>a. ASSUME OwnedAt(at)' PROVE OwnedInv'
  BY <1>a DEF OwnedInv
<1> USE DEF OwnedAt
<1>1. CASE UNCHANGED <<conn, used, regs, job, interest>>
  BY <1>0, <1>1, <1>a DEF Requested
<1>2. ASSUME NEW c \in Conns, NEW f \in FDs, Connect(c, f) PROVE OwnedInv'
  <2> DEFINE at2 == [at EXCEPT ![c] = f]
  <2>1. at2 \in [Conns -> FDs \cup {None}]
    OBVIOUS
  <2>2. at2[c] = f /\ \A d \in Conns \ {c} : at2[d] = at[d]
    OBVIOUS
  <2> HIDE DEF at2
  <2>3. /\ c \notin used /\ used' = used \cup {c} /\ used \subseteq Conns
        /\ conn' = [conn EXCEPT ![f] = c]
        /\ conn \in [FDs -> Conns \cup {None}]
        /\ UNCHANGED <<regs, job, interest>>
    BY <1>2 DEF Connect, ShapeInv, TablesTyped
  <2>4. \A d \in used : d \in Conns \ {c}
    BY <2>3
  <2>5. (\A g \in FDs : conn[g] # None => conn[g] \in used /\ at2[conn[g]] = g)'
    BY <1>0, <2>2, <2>3, <2>4 DEF at2
  <2>6. (\A w \in Workers : job[w] # None /\ job[w].conn # None =>
            job[w].conn \in used /\ at2[job[w].conn] = job[w].fd)'
    BY <1>0, <2>2, <2>3, <2>4 DEF at2
  <2>7. (\A r \in regs : \E d \in used : at2[d] = r[2] /\ r[1] \in interest[d])'
    BY <1>0, <2>2, <2>3, <2>4 DEF at2
  <2>8. (\A w \in Workers : Requested(w) => job[w].conn # None)'
    BY <1>0, <2>3 DEF Requested
  <2> QED
    BY <2>1, <2>5, <2>6, <2>7, <2>8 DEF OwnedInv, at2
<1>3. CASE CloseLoop
  <2>1. /\ \A f \in FDs : conn'[f] # None => conn'[f] = conn[f]
        /\ UNCHANGED <<used, regs, job, interest>>
    BY <1>3 DEF CloseLoop
  <2> QED
    BY <1>0, <1>a, <2>1 DEF Requested
<1>4. ASSUME NEW w \in Workers, Start(w) PROVE OwnedInv'
  <2>q. Head(queue) \in QueuedJob
    BY <1>4 DEF Start, ShapeInv, TablesTyped
  <2> DEFINE f == Head(queue).fd
             place == Head(queue).at
  <2>1. f \in FDs /\ place \in {"new", "data"}
    BY <2>q DEF QueuedJob
  <2>2. job' = [job EXCEPT ![w] = NewJob(f, place)]
    BY <1>4 DEF Start
  <2> HIDE DEF f, place
  <2>4. /\ job'[w].fd = f /\ job'[w].conn = conn[f] /\ job'[w].at \in {"new", "data"}
        /\ \A v \in Workers \ {w} : job'[v] = job[v]
    BY <2>1, <2>2, StartCases
  <2>3. UNCHANGED <<conn, used, regs, interest>>
    BY <1>4 DEF Start
  <2> QED
    BY <1>0, <1>a, <2>1, <2>3, <2>4 DEF Requested
<1>5. ASSUME NEW w \in Workers, Receive(w) PROVE OwnedInv'
  <2>1. /\ job[w] # None /\ job[w].fd \in FDs /\ UNCHANGED <<conn, used, regs, interest>>
    BY <1>5, AtWork DEF Receive
  <2>2. /\ job'[w].fd = job[w].fd /\ \A v \in Workers \ {w} : job'[v] = job[v]
        /\ \/ job'[w].conn = conn[job[w].fd] /\ job'[w].conn \in Conns
           \/ job'[w].conn = job[w].conn /\ job'[w].at = "gone"
    BY <1>5, ReceiveCases
  <2>3. None \notin Conns
    BY DEF EventAssumption
  <2> QED
    BY <1>0, <1>a, <2>1, <2>2, <2>3 DEF Requested
<1>b. ASSUME NEW w \in Workers, job[w] # None,
             \A v \in Workers \ {w} : job'[v] = job[v],
             job'[w] = None \/ Same(job'[w], job[w]),
             Requested(w)' => Requested(w),
             UNCHANGED <<conn, used>>,
             \A r \in regs' : \E c \in used : at[c] = r[2] /\ r[1] \in interest'[c]
      PROVE  OwnedInv'
  BY <1>0, <1>a, <1>b, OwnedMoves
<1>6. ASSUME NEW w \in Workers, Return(w) \/ Drop(w) PROVE OwnedInv'
  <2>1. job'[w] = None /\ \A v \in Workers \ {w} : job'[v] = job[v]
    BY <1>6, EndCases DEF Return, Drop
  <2> QED
    BY <1>0, <1>6, <1>b, <2>1 DEF Return, Drop, Requested
<1>c. ASSUME NEW w \in Workers, job[w] # None, NEW place \in {"gone", "return", "drop"},
             Goto(w, place), UNCHANGED <<conn, used>>,
             \A r \in regs' : \E c \in used : at[c] = r[2] /\ r[1] \in interest'[c]
      PROVE  OwnedInv'
  <2>1. /\ Same(job'[w], job[w]) /\ ~Requested(w)'
        /\ \A v \in Workers \ {w} : job'[v] = job[v]
    BY <1>c, JobGoes DEF Requested
  <2> QED
    BY <1>b, <1>c, <2>1
<1>7. ASSUME NEW w \in Workers, NewClient(w) PROVE OwnedInv'
  <2>1. regs' \subseteq regs /\ UNCHANGED <<conn, used, interest>>
    BY <1>7 DEF NewClient, ForgetClient
  <2> QED
    BY <1>0, <1>7, <1>c, <2>1 DEF NewClient
<1> DEFINE Own(w) == job[w].conn \in used /\ at[job[w].conn] = job[w].fd
<1>8. ASSUME NEW w \in Workers, DelClient(w) PROVE OwnedInv'
  <2>1. /\ regs' = {r \in regs : r[2] # job[w].fd} /\ job[w] # None
        /\ \A c \in Conns : c # job[w].conn => interest'[c] = interest[c]
    BY <1>8 DEF DelClient, ForgetClient, Interested
  <2>2. job[w].conn = None \/ Own(w)
    BY <1>0, <2>1
  <2>3. used \subseteq Conns /\ None \notin Conns
    BY DEF EventAssumption, ShapeInv, TablesTyped
  <2>4. \A r \in regs' : \E c \in used : at[c] = r[2] /\ r[1] \in interest'[c]
    BY <1>0, <2>1, <2>2, <2>3
  <2> QED
    BY <1>8, <1>c, <2>4 DEF DelClient
<1>9. ASSUME NEW w \in Workers, Register(w) \/ Deregister(w) PROVE OwnedInv'
  <2>1. job[w] # None /\ Requested(w) /\ UNCHANGED <<conn, used>> /\ Goto(w, "return")
    BY <1>9 DEF Register, Deregister, Requested
  <2>2. Own(w) /\ used \subseteq Conns
    BY <1>0, <2>1 DEF ShapeInv, TablesTyped
  <2> DEFINE k == job[w].req.key
             f == job[w].fd
             d == job[w].conn
  <2>3. /\ \A c \in Conns : c # d => interest'[c] = interest[c]
        /\ \/ regs' = regs \cup {<<k, f>>} /\ interest'[d] = interest[d] \cup {k}
           \/ regs' = regs \ {<<k, f>>} /\ interest'[d] = interest[d] \ {k}
    BY <1>9, <2>2 DEF Register, Deregister, Interested
  <2>4. regs \subseteq Keys \X FDs
    BY DEF ShapeInv, TablesTyped
  <2>5. ASSUME NEW r \in regs', r # <<k, f>>
        PROVE  \E c \in used : at[c] = r[2] /\ r[1] \in interest'[c]
    <3>1. r \in regs /\ r = <<r[1], r[2]>>
      BY <2>3, <2>4, <2>5
    <3>2. PICK c \in used : at[c] = r[2] /\ r[1] \in interest[c]
      BY <1>0, <3>1
    <3>3. r[1] # k \/ r[2] # f
      BY <2>5, <3>1
    <3>4. c = d => r[1] # k
      BY <2>2, <3>2, <3>3
    <3> QED
      BY <2>2, <2>3, <3>2, <3>4
  <2>6. ASSUME <<k, f>> \in regs'
        PROVE  \E c \in used : at[c] = f /\ k \in interest'[c]
    BY <2>2, <2>3, <2>6
  <2>7. \A r \in regs' : \E c \in used : at[c] = r[2] /\ r[1] \in interest'[c]
    BY <2>5, <2>6
  <2> QED
    BY <1>c, <2>1, <2>7
<1>10. ASSUME NEW w \in Workers, Send(w) PROVE OwnedInv'
  <2>1. PICK f \in FDs, c \in Conns, n \in 1..2 : Sends(w, f, c, n)
    BY <1>10, SendCases
  <2>2. job[w] # None /\ job[w].at = "publish" /\ UNCHANGED <<conn, used, regs, interest>>
    BY <1>10 DEF Send, Publishing
  <2>3. Same(job'[w], job[w]) /\ \A v \in Workers \ {w} : job'[v] = job[v]
    BY <2>1, <2>2, AfterSend
  <2> QED
    BY <1>0, <1>b, <2>2, <2>3 DEF Requested
<1>11. ASSUME NEW w \in Workers, SendFails(w) PROVE OwnedInv'
  <2>1. job[w] # None /\ job[w].at = "publish" /\ UNCHANGED <<conn, used, regs, interest>>
    BY <1>11 DEF SendFails, Publishing
  <2>2. Same(job'[w], job[w]) /\ \A v \in Workers \ {w} : job'[v] = job[v]
    BY <1>11, FailCases
  <2> QED
    BY <1>0, <1>b, <2>1, <2>2 DEF Requested
<1>12. ASSUME NEW w \in Workers, PublishDone(w) PROVE OwnedInv'
  BY <1>0, <1>12, <1>c DEF PublishDone, Publishing
<1> QED
  BY <1>1, <1>2, <1>3, <1>4, <1>5, <1>6, <1>7, <1>8, <1>9, <1>10, <1>11, <1>12
     DEF Next, JobStep, vars, ReadPiece, Disconnect, QueueData

\* std_event_service.cpp:286, close_client_connection: for any workers, clients that
\* leave or stall and descriptors handed out again, whatever is in the tree was
\* registered by a connection on that descriptor that was not forgotten.
THEOREM OwnRegistrations == ASSUME EventAssumption PROVE Spec => []RegistrationsOwned
<1>1. Spec => []ShapeInv
  BY ShapeInit, ShapeNext, PTL DEF Spec, SafetySpec
<1>2. ShapeInv /\ OwnedInv /\ [Next]_vars => OwnedInv'
  BY OwnedNext
<1>3. Init => OwnedInv
  BY OwnedInit
<1>4. ShapeInv /\ OwnedInv => RegistrationsOwned
  BY OwnedMeans
<1> QED
  BY <1>1, <1>2, <1>3, <1>4, PTL DEF Spec, SafetySpec

(***************************************************************************)
(* Clients that stay and read: every client that is registered has its     *)
(* copy, and no other.                                                     *)
(***************************************************************************)

\* Clients neither leave nor stop reading.
Staying == ~MayLeave /\ ~MayStall

\* Where a client may be: its job is queued, or at a worker.
Queued(f) == \E i \in DOMAIN queue : queue[i].fd = f
Serves(w, f) == job[w] # None /\ job[w].fd = f

\* No client has two jobs in the queue.
OnceQueued == \A i, k \in DOMAIN queue : queue[i].fd = queue[k].fd => i = k

\* The job of a client the server does not know yet is new_client.
NewQueued == \A i \in DOMAIN queue : queue[i].at = "new" <=> queue[i].fd \notin known

\* A client is in one place: its job is queued, it is armed, or a worker serves
\* it.  It is known from the end of new_client on.
PlaceInv ==
    /\ pclose = {} /\ left = {}
    /\ OnceQueued /\ NewQueued
    /\ \A f \in FDs : Queued(f) => conn[f] # None /\ f \notin armed
    /\ \A f \in FDs : f \in armed => f \in known
    /\ \A f \in FDs : f \in known => conn[f] # None
    /\ \A v, w \in Workers : job[v] # None /\ job[w] # None /\ job[v].fd = job[w].fd => v = w
    /\ \A w \in Workers, f \in FDs : Serves(w, f) => f \notin armed /\ ~Queued(f)

\* What a worker knows of its client.
WorkInv ==
    \A w \in Workers : job[w] # None =>
        /\ job[w].conn = conn[job[w].fd] /\ job[w].conn # None
        /\ job[w].at \notin {"gone", "drop"}
        /\ job[w].at = "new" <=> job[w].fd \notin known

\* The tree holds the registrations of the connected clients and no others.
TreeInv ==
    /\ \A c \in Conns \ used : interest[c] = {}
    /\ \A k \in Keys, f \in FDs : <<k, f>> \in regs <=> conn[f] # None /\ k \in interest[conn[f]]

\* The parts are inductive together.
StayInv == ConnInv /\ PlaceInv /\ WorkInv /\ TreeInv

\* Nobody is connected and nothing registered yet.
LEMMA StayInit == ASSUME Init PROVE StayInv
<1>1. DOMAIN queue = {} /\ \A c \in Conns : DOMAIN wire[c] = {} /\ Len(wire[c]) = 0
  BY DEF Init
<1> QED
  BY <1>1 DEF Init, StayInv, ConnInv, PlaceInv, OnceQueued, NewQueued, WorkInv, TreeInv, Queued,
     Serves

\* So a client that is registered can be reached, and no write to it fails.
LEMMA NoFailure ==
    ASSUME EventAssumption, Staying, ShapeInv, StayInv, NEW w \in Workers
    PROVE  /\ \A f \in Targets(w) : Reachable(f) /\ \E k \in Keys :
                  <<k, f>> \in regs /\ k \in interest[conn[f]] /\ Covers(k, job[w].req.event)
           /\ ~SendFails(w)
<1>1. ASSUME NEW f \in Targets(w)
      PROVE  Reachable(f) /\ \E k \in Keys :
                  <<k, f>> \in regs /\ k \in interest[conn[f]] /\ Covers(k, job[w].req.event)
  <2>1. PICK r \in regs : r[2] = f /\ Covers(r[1], job[w].req.event)
    BY DEF Targets
  <2>2. f \in FDs /\ r = <<r[1], f>> /\ r[1] \in Keys
    BY <2>1 DEF Targets, ShapeInv, TablesTyped
  <2>3. conn[f] # None /\ r[1] \in interest[conn[f]]
    BY <2>1, <2>2 DEF StayInv, TreeInv
  <2> QED
    BY <2>1, <2>2, <2>3 DEF Reachable, StayInv, PlaceInv
<1>2. SendFails(w) => FALSE
  <2>1. SendFails(w) => job[w].req.event \in Events /\ Targets(w) # {}
    BY AtWork DEF SendFails, Publishing
  <2>2. SendFails(w) => Target(w) \in Targets(w)
    BY <2>1, TargetExists DEF ShapeInv, TablesTyped
  <2> QED
    BY <1>1, <2>2 DEF SendFails, Staying
<1> QED
  BY <1>1, <1>2

\* A worker goes on with its client.
LEMMA StayMoves ==
    ASSUME ShapeInv, StayInv, NEW w \in Workers, job[w] # None, job'[w] # None,
           \A v \in Workers \ {w} : job'[v] = job[v],
           job'[w].fd = job[w].fd, job'[w].conn = job[w].conn,
           job'[w].at \notin {"gone", "drop"},
           job'[w].at = "new" <=> job[w].at = "new",
           UNCHANGED <<conn, left, queue, armed, pclose, known>>
    PROVE  PlaceInv' /\ WorkInv'
<1> USE DEF StayInv
<1>1. PlaceInv'
  BY DEF PlaceInv, OnceQueued, NewQueued, Queued, Serves
<1>2. WorkInv'
  BY DEF WorkInv
<1> QED
  BY <1>1, <1>2

\* What the queue of jobs loses and gains.
LEMMA QueueHead ==
    ASSUME queue \in Seq(QueuedJob), queue # <<>>, queue' = Tail(queue), OnceQueued
    PROVE  /\ Head(queue) \in QueuedJob /\ 1 \in DOMAIN queue /\ Head(queue) = queue[1]
           /\ OnceQueued' /\ Queued(Head(queue).fd)
           /\ \A f : Queued(f)' <=> Queued(f) /\ f # Head(queue).fd
           /\ \A i \in DOMAIN queue' : \E k \in DOMAIN queue : queue'[i] = queue[k]
<1> USE DEF OnceQueued
<1>1. /\ Head(queue) \in QueuedJob /\ Head(queue) = queue[1] /\ Len(queue) \in Nat \ {0}
      /\ DOMAIN queue = 1..Len(queue)
  BY EmptySeq
<1>2. /\ queue' \in Seq(QueuedJob) /\ Len(queue') = Len(queue) - 1
      /\ DOMAIN queue' = 1..(Len(queue) - 1)
      /\ \A i \in 1..(Len(queue) - 1) : queue'[i] = queue[i + 1]
  BY HeadTailProperties
<1>3. \A i \in 1..(Len(queue) - 1) : i + 1 \in 1..Len(queue) /\ i + 1 # 1
  BY <1>1
<1>4. OnceQueued'
  BY <1>1, <1>2, <1>3
<1>5. ASSUME NEW f, Queued(f)' PROVE Queued(f) /\ f # Head(queue).fd
  <2>1. PICK i \in 1..(Len(queue) - 1) : queue'[i].fd = f
    BY <1>2, <1>5 DEF Queued
  <2>2. queue[i + 1].fd = f /\ i + 1 \in DOMAIN queue /\ 1 \in DOMAIN queue /\ i + 1 # 1
    BY <1>1, <1>2, <1>3, <2>1
  <2> QED
    BY <1>1, <2>2 DEF Queued
<1>6. ASSUME NEW f, Queued(f), f # Head(queue).fd PROVE Queued(f)'
  <2>1. PICK i \in 1..Len(queue) : queue[i].fd = f
    BY <1>1, <1>6 DEF Queued
  <2>2. i - 1 \in 1..(Len(queue) - 1) /\ (i - 1) + 1 = i
    BY <1>1, <1>6, <2>1
  <2> QED
    BY <1>2, <2>1, <2>2 DEF Queued
<1>7. 1 \in DOMAIN queue /\ Queued(Head(queue).fd)
  BY <1>1 DEF Queued
<1>8. \A i \in DOMAIN queue' : \E k \in DOMAIN queue : queue'[i] = queue[k]
  BY <1>1, <1>2, <1>3
<1> QED
  BY <1>1, <1>4, <1>5, <1>6, <1>7, <1>8

\* The queue keeps its order and grows by the job.
LEMMA QueueTail ==
    ASSUME queue \in Seq(QueuedJob), NEW q \in QueuedJob, queue' = Append(queue, q),
           ~Queued(q.fd), OnceQueued
    PROVE  /\ OnceQueued'
           /\ \A g : Queued(g)' <=> Queued(g) \/ g = q.fd
           /\ \A i \in DOMAIN queue' :
                 queue'[i] = q \/ \E k \in DOMAIN queue : queue'[i] = queue[k]
<1> USE DEF OnceQueued
<1>1. DOMAIN queue = 1..Len(queue) /\ Len(queue) \in Nat
  OBVIOUS
<1>2. /\ queue' \in Seq(QueuedJob) /\ Len(queue') = Len(queue) + 1
      /\ DOMAIN queue' = 1..(Len(queue) + 1)
      /\ \A i \in 1..Len(queue) : queue'[i] = queue[i]
      /\ queue'[Len(queue) + 1] = q
  BY AppendProperties
<1>3. \A i \in 1..(Len(queue) + 1) : i \in 1..Len(queue) \/ i = Len(queue) + 1
  BY <1>1
<1>4. \A i \in 1..Len(queue) : i \in 1..(Len(queue) + 1) /\ queue[i].fd # q.fd
  BY <1>1 DEF Queued
<1>5. OnceQueued'
  BY <1>1, <1>2, <1>3, <1>4
<1>6. ASSUME NEW g PROVE Queued(g)' <=> Queued(g) \/ g = q.fd
  <2>1. Len(queue) + 1 \in DOMAIN queue'
    BY <1>1, <1>2
  <2> QED
    BY <1>1, <1>2, <1>3, <1>4, <2>1 DEF Queued
<1>7. \A i \in DOMAIN queue' : queue'[i] = q \/ \E k \in DOMAIN queue : queue'[i] = queue[k]
  BY <1>1, <1>2, <1>3
<1> QED
  BY <1>5, <1>6, <1>7

\* Clients move from the queue to a worker, to armed and back to a worker; tree and
\* interest change together, and no client is closed.
LEMMA StayNext ==
    ASSUME EventAssumption, Staying, ShapeInv, StayInv, [Next]_vars
    PROVE  StayInv'
<1> USE DEF StayInv
<1>0. /\ conn \in [FDs -> Conns \cup {None}] /\ None \notin Conns
      /\ known \subseteq FDs /\ armed \subseteq FDs /\ queue \in Seq(QueuedJob)
      /\ interest \in [Conns -> SUBSET Keys] /\ used \subseteq Conns
      /\ \A w \in Workers : job[w] # None => job[w].fd \in FDs
  BY AtWork DEF EventAssumption, ShapeInv, TablesTyped
<1>c. ConnInv'
  BY ConnNext
<1>t. ASSUME UNCHANGED <<conn, used, regs, interest>> PROVE TreeInv'
  BY <1>t DEF TreeInv
<1>1. CASE UNCHANGED vars
  BY <1>1, <1>c, <1>t DEF vars, PlaceInv, OnceQueued, NewQueued, WorkInv, Queued, Serves
<1>2. ASSUME NEW c \in Conns, NEW f \in FDs, Connect(c, f) PROVE StayInv'
  <2>1. /\ c \notin used /\ conn[f] = None /\ conn' = [conn EXCEPT ![f] = c] /\ used' = used \cup {c}
        /\ queue' = Append(queue, [fd |-> f, at |-> "new"])
        /\ UNCHANGED <<left, armed, pclose, known, regs, job, interest>>
    BY <1>2 DEF Connect
  <2>2. ~Queued(f) /\ f \notin known /\ f \notin armed
    BY <2>1 DEF PlaceInv
  <2>3. \A w \in Workers : job[w] # None => job[w].fd # f
    BY <2>1 DEF WorkInv
  <2>4. \A g \in FDs : conn'[g] = IF g = f THEN c ELSE conn[g]
    BY <1>0, <2>1
  <2>q. [fd |-> f, at |-> "new"] \in QueuedJob
    BY DEF QueuedJob
  <2>5. /\ OnceQueued' /\ \A g : Queued(g)' <=> Queued(g) \/ g = f
        /\ \A i \in DOMAIN queue' : \/ queue'[i] = [fd |-> f, at |-> "new"]
                                   \/ \E k \in DOMAIN queue : queue'[i] = queue[k]
    BY <1>0, <2>1, <2>2, <2>q, QueueTail DEF PlaceInv
  <2>n. NewQueued'
    BY <2>1, <2>2, <2>5 DEF PlaceInv, NewQueued
  <2>6. PlaceInv'
    <3>1. /\ (\A g \in FDs : Queued(g) => conn[g] # None /\ g \notin armed)'
          /\ (\A g \in FDs : g \in known => conn[g] # None)'
      BY <1>0, <2>1, <2>2, <2>4, <2>5 DEF PlaceInv
    <3>2. (\A w \in Workers, g \in FDs : Serves(w, g) => g \notin armed /\ ~Queued(g))'
      BY <2>1, <2>3, <2>5 DEF PlaceInv, Serves
    <3> QED
      BY <2>1, <2>5, <2>n, <3>1, <3>2 DEF PlaceInv
  <2>7. WorkInv'
    BY <1>0, <2>1, <2>3, <2>4 DEF WorkInv
  <2>8. TreeInv'
    BY <1>0, <2>1, <2>4 DEF TreeInv, ConnInv
  <2> QED
    BY <1>c, <2>6, <2>7, <2>8
<1>3. ASSUME NEW c \in Conns, ReadPiece(c) PROVE StayInv'
  BY <1>3, <1>c, <1>t DEF ReadPiece, PlaceInv, OnceQueued, NewQueued, WorkInv, Queued, Serves
<1>4. ASSUME NEW c \in Conns, Disconnect(c) PROVE StayInv'
  BY <1>4 DEF Disconnect, Staying
<1>5. CASE CloseLoop
  BY <1>5 DEF CloseLoop, PlaceInv
<1>6. ASSUME NEW w \in Workers, Start(w) PROVE StayInv'
  <2> DEFINE f == Head(queue).fd
             place == Head(queue).at
  <2>1. queue # <<>> /\ queue' = Tail(queue) /\ job' = [job EXCEPT ![w] = NewJob(f, place)]
        /\ UNCHANGED <<conn, used, left, armed, pclose, known, regs, interest>>
    BY <1>6 DEF Start
  <2>2. /\ f \in FDs /\ place \in {"new", "data"} /\ Queued(f)
        /\ OnceQueued' /\ \A g : Queued(g)' <=> Queued(g) /\ g # f
        /\ \A i \in DOMAIN queue' : \E k \in DOMAIN queue : queue'[i] = queue[k]
        /\ place = "new" <=> f \notin known
    BY <1>0, <2>1, QueueHead DEF PlaceInv, NewQueued, QueuedJob
  <2> HIDE DEF f, place
  <2>3. /\ conn[f] # None /\ f \notin armed
        /\ \A v \in Workers : job[v] # None => job[v].fd # f
    BY <2>2 DEF PlaceInv, Serves
  <2>4. /\ job'[w].fd = f /\ job'[w].conn = conn[f] /\ \A v \in Workers \ {w} : job'[v] = job[v]
        /\ job'[w].at \in {"new", "data"} /\ (job'[w].at = "new" <=> f \notin known)
    BY <2>1, <2>2, StartCases
  <2>5. PlaceInv'
    <3>1. NewQueued' /\ (\A g \in FDs : Queued(g) => conn[g] # None /\ g \notin armed)'
      BY <2>1, <2>2 DEF PlaceInv, NewQueued
    <3>2. (\A w1 \in Workers, g \in FDs : Serves(w1, g) => g \notin armed /\ ~Queued(g))'
      BY <2>1, <2>2, <2>3, <2>4 DEF PlaceInv, Serves
    <3>3. (\A v1, w1 \in Workers : job[v1] # None /\ job[w1] # None /\ job[v1].fd = job[w1].fd
                                   => v1 = w1)'
      BY <2>3, <2>4 DEF PlaceInv
    <3> QED
      BY <2>1, <2>2, <3>1, <3>2, <3>3 DEF PlaceInv
  <2>6. WorkInv'
    BY <2>1, <2>3, <2>4 DEF WorkInv
  <2> QED
    BY <1>c, <1>t, <2>1, <2>5, <2>6
<1>7. ASSUME NEW f \in FDs, QueueData(f) PROVE StayInv'
  <2>1. /\ f \in armed /\ conn[f] # None /\ armed' = armed \ {f}
        /\ queue' = Append(queue, [fd |-> f, at |-> "data"])
        /\ UNCHANGED <<conn, used, left, pclose, known, regs, job, interest>>
    BY <1>7 DEF QueueData, HasInput
  <2>2. f \in known /\ ~Queued(f) /\ \A v \in Workers : job[v] # None => job[v].fd # f
    BY <2>1 DEF PlaceInv, Serves
  <2>3. [fd |-> f, at |-> "data"] \in QueuedJob
    BY DEF QueuedJob
  <2>4. /\ OnceQueued' /\ \A g : Queued(g)' <=> Queued(g) \/ g = f
        /\ \A i \in DOMAIN queue' : \/ queue'[i] = [fd |-> f, at |-> "data"]
                                   \/ \E k \in DOMAIN queue : queue'[i] = queue[k]
    BY <1>0, <2>1, <2>2, <2>3, QueueTail DEF PlaceInv
  <2>5. PlaceInv'
    <3>1. NewQueued' /\ (\A g \in FDs : Queued(g) => conn[g] # None /\ g \notin armed)'
      BY <2>1, <2>2, <2>4 DEF PlaceInv, NewQueued
    <3>2. (\A w \in Workers, g \in FDs : Serves(w, g) => g \notin armed /\ ~Queued(g))'
      BY <2>1, <2>2, <2>4 DEF PlaceInv, Serves
    <3> QED
      BY <2>1, <2>4, <3>1, <3>2 DEF PlaceInv
  <2>6. WorkInv'
    BY <2>1 DEF WorkInv
  <2> QED
    BY <1>c, <1>t, <2>1, <2>5, <2>6
<1>8. ASSUME NEW w \in Workers, Return(w) PROVE StayInv'
  <2> DEFINE f == job[w].fd
  <2>1. /\ job[w] # None /\ job[w].at = "return" /\ armed' \in {armed, armed \cup {f}}
        /\ UNCHANGED <<conn, used, left, queue, pclose, known, regs, interest>>
    BY <1>8 DEF Return
  <2>2. job'[w] = None /\ \A v \in Workers \ {w} : job'[v] = job[v]
    BY <1>8, EndCases DEF Return
  <2>3. f \in FDs /\ f \in known
    BY <1>0, <2>1 DEF WorkInv
  <2>4. PlaceInv'
    <3>1. \A g : Queued(g)' <=> Queued(g)
      BY <2>1 DEF Queued
    <3>2. \A v \in Workers, g \in FDs : Serves(v, g)' => Serves(v, g) /\ g # f
      BY <2>1, <2>2 DEF Serves, PlaceInv
    <3>3. OnceQueued' /\ NewQueued'
      BY <2>1 DEF PlaceInv, OnceQueued, NewQueued
    <3>4. ~Queued(f)
      BY <2>1, <2>3 DEF PlaceInv, Serves
    <3> QED
      BY <2>1, <2>2, <2>3, <3>1, <3>2, <3>3, <3>4 DEF PlaceInv
  <2>5. WorkInv'
    BY <2>1, <2>2 DEF WorkInv
  <2> QED
    BY <1>c, <1>t, <2>1, <2>4, <2>5
<1>9. ASSUME NEW w \in Workers, Drop(w) PROVE StayInv'
  BY <1>9 DEF Drop, WorkInv
<1>10. ASSUME NEW w \in Workers, NewClient(w) PROVE StayInv'
  <2> DEFINE f == job[w].fd
  <2>1. job[w] # None /\ job[w].at = "new" /\ f \in FDs /\ f \notin known
    BY <1>0, <1>10 DEF NewClient, WorkInv
  <2>2. /\ known' = known \cup {f} /\ Goto(w, "return")
        /\ UNCHANGED <<conn, used, left, queue, armed, pclose, regs, interest>>
    BY <1>10, <2>1 DEF NewClient
  <2>3. /\ job'[w].fd = f /\ job'[w].conn = job[w].conn /\ job'[w].at = "return"
        /\ \A v \in Workers \ {w} : job'[v] = job[v]
    BY <2>1, <2>2, JobGoes DEF Same
  <2>4. \A v \in Workers \ {w} : job[v] # None => job[v].fd # f
    BY <2>1 DEF PlaceInv
  <2>5. conn[f] # None /\ ~Queued(f) /\ f \notin armed
    BY <2>1 DEF PlaceInv, WorkInv, Serves
  <2>6. PlaceInv'
    <3>1. \A g : Queued(g)' <=> Queued(g)
      BY <2>2 DEF Queued
    <3>2. \A v \in Workers, g \in FDs : Serves(v, g)' => Serves(v, g)
      BY <2>1, <2>3 DEF Serves
    <3>3. (\A v1, w1 \in Workers : job[v1] # None /\ job[w1] # None /\ job[v1].fd = job[w1].fd
                                   => v1 = w1)'
      BY <2>1, <2>3 DEF PlaceInv
    <3>4. OnceQueued' /\ NewQueued'
      BY <2>2, <2>5 DEF PlaceInv, OnceQueued, NewQueued, Queued
    <3> QED
      BY <2>2, <2>5, <3>1, <3>2, <3>3, <3>4 DEF PlaceInv
  <2>7. WorkInv'
    BY <2>1, <2>2, <2>3, <2>4 DEF WorkInv
  <2> QED
    BY <1>c, <1>t, <2>2, <2>6, <2>7
<1>11. ASSUME NEW w \in Workers, Receive(w) PROVE StayInv'
  <2>1. job[w] # None /\ job[w].at = "data" /\ job'[w] # None
        /\ job'[w].fd = job[w].fd /\ \A v \in Workers \ {w} : job'[v] = job[v]
    BY <1>11, ReceiveCases DEF Receive
  <2>2. job[w].fd \in known /\ conn[job[w].fd] # None /\ left = {}
    BY <1>0, <2>1 DEF WorkInv, PlaceInv
  <2>3. ~UNCHANGED pos
    <3>1. ~(Goto(w, "gone") /\ (job[w].fd \notin known \/ conn[job[w].fd] = None
                                \/ conn[job[w].fd] \in left))
      BY <2>2
    <3> DEFINE c == conn[job[w].fd]
    <3>2. pos[c] < Len(Script[c]) /\ pos' = [pos EXCEPT ![c] = pos[c] + 1]
      BY <1>11, <3>1 DEF Receive
    <3>3. c \in Conns /\ pos \in [Conns -> Nat]
      BY <1>0, <2>1, <2>2 DEF ShapeInv, TablesTyped
    <3> QED
      BY <3>2, <3>3
  <2>4. /\ job'[w].at \in {"register", "deregister", "publish"}
        /\ job'[w].conn = job[w].conn
    <3>1. job[w].conn = conn[job[w].fd]
      BY <2>1 DEF WorkInv
    <3>2. CASE \E c \in Conns : c = conn[job[w].fd] /\ job'[w].conn = c
                               /\ job'[w].at = job'[w].req.op /\ job'[w].req \in Request
      BY <3>1, <3>2, Requests
    <3> QED
      BY <1>11, <2>3, <3>2, ReceiveCases
  <2>5. PlaceInv' /\ WorkInv'
    BY <1>11, <2>1, <2>4, StayMoves DEF Receive
  <2> QED
    BY <1>11, <1>c, <1>t, <2>5 DEF Receive
<1>12. ASSUME NEW w \in Workers, DelClient(w) PROVE StayInv'
  BY <1>12 DEF DelClient, WorkInv
<1>b. ASSUME NEW w \in Workers, job[w] # None, job[w].at # "new", Goto(w, "return"),
             UNCHANGED <<conn, left, queue, armed, pclose, known>>
      PROVE  PlaceInv' /\ WorkInv'
  <2>1. /\ job'[w].fd = job[w].fd /\ job'[w].conn = job[w].conn /\ job'[w].at = "return"
        /\ job'[w] # None /\ \A v \in Workers \ {w} : job'[v] = job[v]
    BY <1>b, JobGoes DEF Same
  <2> QED
    BY <1>b, <2>1, StayMoves
<1>13. ASSUME NEW w \in Workers, Register(w) \/ Deregister(w) PROVE StayInv'
  <2> DEFINE f == job[w].fd
             c == conn[f]
             k == job[w].req.key
  <2>1. PICK K : /\ Interested(w, K)
                 /\ \/ K = interest[c] \cup {k} /\ regs' = regs \cup {<<k, f>>}
                    \/ K = interest[c] \ {k} /\ regs' = regs \ {<<k, f>>}
    BY <1>13 DEF Register, Deregister, WorkInv
  <2>2. f \in FDs /\ c \in Conns /\ c # None /\ c \in used /\ k \in Keys /\ job[w].conn = c
    BY <1>0, <1>13, AtWork DEF Register, Deregister, WorkInv, ConnInv
  <2>3. \A d \in Conns : interest'[d] = IF d = c THEN K ELSE interest[d]
    BY <2>1, <2>2 DEF Interested
  <2>4. UNCHANGED <<conn, used>>
    BY <1>13 DEF Register, Deregister
  <2>5. \A g \in FDs : conn[g] = c => g = f
    BY <2>2 DEF ConnInv
  <2> HIDE DEF f, k
  <2>6. \A x, g : <<x, g>> = <<k, f>> <=> x = k /\ g = f
    OBVIOUS
  <2>7. ASSUME NEW x \in Keys, NEW g \in FDs
        PROVE  <<x, g>> \in regs' <=> conn[g] # None /\ x \in interest'[conn[g]]
    <3>1. <<x, g>> \in regs <=> conn[g] # None /\ x \in interest[conn[g]]
      BY DEF TreeInv
    <3>2. CASE g = f
      <4>1. interest'[conn[g]] = K /\ conn[g] = c
        BY <2>2, <2>3, <3>2
      <4> QED
        BY <2>1, <2>2, <2>6, <3>1, <3>2, <4>1
    <3>3. CASE g # f
      <4>1. conn[g] # None => interest'[conn[g]] = interest[conn[g]]
        BY <1>0, <2>3, <2>5, <3>3
      <4>2. <<x, g>> \in regs' <=> <<x, g>> \in regs
        BY <2>1, <2>6, <3>3
      <4> QED
        BY <3>1, <4>1, <4>2
    <3> QED
      BY <3>2, <3>3
  <2>8. TreeInv'
    <3>1. \A d \in Conns \ used' : interest'[d] = {}
      BY <2>2, <2>3, <2>4 DEF TreeInv
    <3> QED
      BY <2>4, <2>7, <3>1 DEF TreeInv
  <2>9. PlaceInv' /\ WorkInv'
    BY <1>13, <1>b DEF Register, Deregister
  <2> QED
    BY <1>c, <2>8, <2>9
<1>14. ASSUME NEW w \in Workers, Send(w) PROVE StayInv'
  <2>1. PICK f \in FDs, c \in Conns, n \in 1..2 : Sends(w, f, c, n)
    BY <1>14, SendCases
  <2>2. /\ Same(job'[w], job[w]) /\ job'[w].at = "publish" /\ job[w].at = "publish" /\ job[w] # None
        /\ \A v \in Workers \ {w} : job'[v] = job[v]
    BY <1>14, <2>1, AfterSend DEF Send, Publishing
  <2>3. job'[w] # None
    BY <2>2 DEF Same, EventAssumption
  <2>4. PlaceInv' /\ WorkInv'
    BY <1>14, <2>2, <2>3, StayMoves DEF Send, Same
  <2> QED
    BY <1>14, <1>c, <1>t, <2>4 DEF Send
<1>15. ASSUME NEW w \in Workers, SendFails(w) PROVE StayInv'
  BY <1>15, NoFailure
<1>16. ASSUME NEW w \in Workers, PublishDone(w) PROVE StayInv'
  BY <1>16, <1>b, <1>c, <1>t DEF PublishDone, Publishing
<1> QED
  BY <1>1, <1>2, <1>3, <1>4, <1>5, <1>6, <1>7, <1>8, <1>9, <1>10, <1>11, <1>12, <1>13,
     <1>14, <1>15, <1>16 DEF Next, JobStep

\* The end of an event was sent to a connection.
HasTail(c, e) == \E i \in DOMAIN wire[c] : wire[c][i] = TailOf(e)

\* A publish has sent all of its event to the clients it has been through.
DoneInv ==
    \A w \in Workers : job[w] # None =>
        /\ job[w].at \in {"new", "data"} => job[w].done = {} /\ job[w].todo = 2
        /\ job[w].at = "publish" =>
              \A f \in job[w].done : conn[f] # None /\ HasTail(conn[f], job[w].req.event)

\* A write that is complete ends with the end of the event; none takes back what
\* was written.
LEMMA SendKeeps ==
    ASSUME EventAssumption, ShapeInv, NEW w \in Workers, job[w] # None, job[w].at = "publish",
           NEW f \in FDs, NEW c \in Conns, NEW n \in 1..2, Sends(w, f, c, n)
    PROVE  /\ \A d \in Conns : \A x : HasTail(d, x) => HasTail(d, x)'
           /\ \A x : n = job[w].todo /\ x = job[w].req.event => HasTail(c, x)'
<1>1. /\ job[w].todo \in 1..2 /\ job[w].req.event \in Events /\ wire[c] \in Seq(Piece)
      /\ n \in 1..job[w].todo
  BY AtWork DEF Sends, ShapeInv, TablesTyped
<1> DEFINE l == Len(wire[c])
           e == job[w].req.event
           todo == job[w].todo
           q == Wrote(wire[c], e, todo, n)
<1> HIDE DEF e, todo
<1>2. /\ q \in Seq(Piece) /\ Len(q) = l + n
      /\ \A i \in 1..l : q[i] = wire[c][i]
      /\ n = 2 => q[l + 2] = TailOf(e)
      /\ todo = 1 => q[l + 1] = TailOf(e)
  <2>1. e \in Events /\ todo \in 1..2 /\ n \in 1..todo /\ wire[c] \in Seq(Piece)
    BY <1>1 DEF e, todo
  <2> QED
    BY <2>1, Written
<1> USE DEF e, todo
<1>3. wire'[c] = q /\ \A d \in Conns \ {c} : wire'[d] = wire[d]
  BY AfterSend
<1>4. DOMAIN wire[c] = 1..l /\ l \in Nat
  BY <1>1
<1> HIDE DEF q, l
<1>5. DOMAIN q = 1..(l + n)
  BY <1>2
<1>6. ASSUME NEW d \in Conns, NEW x, HasTail(d, x) PROVE HasTail(d, x)'
  <2>1. CASE d # c
    BY <1>3, <1>6, <2>1 DEF HasTail
  <2>2. CASE d = c
    <3>1. PICK i \in 1..l : wire[c][i] = TailOf(x)
      BY <1>4, <1>6, <2>2 DEF HasTail
    <3>2. i \in 1..(l + n) /\ q[i] = TailOf(x)
      BY <1>2, <1>4, <3>1
    <3> QED
      BY <1>3, <1>5, <2>2, <3>2 DEF HasTail
  <2> QED
    BY <2>1, <2>2
<1>7. ASSUME NEW x, n = job[w].todo, x = job[w].req.event PROVE HasTail(c, x)'
  <2>1. l + n \in 1..(l + n) /\ (n = 1 \/ n = 2)
    BY <1>4
  <2>2. q[l + n] = TailOf(x)
    BY <1>2, <1>7, <2>1
  <2> QED
    BY <1>3, <1>5, <2>1, <2>2 DEF HasTail
<1> QED
  BY <1>6, <1>7

\* A descriptor joins done when the last piece is written to its connection, and
\* connections lose nothing.
LEMMA DoneNext ==
    ASSUME EventAssumption, Staying, ShapeInv, StayInv, DoneInv, [Next]_vars
    PROVE  DoneInv'
<1> DEFINE Fixed == \A f \in FDs : conn[f] # None => conn'[f] = conn[f]
           Grown == \A d \in Conns : \A x : HasTail(d, x) => HasTail(d, x)'
           Stays(w) == job'[w] = job[w]
           Sent(w) == \A f \in job'[w].done : conn'[f] # None
                          /\ \E i \in DOMAIN wire'[conn'[f]] :
                                wire'[conn'[f]][i] = TailOf(job'[w].req.event)
           Good(w) == /\ job'[w].at \in {"new", "data"} => job'[w].done = {} /\ job'[w].todo = 2
                      /\ job'[w].at = "publish" => Sent(w)
<1>0. /\ conn \in [FDs -> Conns \cup {None}] /\ None \notin Conns
      /\ job \in [Workers -> JobType \cup {None}]
      /\ \A w \in Workers : job[w] # None => job[w].done \subseteq FDs
  BY AtWork DEF EventAssumption, ShapeInv, TablesTyped, JobsTyped
<1>1. SUFFICES ASSUME NEW w \in Workers, job'[w] # None PROVE Good(w)
  BY DEF DoneInv, HasTail
<1>2. Fixed
  <2>1. CASE UNCHANGED conn
    BY <2>1
  <2>2. CASE CloseLoop
    BY <2>2 DEF CloseLoop, StayInv, PlaceInv
  <2>3. ASSUME NEW c \in Conns, NEW f \in FDs, Connect(c, f) PROVE Fixed
    BY <1>0, <2>3 DEF Connect
  <2> QED
    BY <2>1, <2>2, <2>3 DEF Next, JobStep, vars, ReadPiece, Disconnect, Start, QueueData,
       Return, Drop, NewClient, Receive, DelClient, Register, Deregister, Send, SendFails,
       PublishDone
<1>3. Grown
  <2>1. CASE UNCHANGED wire
    BY <2>1 DEF HasTail
  <2>2. ASSUME NEW v \in Workers, Send(v) PROVE Grown
    <3>1. PICK f \in FDs, c \in Conns, n \in 1..2 : Sends(v, f, c, n)
      BY <2>2, SendCases
    <3> QED
      BY <2>2, <3>1, SendKeeps DEF Send, Publishing
  <2> QED
    BY <2>1, <2>2 DEF Next, JobStep, vars, ReadPiece, Disconnect, Start, QueueData, CloseLoop,
       Connect, Return, Drop, NewClient, Receive, DelClient, Register, Deregister, SendFails,
       PublishDone
<1>4. ASSUME NEW f \in FDs, conn[f] # None, NEW x, HasTail(conn[f], x)
      PROVE  conn'[f] # None /\ \E i \in DOMAIN wire'[conn'[f]] : wire'[conn'[f]][i] = TailOf(x)
  <2> PICK c \in Conns : c = conn[f]
    BY <1>0, <1>4
  <2>1. HasTail(c, x)' /\ conn'[f] = c
    BY <1>2, <1>3, <1>4
  <2> QED
    BY <1>4, <2>1 DEF HasTail
<1>5. ASSUME job[w] # None, job[w].at = "publish", NEW f \in job[w].done,
             job'[w].req = job[w].req
      PROVE  conn'[f] # None /\ \E i \in DOMAIN wire'[conn'[f]] :
                                   wire'[conn'[f]][i] = TailOf(job'[w].req.event)
  BY <1>0, <1>4, <1>5 DEF DoneInv
<1> HIDE DEF Sent
<1>6. ASSUME job[w] # None, job[w].at = "publish", job'[w].req = job[w].req,
             job'[w].done = job[w].done
      PROVE  Sent(w)
  BY <1>5, <1>6 DEF Sent
<1>7. CASE Stays(w)
  <2>1. job[w] # None /\ (job[w].at = "publish" => Sent(w))
    BY <1>1, <1>6, <1>7
  <2>2. job[w].at \in {"new", "data"} => job[w].done = {} /\ job[w].todo = 2
    BY <2>1 DEF DoneInv
  <2> QED
    BY <1>7, <2>1, <2>2
<1>8. ASSUME NEW f \in FDs, NEW place \in {"new", "data"},
             job' = [job EXCEPT ![w] = NewJob(f, place)]
      PROVE  Good(w)
  BY <1>0, <1>8 DEF NewJob
<1>9. CASE job'[w].at \in {"gone", "register", "deregister", "return", "drop"}
  BY <1>9
<1>10. CASE Receive(w)
  <2>1. job'[w].done = {} /\ job'[w].todo = 2
    BY <1>10, ReceiveCases DEF Receive, DoneInv
  <2> QED
    BY <2>1 DEF Sent
<1>11. CASE Send(w)
  <2>1. PICK f \in FDs, c \in Conns, n \in 1..2 : Sends(w, f, c, n)
    BY <1>11, SendCases
  <2>2. job[w] # None /\ job[w].at = "publish" /\ conn[f] = c
    BY <1>11, <2>1 DEF Send, Publishing, Sends
  <2>3. /\ job'[w].req = job[w].req /\ job'[w].at = "publish"
        /\ job'[w].done = job[w].done
           \/ (n = job[w].todo /\ job'[w].done = job[w].done \cup {f})
    BY <2>1, <2>2, AfterSend
  <2>4. CASE job'[w].done = job[w].done
    BY <1>6, <2>2, <2>3, <2>4
  <2>5. CASE n = job[w].todo /\ job'[w].done = job[w].done \cup {f}
    <3> PICK x : x = job[w].req.event
      OBVIOUS
    <3>1. HasTail(c, x)'
      BY <2>1, <2>2, <2>5, SendKeeps
    <3>2. conn'[f] = c /\ c # None
      BY <1>0, <1>2, <2>2
    <3>3. \E i \in DOMAIN wire'[conn'[f]] : wire'[conn'[f]][i] = TailOf(job'[w].req.event)
      BY <2>3, <3>1, <3>2 DEF HasTail
    <3> QED
      BY <1>5, <2>2, <2>3, <2>5, <3>2, <3>3 DEF Sent
  <2> QED
    BY <2>3, <2>4, <2>5
<1>12. CASE \E v \in Workers \ {w} : JobStep(v)
  <2> PICK v \in Workers \ {w} : JobStep(v)
    BY <1>12
  <2>1. CASE Send(v)
    <3>1. PICK f \in FDs, c \in Conns, n \in 1..2 : Sends(v, f, c, n)
      BY <2>1, SendCases
    <3> QED
      BY <1>7, <2>1, <3>1, AfterSend DEF Send, Publishing
  <2>2. CASE ~Send(v)
    <3>1. ~SendFails(v)
      BY NoFailure
    <3>2. job'[w] = job[w]
      BY <1>0, <2>2, <3>1 DEF JobStep, Start, QueueData, Return, Drop, NewClient, Receive,
         DelClient, Register, Deregister, PublishDone, Goto, ForgetClient
    <3> QED
      BY <1>7, <3>2
  <2> QED
    BY <2>1, <2>2
<1>13. CASE JobStep(w)
  <2>1. CASE Start(w)
    <3>1. Head(queue) \in QueuedJob
      BY <2>1 DEF Start, ShapeInv, TablesTyped
    <3> QED
      BY <1>8, <2>1, <3>1 DEF Start, QueuedJob
  <2>3. CASE Return(w) \/ Drop(w)
    BY <1>1, <2>3, EndCases DEF Return, Drop
  <2>4. CASE NewClient(w) \/ DelClient(w) \/ Register(w) \/ Deregister(w) \/ PublishDone(w)
    BY <1>9, <2>4, JobGoes DEF NewClient, DelClient, Register, Deregister, PublishDone, Publishing
  <2> QED
    BY <1>10, <1>11, <1>13, <2>1, <2>3, <2>4, NoFailure DEF JobStep
<1>14. CASE ~\E v \in Workers : JobStep(v)
  <2>1. job' = job
    BY <1>14 DEF Next, vars, CloseLoop, QueueData, ReadPiece, Disconnect, Connect
  <2> QED
    BY <1>7, <2>1
<1> QED
  BY <1>12, <1>13, <1>14

\* A publish that is over has been through every client that wants the event.
LEMMA AllCopied ==
    ASSUME EventAssumption, Staying, ShapeInv, StayInv, DoneInv
    PROVE  Copied
<1> SUFFICES ASSUME NEW w \in Workers, PublishDone(w), NEW f \in FDs, conn[f] # None,
                    Wants(conn[f], job[w].req.event)
             PROVE  HasTail(conn[f], job[w].req.event)
  BY DEF Copied, HasTail, TailOf
<1> DEFINE e == job[w].req.event
<1>1. job[w] # None /\ job[w].at = "publish" /\ e \in Events /\ Targets(w) = {}
  BY AtWork DEF PublishDone, Publishing
<1>2. PICK n \in 1..Len(KeyOf[e]) : SubSeq(KeyOf[e], 1, n) \in interest[conn[f]]
  BY DEF Wants
<1> DEFINE k == SubSeq(KeyOf[e], 1, n)
           S == {KeyOf[e][i] : i \in DOMAIN KeyOf[e]}
<1>3. KeyOf[e] \in Seq(S) /\ Len(KeyOf[e]) \in Nat /\ DOMAIN KeyOf[e] = 1..Len(KeyOf[e])
  BY <1>1 DEF EventAssumption
<1>4. Len(k) = n
  <2> HIDE DEF S
  <2>1. ASSUME NEW i \in 1..n PROVE KeyOf[e][i] \in S
    <3>1. i \in 1..Len(KeyOf[e])
      BY <1>2, <1>3
    <3> QED
      BY <1>3, <3>1, ElementOf
  <2>2. Len(k) = IF 1 <= n THEN n - 1 + 1 ELSE 0
    BY <1>2, <1>3, <2>1, SubSeqProperties
  <2> QED
    BY <1>2, <1>3, <2>2
<1>5. Covers(k, e)
  BY <1>2, <1>4 DEF Covers
<1>6. <<k, f>> \in regs
  <2>1. conn[f] \in Conns
    BY DEF ShapeInv, TablesTyped
  <2>2. k \in Keys
    BY <1>2, <2>1 DEF ShapeInv, TablesTyped
  <2> QED
    BY <1>2, <2>2 DEF StayInv, TreeInv
<1> HIDE DEF k
<1>7. f \in job[w].done
  <2>1. <<k, f>>[1] = k /\ <<k, f>>[2] = f
    OBVIOUS
  <2> QED
    BY <1>1, <1>5, <1>6, <2>1 DEF Targets
<1> QED
  BY <1>1, <1>7 DEF DoneInv

\* What begins on a connection is for a client that wants it.
LEMMA OnlyWanted ==
    ASSUME EventAssumption, Staying, ShapeInv, StayInv, Next
    PROVE  SentAsRegistered
<1> SUFFICES ASSUME NEW c \in Conns, wire'[c] # wire[c],
                    wire'[c][Len(wire[c]) + 1].part = "head"
             PROVE  Wants(c, wire'[c][Len(wire[c]) + 1].event)
  BY DEF SentAsRegistered
<1>1. PICK w \in Workers : Send(w)
  BY DEF Next, JobStep, CloseLoop, ReadPiece, Disconnect, Start, QueueData, Connect,
     Return, Drop, NewClient, Receive, DelClient, Register, Deregister, SendFails, PublishDone
<1>2. PICK f \in FDs, d \in Conns, n \in 1..2 : Sends(w, f, d, n)
  BY <1>1, SendCases
<1>3. job[w] # None /\ job[w].at = "publish" /\ f \in Targets(w) /\ conn[f] = d
  BY <1>1, <1>2 DEF Send, Publishing, Sends
<1>4. d = c
  BY <1>2, <1>3, AfterSend
<1> DEFINE e == job[w].req.event
           l == Len(wire[c])
<1>5. l + 1 \in DOMAIN wire'[c] /\ wire'[c][l + 1] \in {HeadOf(e), TailOf(e)}
  <2>1. job[w].todo \in 1..2 /\ e \in Events /\ wire[c] \in Seq(Piece) /\ n \in 1..job[w].todo
    BY <1>2, <1>3, AtWork DEF Sends, ShapeInv, TablesTyped
  <2> DEFINE q == Wrote(wire[c], e, job[w].todo, n)
  <2>2. wire'[c] = q
    BY <1>2, <1>3, <1>4, AfterSend
  <2>3. /\ q \in Seq(Piece) /\ Len(q) = l + n
        /\ job[w].todo = 2 => q[l + 1] = HeadOf(e)
        /\ job[w].todo = 1 => q[l + 1] = TailOf(e)
    BY <2>1, Written
  <2>4. l \in Nat
    BY <2>1
  <2> HIDE DEF q, l, e
  <2>5. l + 1 \in DOMAIN q
    BY <2>3, <2>4
  <2>6. job[w].todo = 1 \/ job[w].todo = 2
    BY <2>1
  <2> QED
    BY <2>2, <2>3, <2>5, <2>6
<1>6. wire'[c][l + 1].event = e
  BY <1>5 DEF HeadOf, TailOf
<1>7. PICK k \in Keys : k \in interest[conn[f]] /\ Covers(k, e)
  BY <1>3, NoFailure
<1> HIDE DEF e, l
<1>8. Wants(c, e)
  BY <1>3, <1>4, <1>7 DEF Wants, Covers
<1> QED
  BY <1>6, <1>8 DEF l

\* std_event_service.cpp:256, publish, with clients that stay connected and read:
\* when it is over, each of them that was registered all along has its copy, and
\* none was written to that was not registered, whatever registrations and other
\* publishes go on meanwhile.
THEOREM EveryCopy == ASSUME EventAssumption, Staying PROVE Spec => CopyToAll
<1>1. Spec => []ShapeInv
  BY ShapeInit, ShapeNext, PTL DEF Spec, SafetySpec
<1>2. Spec => []StayInv
  <2>1. Init => StayInv
    BY StayInit
  <2>2. ShapeInv /\ StayInv /\ [Next]_vars => StayInv'
    BY StayNext
  <2> QED
    BY <1>1, <2>1, <2>2, PTL DEF Spec, SafetySpec
<1>3. Spec => []DoneInv
  <2>1. Init => DoneInv
    BY DEF Init, DoneInv
  <2>2. ShapeInv /\ StayInv /\ DoneInv /\ [Next]_vars => DoneInv'
    BY DoneNext
  <2> QED
    BY <1>1, <1>2, <2>1, <2>2, PTL DEF Spec, SafetySpec
<1>4. ShapeInv /\ StayInv /\ DoneInv /\ [Next]_vars => [Copied]_vars
  BY AllCopied
<1> QED
  BY <1>1, <1>2, <1>3, <1>4, PTL DEF Spec, SafetySpec, CopyToAll

\* std_event_service.cpp:256, publish, with clients that stay connected and read:
\* an event begins on the connection of a client that is registered for it.
THEOREM NoOtherCopy == ASSUME EventAssumption, Staying PROVE Spec => OnlyRegistered
<1>1. Spec => []ShapeInv
  BY ShapeInit, ShapeNext, PTL DEF Spec, SafetySpec
<1>2. Spec => []StayInv
  <2>1. Init => StayInv
    BY StayInit
  <2>2. ShapeInv /\ StayInv /\ [Next]_vars => StayInv'
    BY StayNext
  <2> QED
    BY <1>1, <2>1, <2>2, PTL DEF Spec, SafetySpec
<1>3. ShapeInv /\ StayInv /\ [Next]_vars => [SentAsRegistered]_vars
  BY OnlyWanted
<1> QED
  BY <1>1, <1>2, <1>3, PTL DEF Spec, SafetySpec, OnlyRegistered

(***************************************************************************)
(* And with one worker: events are whole.                                  *)
(***************************************************************************)

\* Jobs are carried out by one worker, one after the other.
Alone == \A v, w \in Workers : v = w

\* An event has begun on a connection and its end is still to be written.
Begun(c, e) ==
    \E w \in Workers : /\ Publishing(w) /\ job[w].todo = 1 /\ Targets(w) # {}
                       /\ conn[Target(w)] = c /\ job[w].req.event = e

\* The last piece on a connection.
Last(c) == wire[c][Len(wire[c])]

\* Exactly then is a beginning the last thing on the connection.
WholeInv ==
    /\ WholeEvents
    /\ \A c \in Conns : \A e : Begun(c, e) <=> Len(wire[c]) > 0 /\ Last(c) = HeadOf(e)
    /\ \A w \in Workers : Publishing(w) /\ job[w].todo = 1 => Targets(w) # {}

\* The next target of a publish that goes on is the same, and where it was.
LEMMA BegunSame ==
    ASSUME EventAssumption, Staying, ShapeInv, StayInv, WholeInv, wire' = wire,
           \A w \in Workers : \/ ~(Publishing(w) /\ job[w].todo = 1)
                                 /\ ~(Publishing(w) /\ job[w].todo = 1)'
                              \/ job'[w] = job[w] /\ UNCHANGED regs,
           \A f \in FDs : conn[f] # None => conn'[f] = conn[f]
    PROVE  WholeInv'
<1>1. ASSUME NEW w \in Workers, Publishing(w) /\ job[w].todo = 1, job'[w] = job[w], UNCHANGED regs
      PROVE  /\ Target(w)' = Target(w) /\ Targets(w)' = Targets(w)
             /\ conn'[Target(w)] = conn[Target(w)] /\ Publishing(w)'
  <2>1. Target(w)' = Target(w) /\ Targets(w)' = Targets(w)
    BY <1>1, TargetSame
  <2>2. job[w].req.event \in Events /\ Targets(w) # {}
    BY <1>1, AtWork DEF Publishing, WholeInv
  <2>3. Target(w) \in Targets(w)
    BY <2>2, TargetExists DEF ShapeInv, TablesTyped
  <2>4. Target(w) \in FDs /\ conn[Target(w)] # None
    BY <2>3, NoFailure DEF Targets, Reachable
  <2> QED
    BY <1>1, <2>1, <2>4 DEF Publishing
<1>2. ASSUME NEW w \in Workers, (Publishing(w) /\ job[w].todo = 1)'
      PROVE  Publishing(w) /\ job[w].todo = 1 /\ job'[w] = job[w] /\ UNCHANGED regs
  BY <1>2 DEF Publishing
<1>3. ASSUME NEW c, NEW e PROVE Begun(c, e)' <=> Begun(c, e)
  <2>1. ASSUME Begun(c, e) PROVE Begun(c, e)'
    <3>1. PICK w \in Workers : /\ Publishing(w) /\ job[w].todo = 1 /\ Targets(w) # {}
                               /\ conn[Target(w)] = c /\ job[w].req.event = e
      BY <2>1 DEF Begun
    <3>2. job'[w] = job[w] /\ UNCHANGED regs
      BY <3>1
    <3>3. /\ Target(w)' = Target(w) /\ Targets(w)' = Targets(w)
          /\ conn'[Target(w)] = conn[Target(w)] /\ Publishing(w)'
      BY <1>1, <3>1, <3>2
    <3> QED
      BY <3>1, <3>2, <3>3 DEF Begun
  <2>2. ASSUME Begun(c, e)' PROVE Begun(c, e)
    <3>1. PICK w \in Workers : (/\ Publishing(w) /\ job[w].todo = 1 /\ Targets(w) # {}
                                /\ conn[Target(w)] = c /\ job[w].req.event = e)'
      BY <2>2 DEF Begun
    <3>2. Publishing(w) /\ job[w].todo = 1 /\ job'[w] = job[w] /\ UNCHANGED regs
      BY <1>2, <3>1
    <3>3. /\ Target(w)' = Target(w) /\ Targets(w)' = Targets(w)
          /\ conn'[Target(w)] = conn[Target(w)] /\ Publishing(w)'
      BY <1>1, <3>2
    <3> QED
      BY <3>1, <3>2, <3>3 DEF Begun
  <2> QED
    BY <2>1, <2>2
<1>4. \A w \in Workers : (Publishing(w) /\ job[w].todo = 1)' => (Targets(w) # {})'
  <2> SUFFICES ASSUME NEW w \in Workers, (Publishing(w) /\ job[w].todo = 1)'
               PROVE  (Targets(w) # {})'
    OBVIOUS
  <2>1. Publishing(w) /\ job[w].todo = 1 /\ job'[w] = job[w] /\ UNCHANGED regs
    BY <1>2
  <2>2. Targets(w)' = Targets(w)
    BY <1>1, <2>1
  <2> QED
    BY <2>1, <2>2 DEF WholeInv
<1>5. WholeEvents'
  BY DEF WholeInv, WholeEvents
<1>6. \A c, e : Len(wire'[c]) > 0 /\ Last(c)' = HeadOf(e) <=> Len(wire[c]) > 0 /\ Last(c) = HeadOf(e)
  BY DEF Last
<1> QED
  BY <1>3, <1>4, <1>5, <1>6 DEF WholeInv, HeadOf

\* A write keeps the pieces of an event together.
LEMMA WholeSend ==
    ASSUME EventAssumption, Alone, ShapeInv, WholeInv, NEW w \in Workers, Send(w)
    PROVE  WholeInv'
<1> PICK e : e = job[w].req.event
  OBVIOUS
<1>1. PICK f \in FDs, c \in Conns, n \in 1..2 : Sends(w, f, c, n)
  BY SendCases
<1>2. /\ job[w] # None /\ job[w].at = "publish" /\ Publishing(w) /\ job[w].todo \in 1..2
      /\ e \in Events /\ UNCHANGED <<conn, regs>>
  BY AtWork DEF Send, Publishing
<1>3. f = Target(w) /\ f \in Targets(w) /\ conn[f] = c /\ n <= job[w].todo
  BY <1>1 DEF Sends
<1> DEFINE l == Len(wire[c])
           q == Wrote(wire[c], e, job[w].todo, n)
<1>4. wire'[c] = q /\ \A d \in Conns \ {c} : wire'[d] = wire[d]
  BY <1>1, <1>2, AfterSend
<1>5. job'[w] # None /\ job'[w].at = "publish" /\ job'[w].req = job[w].req
  <2>1. Same(job'[w], job[w]) /\ job'[w].at = "publish" /\ job'[w].req = job[w].req
    BY <1>1, <1>2, AfterSend
  <2> QED
    BY <2>1 DEF Same, EventAssumption
<1>6. /\ n = job[w].todo => job'[w].todo = 2
      /\ n # job[w].todo => job'[w].todo = job[w].todo - n /\ job'[w].done = job[w].done
  BY <1>1, <1>2, AfterSend
<1>7. wire[c] \in Seq(Piece) /\ l \in Nat /\ n \in 1..job[w].todo /\ DOMAIN wire[c] = 1..l
  <2>1. wire[c] \in Seq(Piece)
    BY DEF ShapeInv, TablesTyped
  <2> QED
    BY <1>2, <1>3, <2>1
<1>8. /\ q \in Seq(Piece) /\ Len(q) = l + n
      /\ \A i \in 1..l : q[i] = wire[c][i]
      /\ job[w].todo = 2 => q[l + 1] = HeadOf(e)
      /\ n = 2 => q[l + 2] = TailOf(e)
      /\ job[w].todo = 1 => q[l + 1] = TailOf(e)
  BY <1>2, <1>7, Written
<1> HIDE DEF q
<1>9. DOMAIN q = 1..(l + n)
  BY <1>8
<1>10. /\ HeadOf(e).part = "head" /\ TailOf(e).part = "tail" /\ HeadOf(e) # TailOf(e)
       /\ [TailOf(e) EXCEPT !.part = "head"] = HeadOf(e)
       /\ \A x : HeadOf(x) = HeadOf(e) <=> x = e
       /\ \A x : HeadOf(x) # TailOf(e)
  BY DEF HeadOf, TailOf
<1>11. job[w].todo = 1 => l > 0 /\ wire[c][l] = HeadOf(e)
  <2>1. job[w].todo = 1 => Begun(c, e)
    BY <1>2, <1>3 DEF Begun
  <2> QED
    BY <2>1 DEF WholeInv, Last
<1>12. job[w].todo = 2 /\ l > 0 => wire[c][l].part = "tail"
  <2> SUFFICES ASSUME job[w].todo = 2, l > 0, wire[c][l].part # "tail" PROVE FALSE
    OBVIOUS
  <2>1. wire[c][l] \in Piece
    BY <1>7
  <2>2. PICK x : wire[c][l] = HeadOf(x)
    BY <2>1 DEF Piece, HeadOf
  <2>3. Begun(c, x)
    BY <2>2 DEF WholeInv, Last
  <2> QED
    BY <2>3 DEF Begun, Alone
<1>13. WholeEvents'
  <2> DEFINE Fits(i) == IF wire'[c][i].part = "tail"
                        THEN i > 1 /\ wire'[c][i - 1] = [wire'[c][i] EXCEPT !.part = "head"]
                        ELSE i > 1 => wire'[c][i - 1].part = "tail"
  <2>1. ASSUME NEW i \in 1..l PROVE Fits(i)
    <3>1. IF wire[c][i].part = "tail"
          THEN i > 1 /\ wire[c][i - 1] = [wire[c][i] EXCEPT !.part = "head"]
          ELSE i > 1 => wire[c][i - 1].part = "tail"
      BY <1>7 DEF WholeInv, WholeEvents
    <3>2. wire'[c][i] = wire[c][i] /\ (i > 1 => wire'[c][i - 1] = wire[c][i - 1])
      <4>1. i > 1 => i - 1 \in 1..l
        BY <1>7
      <4> QED
        BY <1>4, <1>8, <4>1
    <3> QED
      BY <3>1, <3>2
  <2>2. Fits(l + 1)
    <3>1. (l + 1) - 1 = l /\ (l + 1 > 1 <=> l > 0) /\ (l > 0 => l \in 1..l)
      BY <1>7
    <3>2. l > 0 => wire'[c][l] = wire[c][l]
      BY <1>4, <1>8, <3>1
    <3>3. CASE job[w].todo = 1
      BY <1>4, <1>8, <1>10, <1>11, <3>1, <3>2, <3>3
    <3>4. CASE job[w].todo = 2
      BY <1>4, <1>8, <1>10, <1>12, <3>1, <3>2, <3>4
    <3> QED
      BY <1>2, <3>3, <3>4
  <2>3. n = 2 => Fits(l + 2)
    <3> SUFFICES ASSUME n = 2 PROVE Fits(l + 2)
      OBVIOUS
    <3>1. (l + 2) - 1 = l + 1 /\ l + 2 > 1 /\ job[w].todo = 2
      BY <1>2, <1>3, <1>7
    <3> QED
      BY <1>4, <1>8, <1>10, <3>1
  <2>4. \A i \in DOMAIN wire'[c] : i \in 1..l \/ i = l + 1 \/ (n = 2 /\ i = l + 2)
    BY <1>4, <1>7, <1>9
  <2> HIDE DEF Fits, l
  <2>5. \A i \in DOMAIN wire'[c] : Fits(i)
    BY <2>1, <2>2, <2>3, <2>4
  <2>6. \A d \in Conns \ {c} : wire'[d] = wire[d]
    BY <1>4
  <2> QED
    BY <2>5, <2>6 DEF Fits, WholeInv, WholeEvents
<1>14. CASE n # job[w].todo
  <2>1. job[w].todo = 2 /\ n = 1 /\ job'[w].todo = 1 /\ job'[w].done = job[w].done
    BY <1>2, <1>6, <1>7, <1>14
  <2>2. Target(w)' = f /\ Targets(w)' = Targets(w) /\ Publishing(w)'
    BY <1>2, <1>3, <1>5, <2>1, TargetSame DEF Publishing
  <2>3. ASSUME NEW d, NEW x PROVE Begun(d, x)' <=> d = c /\ x = e
    BY <1>2, <1>3, <1>5, <2>1, <2>2 DEF Begun, Alone
  <2>4. Len(wire'[c]) > 0 /\ Last(c)' = HeadOf(e)
    BY <1>4, <1>7, <1>8, <2>1 DEF Last
  <2>5. \A d \in Conns \ {c} : \A x : ~(Len(wire[d]) > 0 /\ Last(d) = HeadOf(x))
    <3>1. \A d, x : ~Begun(d, x)
      BY <2>1 DEF Begun, Alone
    <3> QED
      BY <3>1 DEF WholeInv
  <2>6. \A d \in Conns : \A x : Begun(d, x)' <=> Len(wire'[d]) > 0 /\ Last(d)' = HeadOf(x)
    <3>1. ASSUME NEW d \in Conns \ {c}, NEW x
          PROVE  ~(Len(wire'[d]) > 0 /\ Last(d)' = HeadOf(x))
      BY <1>4, <2>5 DEF Last
    <3> QED
      BY <1>10, <2>3, <2>4, <3>1
  <2>7. (\A v \in Workers : Publishing(v) /\ job[v].todo = 1 => Targets(v) # {})'
    BY <1>3, <2>2 DEF Alone
  <2> QED
    BY <1>13, <2>6, <2>7 DEF WholeInv, HeadOf
<1>15. CASE n = job[w].todo
  <2>1. job'[w].todo = 2
    BY <1>6, <1>15
  <2>2. \A d, x : ~Begun(d, x)'
    BY <2>1 DEF Begun, Alone
  <2>3. \A x : Last(c)' # HeadOf(x)
    <3>1. Len(wire'[c]) = l + n /\ wire'[c][l + n] = TailOf(e)
      BY <1>2, <1>4, <1>8, <1>15
    <3> QED
      BY <1>10, <3>1 DEF Last
  <2>4. ASSUME NEW d \in Conns \ {c}, NEW x PROVE ~(Len(wire'[d]) > 0 /\ Last(d)' = HeadOf(x))
    <3>1. ~Begun(d, x)
      BY <1>3 DEF Begun, Alone
    <3> QED
      BY <1>4, <3>1 DEF WholeInv, Last
  <2>5. (\A v \in Workers : Publishing(v) /\ job[v].todo = 1 => Targets(v) # {})'
    BY <2>1 DEF Alone
  <2> QED
    BY <1>13, <2>2, <2>3, <2>4, <2>5 DEF WholeInv, HeadOf
<1> QED
  BY <1>14, <1>15

\* Only the one publishing worker writes, and it goes on with the client it has
\* begun with.
LEMMA WholeNext ==
    ASSUME EventAssumption, Staying, Alone, ShapeInv, StayInv, DoneInv, WholeInv, [Next]_vars
    PROVE  WholeInv'
<1> DEFINE Writing(w) == Publishing(w) /\ job[w].todo = 1
           Fixed == \A f \in FDs : conn[f] # None => conn'[f] = conn[f]
<1>0. conn \in [FDs -> Conns \cup {None}]
  BY DEF ShapeInv, TablesTyped
<1>a. ASSUME wire' = wire, Fixed,
             \A w \in Workers : \/ ~Writing(w) /\ ~Writing(w)'
                                \/ job'[w] = job[w] /\ UNCHANGED regs
      PROVE  WholeInv'
  BY <1>a, BegunSame
<1>b. ASSUME wire' = wire, conn' = conn, NEW w \in Workers, ~Writing(w), ~Writing(w)'
      PROVE  WholeInv'
  <2>1. ASSUME NEW v \in Workers PROVE ~Writing(v) /\ ~Writing(v)'
    <3>1. v = w
      BY <1>b DEF Alone
    <3> QED
      BY <1>b, <3>1 DEF Publishing
  <2>2. Fixed
    BY <1>b
  <2> QED
    BY <1>a, <1>b, <2>1, <2>2
<1>1. CASE UNCHANGED vars
  BY <1>1, <1>a DEF vars
<1>2. ASSUME NEW c \in Conns, NEW f \in FDs, Connect(c, f) PROVE WholeInv'
  BY <1>0, <1>2, <1>a DEF Connect
<1>3. ASSUME NEW c \in Conns, ReadPiece(c) \/ Disconnect(c) PROVE WholeInv'
  BY <1>3, <1>a DEF ReadPiece, Disconnect
<1>4. CASE CloseLoop
  BY <1>4 DEF CloseLoop, StayInv, PlaceInv
<1>5. ASSUME NEW w \in Workers, Start(w) PROVE WholeInv'
  <2>1. Head(queue) \in QueuedJob
    BY <1>5 DEF Start, ShapeInv, TablesTyped
  <2>2. job'[w].at \in {"new", "data"} /\ \A v \in Workers \ {w} : job'[v] = job[v]
    BY <1>5, <2>1, StartCases DEF Start, QueuedJob
  <2> QED
    BY <1>5, <1>b, <2>2 DEF Start, Publishing
<1>6. ASSUME NEW f \in FDs, QueueData(f) PROVE WholeInv'
  BY <1>6, <1>a DEF QueueData
<1>7. ASSUME NEW w \in Workers, Return(w) \/ Drop(w) PROVE WholeInv'
  <2>1. job'[w] = None /\ job[w].at # "publish"
    BY <1>7, EndCases DEF Return, Drop
  <2> QED
    BY <1>7, <1>b, <2>1 DEF Return, Drop, Publishing
<1>c. ASSUME NEW w \in Workers, job[w] # None, ~Writing(w), NEW place \in {"gone", "return", "drop"},
             Goto(w, place), UNCHANGED <<conn, wire>>
      PROVE  WholeInv'
  <2>1. job'[w].at = place
    BY <1>c, JobGoes
  <2>2. ~Writing(w)'
    BY <2>1 DEF Publishing
  <2> QED
    BY <1>b, <1>c, <2>2
<1>8. ASSUME NEW w \in Workers, NewClient(w) PROVE WholeInv'
  BY <1>8, <1>c DEF NewClient, Publishing
<1>9. ASSUME NEW w \in Workers, Receive(w) PROVE WholeInv'
  <2>1. job'[w].todo = 2 /\ job[w].at = "data"
    BY <1>9, ReceiveCases DEF Receive, DoneInv
  <2>2. ~Writing(w) /\ ~Writing(w)'
    BY <2>1 DEF Publishing
  <2>3. wire' = wire /\ conn' = conn
    BY <1>9 DEF Receive
  <2> QED
    BY <1>b, <2>2, <2>3
<1>10. ASSUME NEW w \in Workers, DelClient(w) PROVE WholeInv'
  BY <1>10, <1>c DEF DelClient, Publishing
<1>11. ASSUME NEW w \in Workers, Register(w) \/ Deregister(w) PROVE WholeInv'
  BY <1>11, <1>c DEF Register, Deregister, Publishing
<1>12. ASSUME NEW w \in Workers, Send(w) PROVE WholeInv'
  BY <1>12, WholeSend
<1>13. ASSUME NEW w \in Workers, SendFails(w) PROVE WholeInv'
  BY <1>13, NoFailure
<1>14. ASSUME NEW w \in Workers, PublishDone(w) PROVE WholeInv'
  <2>1. job[w] # None /\ ~Writing(w)
    BY <1>14 DEF PublishDone, Publishing, WholeInv
  <2> QED
    BY <1>14, <1>c, <2>1 DEF PublishDone
<1> QED
  BY <1>1, <1>2, <1>3, <1>4, <1>5, <1>6, <1>7, <1>8, <1>9, <1>10, <1>11, <1>12, <1>13,
     <1>14 DEF Next, JobStep

\* std_event_util_event_send: with one worker beside the loop, and clients that
\* stay connected and read, what a client reads is a sequence of whole events,
\* however little room its connection has.
THEOREM WholeCopies == ASSUME EventAssumption, Staying, Alone PROVE Spec => []WholeEvents
<1>1. Spec => []ShapeInv
  BY ShapeInit, ShapeNext, PTL DEF Spec, SafetySpec
<1>2. Spec => []StayInv
  <2>1. Init => StayInv
    BY StayInit
  <2>2. ShapeInv /\ StayInv /\ [Next]_vars => StayInv'
    BY StayNext
  <2> QED
    BY <1>1, <2>1, <2>2, PTL DEF Spec, SafetySpec
<1>3. Spec => []DoneInv
  <2>1. Init => DoneInv
    BY DEF Init, DoneInv
  <2>2. ShapeInv /\ StayInv /\ DoneInv /\ [Next]_vars => DoneInv'
    BY DoneNext
  <2> QED
    BY <1>1, <1>2, <2>1, <2>2, PTL DEF Spec, SafetySpec
<1>4. Init => WholeInv
  <2> SUFFICES ASSUME Init PROVE WholeInv
    OBVIOUS
  <2>1. \A c \in Conns : wire[c] = <<>> /\ Len(wire[c]) = 0 /\ DOMAIN wire[c] = {}
    BY DEF Init
  <2>2. \A w \in Workers : ~Publishing(w)
    BY DEF Init, Publishing
  <2> QED
    BY <2>1, <2>2 DEF WholeInv, WholeEvents, Begun
<1>5. ShapeInv /\ StayInv /\ DoneInv /\ WholeInv /\ [Next]_vars => WholeInv'
  BY WholeNext
<1>6. WholeInv => WholeEvents
  BY DEF WholeInv
<1> QED
  BY <1>1, <1>2, <1>3, <1>4, <1>5, <1>6, PTL DEF Spec, SafetySpec
=============================================================================
