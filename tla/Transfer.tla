------------------------------ MODULE Transfer ------------------------------
(***************************************************************************)
(* A buffer vector written or read through a descriptor: the loops of      *)
(* std_socket_op (std_socket_tools.cpp), of std_read and std_write, and of *)
(* std_read_set and std_write_set (std_file_utils.c), which go on after a  *)
(* part was moved, after a signal, and after a wait for room or for data.  *)
(* The other end of the descriptor is the environment.                     *)
(***************************************************************************)
EXTENDS Integers, Sequences, SequencesExt

CONSTANTS
    Vectors,    \* buffer vectors: sequences of sequences of bytes
    Retries,    \* STD_MAX_EINTR
    Cap,        \* bytes the kernel buffers
    MaxWait,    \* the time_wait of calls that wait
    MaxSignals  \* bound: signals that interrupt the caller

VARIABLE t      \* a call and its descriptor, see Init

Message == FlattenSeq(t.call.vec)

Calls == [loop : {"socket", "file", "set"}, op : {"read", "write"}, all : BOOLEAN,
          nonblock : BOOLEAN, vec : Vectors, wait : {0, MaxWait}]

\* std_read and std_write take one buffer; only std_socket_op can ask that the
\* call does not block, and waits.
Legal(c) == /\ c.loop = "file" => Len(c.vec) = 1
            /\ c.loop # "socket" => ~c.nonblock
            /\ ~c.nonblock => c.wait = 0

Init == \E c \in Calls :
    /\ Legal(c)
    /\ t = [call |-> c,
            at |-> "io",            \* "io", "select" or "done"
            vec |-> SelectSeq(c.vec, LAMBDA b : b # <<>>),
                                    \* what _std_op_set has still to move
            total |-> 0,            \* bytes moved, as the caller counts
            retry |-> Retries,      \* fail_retry
            tv |-> c.wait,          \* time left to wait
            ret |-> 0, err |-> "unset",
            stream |-> <<>>,        \* bytes between the two ends
            moved |-> <<>>,         \* history: places of the buffers that were moved
            closed |-> FALSE,       \* the other end is closed
            signals |-> 0,
            waited |-> 0]           \* history: time spent in select

\* Mutant: a buffer that was moved in part is not cut.
fix_offset_Whole(v, offset) ==
    LET fix[ix \in 1..(Len(v) + 1), off \in 0..Len(FlattenSeq(v))] ==
          IF ix > Len(v) \/ off = 0 THEN SubSeq(v, ix, Len(v))
          ELSE IF off < Len(v[ix]) THEN SubSeq(v, ix, Len(v))
          ELSE fix[ix + 1, off - Len(v[ix])]
    IN  fix[1, offset]

fix_offset(v, offset) ==
    LET fix[ix \in 1..(Len(v) + 1), off \in 0..Len(FlattenSeq(v))] ==
          IF ix > Len(v) \/ off = 0 THEN SubSeq(v, ix, Len(v))
          ELSE IF off < Len(v[ix])
               THEN <<SubSeq(v[ix], off + 1, Len(v[ix]))>> \o SubSeq(v, ix + 1, Len(v))
          ELSE fix[ix + 1, off - Len(v[ix])]
    IN  fix[1, offset]

\* The while (rc>0) of _std_op_set; a buffer moved to its end stays, empty.
Advance(v, n) ==
    LET on[ix \in 1..(Len(v) + 1), rc \in 0..n] ==
          IF rc > Len(v[ix]) THEN on[ix + 1, rc - Len(v[ix])]
          ELSE <<SubSeq(v[ix], rc + 1, Len(v[ix]))>> \o SubSeq(v, ix + 1, Len(v))
    IN  on[1, n]

\* What the next system call is given.
Rest == CASE t.call.loop = "socket" -> fix_offset(t.call.vec, t.total)
          [] t.call.loop = "set" -> t.vec
          [] t.call.loop = "file" -> <<SubSeq(Message, t.total + 1, Len(Message))>>

Answer(u, r, e) == [u EXCEPT !.at = "done", !.ret = r, !.err = e]

AtIo == t.at = "io" /\ t.total # Len(Message)

\* total == len, or a set without buffers.
Finish == t.at = "io" /\ t.total = Len(Message) /\ t' = Answer(t, t.total, "ok")

\* The system call moves n bytes.  A byte stands for its place in the vector.
Move(n) ==
    LET places == SubSeq(FlattenSeq(Rest), 1, n)
        u == [t EXCEPT !.total = @ + n, !.moved = @ \o places, !.retry = Retries,
                       !.vec = IF t.call.loop = "set" /\ t.total + n < Len(Message)
                               THEN Advance(@, n) ELSE @,
                       !.stream = IF t.call.op = "write" THEN @ \o places
                                  ELSE SubSeq(@, n + 1, Len(@))]
    IN  /\ AtIo /\ n \in 1..Len(FlattenSeq(Rest))
        /\ IF t.call.op = "write" THEN ~t.closed /\ Len(t.stream) + n <= Cap
           ELSE n <= Len(t.stream)
        /\ t' = IF t.call.all THEN u ELSE Answer(u, u.total, "ok")

\* The system call is interrupted before it moved a byte.  fail_retry of
\* std_socket_op is unsigned, and never below zero.
Interrupted ==
    LET u == [t EXCEPT !.signals = @ + 1, !.retry = @ - 1]
    IN  /\ AtIo /\ t.signals < MaxSignals
        /\ t' = IF t.call.loop # "socket" /\ u.retry < 0 THEN Answer(u, -1, "interrupted") ELSE u

Stuck == ~t.closed /\ IF t.call.op = "write" THEN Len(t.stream) = Cap ELSE t.stream = <<>>

WouldBlock == AtIo /\ t.call.nonblock /\ Stuck /\ t' = [t EXCEPT !.at = "select"]

\* Mutant: each wait is for the whole time.
Ready_Anew(d) ==
    /\ t.at = "select" /\ ~Stuck /\ d <= t.tv /\ t.waited <= MaxWait
    /\ t' = [t EXCEPT !.at = "io", !.waited = @ + d]

\* The wait ends after d: the kernel keeps in tv what is left, and
\* std_select_ignore_intr repeats itself after signals.
Ready(d) ==
    /\ t.at = "select" /\ ~Stuck /\ d <= t.tv
    /\ t' = [t EXCEPT !.at = "io", !.tv = @ - d, !.waited = @ + d]

\* Mutant: taken for an interruption.
TimedOut_Again ==
    /\ t.at = "select" /\ Stuck
    /\ t' = [t EXCEPT !.at = "io", !.tv = 0, !.waited = @ + t.tv]

TimedOut ==
    /\ t.at = "select" /\ Stuck
    /\ t' = Answer([t EXCEPT !.tv = 0, !.waited = @ + t.tv], -1, "would block")

\* EPIPE
Fails == AtIo /\ t.call.op = "write" /\ t.closed /\ t' = Answer(t, -1, "closed")

\* Mutant: taken for a success.
EndOfFile_Ok ==
    /\ AtIo /\ t.call.op = "read" /\ t.closed /\ t.stream = <<>>
    /\ t' = Answer(t, t.total, "ok")

\* The end of the file: std_read leaves the error code as it was, and
\* std_socket_op, asked for all, forgets what it has read.
EndOfFile ==
    /\ AtIo /\ t.call.op = "read" /\ t.closed /\ t.stream = <<>>
    /\ t' = IF t.call.loop # "socket" THEN Answer(t, t.total, "unset")
            ELSE IF t.call.all THEN Answer(t, 0, "stale errno") ELSE Answer(t, t.total, "ok")

\* The other end reads what was written, or writes what is to be read.
PeerMoves ==
    /\ ~t.closed /\ t.at # "done"
    /\ IF t.call.op = "write" THEN t.stream # <<>> /\ t' = [t EXCEPT !.stream = Tail(@)]
       ELSE /\ Len(t.moved \o t.stream) < Len(Message) /\ Len(t.stream) < Cap
            /\ t' = [t EXCEPT !.stream = Append(@, Message[Len(t.moved \o @) + 1])]

PeerCloses == ~t.closed /\ t.at # "done" /\ t' = [t EXCEPT !.closed = TRUE]

Step == \/ Finish \/ Interrupted \/ WouldBlock \/ TimedOut \/ Fails \/ EndOfFile
        \/ \E n \in 1..Cap : Move(n)
        \/ \E d \in 0..MaxWait : Ready(d)

Next == Step \/ PeerMoves \/ PeerCloses

\* The caller's thread runs.  The other end need not.
Spec == Init /\ [][Next]_t /\ WF_t(Step)
-----------------------------------------------------------------------------
(* Properties.                                                             *)

\* However the bytes are cut by the kernel, signals and waits, and wherever
\* in the vector a call resumes, its places are moved in order, none twice and
\* none left out, and as many as the caller counts.
BytesInOrder == t.moved = SubSeq(Message, 1, t.total)

\* A call that asked for everything and reports success has moved everything.
AllMeansAll ==
    t.at = "done" /\ t.err = "ok" /\ t.call.all => t.moved = Message /\ t.ret = Len(Message)

\* The waits of one call do not add up to more than time_wait.
WaitsBounded == t.waited <= t.call.wait

\* A call that does not block ends, whatever the other end does.
NonblockEnds == t.call.nonblock ~> t.at = "done"
=============================================================================
