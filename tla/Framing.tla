------------------------------ MODULE Framing ------------------------------
(***************************************************************************)
(* Messages on one connection of the event service: the client calls of    *)
(* std_event_service.cpp that send and receive them, and the framing of    *)
(* std_event_utils.cpp.  A message is a header with its size, an operation *)
(* and its data, written in one vector that may be cut by a timeout and    *)
(* read part by part.  Lengths count parts, not bytes.                     *)
(***************************************************************************)
EXTENDS Integers, Sequences, SequencesExt

CONSTANTS
    Sizes,      \* lengths of the data of events
    Spaces,     \* spaces of receive buffers
    MaxSends    \* bound: messages sent

VARIABLE f      \* the connection and its two ends, see Init

Own == -1   \* std_client_wait_for_event, into a buffer of this library

Init == f \in [stream : {<<>>}, closed : {FALSE},
               torn : {FALSE},      \* a send was cut
               misused : {FALSE},   \* and the connection used again
               sent : {<<>>},       \* messages whose send succeeded
               got : {<<>>},        \* messages whose receive succeeded
               into : {<<>>},       \* and the length of the buffer, or Own
               failed : {FALSE},    \* a receive failed
                     buff : Spaces, max : {TRUE, FALSE}]  \* std_client_allocate_msg_buff

\* std_event_util_event_send: the parts of the vector.  size counts all that
\* follows the header.
Wire(op, data) == <<[part |-> "hdr", size |-> 1 + Len(data)], [part |-> "op", op |-> op]>> \o data

Key(id) == [part |-> "key", id |-> id]

\* std_event_msg_t, a key and a length, and the data.
Event(id, n) == <<Key(id), [part |-> "msg", data_len |-> n]>>
                \o [i \in 1..n |-> [part |-> "data", id |-> id]]

\* Mutant: a part is taken for the whole.
event_send_Part(op, data) ==
    \E n \in 0..Len(Wire(op, data)) :
        /\ ~f.closed
        /\ f' = [f EXCEPT !.stream = @ \o SubSeq(Wire(op, data), 1, n),
                          !.misused = @ \/ f.torn,
                          !.sent = IF n > 0 THEN Append(@, Wire(op, data)) ELSE @,
                          !.torn = @ \/ n = 0]

\* The write ends when all is written or, at the latest, after the timeout.
event_send(op, data) ==
    \E n \in 0..Len(Wire(op, data)) :
        LET all == n = Len(Wire(op, data))
        IN  /\ ~f.closed
            /\ f' = [f EXCEPT !.stream = @ \o SubSeq(Wire(op, data), 1, n),
                              !.misused = @ \/ f.torn,
                              !.sent = IF all THEN Append(@, Wire(op, data)) ELSE @,
                              !.torn = @ \/ ~all]

Again == Len(f.sent) < MaxSends /\ ~f.misused

publish_msg(n) == Again /\ event_send("publish", Event(Len(f.sent) + 1, n))

\* One message for each key; std_client_register_interest of several keys
\* goes on to the next only when this one was sent.  Registering and removing
\* differ in the operation only.
send_key_op == Again /\ event_send("key", <<Key(Len(f.sent) + 1)>>)

set_receive_buffer == Again /\ event_send("buffer", <<[part |-> "len"]>>)

disconnect == ~f.closed /\ f' = [f EXCEPT !.closed = TRUE]

\* -----------------------------------------------------------------------
\* Receiving.  A read waits for all it was asked for, or the end.

Head1 == f.stream[1]
Ready(n) == Len(f.stream) >= n
From(a, b) == SubSeq(f.stream, a, b)

Fail(g, n) == [g EXCEPT !.failed = TRUE, !.stream = SubSeq(@, n + 1, Len(@))]
Deliver(g, n, len) == [g EXCEPT !.got = Append(@, From(1, n)), !.into = Append(@, len),
                                !.stream = SubSeq(@, n + 1, Len(@))]

\* read_header finds one.  Anything else is taken for a header too, with a
\* size nobody knows; what follows is not modelled further.
InStep == f.stream # <<>> /\ Head1.part = "hdr"

Astray == f.stream # <<>> /\ Head1.part # "hdr" /\ ~f.failed
          /\ f' = [f EXCEPT !.failed = TRUE]

\* Mutant: into the space there is.
recv_Short(allow_resize) ==
    LET size == Head1.size
        room == IF size > f.buff THEN f.buff ELSE size
    IN  /\ InStep /\ Ready(1 + room)
        /\ f' = Deliver(f, 1 + room, Own)

\* std_event_util_event_recv
recv(allow_resize) ==
    LET size == Head1.size
        big == size > f.buff
    IN  /\ InStep
        /\ IF big /\ ~allow_resize THEN f' = Fail(f, 1)
           ELSE /\ Ready(1 + size)
                /\ f' = Deliver([f EXCEPT !.buff = IF big THEN size ELSE @], 1 + size, Own)

wait_for_event == recv(~f.max)

\* Mutant: it is not compared.
recv_msg_NoLimit(len) ==
    LET size == Head1.size
    IN  /\ InStep /\ size >= 3 /\ Ready(1 + size)
        /\ f' = Deliver(f, 1 + size, len)

\* std_event_util_event_recv_msg, into a buffer of len parts.  The size that
\* is compared with len still counts the event's own header.
recv_msg(len) ==
    LET size == Head1.size
    IN  /\ InStep
        /\ IF size < 3 THEN f' = Fail(f, 1)
           ELSE /\ Ready(2)
                /\ IF f.stream[2].part # "op" \/ f.stream[2].op # "publish" THEN f' = Fail(f, 2)
                   ELSE IF size - 1 > len THEN f' = Fail(f, 2)
                   ELSE /\ Ready(4)
                        /\ IF f.stream[4].part # "msg" \/ f.stream[4].data_len # size - 3
                           THEN f' = Fail(f, 4)
                           ELSE Ready(1 + size) /\ f' = Deliver(f, 1 + size, len)

\* The connection ends where a read wants more.
EndOfStream ==
    /\ f.closed /\ ~f.failed
    /\ f.stream = <<>> \/ (InStep /\ ~Ready(1 + Head1.size))
    /\ f' = [f EXCEPT !.failed = TRUE, !.stream = <<>>]

Next == \/ \E n \in Sizes : publish_msg(n)
        \/ send_key_op \/ set_receive_buffer \/ disconnect
        \/ wait_for_event \/ \E len \in Spaces : recv_msg(len)
        \/ Astray \/ EndOfStream

Spec == Init /\ [][Next]_f
-----------------------------------------------------------------------------
(* Properties.                                                             *)

\* Until a receive fails, the messages received are the messages sent, whole
\* and in their order, provided a sender whose send was cut sends no more.
WholeInOrder ==
    ~f.failed /\ ~f.misused => IsPrefix(f.got, f.sent)

\* A receive into the caller's own buffer gives events, and never more than
\* the buffer has room for.
EventsThatFit ==
    \A i \in DOMAIN f.got :
        f.into[i] # Own /\ ~f.misused =>
            /\ f.got[i][2].op = "publish" /\ f.got[i][4].data_len = Len(f.got[i]) - 4
            /\ f.got[i][4].data_len <= f.into[i]
=============================================================================
