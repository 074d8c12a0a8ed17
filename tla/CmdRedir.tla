------------------------------ MODULE CmdRedir ------------------------------
(***************************************************************************)
(* std_cmd_redir.c: a shell thread whose stdin and stdout are one end of a *)
(* socket pair, and a console reader thread that owns the other end and    *)
(* gives it to one client at a time.  Clients and the thread that asks for *)
(* the end of a session are the environment.  The writes of a session      *)
(* block: a client, or a shell, that does not read holds the reader up.    *)
(***************************************************************************)
EXTENDS Integers, Sequences, FiniteSets

CONSTANTS
    Clients,
    Room,       \* pieces of output the socket pair buffers
    InRoom,     \* pieces of input it buffers
    OutRoom,    \* pieces of output a client's connection buffers
    MaxOut,     \* bound: pieces the shell writes
    MaxIn,      \* bound: pieces each client sends
    None

VARIABLE r      \* see Init

\* std_cmd_redir_init, when every call succeeds, and console_reader up to its
\* first wait.
Init == r = [at |-> "wait",         \* where the console reader is
             cli |-> None,          \* client_socket
             flag |-> FALSE,        \* client_flag_for_close
             buff |-> <<>>,         \* m_buff
             ready |-> {},          \* what select found ready and is not served
             give |-> <<>>,         \* output still to be written to the client
             put |-> <<>>,          \* input still to be written to the shell
             pending |-> <<>>,      \* connections to accept
             input |-> [c \in Clients |-> <<>>],    \* sent and not read yet
             sent |-> [c \in Clients |-> 0],
             unread |-> 0,          \* pieces given to the client, and not read by it
             left |-> {},           \* clients that closed their end
             ended |-> {},          \* sessions the reader closed
             toShell |-> <<>>, toConsole |-> <<>>,
             out |-> 0,             \* pieces the shell has written
             taken |-> 0,           \* history: pieces the reader has read
             got |-> [c \in Clients |-> <<>>],      \* history: output given to a session
             told |-> {}]           \* history: sessions to terminate

\* -----------------------------------------------------------------------
\* The environment, and the shell, which reads and writes when it likes.

\* std_cmd_redir_connect
Connect(c) ==
    /\ c # r.cli /\ c \notin r.left \cup r.ended /\ \A i \in DOMAIN r.pending : r.pending[i] # c
    /\ r' = [r EXCEPT !.pending = Append(@, c)]

ClientSends(c) ==
    /\ c = r.cli /\ c \notin r.left /\ r.sent[c] < MaxIn
    /\ r' = [r EXCEPT !.input[c] = Append(@, c), !.sent[c] = @ + 1]

ClientReads(c) ==
    /\ c = r.cli /\ c \notin r.left /\ r.unread > 0
    /\ r' = [r EXCEPT !.unread = 0]

ClientLeaves(c) ==
    /\ c = r.cli \/ \E i \in DOMAIN r.pending : r.pending[i] = c
    /\ c \notin r.left
    /\ r' = [r EXCEPT !.left = @ \cup {c}]

ShellReads == r.toShell # <<>> /\ r' = [r EXCEPT !.toShell = Tail(@)]

ShellWrites ==
    /\ r.out < MaxOut /\ Len(r.toConsole) < Room
    /\ r' = [r EXCEPT !.out = @ + 1, !.toConsole = Append(@, r.out + 1)]

term_conn == r' = [r EXCEPT !.flag = TRUE, !.told = @ \cup ({r.cli} \ {None})]

\* -----------------------------------------------------------------------
\* The console reader.

\* close_socket, and back to the first wait.
End(s) == [s EXCEPT !.at = "wait", !.cli = None, !.ended = @ \cup {s.cli}, !.unread = 0,
                    !.ready = {}, !.give = <<>>, !.put = <<>>]

\* Output without a client is thrown away, but the last of it stays in the
\* buffer.
flush_console_fd(s) ==
    IF s.toConsole = <<>> THEN s
    ELSE [s EXCEPT !.buff = s.toConsole, !.toConsole = <<>>, !.taken = @ + Len(s.toConsole)]

\* One round of wait_for_connection: what is in the buffer, whoever it came
\* from, is sent to the new client first; it fits the empty buffer of a new
\* connection.
wait_for_connection ==
    LET s == flush_console_fd(r)
        c == Head(s.pending)
        u == [s EXCEPT !.pending = Tail(@), !.cli = c]
    IN  /\ r.at = "wait" /\ (r.toConsole # <<>> \/ r.pending # <<>>)
        /\ r' = IF s.pending = <<>> THEN s
                ELSE IF c \in s.left /\ s.buff # <<>> THEN End(u)
                ELSE [u EXCEPT !.at = "reset"]

ResetFlag == r.at = "reset" /\ r' = [r EXCEPT !.at = "top", !.flag = FALSE]

Top == r.at = "top" /\ r' = IF r.flag THEN End(r) ELSE [r EXCEPT !.at = "select"]

\* The select has no timeout.
Select ==
    LET ready == {x \in {"console", "client"} :
                    IF x = "console" THEN r.toConsole # <<>>
                    ELSE r.input[r.cli] # <<>> \/ r.cli \in r.left}
    IN  r.at = "select" /\ ready # {} /\ r' = [r EXCEPT !.at = "serve", !.ready = ready]

Copying == r.give # <<>> \/ r.put # <<>>

\* Mutant: thrown away when the client has something to say.
CopyOut_Drops ==
    /\ r.at = "serve" /\ ~Copying /\ "console" \in r.ready
    /\ r' = [r EXCEPT !.ready = @ \ {"console"}, !.buff = r.toConsole, !.toConsole = <<>>,
                      !.taken = @ + Len(r.toConsole),
                      !.give = IF r.input[r.cli] = <<>> THEN r.toConsole ELSE <<>>]

\* copy_to_fd from the console: the read,
CopyOut ==
    /\ r.at = "serve" /\ ~Copying /\ "console" \in r.ready
    /\ r' = [r EXCEPT !.ready = @ \ {"console"}, !.buff = r.toConsole, !.toConsole = <<>>,
                      !.taken = @ + Len(r.toConsole), !.give = r.toConsole]

\* and the write, for which the client has to make room; one that has left
\* makes it fail, which ends the session.
GiveOut ==
    /\ r.give # <<>> /\ (r.cli \in r.left \/ r.unread < OutRoom)
    /\ r' = IF r.cli \in r.left THEN End(r)
            ELSE [r EXCEPT !.give = Tail(@), !.got[r.cli] = Append(@, Head(r.give)),
                           !.unread = @ + 1]

\* Mutant: reading nothing is no reason to.
CopyIn_Again ==
    /\ r.at = "serve" /\ ~Copying /\ r.ready = {"client"}
    /\ r' = [r EXCEPT !.ready = {}, !.put = r.input[r.cli], !.input[r.cli] = <<>>]

\* Then from the client: the read, of nothing when the client has left, which
\* ends the session,
CopyIn ==
    /\ r.at = "serve" /\ ~Copying /\ r.ready = {"client"}
    /\ r' = IF r.input[r.cli] = <<>> THEN End(r)
            ELSE [r EXCEPT !.ready = {}, !.buff = r.input[r.cli], !.put = r.input[r.cli],
                           !.input[r.cli] = <<>>]

\* and the write, for which the shell has to make room.
PutIn ==
    /\ r.put # <<>> /\ Len(r.toShell) < InRoom
    /\ r' = [r EXCEPT !.put = Tail(@), !.toShell = Append(@, Head(r.put))]

Served ==
    /\ r.at = "serve" /\ ~Copying /\ r.ready = {}
    /\ r' = [r EXCEPT !.at = "top"]

console_reader == \/ wait_for_connection \/ ResetFlag \/ Top \/ Select
                  \/ CopyOut \/ GiveOut \/ CopyIn \/ PutIn \/ Served

Next == \/ console_reader \/ ShellReads \/ ShellWrites \/ term_conn
        \/ \E c \in Clients : Connect(c) \/ ClientSends(c) \/ ClientReads(c) \/ ClientLeaves(c)

\* The console reader's thread runs.
Spec == Init /\ [][Next]_r /\ WF_r(console_reader)
-----------------------------------------------------------------------------
(* Properties.                                                             *)

\* A session is given the shell's output without a gap, up to what the reader
\* has read of it and has still to write, however input, clients that leave or
\* do not read, and new ones interleave; what is read between sessions is in
\* none.  What the buffer held before the session, which a new client is sent
\* first (std_cmd_redir.c:148), is not of the session and is not counted.
SessionWhole ==
    \A c \in Clients :
        /\ \A i \in DOMAIN r.got[c] : i > 1 => r.got[c][i] = r.got[c][i - 1] + 1
        /\ c = r.cli /\ r.got[c] # <<>> => r.got[c][Len(r.got[c])] = r.taken - Len(r.give)

\* The reader is in the write of copy_to_fd to a shell whose input is full.
HeldByShell == r.put # <<>> /\ Len(r.toShell) = InRoom

\* The session of a client that has left is closed, and the next can begin,
\* unless the shell leaves the reader in its write for ever: it does not read
\* its input, or waits for the reader itself, to take its output.
LeftIsEnded == \A c \in Clients : c = r.cli /\ c \in r.left ~> c # r.cli \/ HeldByShell

\* std_cmd_redir.h:62 "this function will terminate all existing sessions that
\* are connected to the server".
TermEnds == \A c \in Clients : c \in r.told ~> c \in r.ended
=============================================================================
