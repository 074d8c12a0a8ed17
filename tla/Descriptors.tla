---------------------------- MODULE Descriptors ----------------------------
(***************************************************************************)
(* The calls that make descriptors, one system call after the other, each  *)
(* of which may fail: std_server_socket_create,                            *)
(* std_sock_connect_with_timeout, std_socket_create and                    *)
(* std_netns_socket_create (std_socket_tools.cpp), std_netns_fd_open and   *)
(* std_redir_stdoutin (std_file_utils.c), on top of std_sys_set_netns and  *)
(* std_sys_reset_netns (std_system.c).                                     *)
(***************************************************************************)
EXTENDS Integers, FiniteSets

CONSTANT None

VARIABLE d      \* see Init

Calls == {"server", "connect", "create", "netns create", "netns open", "redirect"}

\* Descriptors have the name of what they were made for; binds says that the
\* caller of std_socket_create gives an address.
Init == \E call \in Calls, binds \in BOOLEAN :
    d = [call |-> call, binds |-> binds,
         at |-> CASE call \in {"netns create", "netns open"} -> "open home"
                  [] call = "redirect" -> "dup stdin"
                  [] OTHER -> "socket",
         open |-> {},           \* descriptors the call made and has not closed
         given |-> None,        \* the one the caller is given
         ns |-> "home",         \* the thread's network namespace
         stdin |-> "old", stdout |-> "old",
         lost |-> FALSE,        \* history: a call that was to undo one failed
         ret |-> None]

InNetns == d.call \in {"netns create", "netns open"}

\* A call inside a namespace goes back before it returns.
Return(e, ret) == IF InNetns /\ e.at # "done" /\ "home" \in e.open
                  THEN [e EXCEPT !.at = "reset", !.ret = ret]
                  ELSE [e EXCEPT !.at = "done", !.ret = ret]

Fail(e) == Return(e, "fail")
Ok(e, at) == [e EXCEPT !.at = at]
Made(e, fd) == [e EXCEPT !.open = @ \cup {fd}]
Close(e, fds) == [e EXCEPT !.open = @ \ fds]

\* std_sys_set_netns
OpenHome == d.at = "open home" /\ d' \in {Fail(d), Ok(Made(d, "home"), "open netns")}

\* Mutant: but for the namespace that the thread is in.
GiveUp_KeepsHome(e) == [Close(e, {"netns"}) EXCEPT !.at = "done", !.ret = "fail"]

\* What was opened is closed again.
GiveUp(e) == [Close(e, {"netns", "home"}) EXCEPT !.at = "done", !.ret = "fail"]

OpenNetns == d.at = "open netns" /\ d' \in {GiveUp(d), Ok(Made(d, "netns"), "set")}

SetNetns ==
    /\ d.at = "set"
    /\ d' \in {GiveUp(d), Ok([Close(d, {"netns"}) EXCEPT !.ns = "other"],
                             IF d.call = "netns open" THEN "open" ELSE "socket")}

\* std_netns_fd_open
Open == d.at = "open" /\ d' \in {Fail(d), Return([Made(d, "file") EXCEPT !.given = "file"], "ok")}

\* Mutant: only after a success.
Reset_Success ==
    /\ d.at = "reset"
    /\ d' \in {[Close(d, {"home"}) EXCEPT !.at = "done", !.ns = IF d.ret = "ok" THEN "home" ELSE @],
               [Close(d, {"home"}) EXCEPT !.at = "done", !.lost = TRUE]}

\* std_sys_reset_netns goes on when setns fails, and its own code is not used.
Reset ==
    /\ d.at = "reset"
    /\ d' \in {[Close(d, {"home"}) EXCEPT !.at = "done", !.ns = "home"],
               [Close(d, {"home"}) EXCEPT !.at = "done", !.lost = TRUE]}

\* All three kinds of socket.  std_socket_create gives it at once.
Socket ==
    /\ d.at = "socket"
    /\ LET s == Made(d, "socket")
           g == [s EXCEPT !.given = "socket"]
       IN  d' \in {Fail(d), CASE d.call = "server" -> Ok(s, "bind")
                              [] d.call = "connect" -> Ok(s, "nonblock")
                              [] OTHER -> IF d.binds THEN Ok(g, "bind") ELSE Return(g, "ok")}

\* Mutant: the first is not closed, either.
Bind_Open ==
    /\ d.at = "bind"
    /\ IF d.call = "server"
       THEN d' \in {Fail(d), Return([d EXCEPT !.given = "socket"], "ok")}
       ELSE d' \in {Fail(d), Return(d, "ok")}

\* A server socket that cannot be bound is closed; that it cannot listen is
\* ignored.  One of std_socket_create stays open for the caller to close.
Bind ==
    /\ d.at = "bind"
    /\ IF d.call = "server"
       THEN d' \in {Fail(Close(d, {"socket"})), Return([d EXCEPT !.given = "socket"], "ok")}
       ELSE d' \in {Fail(d), Return(d, "ok")}

\* std_sock_connect_with_timeout; a connect that a signal interrupts is not
\* repeated: continue leaves the do ... while (0).
NonBlock == d.at = "nonblock" /\ d' \in {Fail(Close(d, {"socket"})), Ok(d, "connect")}
Connect == d.at = "connect" /\ d' \in {Fail(Close(d, {"socket"})), Ok(d, "select")}
Select == d.at = "select" /\ d' \in {Fail(Close(d, {"socket"})),
                                     Ok([d EXCEPT !.given = "socket"], "block")}
Block == d.at = "block" /\ d' \in {Fail(Close(d, {"socket"})), Return(d, "ok")}

\* std_redir_stdoutin keeps copies to go back to, std_file_clone_fds
DupStdin == d.at = "dup stdin" /\ d' \in {Fail(d), Ok(Made(d, "in"), "dup stdout")}
DupStdout == d.at = "dup stdout" /\ d' \in {Fail(Close(d, {"in"})), Ok(Made(d, "out"), "stdin")}
SetStdin == d.at = "stdin" /\ d' \in {Fail(Close(d, {"in", "out"})),
                                       Ok([d EXCEPT !.stdin = "new"], "stdout")}

\* Mutant: stdin stays as it is when stdout cannot be set.
SetStdout_Half ==
    /\ d.at = "stdout"
    /\ LET e == Close(d, {"in", "out"})
       IN  d' \in {Return([e EXCEPT !.stdout = "new"], "ok"), Fail(e)}

SetStdout ==
    /\ d.at = "stdout"
    /\ LET e == Close(d, {"in", "out"})
       IN  d' \in {Return([e EXCEPT !.stdout = "new"], "ok"),
                   Fail([e EXCEPT !.stdin = "old"]), Fail([e EXCEPT !.lost = TRUE])}

Next == \/ OpenHome \/ OpenNetns \/ SetNetns \/ Open \/ Reset \/ Socket \/ Bind
        \/ NonBlock \/ Connect \/ Select \/ Block \/ DupStdin \/ DupStdout \/ SetStdin \/ SetStdout

Spec == Init /\ [][Next]_d
-----------------------------------------------------------------------------
(* Properties.                                                             *)

\* Whichever system calls fail, a call that is over has left no descriptor but
\* the one it gives to the caller, and that one after a failure only where
\* std_socket_create could not bind it.
NothingLeft ==
    d.at = "done" =>
        /\ d.open \subseteq {d.given}
        /\ d.ret = "ok" /\ d.call # "redirect" => d.given \in d.open
        /\ d.ret = "fail" /\ d.open # {} => d.call \in {"create", "netns create"} /\ d.binds

\* The thread is back in its namespace, and stdin and stdout are both the old
\* or both the new, after every call that could undo what it had begun.
BackOrThrough ==
    d.at = "done" /\ ~d.lost =>
        /\ d.ns = "home"
        /\ d.stdin = d.stdout /\ (d.stdin = "new" <=> d.call = "redirect" /\ d.ret = "ok")
=============================================================================
