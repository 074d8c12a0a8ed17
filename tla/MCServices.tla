----------------------------- MODULE MCServices -----------------------------
(***************************************************************************)
(* The parts with peers, clients or other threads on the other side, side  *)
(* by side in one run: a behaviour is a behaviour of one part, chosen at   *)
(* the start, over the part's own specification.  The event service        *)
(* appears four times: with several publishers, which is EventService      *)
(* itself, and, on variables of their own, with clients that leave, with   *)
(* clients that do not read, and with one worker.  A property says what    *)
(* the part's module says, of the behaviours of that part; the properties  *)
(* of EventService itself are also those of the other behaviours, in which *)
(* its server is idle.                                                     *)
(***************************************************************************)
EXTENDS EventService, EventScripts

CONSTANTS Clients    \* model values

VARIABLES
    part,       \* which part it is
    s,          \* the variable of that part, but for the event service
    conn2, used2, pos2, wire2, read2, left2, clients2, queue2, armed2, pclose2, known2,
    regs2, job2, interest2    \* those of EventService again

other == <<conn2, used2, pos2, wire2, read2, left2, clients2, queue2, armed2, pclose2, known2,
           regs2, job2, interest2>>

Pair == {"w1", "w2"}

Leave == INSTANCE EventService WITH Script <- LeaveScript, FDs <- {1, 2}, Workers <- {"w1"},
            Room <- 2, MayLeave <- TRUE, conn <- conn2, used <- used2, pos <- pos2,
            wire <- wire2, read <- read2, left <- left2, clients <- clients2,
            queue <- queue2, armed <- armed2, pclose <- pclose2, known <- known2,
            regs <- regs2, job <- job2, interest <- interest2
Slow == INSTANCE EventService WITH Script <- BusyScript, Room <- 2, MayStall <- TRUE,
            conn <- conn2, used <- used2, pos <- pos2, wire <- wire2, read <- read2,
            left <- left2, clients <- clients2, queue <- queue2, armed <- armed2,
            pclose <- pclose2, known <- known2, regs <- regs2, job <- job2,
            interest <- interest2
Single == INSTANCE EventService WITH Script <- LeaveScript, Workers <- {"w1"}, Room <- 1,
            conn <- conn2, used <- used2, pos <- pos2, wire <- wire2, read <- read2,
            left <- left2, clients <- clients2, queue <- queue2, armed <- armed2,
            pclose <- pclose2, known <- known2, regs <- regs2, job <- job2,
            interest <- interest2

Transfers == INSTANCE Transfer WITH t <- s, Retries <- 1, Cap <- 2, MaxWait <- 2, MaxSignals <- 2,
                                    Vectors <- {<<<<1, 2>>>>, <<<<1>>, <<2, 3>>>>,
                                                <<<<1, 2>>, <<>>, <<3>>>>}
Frames == INSTANCE Framing WITH f <- s, Sizes <- {0, 2}, Spaces <- {1, 4}, MaxSends <- 2
Conditions == INSTANCE CondVar WITH c <- s, Threads <- Pair, Delays <- {1}, MaxTime <- 2,
                                    MaxWork <- 2, Nobody <- None
Redirects == INSTANCE CmdRedir WITH r <- s, Room <- 2, InRoom <- 1, OutRoom <- 1,
                                    MaxOut <- 2, MaxIn <- 1

PartsInit ==
    /\ \/ part \in {"pool", "leave", "slow", "single"} /\ s = None
       \/ part = "transfer" /\ Transfers!Init
       \/ part = "framing" /\ Frames!Init
       \/ part = "condition" /\ Conditions!Init
       \/ part = "redirect" /\ Redirects!Init
    /\ Init
    /\ CASE part = "slow" -> Slow!Init
         [] part = "single" -> Single!Init
         [] OTHER -> Leave!Init

Served(name) == part = name /\ UNCHANGED <<part, s, vars>>
Goes(name) == part = name /\ UNCHANGED <<part, vars, other>>

PartsNext ==
    \/ part = "pool" /\ Next /\ UNCHANGED <<part, s, other>>
    \/ Served("leave") /\ Leave!Next
    \/ Served("slow") /\ Slow!Next
    \/ Served("single") /\ Single!Next
    \/ Goes("transfer") /\ Transfers!Next
    \/ Goes("framing") /\ Frames!Next
    \/ Goes("condition") /\ Conditions!Next
    \/ Goes("redirect") /\ Redirects!Next

\* The fairness of EventService, Transfer, CondVar and CmdRedir, where a
\* liveness property below needs it.
PartsFairness ==
    /\ WF_other(part = "slow" /\ Slow!CloseLoop)
    /\ \A w \in Pair : WF_other(part = "slow" /\ Slow!JobStep(w))
    /\ WF_s(part = "transfer" /\ Transfers!Step)
    /\ \A w \in Pair : SF_s(part = "condition" /\ Conditions!Step(w))
    /\ WF_s(part = "redirect" /\ Redirects!console_reader)

PartsSpec == PartsInit /\ [][PartsNext]_<<part, s, vars, other>> /\ PartsFairness
-----------------------------------------------------------------------------
(* Properties.  Each is explained in the module of its part; of those of   *)
(* EventService itself, its TypeOK, AtMostOnce, CopyToAll and              *)
(* OnlyRegistered are checked here.                                        *)

\* EventService, clients leaving: its variables have their types, no closed
\* descriptor is armed, and registrations belong to those who asked for them.
LeavesInOrder == part = "leave" => Leave!TypeOK /\ Leave!RegistrationsOwned

\* EventService, one worker, room for half an event: events are whole.
SingleWhole == part = "single" => Single!WholeEvents

\* EventService, clients that do not read: requests end.
SlowRequestsEnd ==
    \A w \in Pair : part = "slow" /\ Slow!Requested(w) ~> part = "slow" /\ job2[w] = None

\* What was sent arrives.  Transfer: the bytes of a buffer vector are moved in
\* order, none lost or twice, a call for everything that succeeds has moved
\* everything, and its waits are bounded.  Framing: messages are received whole
\* and in order, and buffers never filled past their end.  CmdRedir: a session
\* sees the shell's output without a gap.
Delivered ==
    /\ part = "transfer" => Transfers!BytesInOrder /\ Transfers!AllMeansAll /\ Transfers!WaitsBounded
    /\ part = "framing" => Frames!WholeInOrder /\ Frames!EventsThatFit
    /\ part = "redirect" => Redirects!SessionWhole

\* CondVar: no waiter is told there is work that another took.
NeverOvertaken == part = "condition" => Conditions!NeverOvertaken

\* CondVar: a caller that comes back without work has waited.
WaitsOut == [][part = "condition" => Conditions!Waited]_s

\* Transfer: a call of std_socket_op that is not to block ends.  CondVar: work
\* posted while threads wait is taken.  CmdRedir: the session of a client that
\* left is closed, unless the reader is held in its write by a shell that does
\* not read.
CallsEnd ==
    /\ part = "transfer" /\ s.call.nonblock ~> part = "transfer" /\ s.at = "done"
    /\ part = "condition" /\ s.work > 0 /\ Conditions!Waiting # {}
         ~> part = "condition" /\ (s.work = 0 \/ Conditions!Waiting = {})
    /\ \A c \in Clients :
         part = "redirect" /\ c = s.cli /\ c \in s.left
           ~> part = "redirect" /\ (c # s.cli \/ Redirects!HeldByShell)
=============================================================================
