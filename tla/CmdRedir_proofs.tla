--------------------------- MODULE CmdRedir_proofs ---------------------------
(***************************************************************************)
(* That a console session is given the shell's output without a gap: for   *)
(* any clients, any buffers, any amount of output, and whoever does not    *)
(* read.                                                                   *)
(***************************************************************************)
EXTENDS CmdRedir, SequenceTheorems, TLAPS

(***************************************************************************)
(* The invariant, of a state s of the redirection.                         *)
(***************************************************************************)

\* The pieces n + 1, n + 2, ... of the output.
Steady(v, n) == v \in Seq(Int) /\ \A i \in 1..Len(v) : v[i] = n + i

Fields == {"at", "cli", "flag", "buff", "ready", "give", "put", "pending", "input", "sent",
           "unread", "left", "ended", "toShell", "toConsole", "out", "taken", "got", "told"}

\* What the fields hold, as far as it matters.
TypeInv(s) ==
    /\ s = [x \in Fields |-> s[x]]
    /\ s.cli \in Clients \cup {None} /\ s.taken \in Int /\ s.out \in Int
    /\ s.pending \in Seq(Clients) /\ s.toConsole \in Seq(Int) /\ s.give \in Seq(Int)
    /\ s.got \in [Clients -> Seq(Int)]

\* There is no client exactly while the reader waits for one, and nothing to
\* write but in the middle of a session.
PlaceInv(s) ==
    /\ s.at = "wait" <=> s.cli = None
    /\ s.give # <<>> \/ s.put # <<>> => s.at = "serve"

\* The output that was written and not read.
OutputInv(s) == Steady(s.toConsole, s.taken) /\ s.out = s.taken + Len(s.toConsole)

\* A client connects once: who waits to be accepted has had no session.
NamesInv(s) ==
    /\ \A i, j \in 1..Len(s.pending) : s.pending[i] = s.pending[j] => i = j
    /\ \A i \in 1..Len(s.pending) : s.pending[i] # s.cli /\ s.pending[i] \notin s.ended
    /\ \A c \in Clients : s.got[c] # <<>> => c = s.cli \/ c \in s.ended

\* Every session has had pieces that follow each other,
WholeInv(s) == \A c \in Clients : \E n \in Int : Steady(s.got[c], n)

\* and the present one those up to the last that was read, but for those that
\* are still to be written to it.
UpToInv(s) ==
    \A c \in Clients : c = s.cli =>
        \E n \in Int : /\ Steady(s.got[c], n) /\ Steady(s.give, n + Len(s.got[c]))
                      /\ n + Len(s.got[c]) + Len(s.give) = s.taken

\* What holds between two calls of the reader.
Between(s) == TypeInv(s) /\ OutputInv(s) /\ NamesInv(s) /\ WholeInv(s)

Good(s) == Between(s) /\ PlaceInv(s) /\ UpToInv(s)

\* The inductive invariant.
Inv == Good(r)

-----------------------------------------------------------------------------
(* Pieces.                                                                 *)

\* Nothing is steady from anywhere.
LEMMA NothingSteady ==
    ASSUME NEW n \in Int
    PROVE  Steady(<<>>, n) /\ Len(<<>>) = 0
<1>1. <<>> \in Seq(Int) /\ Len(<<>>) = 0
  OBVIOUS
<1> QED
  BY <1>1 DEF Steady

\* Pieces that follow each other, put behind each other.
LEMMA JoinSteady ==
    ASSUME NEW n \in Int, NEW v, Steady(v, n), NEW w, Steady(w, n + Len(v))
    PROVE  Steady(v \o w, n) /\ Len(v \o w) = Len(v) + Len(w)
<1> DEFINE d == v \o w
<1>1. v \in Seq(Int) /\ w \in Seq(Int)
  BY Zenon DEF Steady
<1>2. Len(v) \in Nat /\ Len(w) \in Nat
  BY <1>1
<1>3. /\ d \in Seq(Int) /\ Len(d) = Len(v) + Len(w)
      /\ \A j \in 1..(Len(v) + Len(w)) : d[j] = IF j <= Len(v) THEN v[j] ELSE w[j - Len(v)]
  BY <1>1, ConcatProperties, Zenon
<1> HIDE DEF d
<1>4. ASSUME NEW j \in 1..Len(d)
      PROVE  d[j] = n + j
  <2>1. CASE j <= Len(v)
    <3>1. j \in 1..Len(v) /\ j \in 1..(Len(v) + Len(w))
      BY <1>2, <1>3, <2>1
    <3>2. d[j] = v[j]
      BY <1>3, <2>1, <3>1, Zenon
    <3>3. v[j] = n + j
      BY <3>1, Zenon DEF Steady
    <3> QED
      BY <3>2, <3>3, Zenon
  <2>2. CASE ~(j <= Len(v))
    <3>1. /\ j - Len(v) \in 1..Len(w) /\ j \in 1..(Len(v) + Len(w))
          /\ (n + Len(v)) + (j - Len(v)) = n + j
      BY <1>2, <1>3, <2>2
    <3>2. d[j] = w[j - Len(v)]
      BY <1>3, <2>2, <3>1, Zenon
    <3>3. w[j - Len(v)] = (n + Len(v)) + (j - Len(v))
      BY <3>1, Zenon DEF Steady
    <3> QED
      BY <3>1, <3>2, <3>3, Zenon
  <2> QED
    BY <2>1, <2>2, Zenon
<1>5. Steady(d, n)
  BY <1>3, <1>4, Zenon DEF Steady
<1> QED
  BY <1>3, <1>5, Zenon DEF d

-----------------------------------------------------------------------------
(* Parts of the steps.                                                     *)

\* The invariant speaks of these fields.
LEMMA SameGood ==
    ASSUME NEW s, Good(s), NEW u, u = [x \in Fields |-> u[x]],
           u.cli = s.cli, u.taken = s.taken, u.out = s.out, u.pending = s.pending,
           u.toConsole = s.toConsole, u.got = s.got, u.ended = s.ended, u.give = s.give,
           u.at = "wait" <=> s.at = "wait", u.give # <<>> \/ u.put # <<>> => u.at = "serve"
    PROVE  Good(u)
<1>1. TypeInv(u)
  BY Zenon DEF Good, Between, TypeInv
<1>2. OutputInv(u) /\ NamesInv(u) /\ WholeInv(u)
  BY Zenon DEF Good, Between, OutputInv, NamesInv, WholeInv
<1>3. PlaceInv(u) /\ UpToInv(u)
  BY Zenon DEF Good, PlaceInv, UpToInv
<1> QED
  BY <1>1, <1>2, <1>3, Zenon DEF Good, Between

\* A session that is closed.
LEMMA EndGood ==
    ASSUME None \notin Clients, NEW s, Between(s), s.cli \in Clients
    PROVE  Good(End(s)) /\ End(s).cli = None
<1> DEFINE u == End(s)
<1>1. TypeInv(s)
  BY Zenon DEF Between
<1>2. /\ u = [x \in Fields |-> u[x]] /\ u.at = "wait" /\ u.cli = None
      /\ u.ended = s.ended \cup {s.cli} /\ u.taken = s.taken /\ u.out = s.out
      /\ u.pending = s.pending /\ u.toConsole = s.toConsole /\ u.got = s.got
      /\ u.give = <<>> /\ u.put = <<>>
  BY <1>1 DEF TypeInv, Fields, End
<1> HIDE DEF u
<1>0. <<>> \in Seq(Int)
  OBVIOUS
<1>3. TypeInv(u)
  BY <1>0, <1>1, <1>2, Zenon DEF TypeInv
<1>4. OutputInv(u) /\ WholeInv(u)
  BY <1>2, Zenon DEF Between, OutputInv, WholeInv
<1>5. NamesInv(u)
  <2>1. ASSUME NEW i \in 1..Len(u.pending)
        PROVE  u.pending[i] # u.cli /\ u.pending[i] \notin u.ended
    <3>1. u.pending[i] # s.cli /\ u.pending[i] \notin s.ended
      BY <1>2, Zenon DEF Between, NamesInv
    <3>2. u.pending[i] \in Clients
      BY <1>3 DEF TypeInv
    <3> QED
      BY <1>2, <3>1, <3>2, Zenon
  <2>2. \A i, j \in 1..Len(u.pending) : u.pending[i] = u.pending[j] => i = j
    BY <1>2, Zenon DEF Between, NamesInv
  <2>3. \A c \in Clients : u.got[c] # <<>> => c = u.cli \/ c \in u.ended
    BY <1>2, Zenon DEF Between, NamesInv
  <2> QED
    BY <2>1, <2>2, <2>3, Zenon DEF NamesInv
<1>6. PlaceInv(u) /\ UpToInv(u)
  BY <1>2, Zenon DEF PlaceInv, UpToInv
<1>7. Good(u)
  BY <1>3, <1>4, <1>5, <1>6, Zenon DEF Good, Between
<1> QED
  BY <1>2, <1>7, Zenon DEF u

\* Output that is read leaves none behind.
LEMMA AllRead ==
    ASSUME NEW s, Between(s), NEW u, u.toConsole = <<>>, u.out = s.out,
           u.taken = s.taken + Len(s.toConsole)
    PROVE  OutputInv(u) /\ u.taken \in Int
<1>1. s.taken \in Int /\ s.toConsole \in Seq(Int) /\ s.out = s.taken + Len(s.toConsole)
  BY Zenon DEF Between, TypeInv, OutputInv
<1>2. Len(s.toConsole) \in Nat
  BY <1>1
<1>3. u.taken \in Int
  BY <1>1, <1>2
<1>4. Steady(<<>>, u.taken) /\ Len(<<>>) = 0
  BY <1>3, NothingSteady, Zenon
<1>5. u.out = u.taken + Len(u.toConsole)
  BY <1>1, <1>3, <1>4
<1> QED
  BY <1>3, <1>4, <1>5, Zenon DEF OutputInv

\* Output between sessions is nobody's.
LEMMA FlushGood ==
    ASSUME None \notin Clients, NEW s, Good(s), s.cli = None
    PROVE  /\ Good(flush_console_fd(s)) /\ flush_console_fd(s).cli = None
           /\ flush_console_fd(s).pending = s.pending
<1> DEFINE u == [s EXCEPT !.buff = s.toConsole, !.toConsole = <<>>, !.taken = @ + Len(s.toConsole)]
<1>1. Between(s) /\ TypeInv(s)
  BY Zenon DEF Good, Between
<1>2. /\ u = [x \in Fields |-> u[x]] /\ u.at = s.at /\ u.cli = s.cli
      /\ u.ended = s.ended /\ u.taken = s.taken + Len(s.toConsole) /\ u.out = s.out
      /\ u.pending = s.pending /\ u.toConsole = <<>> /\ u.got = s.got
      /\ u.give = s.give /\ u.put = s.put
  BY <1>1 DEF TypeInv, Fields
<1> HIDE DEF u
<1>3. OutputInv(u) /\ u.taken \in Int
  BY <1>1, <1>2, AllRead, Zenon
<1>4. <<>> \in Seq(Int)
  OBVIOUS
<1>5. TypeInv(u)
  BY <1>1, <1>2, <1>3, <1>4, Zenon DEF TypeInv
<1>6. NamesInv(u) /\ WholeInv(u)
  BY <1>1, <1>2, Zenon DEF Between, NamesInv, WholeInv
<1>7. PlaceInv(u)
  BY <1>2, Zenon DEF Good, PlaceInv
<1>8. UpToInv(u)
  BY <1>2, Zenon DEF UpToInv
<1>9. Good(u)
  BY <1>3, <1>5, <1>6, <1>7, <1>8, Zenon DEF Good, Between
<1>10. flush_console_fd(s) = IF s.toConsole = <<>> THEN s ELSE u
  BY Zenon DEF flush_console_fd, u
<1> QED
  BY <1>2, <1>9, <1>10, Zenon

\* A client that is accepted has had nothing yet.
LEMMA AcceptGood ==
    ASSUME None \notin Clients, NEW s, Good(s), s.cli = None, s.pending # <<>>,
           NEW u, u = [s EXCEPT !.pending = Tail(@), !.cli = Head(s.pending)]
    PROVE  /\ Between(u) /\ UpToInv(u) /\ u.cli \in Clients
           /\ u.give = <<>> /\ u.put = <<>>
<1> DEFINE c == Head(s.pending)
<1>1. Between(s) /\ TypeInv(s) /\ NamesInv(s)
  BY Zenon DEF Good, Between
<1>2. /\ u = [x \in Fields |-> u[x]] /\ u.cli = c
      /\ u.ended = s.ended /\ u.taken = s.taken /\ u.out = s.out
      /\ u.pending = Tail(s.pending) /\ u.toConsole = s.toConsole /\ u.got = s.got
      /\ u.give = s.give /\ u.put = s.put
  BY <1>1 DEF TypeInv, Fields
<1>0. s.give = <<>> /\ s.put = <<>>
  <2>1. s.at = "wait"
    BY Zenon DEF Good, PlaceInv
  <2>2. s.at # "serve"
    BY <2>1
  <2> QED
    BY <2>2, Zenon DEF Good, PlaceInv
<1>3. /\ c \in Clients /\ c = s.pending[1] /\ Tail(s.pending) \in Seq(Clients)
      /\ Len(s.pending) \in Nat /\ Len(s.pending) >= 1 /\ Len(Tail(s.pending)) = Len(s.pending) - 1
      /\ \A i \in 1..(Len(s.pending) - 1) : Tail(s.pending)[i] = s.pending[i + 1]
  BY <1>1 DEF TypeInv
<1> HIDE DEF c
<1>4. TypeInv(u)
  BY <1>1, <1>2, <1>3, Zenon DEF TypeInv
<1>5. OutputInv(u) /\ WholeInv(u)
  BY <1>1, <1>2, Zenon DEF Between, OutputInv, WholeInv
<1>6. 1 \in 1..Len(s.pending)
  BY <1>3
<1>7. s.got[c] = <<>>
  <2>1. s.pending[1] # s.cli /\ s.pending[1] \notin s.ended
    BY <1>1, <1>6, Zenon DEF NamesInv
  <2> QED
    BY <1>1, <1>3, <2>1, Zenon DEF NamesInv
<1>8. ASSUME NEW i \in 1..Len(u.pending)
      PROVE  i + 1 \in 1..Len(s.pending) /\ i + 1 # 1 /\ u.pending[i] = s.pending[i + 1]
  <2>1. i \in 1..(Len(s.pending) - 1)
    BY <1>2, <1>3
  <2>2. i + 1 \in 1..Len(s.pending) /\ i + 1 # 1
    BY <1>3, <2>1
  <2> QED
    BY <1>2, <1>3, <2>1, <2>2, Zenon
<1>9. NamesInv(u)
  <2>1. ASSUME NEW i \in 1..Len(u.pending)
        PROVE  u.pending[i] # u.cli /\ u.pending[i] \notin u.ended
    <3>1. s.pending[i + 1] # s.pending[1]
      BY <1>1, <1>6, <1>8, Zenon DEF NamesInv
    <3> QED
      BY <1>1, <1>2, <1>3, <1>8, <3>1, Zenon DEF NamesInv
  <2>2. ASSUME NEW i \in 1..Len(u.pending), NEW j \in 1..Len(u.pending),
               u.pending[i] = u.pending[j]
        PROVE  i = j
    <3>1. i + 1 \in 1..Len(s.pending) /\ j + 1 \in 1..Len(s.pending)
          /\ s.pending[i + 1] = s.pending[j + 1]
      BY <1>8, <2>2
    <3>2. i + 1 = j + 1
      BY <1>1, <3>1, Zenon DEF NamesInv
    <3> QED
      BY <3>2
  <2>3. \A x \in Clients : u.got[x] # <<>> => x = u.cli \/ x \in u.ended
    BY <1>1, <1>2, Zenon DEF NamesInv
  <2> QED
    BY <2>1, <2>2, <2>3, Zenon DEF NamesInv
<1>10. UpToInv(u)
  <2>1. s.taken \in Int
    BY <1>1, Zenon DEF TypeInv
  <2>2. /\ Steady(<<>>, s.taken) /\ s.taken + Len(<<>>) = s.taken
        /\ s.taken + Len(<<>>) + Len(<<>>) = s.taken
    BY <2>1, NothingSteady
  <2>3. \E n \in Int : /\ Steady(u.got[c], n) /\ Steady(u.give, n + Len(u.got[c]))
                      /\ n + Len(u.got[c]) + Len(u.give) = u.taken
    BY <1>0, <1>2, <1>7, <2>1, <2>2, Zenon
  <2> QED
    BY <1>2, <2>3, Zenon DEF UpToInv
<1> QED
  BY <1>0, <1>2, <1>3, <1>4, <1>5, <1>9, <1>10, Zenon DEF Between

-----------------------------------------------------------------------------
(* Steps.                                                                  *)

\* Nobody has written, connected or read.
LEMMA InitInv ==
    ASSUME None \notin Clients, Init
    PROVE  Inv
<1>1. /\ r = [x \in Fields |-> r[x]] /\ r.at = "wait" /\ r.cli = None
      /\ r.ended = {} /\ r.taken = 0 /\ r.out = 0
      /\ r.pending = <<>> /\ r.toConsole = <<>> /\ r.got = [c \in Clients |-> <<>>]
      /\ r.give = <<>> /\ r.put = <<>>
  BY DEF Init, Fields
<1>2. <<>> \in Seq(Int) /\ <<>> \in Seq(Clients) /\ 0 \in Int /\ Len(<<>>) = 0 /\ 1..0 = {}
  OBVIOUS
<1>3. r.got \in [Clients -> Seq(Int)] /\ \A c \in Clients : r.got[c] = <<>>
  BY <1>1, <1>2, Zenon
<1>4. TypeInv(r)
  BY <1>1, <1>2, <1>3, Zenon DEF TypeInv
<1>5. Steady(<<>>, 0) /\ 0 = 0 + 0
  BY <1>2, NothingSteady
<1>6. OutputInv(r)
  BY <1>1, <1>2, <1>5, Zenon DEF OutputInv
<1>7. NamesInv(r)
  BY <1>1, <1>2, <1>3, Zenon DEF NamesInv
<1>8. WholeInv(r)
  BY <1>2, <1>3, <1>5, Zenon DEF WholeInv
<1>9. PlaceInv(r) /\ UpToInv(r)
  BY <1>1, Zenon DEF PlaceInv, UpToInv
<1> QED
  BY <1>4, <1>6, <1>7, <1>8, <1>9, Zenon DEF Inv, Good, Between

\* Clients that send, read or leave, the shell that reads, and the wish to end
\* a session.
LEMMA OutsideStep ==
    ASSUME Inv, (\E c \in Clients : ClientSends(c) \/ ClientReads(c) \/ ClientLeaves(c)) \/ ShellReads \/ term_conn
    PROVE  Inv'
<1>1. TypeInv(r)
  BY Zenon DEF Inv, Good, Between
<1>2. /\ r' = [x \in Fields |-> r'[x]] /\ r'.at = r.at /\ r'.cli = r.cli
      /\ r'.ended = r.ended /\ r'.taken = r.taken /\ r'.out = r.out
      /\ r'.pending = r.pending /\ r'.toConsole = r.toConsole /\ r'.got = r.got
      /\ r'.give = r.give /\ r'.put = r.put
  <2>1. CASE \E c \in Clients : ClientSends(c)
    BY <1>1, <2>1 DEF TypeInv, Fields, ClientSends
  <2>2. CASE \E c \in Clients : ClientLeaves(c)
    BY <1>1, <2>2 DEF TypeInv, Fields, ClientLeaves
  <2>3. CASE ShellReads
    BY <1>1, <2>3 DEF TypeInv, Fields, ShellReads
  <2>4. CASE term_conn
    BY <1>1, <2>4 DEF TypeInv, Fields, term_conn
  <2>5. CASE \E c \in Clients : ClientReads(c)
    BY <1>1, <2>5 DEF TypeInv, Fields, ClientReads
  <2> QED
    BY <2>1, <2>2, <2>3, <2>4, <2>5, Zenon
<1>3. r'.give # <<>> \/ r'.put # <<>> => r'.at = "serve"
  BY <1>2, Zenon DEF Inv, Good, PlaceInv
<1>4. Good(r')
  BY <1>2, <1>3, SameGood, Zenon DEF Inv
<1> QED
  BY <1>4, Zenon DEF Inv

\* A new client is behind those that wait.
LEMMA ConnectStep ==
    ASSUME None \notin Clients, Inv, NEW c \in Clients, Connect(c)
    PROVE  Inv'
<1>1. Between(r) /\ TypeInv(r) /\ NamesInv(r)
  BY Zenon DEF Inv, Good, Between
<1>2. /\ r' = [x \in Fields |-> r'[x]] /\ r'.at = r.at /\ r'.cli = r.cli
      /\ r'.ended = r.ended /\ r'.taken = r.taken /\ r'.out = r.out
      /\ r'.pending = Append(r.pending, c) /\ r'.toConsole = r.toConsole /\ r'.got = r.got
      /\ r'.give = r.give /\ r'.put = r.put
  BY <1>1 DEF TypeInv, Fields, Connect
<1>3. c # r.cli /\ c \notin r.ended /\ \A i \in DOMAIN r.pending : r.pending[i] # c
  BY Zenon DEF Connect
<1>4. r.pending \in Seq(Clients) /\ Len(r.pending) \in Nat /\ DOMAIN r.pending = 1..Len(r.pending)
  BY <1>1 DEF TypeInv
<1>5. /\ Append(r.pending, c) \in Seq(Clients) /\ Len(Append(r.pending, c)) = Len(r.pending) + 1
      /\ Append(r.pending, c)[Len(r.pending) + 1] = c
      /\ \A i \in 1..Len(r.pending) : Append(r.pending, c)[i] = r.pending[i]
  BY <1>4, AppendProperties
<1>6. TypeInv(r')
  BY <1>1, <1>2, <1>5, Zenon DEF TypeInv
<1>7. ASSUME NEW i \in 1..Len(r'.pending)
      PROVE  \/ i = Len(r.pending) + 1 /\ r'.pending[i] = c
             \/ i \in 1..Len(r.pending) /\ r'.pending[i] = r.pending[i] /\ r.pending[i] # c
  <2>1. i = Len(r.pending) + 1 \/ i \in 1..Len(r.pending)
    BY <1>2, <1>4, <1>5
  <2> QED
    BY <1>2, <1>3, <1>4, <1>5, <2>1, Zenon
<1>8. NamesInv(r')
  <2>1. ASSUME NEW i \in 1..Len(r'.pending)
        PROVE  r'.pending[i] # r'.cli /\ r'.pending[i] \notin r'.ended
    BY <1>1, <1>2, <1>3, <1>7, Zenon DEF NamesInv
  <2>2. ASSUME NEW i \in 1..Len(r'.pending), NEW j \in 1..Len(r'.pending),
               r'.pending[i] = r'.pending[j]
        PROVE  i = j
    BY <1>1, <1>7, <2>2, Zenon DEF NamesInv
  <2>3. \A x \in Clients : r'.got[x] # <<>> => x = r'.cli \/ x \in r'.ended
    BY <1>1, <1>2, Zenon DEF NamesInv
  <2> QED
    BY <2>1, <2>2, <2>3, Zenon DEF NamesInv
<1>9. OutputInv(r') /\ WholeInv(r')
  BY <1>1, <1>2, Zenon DEF Between, OutputInv, WholeInv
<1>10. PlaceInv(r') /\ UpToInv(r')
  BY <1>2, Zenon DEF Inv, Good, PlaceInv, UpToInv
<1> QED
  BY <1>6, <1>8, <1>9, <1>10, Zenon DEF Inv, Good, Between

\* The shell's next piece is the next one to read.
LEMMA ShellStep ==
    ASSUME Inv, ShellWrites
    PROVE  Inv'
<1>1. Between(r) /\ TypeInv(r)
  BY Zenon DEF Inv, Good, Between
<1>2. /\ r' = [x \in Fields |-> r'[x]] /\ r'.at = r.at /\ r'.cli = r.cli
      /\ r'.ended = r.ended /\ r'.taken = r.taken /\ r'.out = r.out + 1
      /\ r'.pending = r.pending /\ r'.toConsole = Append(r.toConsole, r.out + 1)
      /\ r'.got = r.got /\ r'.give = r.give /\ r'.put = r.put
  BY <1>1 DEF TypeInv, Fields, ShellWrites
<1>3. /\ r.toConsole \in Seq(Int) /\ r.out \in Int /\ r.taken \in Int
      /\ r.out = r.taken + Len(r.toConsole) /\ \A i \in 1..Len(r.toConsole) : r.toConsole[i] = r.taken + i
  BY <1>1, Zenon DEF Between, TypeInv, OutputInv, Steady
<1>4. Len(r.toConsole) \in Nat /\ r.out + 1 \in Int
  BY <1>3
<1>5. /\ Append(r.toConsole, r.out + 1) \in Seq(Int)
      /\ Len(Append(r.toConsole, r.out + 1)) = Len(r.toConsole) + 1
      /\ Append(r.toConsole, r.out + 1)[Len(r.toConsole) + 1] = r.out + 1
      /\ \A i \in 1..Len(r.toConsole) : Append(r.toConsole, r.out + 1)[i] = r.toConsole[i]
  BY <1>3, <1>4, AppendProperties
<1>6. TypeInv(r')
  BY <1>1, <1>2, <1>4, <1>5, Zenon DEF TypeInv
<1>7. ASSUME NEW i \in 1..Len(r'.toConsole)
      PROVE  r'.toConsole[i] = r'.taken + i
  <2>1. i = Len(r.toConsole) + 1 \/ i \in 1..Len(r.toConsole)
    BY <1>2, <1>4, <1>5
  <2>2. CASE i = Len(r.toConsole) + 1
    <3>1. r.taken + i = r.out + 1
      BY <1>3, <1>4, <2>2
    <3> QED
      BY <1>2, <1>5, <2>2, <3>1, Zenon
  <2>3. CASE i \in 1..Len(r.toConsole)
    BY <1>2, <1>3, <1>5, <2>3, Zenon
  <2> QED
    BY <2>1, <2>2, <2>3, Zenon
<1>8. r'.out = r'.taken + Len(r'.toConsole)
  BY <1>2, <1>3, <1>4, <1>5
<1>9. OutputInv(r')
  BY <1>6, <1>7, <1>8, Zenon DEF OutputInv, Steady, TypeInv
<1>10. NamesInv(r') /\ WholeInv(r')
  BY <1>1, <1>2, Zenon DEF Between, NamesInv, WholeInv
<1>11. PlaceInv(r') /\ UpToInv(r')
  BY <1>2, Zenon DEF Inv, Good, PlaceInv, UpToInv
<1> QED
  BY <1>6, <1>9, <1>10, <1>11, Zenon DEF Inv, Good, Between

\* The console reader waits for a client.
LEMMA WaitStep ==
    ASSUME None \notin Clients, Inv, wait_for_connection
    PROVE  Inv'
<1> DEFINE s == flush_console_fd(r)
           u == [s EXCEPT !.pending = Tail(@), !.cli = Head(s.pending)]
           v == [u EXCEPT !.at = "reset"]
<1>1. r.cli = None
  BY Zenon DEF Inv, Good, PlaceInv, wait_for_connection
<1>2. Good(s) /\ s.cli = None
  BY <1>1, FlushGood, Zenon DEF Inv
<1>3. \/ r' = s
      \/ s.pending # <<>> /\ r' \in {End(u), v}
  BY Zenon DEF wait_for_connection
<1> HIDE DEF s
<1>4. ASSUME s.pending # <<>>
      PROVE  /\ Between(u) /\ UpToInv(u) /\ u.cli \in Clients
             /\ u.give = <<>> /\ u.put = <<>>
  BY <1>2, <1>4, AcceptGood, Zenon
<1> HIDE DEF u
<1>5. ASSUME s.pending # <<>>
      PROVE  Good(v)
  <2>1. Between(u) /\ UpToInv(u) /\ u.cli \in Clients /\ TypeInv(u)
    BY <1>4, <1>5, Zenon DEF Between
  <2>2. /\ v = [x \in Fields |-> v[x]] /\ v.at = "reset" /\ v.cli = u.cli
        /\ v.ended = u.ended /\ v.taken = u.taken /\ v.out = u.out
        /\ v.pending = u.pending /\ v.toConsole = u.toConsole /\ v.got = u.got
        /\ v.give = u.give /\ v.put = u.put
    BY <2>1 DEF TypeInv, Fields
  <2> HIDE DEF v
  <2>3. TypeInv(v) /\ OutputInv(v) /\ NamesInv(v) /\ WholeInv(v) /\ UpToInv(v)
    BY <2>1, <2>2, Zenon DEF Between, TypeInv, OutputInv, NamesInv, WholeInv, UpToInv
  <2>4. PlaceInv(v)
    <3>1. "reset" # "wait" /\ v.cli # None
      BY <2>1, <2>2
    <3> QED
      BY <1>4, <1>5, <2>2, <3>1, Zenon DEF PlaceInv
  <2> QED
    BY <2>3, <2>4, Zenon DEF Good, Between
<1>6. ASSUME s.pending # <<>>
      PROVE  Good(End(u))
  BY <1>4, <1>6, EndGood, Zenon
<1>7. Good(r')
  BY <1>2, <1>3, <1>5, <1>6, Zenon
<1> QED
  BY <1>7, Zenon DEF Inv

\* A session begins, looks at the flag before each wait, finds what is ready,
\* reads input, writes it, and has served all.
LEMMA SessionStep ==
    ASSUME None \notin Clients, Inv, ResetFlag \/ Top \/ Select \/ CopyIn \/ PutIn \/ Served
    PROVE  Inv'
<1>1. Between(r) /\ TypeInv(r) /\ Good(r) /\ PlaceInv(r)
  BY Zenon DEF Inv, Good, Between
<1>2. r.at # "wait"
  <2>1. CASE PutIn
    <3>1. r.at = "serve"
      BY <1>1, <2>1, Zenon DEF PutIn, PlaceInv
    <3> QED
      BY <3>1
  <2> QED
    BY <2>1 DEF ResetFlag, Top, Select, CopyIn, Served
<1>3. r.cli \in Clients
  BY <1>1, <1>2, Zenon DEF PlaceInv, TypeInv
<1>4. CASE r' = End(r)
  BY <1>1, <1>3, <1>4, EndGood, Zenon DEF Inv
<1>5. ASSUME r'.at # "wait", r' = [x \in Fields |-> r'[x]], r'.cli = r.cli, r'.give = r.give,
             r'.ended = r.ended, r'.taken = r.taken, r'.out = r.out,
             r'.pending = r.pending, r'.toConsole = r.toConsole, r'.got = r.got,
             r'.give # <<>> \/ r'.put # <<>> => r'.at = "serve"
      PROVE  Inv'
  BY <1>1, <1>2, <1>5, SameGood, Zenon DEF Inv
<1>6. CASE ResetFlag \/ (Top /\ r' = [r EXCEPT !.at = "select"]) \/ Select \/ Served
  <2>1. r.give = <<>> /\ r.put = <<>>
    <3>1. CASE r.at = "serve"
      <4>1. Served
        BY <1>6, <3>1 DEF ResetFlag, Top, Select
      <4> QED
        BY <4>1, Zenon DEF Served, Copying
    <3>2. CASE r.at # "serve"
      BY <1>1, <3>2, Zenon DEF PlaceInv
    <3> QED
      BY <3>1, <3>2, Zenon
  <2>2. /\ r' = [x \in Fields |-> r'[x]] /\ r'.at # "wait" /\ r'.cli = r.cli
        /\ r'.ended = r.ended /\ r'.taken = r.taken /\ r'.out = r.out
        /\ r'.pending = r.pending /\ r'.toConsole = r.toConsole /\ r'.got = r.got
        /\ r'.give = r.give /\ r'.put = r.put
    <3>1. CASE ResetFlag
      BY <1>1, <3>1 DEF TypeInv, Fields, ResetFlag
    <3>4. CASE r' = [r EXCEPT !.at = "select"]
      BY <1>1, <3>4 DEF TypeInv, Fields
    <3>2. CASE Select
      BY <1>1, <3>2 DEF TypeInv, Fields, Select
    <3>3. CASE Served
      BY <1>1, <3>3 DEF TypeInv, Fields, Served
    <3> QED
      BY <1>6, <3>1, <3>2, <3>3, <3>4, Zenon
  <2> QED
    BY <1>5, <2>1, <2>2, Zenon
<1>7. CASE (CopyIn /\ r' # End(r)) \/ PutIn
  <2>1. r.at = "serve"
    BY <1>1, <1>7, Zenon DEF CopyIn, PutIn, PlaceInv
  <2>2. /\ r' = [x \in Fields |-> r'[x]] /\ r'.at = r.at /\ r'.cli = r.cli
        /\ r'.ended = r.ended /\ r'.taken = r.taken /\ r'.out = r.out
        /\ r'.pending = r.pending /\ r'.toConsole = r.toConsole /\ r'.got = r.got
        /\ r'.give = r.give
    <3>1. CASE CopyIn /\ r' # End(r)
      BY <1>1, <3>1 DEF TypeInv, Fields, CopyIn
    <3>2. CASE PutIn
      BY <1>1, <3>2 DEF TypeInv, Fields, PutIn
    <3> QED
      BY <1>7, <3>1, <3>2, Zenon
  <2> QED
    BY <1>2, <1>5, <2>1, <2>2, Zenon
<1>8. CopyIn => r' = End(r) \/ r' # End(r)
  OBVIOUS
<1>9. Top => r' = End(r) \/ r' = [r EXCEPT !.at = "select"]
  BY Zenon DEF Top
<1> QED
  BY <1>4, <1>6, <1>7, <1>9, Zenon

\* Output that is read is all to be written to the session.
LEMMA CopyOutStep ==
    ASSUME None \notin Clients, Inv, CopyOut
    PROVE  Inv'
<1>1. Between(r) /\ TypeInv(r) /\ UpToInv(r) /\ OutputInv(r) /\ PlaceInv(r)
  BY Zenon DEF Inv, Good, Between
<1>2. /\ r' = [x \in Fields |-> r'[x]] /\ r'.at = r.at /\ r'.cli = r.cli
      /\ r'.ended = r.ended /\ r'.taken = r.taken + Len(r.toConsole) /\ r'.out = r.out
      /\ r'.pending = r.pending /\ r'.toConsole = <<>> /\ r'.got = r.got
      /\ r'.give = r.toConsole /\ r'.put = r.put
  BY <1>1 DEF TypeInv, Fields, CopyOut
<1>3. r.give = <<>> /\ r.at = "serve"
  BY Zenon DEF CopyOut, Copying
<1>4. OutputInv(r') /\ r'.taken \in Int
  BY <1>1, <1>2, AllRead, Zenon
<1>5. <<>> \in Seq(Int) /\ r.toConsole \in Seq(Int)
  BY <1>1 DEF TypeInv
<1>6. TypeInv(r')
  BY <1>1, <1>2, <1>4, <1>5, Zenon DEF TypeInv
<1>7. NamesInv(r') /\ WholeInv(r')
  BY <1>1, <1>2, Zenon DEF Between, NamesInv, WholeInv
<1>8. PlaceInv(r')
  BY <1>1, <1>2, <1>3, Zenon DEF PlaceInv
<1>9. ASSUME NEW c \in Clients, c = r'.cli
      PROVE  \E n \in Int : /\ Steady(r'.got[c], n) /\ Steady(r'.give, n + Len(r'.got[c]))
                            /\ n + Len(r'.got[c]) + Len(r'.give) = r'.taken
  <2>1. PICK n \in Int : /\ Steady(r.got[c], n)
                         /\ n + Len(r.got[c]) + Len(r.give) = r.taken
    BY <1>1, <1>2, <1>9, Zenon DEF UpToInv
  <2>2. r.got[c] \in Seq(Int)
    BY <2>1, Zenon DEF Steady
  <2>3. Len(r.got[c]) \in Nat /\ Len(r.toConsole) \in Nat /\ Len(<<>>) = 0
    BY <1>5, <2>2
  <2>4. n + Len(r.got[c]) = r.taken
    BY <1>3, <2>1, <2>3
  <2>5. Steady(r.toConsole, n + Len(r.got[c]))
    BY <1>1, <2>4, Zenon DEF OutputInv
  <2>6. n + Len(r.got[c]) + Len(r.toConsole) = r.taken + Len(r.toConsole)
    BY <2>4, Zenon
  <2> QED
    BY <1>2, <2>1, <2>5, <2>6, Zenon
<1>10. UpToInv(r')
  BY <1>9, Zenon DEF UpToInv
<1> QED
  BY <1>4, <1>6, <1>7, <1>8, <1>10, Zenon DEF Inv, Good, Between

\* A piece is written to the session, or the session ends.
LEMMA GiveOutStep ==
    ASSUME None \notin Clients, Inv, GiveOut
    PROVE  Inv'
<1>1. Between(r) /\ TypeInv(r) /\ UpToInv(r) /\ OutputInv(r) /\ WholeInv(r) /\ NamesInv(r) /\ PlaceInv(r)
  BY Zenon DEF Inv, Good, Between
<1>2. r.give # <<>> /\ r.at = "serve"
  BY <1>1, Zenon DEF GiveOut, PlaceInv
<1>3. r.cli \in Clients
  <2>1. r.at # "wait"
    BY <1>2
  <2> QED
    BY <1>1, <2>1, Zenon DEF PlaceInv, TypeInv
<1>4. CASE r.cli \in r.left
  BY <1>1, <1>3, <1>4, EndGood, Zenon DEF Inv, GiveOut
<1>5. CASE r.cli \notin r.left
  <2> DEFINE c == r.cli
             g == r.give
             w == Append(r.got[c], Head(g))
  <2>1. /\ r' = [x \in Fields |-> r'[x]] /\ r'.at = r.at /\ r'.cli = r.cli
        /\ r'.ended = r.ended /\ r'.taken = r.taken /\ r'.out = r.out
        /\ r'.pending = r.pending /\ r'.toConsole = r.toConsole
        /\ r'.give = Tail(g) /\ r'.put = r.put
        /\ r'.got = [r.got EXCEPT ![c] = w]
    BY <1>1, <1>5 DEF TypeInv, Fields, GiveOut
  <2>2. PICK n \in Int : /\ Steady(r.got[c], n) /\ Steady(g, n + Len(r.got[c]))
                         /\ n + Len(r.got[c]) + Len(g) = r.taken
    BY <1>1, <1>3, Zenon DEF UpToInv
  <2>3. r.got[c] \in Seq(Int) /\ g \in Seq(Int) /\ g # <<>>
    BY <1>2, <2>2, Zenon DEF Steady
  <2> HIDE DEF c, g
  <2>4. /\ Len(r.got[c]) \in Nat /\ Len(g) \in Nat /\ Len(g) >= 1 /\ 1 \in 1..Len(g)
        /\ Head(g) = g[1] /\ g[1] \in Int
        /\ Tail(g) \in Seq(Int) /\ Len(Tail(g)) = Len(g) - 1
        /\ \A i \in 1..(Len(g) - 1) : Tail(g)[i] = g[i + 1]
    BY <2>3
  <2>5. /\ w \in Seq(Int) /\ Len(w) = Len(r.got[c]) + 1 /\ w[Len(r.got[c]) + 1] = g[1]
        /\ \A i \in 1..Len(r.got[c]) : w[i] = r.got[c][i]
    BY <2>3, <2>4, AppendProperties
  <2> HIDE DEF w
  <2>6. g[1] = (n + Len(r.got[c])) + 1
    BY <2>2, <2>4, Zenon DEF Steady
  <2>7. ASSUME NEW i \in 1..Len(w)
        PROVE  w[i] = n + i
    <3>1. i \in 1..Len(r.got[c]) \/ i = Len(r.got[c]) + 1
      BY <2>4, <2>5
    <3>2. CASE i \in 1..Len(r.got[c])
      BY <2>2, <2>5, <3>2, Zenon DEF Steady
    <3>3. CASE i = Len(r.got[c]) + 1
      <4>1. n + i = (n + Len(r.got[c])) + 1
        BY <2>4, <3>3
      <4> QED
        BY <2>5, <2>6, <3>3, <4>1, Zenon
    <3> QED
      BY <3>1, <3>2, <3>3, Zenon
  <2>8. Steady(w, n)
    BY <2>5, <2>7, Zenon DEF Steady
  <2>9. n + Len(w) = (n + Len(r.got[c])) + 1
    BY <2>4, <2>5
  <2>10. ASSUME NEW i \in 1..Len(Tail(g))
         PROVE  Tail(g)[i] = n + Len(w) + i
    <3>1. i \in 1..(Len(g) - 1) /\ i + 1 \in 1..Len(g)
      BY <2>4
    <3>2. g[i + 1] = (n + Len(r.got[c])) + (i + 1)
      BY <2>2, <3>1, Zenon DEF Steady
    <3>3. ASSUME NEW x \in Nat
          PROVE  ((n + x) + 1) + i = (n + x) + (i + 1)
      BY <3>1
    <3>4. n + Len(w) + i = (n + Len(r.got[c])) + (i + 1)
      BY <2>4, <2>9, <3>3, Zenon
    <3> QED
      BY <2>4, <3>1, <3>2, <3>4, Zenon
  <2>11. Steady(Tail(g), n + Len(w))
    BY <2>4, <2>10, Zenon DEF Steady
  <2>12. n + Len(w) + Len(Tail(g)) = r.taken
    <3>1. ASSUME NEW x \in Nat, NEW y \in Nat
          PROVE  ((n + x) + 1) + (y - 1) = (n + x) + y
      OBVIOUS
    <3> QED
      BY <2>2, <2>4, <2>9, <3>1, Zenon
  <2>13. /\ r.got \in [Clients -> Seq(Int)] /\ r'.got \in [Clients -> Seq(Int)] /\ r'.got[c] = w
         /\ \A x \in Clients : x # c => r'.got[x] = r.got[x]
    BY <1>1, <1>3, <2>1, <2>5 DEF TypeInv, c
  <2>14. TypeInv(r') /\ OutputInv(r')
    BY <1>1, <2>1, <2>4, <2>13, Zenon DEF TypeInv, OutputInv
  <2>15. NamesInv(r')
    <3>1. \A x \in Clients : r'.got[x] # <<>> => x = r'.cli \/ x \in r'.ended
      BY <1>1, <2>1, <2>13, Zenon DEF NamesInv, c
    <3> QED
      BY <1>1, <2>1, <3>1, Zenon DEF NamesInv
  <2>16. WholeInv(r')
    BY <1>1, <2>8, <2>13, Zenon DEF WholeInv
  <2>17. PlaceInv(r')
    BY <1>1, <1>2, <2>1, Zenon DEF PlaceInv
  <2>18. UpToInv(r')
    BY <2>1, <2>8, <2>11, <2>12, <2>13, Zenon DEF UpToInv, c
  <2> QED
    BY <2>14, <2>15, <2>16, <2>17, <2>18, Zenon DEF Inv, Good, Between
<1> QED
  BY <1>4, <1>5, Zenon

\* Every step.
LEMMA NextInv ==
    ASSUME None \notin Clients, Inv, [Next]_r
    PROVE  Inv'
<1>1. CASE (\E c \in Clients : ClientSends(c) \/ ClientReads(c) \/ ClientLeaves(c)) \/ ShellReads \/ term_conn
  BY <1>1, OutsideStep, Zenon
<1>2. CASE \E c \in Clients : Connect(c)
  BY <1>2, ConnectStep, Zenon
<1>3. CASE ShellWrites
  BY <1>3, ShellStep, Zenon
<1>4. CASE wait_for_connection
  BY <1>4, WaitStep, Zenon
<1>5. CASE ResetFlag \/ Top \/ Select \/ CopyIn \/ PutIn \/ Served
  BY <1>5, SessionStep, Zenon
<1>6. CASE CopyOut
  BY <1>6, CopyOutStep, Zenon
<1>7. CASE GiveOut
  BY <1>7, GiveOutStep, Zenon
<1>8. CASE UNCHANGED r
  BY <1>8, Zenon DEF Inv
<1> QED
  BY <1>1, <1>2, <1>3, <1>4, <1>5, <1>6, <1>7, <1>8, Zenon DEF Next, console_reader

\* The invariant holds.
THEOREM InvHolds ==
    ASSUME None \notin Clients
    PROVE  Spec => []Inv
<1>1. Init => Inv
  BY InitInv, Zenon
<1>2. Inv /\ [Next]_r => Inv'
  BY NextInv, Zenon
<1> QED
  BY <1>1, <1>2, PTL DEF Spec

\* However clients come, talk, read or do not, and leave, and sessions are
\* ended: what a session is given are pieces of the shell's output that follow
\* each other, up to the last one that was read but for those still to be
\* written.
THEOREM SessionsWhole ==
    ASSUME None \notin Clients
    PROVE  Spec => []SessionWhole
<1>1. Inv => SessionWhole
  <2> SUFFICES ASSUME Inv, NEW c \in Clients
               PROVE  /\ \A i \in DOMAIN r.got[c] : i > 1 => r.got[c][i] = r.got[c][i - 1] + 1
                      /\ c = r.cli /\ r.got[c] # <<>> => r.got[c][Len(r.got[c])] = r.taken - Len(r.give)
    BY Zenon DEF SessionWhole
  <2> DEFINE v == r.got[c]
  <2>1. WholeInv(r) /\ UpToInv(r)
    BY Zenon DEF Inv, Good, Between
  <2>2. \A i \in DOMAIN v : i > 1 => v[i] = v[i - 1] + 1
    <3>1. PICK n \in Int : Steady(v, n)
      BY <2>1, Zenon DEF WholeInv
    <3> HIDE DEF v
    <3>2. v \in Seq(Int) /\ \A i \in 1..Len(v) : v[i] = n + i
      BY <3>1, Zenon DEF Steady
    <3>3. ASSUME NEW i \in DOMAIN v, i > 1
          PROVE  v[i] = v[i - 1] + 1
      <4>1. i \in 1..Len(v) /\ i - 1 \in 1..Len(v)
        BY <3>2, <3>3
      <4>2. v[i] = n + i /\ v[i - 1] = n + (i - 1)
        BY <3>2, <4>1, Zenon
      <4>3. n + i = (n + (i - 1)) + 1
        BY <4>1
      <4> QED
        BY <4>2, <4>3, Zenon
    <3> QED
      BY <3>3, Zenon
  <2>3. ASSUME c = r.cli, v # <<>>
        PROVE  v[Len(v)] = r.taken - Len(r.give)
    <3>1. PICK n \in Int : Steady(v, n) /\ n + Len(v) + Len(r.give) = r.taken
      BY <2>1, <2>3, Zenon DEF UpToInv
    <3>2. v # <<>>
      BY <2>3, Zenon
    <3> HIDE DEF v
    <3>3. v \in Seq(Int) /\ \A i \in 1..Len(v) : v[i] = n + i
      BY <3>1, Zenon DEF Steady
    <3>4. Len(v) \in 1..Len(v)
      BY <3>2, <3>3
    <3>5. r.give \in Seq(Int)
      BY Zenon DEF Inv, Good, Between, TypeInv
    <3>6. Len(r.give) \in Nat /\ Len(v) \in Nat
      BY <3>3, <3>5
    <3>7. ASSUME NEW x \in Nat, NEW y \in Nat
          PROVE  n + x = (n + x + y) - y
      OBVIOUS
    <3>8. n + Len(v) = r.taken - Len(r.give)
      BY <3>1, <3>6, <3>7, Zenon
    <3> QED
      BY <3>3, <3>4, <3>8, Zenon
  <2> QED
    BY <2>2, <2>3, Zenon
<1> QED
  BY <1>1, InvHolds, PTL
=============================================================================
