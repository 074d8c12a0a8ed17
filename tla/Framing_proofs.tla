--------------------------- MODULE Framing_proofs ---------------------------
(***************************************************************************)
(* That messages are received whole and in order, and that a buffer of the *)
(* caller is never filled past its end: for events of any lengths, buffers *)
(* of any sizes and any number of messages.                                *)
(***************************************************************************)
EXTENDS Framing, SequenceTheorems, TLAPS

(***************************************************************************)
(* The invariant.                                                          *)
(***************************************************************************)

\* What is written to the connection.
Part == [part : {"hdr"}, size : Nat] \cup [part : {"op"}, op : {"publish", "key", "buffer"}]
        \cup [part : {"key"}, id : Nat] \cup [part : {"msg"}, data_len : Nat]
        \cup [part : {"data"}, id : Nat] \cup [part : {"len"}]

\* A header that counts what follows it.
IsMessage(m) == /\ m \in Seq(Part) /\ Len(m) >= 1
                /\ m[1].part = "hdr" /\ m[1].size = Len(m) - 1

TypeInv == f \in [stream : Seq(Part), closed : BOOLEAN, torn : BOOLEAN, misused : BOOLEAN,
                  sent : Seq(Seq(Part)), got : Seq(Seq(Part)), into : Seq(Int),
                  failed : BOOLEAN, buff : Int, max : BOOLEAN]

\* What was sent are messages, and each that was received has its buffer.
MessagesInv == /\ \A i \in 1..Len(f.sent) : IsMessage(f.sent[i])
               /\ Len(f.into) = Len(f.got)

\* Behind place at there are the first n parts of w.
Found(stream, at, n, w) == \A j \in 1..n : stream[at + j] = w[j]

\* Places k to m rise.
Places(o, k, m) ==
    o \in [Nat -> Nat] /\ \A i, j \in Nat : k <= i /\ i <= j /\ j <= m => o[i] <= o[j]

\* Message i + 1 goes from its place to the next one.
Follows(stream, sent, o, i) ==
    /\ o[i + 1] = o[i] + Len(sent[i + 1])
    /\ Found(stream, o[i], Len(sent[i + 1]), sent[i + 1])

\* Behind place at there is less than a message.
CutOff(stream, at) ==
    Len(stream) > at => \E w : /\ IsMessage(w) /\ Len(stream) - at < Len(w)
                               /\ Found(stream, at, Len(stream) - at, w)

\* The messages k + 1 to m of those sent follow each other in the stream,
\* message i up to place o[i]; behind them is at most the begin of one whose
\* send was cut.
Queued(stream, sent, k, m, torn, o) ==
    /\ Places(o, k, m) /\ o[k] = 0 /\ o[m] <= Len(stream)
    /\ \A i \in Nat : k <= i /\ i < m => Follows(stream, sent, o, i)
    /\ ~torn => Len(stream) = o[m]
    /\ CutOff(stream, o[m])

StreamInv ==
    ~f.failed /\ ~f.misused =>
        /\ Len(f.got) <= Len(f.sent)
        /\ \A i \in 1..Len(f.got) : f.got[i] = f.sent[i]
        /\ \E o : Queued(f.stream, f.sent, Len(f.got), Len(f.sent), f.torn, o)

\* The parts are inductive together.
Inv == TypeInv /\ MessagesInv /\ StreamInv /\ EventsThatFit

-----------------------------------------------------------------------------
(* Messages.                                                               *)

\* Parts of each kind, and the size of a header.
LEMMA Parts ==
    /\ \A n \in Nat : [part |-> "hdr", size |-> n] \in Part
    /\ \A op \in {"publish", "key", "buffer"} : [part |-> "op", op |-> op] \in Part
    /\ \A i \in Nat : [part |-> "key", id |-> i] \in Part
    /\ \A n \in Nat : [part |-> "msg", data_len |-> n] \in Part
    /\ \A i \in Nat : [part |-> "data", id |-> i] \in Part
    /\ [part |-> "len"] \in Part
    /\ \A p \in Part : p.part = "hdr" => p.size \in Nat
<1>1. \A n \in Nat : [part |-> "hdr", size |-> n] \in Part
  BY DEF Part
<1>2. \A op \in {"publish", "key", "buffer"} : [part |-> "op", op |-> op] \in Part
  BY DEF Part
<1>3. \A i \in Nat : [part |-> "key", id |-> i] \in Part
  BY DEF Part
<1>4. \A n \in Nat : [part |-> "msg", data_len |-> n] \in Part
  BY DEF Part
<1>5. \A i \in Nat : [part |-> "data", id |-> i] \in Part
  BY DEF Part
<1>6. [part |-> "len"] \in Part
  BY DEF Part
<1>7. \A p \in Part : p.part = "hdr" => p.size \in Nat
  BY DEF Part
<1> QED
  BY <1>1, <1>2, <1>3, <1>4, <1>5, <1>6, <1>7

\* What is sent is a message.
LEMMA WireIs ==
    ASSUME NEW op \in {"publish", "key", "buffer"}, NEW data \in Seq(Part)
    PROVE  IsMessage(Wire(op, data))
<1> DEFINE h == [part |-> "hdr", size |-> 1 + Len(data)]
           p == [part |-> "op", op |-> op]
           a == <<h, p>>
           d == a \o data
<1>1. Len(data) \in Nat /\ h \in Part /\ p \in Part /\ h.part = "hdr" /\ h.size = 1 + Len(data)
  BY Parts
<1> HIDE DEF h, p
<1>2. a \in Seq(Part) /\ Len(a) = 2 /\ a[1] = h
  BY <1>1
<1> HIDE DEF a
<1>3. d \in Seq(Part) /\ Len(d) = Len(a) + Len(data)
      /\ \A i \in 1..(Len(a) + Len(data)) : d[i] = IF i <= Len(a) THEN a[i] ELSE data[i - Len(a)]
  BY <1>2, ConcatProperties, Zenon DEF d
<1> HIDE DEF d
<1>4. Len(d) = 2 + Len(data) /\ d[1] = h
  BY <1>1, <1>2, <1>3
<1>5. IsMessage(d)
  BY <1>1, <1>3, <1>4 DEF IsMessage
<1> QED
  BY <1>5 DEF d, a, h, p, Wire

\* The data of each operation.
LEMMA DataIs ==
    ASSUME NEW id \in Nat, NEW n \in Nat
    PROVE  Event(id, n) \in Seq(Part) /\ <<Key(id)>> \in Seq(Part)
           /\ <<[part |-> "len"]>> \in Seq(Part)
<1> DEFINE k == Key(id)
           g == [part |-> "msg", data_len |-> n]
           x == [part |-> "data", id |-> id]
           a == <<k, g>>
           b == [i \in 1..n |-> x]
<1>1. k \in Part /\ g \in Part /\ x \in Part
  BY Parts DEF Key
<1> HIDE DEF k, g, x
<1>2. a \in Seq(Part) /\ <<k>> \in Seq(Part)
  BY <1>1
<1>3. b \in Seq(Part)
  BY <1>1
<1> HIDE DEF a, b
<1>4. a \o b \in Seq(Part)
  BY <1>2, <1>3, ConcatProperties
<1>5. <<[part |-> "len"]>> \in Seq(Part)
  BY Parts
<1> QED
  BY <1>2, <1>4, <1>5 DEF a, b, k, g, x, Event

-----------------------------------------------------------------------------
(* The queue in the stream.                                                *)

\* A list that is cut off behind its first places.
LEMMA CutIs ==
    ASSUME NEW S, NEW s \in Seq(S), NEW n \in 0..Len(s)
    PROVE  /\ SubSeq(s, 1, n) \in Seq(S) /\ Len(SubSeq(s, 1, n)) = n
           /\ \A j \in 1..n : SubSeq(s, 1, n)[j] = s[j]
           /\ SubSeq(s, n + 1, Len(s)) \in Seq(S) /\ Len(SubSeq(s, n + 1, Len(s))) = Len(s) - n
           /\ \A j \in 1..(Len(s) - n) : SubSeq(s, n + 1, Len(s))[j] = s[n + j]
<1>1. Len(s) \in Nat
  OBVIOUS
<1> QED
  BY <1>1

\* The first l places of two lists agree; and of one and another behind place n.
Same(a, b, l) == \A j \in 1..l : a[j] = b[j]
Shifted(a, b, n, l) == \A j \in 1..l : a[j] = b[n + j]

\* Two sequences behind each other.
LEMMA BehindIs ==
    ASSUME NEW S, NEW s \in Seq(S), NEW u \in Seq(S)
    PROVE  /\ s \o u \in Seq(S) /\ Len(s \o u) = Len(s) + Len(u)
           /\ Same(s \o u, s, Len(s)) /\ Found(s \o u, Len(s), Len(u), u)
<1>1. Len(s) \in Nat /\ Len(u) \in Nat
  OBVIOUS
<1> DEFINE d == s \o u
<1>2. /\ d \in Seq(S) /\ Len(d) = Len(s) + Len(u)
      /\ \A j \in 1..(Len(s) + Len(u)) : d[j] = IF j <= Len(s) THEN s[j] ELSE u[j - Len(s)]
  BY ConcatProperties, Zenon
<1> HIDE DEF d
<1>3. \A j \in 1..Len(s) : d[j] = s[j]
  BY <1>1, <1>2
<1>4. ASSUME NEW j \in 1..Len(u)
      PROVE  d[Len(s) + j] = u[j]
  <2>1. /\ Len(s) + j \in 1..(Len(s) + Len(u)) /\ ~(Len(s) + j <= Len(s))
        /\ (Len(s) + j) - Len(s) = j
    BY <1>1
  <2>2. d[Len(s) + j] = u[(Len(s) + j) - Len(s)]
    BY <1>2, <2>1
  <2> QED
    BY <2>1, <2>2
<1>5. Same(d, s, Len(s)) /\ Found(d, Len(s), Len(u), u)
  BY <1>3, <1>4, Zenon DEF Same, Found
<1> QED
  BY <1>2, <1>5, Zenon DEF d

\* Every entry to place m is a list of parts.
AllParts(sent, m) == \A i \in 1..m : sent[i] \in Seq(Part)

\* What is found is found where the front was taken off,
LEMMA FoundBehind ==
    ASSUME NEW ls \in Nat, NEW n \in Nat, NEW stream, NEW rest,
           Shifted(rest, stream, n, ls - n),
           NEW at \in Nat, NEW l \in Nat, NEW w, n <= at, at + l <= ls,
           Found(stream, at, l, w)
    PROVE  Found(rest, at - n, l, w)
<1> SUFFICES ASSUME NEW j \in 1..l
             PROVE  rest[(at - n) + j] = w[j]
  BY DEF Found
<1>1. (at - n) + j \in 1..(ls - n) /\ n + ((at - n) + j) = at + j
  OBVIOUS
<1>2. rest[(at - n) + j] = stream[n + ((at - n) + j)]
  BY <1>1, Zenon DEF Shifted
<1>3. stream[at + j] = w[j]
  BY DEF Found
<1> QED
  BY <1>1, <1>2, <1>3

\* and where something was put behind.
LEMMA FoundBefore ==
    ASSUME NEW ls \in Nat, NEW stream, NEW more,
           Same(more, stream, ls),
           NEW at \in Nat, NEW l \in Nat, NEW w, at + l <= ls,
           Found(stream, at, l, w)
    PROVE  Found(more, at, l, w)
<1> SUFFICES ASSUME NEW j \in 1..l
             PROVE  more[at + j] = w[j]
  BY DEF Found
<1>1. at + j \in 1..ls
  OBVIOUS
<1>2. stream[at + j] = w[j]
  BY DEF Found
<1> QED
  BY <1>1, <1>2, Zenon DEF Same

\* What is known of a place.
LEMMA PlaceIs ==
    ASSUME NEW k \in Nat, NEW m \in Nat, NEW o, Places(o, k, m),
           NEW i \in Nat, k <= i, i <= m
    PROVE  o[i] \in Nat /\ o[m] \in Nat /\ o[i] <= o[m]
<1>1. o \in [Nat -> Nat] /\ \A x, y \in Nat : k <= x /\ x <= y /\ y <= m => o[x] <= o[y]
  BY Zenon DEF Places
<1>2. m <= m
  OBVIOUS
<1>3. o[i] <= o[m]
  BY <1>1, <1>2, Zenon
<1>4. o[i] \in Nat /\ o[m] \in Nat
  BY <1>1, Zenon
<1> QED
  BY <1>3, <1>4

\* What is found at a place ends before the end.
LEMMA FollowsIs ==
    ASSUME NEW stream, NEW sent, NEW k \in Nat, NEW m \in Nat, NEW o, Places(o, k, m),
           NEW ls \in Nat, o[m] <= ls,
           AllParts(sent, m),
           NEW i \in Nat, k <= i, i < m, Follows(stream, sent, o, i)
    PROVE  /\ Len(sent[i + 1]) \in Nat /\ o[i] \in Nat /\ o[i + 1] \in Nat
           /\ o[i + 1] = o[i] + Len(sent[i + 1]) /\ o[i] + Len(sent[i + 1]) <= ls
           /\ Found(stream, o[i], Len(sent[i + 1]), sent[i + 1])
<1>1. i + 1 \in Nat /\ k <= i + 1 /\ i + 1 <= m /\ i <= m /\ i + 1 \in 1..m
  OBVIOUS
<1>2. o[i] \in Nat
  BY <1>1, PlaceIs, Zenon
<1>3. o[i + 1] \in Nat /\ o[m] \in Nat /\ o[i + 1] <= o[m]
  BY <1>1, PlaceIs, Zenon
<1>4. sent[i + 1] \in Seq(Part)
  BY <1>1, Zenon DEF AllParts
<1>5. Len(sent[i + 1]) \in Nat
  BY <1>4
<1>6. /\ o[i + 1] = o[i] + Len(sent[i + 1])
      /\ Found(stream, o[i], Len(sent[i + 1]), sent[i + 1])
  BY Zenon DEF Follows
<1>7. o[i] + Len(sent[i + 1]) <= ls
  <2>1. o[i + 1] <= ls
    BY <1>3
  <2> QED
    BY <1>6, <2>1
<1> QED
  BY <1>2, <1>3, <1>5, <1>6, <1>7, Zenon

\* The first message of the queue is at the begin of the stream, and goes on
\* for as long as its header says; without one, what is there is cut off before.
LEMMA FirstQueued ==
    ASSUME NEW stream \in Seq(Part), NEW m \in Nat, NEW sent,
           \A i \in 1..m : IsMessage(sent[i]),
           NEW k \in Nat, k <= m,
           NEW torn, NEW o, Queued(stream, sent, k, m, torn, o),
           stream # <<>>, NEW n \in Nat, stream[1].size = n - 1, n <= Len(stream)
    PROVE  k < m /\ n = o[k + 1] /\ n = Len(sent[k + 1]) /\ Found(stream, 0, n, sent[k + 1])
<1>1. Len(stream) \in Nat /\ Len(stream) >= 1
  OBVIOUS
<1>2. ASSUME NEW w, IsMessage(w), NEW l \in Nat, 1 <= l, Found(stream, 0, l, w)
      PROVE  Len(w) \in Nat /\ n = Len(w)
  <2>1. 1 \in 1..l /\ 0 + 1 = 1
    BY <1>2
  <2>2. stream[0 + 1] = w[1]
    BY <1>2, <2>1 DEF Found
  <2>3. stream[1] = w[1]
    BY <2>1, <2>2
  <2>4. Len(w) \in Nat /\ w[1].size = Len(w) - 1
    BY <1>2 DEF IsMessage
  <2> QED
    BY <2>3, <2>4
<1>3. CASE k < m
  <2>1. k + 1 \in 1..m /\ k <= k
    BY <1>3
  <2>2. IsMessage(sent[k + 1])
    BY <2>1, Zenon
  <2>3. Len(sent[k + 1]) \in Nat /\ Len(sent[k + 1]) >= 1
    BY <2>2 DEF IsMessage
  <2>4. Follows(stream, sent, o, k) /\ o[k] = 0
    BY <1>3, <2>1, Zenon DEF Queued
  <2>5. o[k + 1] = o[k] + Len(sent[k + 1]) /\ Found(stream, 0, Len(sent[k + 1]), sent[k + 1])
    BY <2>4, Zenon DEF Follows
  <2>6. n = Len(sent[k + 1])
    BY <1>2, <2>2, <2>3, <2>5
  <2>7. o[k + 1] = n
    BY <2>3, <2>4, <2>5, <2>6
  <2> QED
    BY <1>3, <2>5, <2>6, <2>7
<1>4. CASE ~(k < m)
  <2>1. k = m
    BY <1>4
  <2>2. o[m] = 0 /\ CutOff(stream, o[m])
    BY <2>1, Zenon DEF Queued
  <2>3. CutOff(stream, 0)
    BY <2>2, Zenon
  <2>4. Len(stream) - 0 = Len(stream) /\ Len(stream) > 0
    BY <1>1
  <2>5. PICK w : IsMessage(w) /\ Len(stream) < Len(w) /\ Found(stream, 0, Len(stream), w)
    BY <2>3, <2>4, Zenon DEF CutOff
  <2>6. Len(w) \in Nat /\ n = Len(w)
    BY <1>1, <1>2, <2>5
  <2> QED
    BY <1>1, <2>5, <2>6
<1> QED
  BY <1>3, <1>4, Zenon

\* Taking it off leaves the queue behind it.
LEMMA TakeFirst ==
    ASSUME NEW stream \in Seq(Part), NEW m \in Nat, NEW sent,
           AllParts(sent, m),
           NEW k \in Nat, k < m, NEW torn,
           NEW o, Queued(stream, sent, k, m, torn, o),
           NEW n \in Nat, o[k + 1] = n, NEW rest,
           Len(rest) = Len(stream) - n,
           Shifted(rest, stream, n, Len(stream) - n)
    PROVE  \E p : Queued(rest, sent, k + 1, m, torn, p)
<1> DEFINE p == [i \in Nat |-> IF k + 1 <= i /\ i <= m THEN o[i] - n ELSE 0]
<1>1. Places(o, k, m) /\ CutOff(stream, o[m])
      /\ \A i \in Nat : k <= i /\ i < m => Follows(stream, sent, o, i)
  BY Zenon DEF Queued
<1>2. Len(stream) \in Nat /\ o[m] <= Len(stream)
  BY DEF Queued
<1>3. ASSUME NEW i \in Nat, NEW j \in Nat, k + 1 <= i, i <= j, j <= m
      PROVE  o[i] \in Nat /\ o[j] \in Nat /\ n <= o[i] /\ o[i] <= o[j] /\ o[j] <= o[m]
  <2>1. k <= i /\ k <= j /\ i <= m /\ k + 1 \in Nat /\ k <= k + 1
    BY <1>3
  <2>2. o[i] \in Nat /\ o[j] \in Nat /\ o[j] <= o[m]
    BY <1>1, <1>3, <2>1, PlaceIs, Zenon
  <2>3. o[k + 1] <= o[i] /\ o[i] <= o[j]
    BY <1>1, <1>3, <2>1, Zenon DEF Places
  <2> QED
    BY <2>2, <2>3, Zenon
<1>4. ASSUME NEW i \in Nat, k + 1 <= i, i <= m
      PROVE  o[i] \in Nat /\ n <= o[i] /\ o[i] <= o[m] /\ p[i] = o[i] - n
  <2>1. m <= m
    OBVIOUS
  <2>2. o[i] \in Nat /\ n <= o[i] /\ o[i] <= o[m]
    BY <1>3, <1>4, <2>1, Zenon
  <2>3. p[i] = o[i] - n
    BY <1>4
  <2> QED
    BY <2>2, <2>3, Zenon
<1>5. p \in [Nat -> Nat]
  <2>1. ASSUME NEW i \in Nat
        PROVE  (IF k + 1 <= i /\ i <= m THEN o[i] - n ELSE 0) \in Nat
    <3>1. CASE k + 1 <= i /\ i <= m
      <4>1. o[i] \in Nat /\ n <= o[i]
        BY <1>4, <3>1, Zenon
      <4> QED
        BY <3>1, <4>1
    <3>2. CASE ~(k + 1 <= i /\ i <= m)
      BY <3>2
    <3> QED
      BY <3>1, <3>2, Zenon
  <2> QED
    BY <2>1, Zenon
<1> HIDE DEF p
<1>6. o[m] \in Nat /\ n <= o[m] /\ p[m] = o[m] - n
  <2>1. k + 1 <= m /\ m <= m
    OBVIOUS
  <2> QED
    BY <1>4, <2>1, Zenon
<1>7. p[k + 1] = 0
  <2>1. k + 1 \in Nat /\ k + 1 <= k + 1 /\ k + 1 <= m
    OBVIOUS
  <2>2. p[k + 1] = o[k + 1] - n
    BY <1>4, <2>1, Zenon
  <2> QED
    BY <2>2
<1>8. Len(rest) - p[m] = Len(stream) - o[m] /\ p[m] <= Len(rest)
  BY <1>2, <1>6
<1>9. Places(p, k + 1, m)
  <2>1. ASSUME NEW i \in Nat, NEW j \in Nat, k + 1 <= i, i <= j, j <= m
        PROVE  p[i] <= p[j]
    <3>1. i <= m /\ k + 1 <= j
      BY <2>1
    <3>2. o[i] <= o[j] /\ o[i] \in Nat /\ o[j] \in Nat
      BY <1>3, <2>1, Zenon
    <3>3. p[i] = o[i] - n /\ p[j] = o[j] - n
      BY <1>4, <2>1, <3>1, Zenon
    <3> QED
      BY <3>2, <3>3
  <2> QED
    BY <1>5, <2>1, Zenon DEF Places
<1>10. ASSUME NEW i \in Nat, k + 1 <= i, i < m
       PROVE  Follows(rest, sent, p, i)
  <2>1. k <= i /\ i <= m /\ i + 1 \in Nat /\ k + 1 <= i + 1 /\ i + 1 <= m
    BY <1>10
  <2>2. Follows(stream, sent, o, i)
    BY <1>1, <1>10, <2>1, Zenon
  <2>3. /\ Len(sent[i + 1]) \in Nat /\ o[i] \in Nat /\ o[i + 1] \in Nat
        /\ o[i + 1] = o[i] + Len(sent[i + 1]) /\ o[i] + Len(sent[i + 1]) <= Len(stream)
        /\ Found(stream, o[i], Len(sent[i + 1]), sent[i + 1])
    BY <1>1, <1>2, <1>10, <2>1, <2>2, FollowsIs, Zenon
  <2>4. n <= o[i] /\ p[i] = o[i] - n /\ p[i + 1] = o[i + 1] - n
    BY <1>4, <1>10, <2>1, Zenon
  <2>5. Found(rest, o[i] - n, Len(sent[i + 1]), sent[i + 1])
    BY <1>2, <2>3, <2>4, FoundBehind, Zenon
  <2>6. p[i + 1] = p[i] + Len(sent[i + 1])
    BY <2>3, <2>4
  <2> QED
    BY <2>4, <2>5, <2>6, Zenon DEF Follows
<1>11. ~torn => Len(rest) = p[m]
  <2>1. ~torn => Len(stream) = o[m]
    BY Zenon DEF Queued
  <2> QED
    BY <1>2, <1>6, <2>1
<1>12. CutOff(rest, p[m])
  <2> SUFFICES ASSUME Len(rest) > p[m]
               PROVE  \E w : /\ IsMessage(w) /\ Len(rest) - p[m] < Len(w)
                             /\ Found(rest, p[m], Len(rest) - p[m], w)
    BY Zenon DEF CutOff
  <2>1. Len(stream) > o[m]
    BY <1>2, <1>6
  <2>2. PICK w : /\ IsMessage(w) /\ Len(stream) - o[m] < Len(w)
                 /\ Found(stream, o[m], Len(stream) - o[m], w)
    BY <1>1, <2>1, Zenon DEF CutOff
  <2>3. Len(stream) - o[m] \in Nat /\ o[m] + (Len(stream) - o[m]) <= Len(stream)
    BY <1>2, <1>6
  <2>4. Found(rest, o[m] - n, Len(stream) - o[m], w)
    BY <1>2, <1>6, <2>2, <2>3, FoundBehind, Zenon
  <2> QED
    BY <1>6, <1>8, <2>2, <2>4, Zenon
<1>13. Queued(rest, sent, k + 1, m, torn, p)
  BY <1>7, <1>8, <1>9, <1>10, <1>11, <1>12, Zenon DEF Queued
<1> QED
  BY <1>13, Zenon

\* A message that is sent goes to the end of the queue,
LEMMA QueueWhole ==
    ASSUME NEW stream \in Seq(Part), NEW m \in Nat, NEW sent,
           AllParts(sent, m),
           NEW k \in Nat, k <= m,
           NEW o, Queued(stream, sent, k, m, FALSE, o),
           NEW w \in Seq(Part), NEW now, now[m + 1] = w,
           \A i \in 1..m : now[i] = sent[i],
           NEW torn
    PROVE  \E p : Queued(stream \o w, now, k, m + 1, torn, p)
<1> DEFINE p == [i \in Nat |-> IF i = m + 1 THEN Len(stream) + Len(w) ELSE o[i]]
           more == stream \o w
<1>1. Places(o, k, m) /\ o[k] = 0
      /\ \A i \in Nat : k <= i /\ i < m => Follows(stream, sent, o, i)
  BY Zenon DEF Queued
<1>2. o \in [Nat -> Nat]
  BY <1>1, Zenon DEF Places
<1>3. Len(stream) \in Nat /\ Len(w) \in Nat
  OBVIOUS
<1>4. o[m] = Len(stream) /\ o[m] <= Len(stream)
  BY <1>3 DEF Queued
<1>4a. o[m] <= Len(stream)
  BY <1>4, Zenon
<1>5. Len(more) = Len(stream) + Len(w)
  BY BehindIs, Zenon
<1>5a. Same(more, stream, Len(stream))
  BY BehindIs, Zenon
<1>5b. Found(more, Len(stream), Len(w), w)
  BY BehindIs, Zenon
<1>6. p \in [Nat -> Nat]
  <2>1. Len(stream) + Len(w) \in Nat
    BY <1>3
  <2> QED
    BY <1>2, <2>1, Zenon
<1>7. p[m + 1] = Len(stream) + Len(w) /\ \A i \in Nat : i <= m => p[i] = o[i]
  OBVIOUS
<1> HIDE DEF p, more
<1>8. Len(more) = p[m + 1] /\ p[m + 1] \in Nat
  BY <1>3, <1>5, <1>7
<1>9. p[k] = 0
  BY <1>1, <1>7, Zenon
<1>10. Places(p, k, m + 1)
  <2>1. ASSUME NEW i \in Nat, NEW j \in Nat, k <= i, i <= j, j <= m + 1
        PROVE  p[i] <= p[j]
    <3>1. (i = m + 1 /\ j = m + 1) \/ (i <= m /\ j = m + 1) \/ (i <= m /\ j <= m)
      BY <2>1
    <3>2. CASE i = m + 1 /\ j = m + 1
      BY <1>8, <3>2
    <3>3. CASE i <= m /\ j = m + 1
      <4>1. o[i] <= o[m] /\ o[i] \in Nat
        BY <1>1, <2>1, <3>3, PlaceIs, Zenon
      <4>2. p[i] = o[i] /\ p[j] = Len(stream) + Len(w)
        BY <1>7, <3>3, Zenon
      <4>3. o[i] <= Len(stream)
        BY <1>4, <4>1, Zenon
      <4> QED
        BY <1>3, <4>1, <4>2, <4>3
    <3>4. CASE i <= m /\ j <= m
      <4>1. o[i] <= o[j]
        BY <1>1, <2>1, <3>4, Zenon DEF Places
      <4> QED
        BY <1>7, <3>4, <4>1, Zenon
    <3> QED
      BY <3>1, <3>2, <3>3, <3>4, Zenon
  <2> QED
    BY <1>6, <2>1, Zenon DEF Places
<1>11. ASSUME NEW i \in Nat, k <= i, i < m + 1
       PROVE  Follows(more, now, p, i)
  <2>1. CASE i = m
    <3>1. p[m] = Len(stream) /\ p[m + 1] = p[m] + Len(w)
      <4>1. m <= m
        OBVIOUS
      <4>2. p[m] = Len(stream)
        BY <1>4, <1>7, <4>1, Zenon
      <4> QED
        BY <1>7, <4>2, Zenon
    <3> QED
      BY <1>5b, <1>7, <2>1, <3>1, Zenon DEF Follows
  <2>2. CASE i # m
    <3>1. i < m /\ i <= m /\ i + 1 \in Nat /\ i + 1 <= m /\ i + 1 \in 1..m
      BY <1>11, <2>2
    <3>2. Follows(stream, sent, o, i)
      BY <1>1, <1>11, <3>1, Zenon
    <3>3. /\ Len(sent[i + 1]) \in Nat /\ o[i] \in Nat
          /\ o[i] + Len(sent[i + 1]) <= Len(stream)
          /\ Found(stream, o[i], Len(sent[i + 1]), sent[i + 1])
      BY <1>1, <1>3, <1>4a, <1>11, <3>1, <3>2, FollowsIs, Zenon
    <3>4. now[i + 1] = sent[i + 1] /\ p[i] = o[i] /\ p[i + 1] = o[i + 1]
      BY <1>7, <3>1, Zenon
    <3>5. Found(more, o[i], Len(sent[i + 1]), sent[i + 1])
      BY <1>3, <1>5a, <3>3, FoundBefore
    <3> QED
      BY <3>2, <3>4, <3>5, Zenon DEF Follows
  <2> QED
    BY <2>1, <2>2, Zenon
<1>12. p[m + 1] <= Len(more) /\ CutOff(more, p[m + 1])
  BY <1>8 DEF CutOff
<1>13. Queued(more, now, k, m + 1, torn, p)
  BY <1>8, <1>9, <1>10, <1>11, <1>12, Zenon DEF Queued
<1> QED
  BY <1>13, Zenon DEF more

\* or is cut off there.
LEMMA QueueCut ==
    ASSUME NEW stream \in Seq(Part), NEW m \in Nat, NEW sent,
           AllParts(sent, m),
           NEW k \in Nat, k <= m,
           NEW o, Queued(stream, sent, k, m, FALSE, o),
           NEW w, IsMessage(w), NEW n \in Nat, n < Len(w)
    PROVE  Queued(stream \o SubSeq(w, 1, n), sent, k, m, TRUE, o)
<1> DEFINE v == SubSeq(w, 1, n)
           more == stream \o v
<1>1. Places(o, k, m) /\ o[k] = 0
      /\ \A i \in Nat : k <= i /\ i < m => Follows(stream, sent, o, i)
  BY Zenon DEF Queued
<1>2. Len(stream) \in Nat /\ w \in Seq(Part) /\ n \in 0..Len(w)
  BY DEF IsMessage
<1>3. o[m] = Len(stream) /\ o[m] <= Len(stream)
  BY <1>2 DEF Queued
<1>4. v \in Seq(Part)
  BY <1>2, CutIs
<1>4a. Len(v) = n /\ \A j \in 1..n : v[j] = w[j]
  BY <1>2, CutIs
<1> HIDE DEF v
<1>5. Len(more) = Len(stream) + Len(v) /\ Found(more, Len(stream), Len(v), v)
  BY <1>4, BehindIs, Zenon
<1>5a. Same(more, stream, Len(stream))
  BY <1>4, BehindIs, Zenon
<1>5b. o[m] <= Len(stream)
  BY <1>3, Zenon
<1> HIDE DEF more
<1>6. Len(more) - o[m] = n /\ o[m] <= Len(more)
  BY <1>2, <1>3, <1>4a, <1>5
<1>7. Found(more, o[m], n, w)
  BY <1>3, <1>4a, <1>5, Zenon DEF Found
<1>8. ASSUME NEW i \in Nat, k <= i, i < m
      PROVE  Follows(more, sent, o, i)
  <2>1. Follows(stream, sent, o, i)
    BY <1>1, <1>8, Zenon
  <2>2. /\ Len(sent[i + 1]) \in Nat /\ o[i] \in Nat
        /\ o[i] + Len(sent[i + 1]) <= Len(stream)
        /\ Found(stream, o[i], Len(sent[i + 1]), sent[i + 1])
    BY <1>1, <1>2, <1>5b, <1>8, <2>1, FollowsIs, Zenon
  <2>3. Found(more, o[i], Len(sent[i + 1]), sent[i + 1])
    BY <1>2, <1>5a, <2>2, FoundBefore
  <2> QED
    BY <2>1, <2>3, Zenon DEF Follows
<1>9. CutOff(more, o[m])
  BY <1>6, <1>7, Zenon DEF CutOff
<1>10. Queued(more, sent, k, m, TRUE, o)
  BY <1>1, <1>6, <1>8, <1>9, Zenon DEF Queued
<1> QED
  BY <1>10, Zenon DEF more, v

-----------------------------------------------------------------------------
(* Steps.                                                                  *)

\* Nothing was sent or received.
LEMMA InitInv ==
    ASSUME Spaces \subseteq Nat, Init
    PROVE  Inv
<1> DEFINE o == [i \in Nat |-> 0]
<1>0. PICK b \in Spaces, x \in {TRUE, FALSE} :
        f = [stream |-> <<>>, closed |-> FALSE, torn |-> FALSE, misused |-> FALSE,
             sent |-> <<>>, got |-> <<>>, into |-> <<>>, failed |-> FALSE, buff |-> b, max |-> x]
  BY DEF Init
<1>1. /\ f.stream = <<>> /\ f.sent = <<>> /\ f.got = <<>> /\ f.into = <<>>
      /\ f.torn = FALSE
  BY <1>0
<1>2. TypeInv
  <2>1. b \in Int
    OBVIOUS
  <2>1a. x \in BOOLEAN
    BY Zenon
  <2>2. <<>> \in Seq(Part) /\ <<>> \in Seq(Seq(Part)) /\ <<>> \in Seq(Int)
    OBVIOUS
  <2> QED
    BY <1>0, <2>1, <2>1a, <2>2 DEF TypeInv
<1>3. MessagesInv
  BY <1>1 DEF MessagesInv
<1>4. EventsThatFit
  BY <1>1 DEF EventsThatFit
<1>5. Queued(<<>>, <<>>, 0, 0, FALSE, o)
  <2>1. Places(o, 0, 0) /\ o[0] = 0
    BY DEF Places
  <2>2. Len(<<>>) = 0
    OBVIOUS
  <2> HIDE DEF o
  <2>3. o[0] <= Len(<<>>) /\ Len(<<>>) = o[0]
    BY <2>1, <2>2
  <2>4. CutOff(<<>>, o[0])
    BY <2>1, <2>2 DEF CutOff
  <2>5. \A i \in Nat : 0 <= i /\ i < 0 => Follows(<<>>, <<>>, o, i)
    OBVIOUS
  <2> QED
    BY <2>1, <2>3, <2>4, <2>5, Zenon DEF Queued
<1>6. Len(<<>>) = 0 /\ 1..0 = {} /\ 0 <= 0
  OBVIOUS
<1>7. StreamInv
  BY <1>1, <1>5, <1>6 DEF StreamInv
<1> QED
  BY <1>2, <1>3, <1>4, <1>7, Zenon DEF Inv

\* After a failure only the types matter.
LEMMA FailStep ==
    ASSUME Inv, NEW s \in Seq(Part), f' = [f EXCEPT !.failed = TRUE, !.stream = s]
    PROVE  Inv'
<1>1. TypeInv
  BY Zenon DEF Inv
<1>2. TypeInv'
  BY <1>1 DEF TypeInv
<1>3. /\ f'.sent = f.sent /\ f'.got = f.got /\ f'.into = f.into /\ f'.misused = f.misused
      /\ f'.failed = TRUE
  BY <1>1 DEF TypeInv
<1>4. MessagesInv'
  BY <1>3, Zenon DEF Inv, MessagesInv
<1>5. StreamInv'
  BY <1>3, Zenon DEF StreamInv
<1>6. EventsThatFit'
  BY <1>3, Zenon DEF Inv, EventsThatFit
<1> QED
  BY <1>2, <1>4, <1>5, <1>6, Zenon DEF Inv

\* A send puts its message behind the others, or the begin of it.
LEMMA SendStep ==
    ASSUME Inv, ~f.misused, NEW op \in {"publish", "key", "buffer"}, NEW data \in Seq(Part),
           event_send(op, data)
    PROVE  Inv'
<1> DEFINE w == Wire(op, data)
<1>1. IsMessage(w)
  BY WireIs, Zenon
<1>2. PICK n \in 0..Len(w) :
        f' = [f EXCEPT !.stream = @ \o SubSeq(w, 1, n),
                       !.misused = @ \/ f.torn,
                       !.sent = IF n = Len(w) THEN Append(@, w) ELSE @,
                       !.torn = @ \/ ~(n = Len(w))]
  BY Zenon DEF event_send
<1> HIDE DEF w
<1>3. TypeInv /\ MessagesInv /\ StreamInv /\ EventsThatFit
  BY Zenon DEF Inv
<1>4. w \in Seq(Part) /\ Len(w) \in Nat /\ n \in Nat /\ n <= Len(w)
  BY <1>1 DEF IsMessage
<1>5. /\ f.stream \in Seq(Part) /\ f.sent \in Seq(Seq(Part)) /\ f.got \in Seq(Seq(Part))
      /\ f.torn \in BOOLEAN /\ f.misused \in BOOLEAN /\ f.into \in Seq(Int)
      /\ f.closed \in BOOLEAN /\ f.failed \in BOOLEAN /\ f.buff \in Int /\ f.max \in BOOLEAN
  BY <1>3, Zenon DEF TypeInv
<1>6. /\ f'.stream = f.stream \o SubSeq(w, 1, n) /\ f'.misused = (f.misused \/ f.torn)
      /\ f'.sent = (IF n = Len(w) THEN Append(f.sent, w) ELSE f.sent)
      /\ f'.torn = (f.torn \/ ~(n = Len(w)))
      /\ f'.got = f.got /\ f'.into = f.into /\ f'.failed = f.failed
  BY <1>2, <1>3 DEF TypeInv
<1>7. SubSeq(w, 1, n) \in Seq(Part) /\ f.stream \o SubSeq(w, 1, n) \in Seq(Part)
  BY <1>4, <1>5, CutIs, BehindIs
<1>8. /\ Append(f.sent, w) \in Seq(Seq(Part)) /\ Len(Append(f.sent, w)) = Len(f.sent) + 1
      /\ Append(f.sent, w)[Len(f.sent) + 1] = w
      /\ \A i \in 1..Len(f.sent) : Append(f.sent, w)[i] = f.sent[i]
  BY <1>4, <1>5, AppendProperties
<1>9. Len(f.sent) \in Nat /\ Len(f.got) \in Nat
  BY <1>5
<1>10. f'.sent \in Seq(Seq(Part)) /\ f'.stream \in Seq(Part)
  BY <1>5, <1>6, <1>7, <1>8
<1>11. TypeInv'
  <2>1. f' \in [stream : Seq(Part), closed : BOOLEAN, torn : BOOLEAN, misused : BOOLEAN,
                sent : Seq(Seq(Part)), got : Seq(Seq(Part)), into : Seq(Int),
                failed : BOOLEAN, buff : Int, max : BOOLEAN]
    BY <1>2, <1>3, <1>7, <1>8 DEF TypeInv
  <2> QED
    BY <2>1, Zenon DEF TypeInv
<1>12. MessagesInv'
  <2>1. ASSUME NEW i \in 1..Len(f'.sent)
        PROVE  IsMessage(f'.sent[i])
    <3>1. CASE n = Len(w)
      <4>1. f'.sent = Append(f.sent, w)
        BY <1>6, <3>1
      <4>2. i = Len(f.sent) + 1 \/ i \in 1..Len(f.sent)
        BY <1>8, <1>9, <4>1
      <4>3. CASE i = Len(f.sent) + 1
        BY <1>1, <1>8, <4>1, <4>3
      <4>4. CASE i \in 1..Len(f.sent)
        BY <1>3, <1>8, <4>1, <4>4 DEF MessagesInv
      <4> QED
        BY <4>2, <4>3, <4>4, Zenon
    <3>2. CASE n # Len(w)
      <4>1. f'.sent = f.sent
        BY <1>6, <3>2
      <4> QED
        BY <1>3, <4>1 DEF MessagesInv
    <3> QED
      BY <3>1, <3>2, Zenon
  <2>2. Len(f'.into) = Len(f'.got)
    BY <1>3, <1>6, Zenon DEF MessagesInv
  <2> QED
    BY <2>1, <2>2, Zenon DEF MessagesInv
<1>13. StreamInv'
  <2> SUFFICES ASSUME ~f'.failed, ~f'.misused
               PROVE  /\ Len(f'.got) <= Len(f'.sent)
                      /\ \A i \in 1..Len(f'.got) : f'.got[i] = f'.sent[i]
                      /\ \E o : Queued(f'.stream, f'.sent, Len(f'.got), Len(f'.sent), f'.torn, o)
    BY Zenon DEF StreamInv
  <2>1. ~f.failed /\ ~f.misused /\ f.torn = FALSE
    BY <1>5, <1>6
  <2>2. PICK o : Queued(f.stream, f.sent, Len(f.got), Len(f.sent), f.torn, o)
    BY <1>3, <2>1, Zenon DEF StreamInv
  <2>3. Queued(f.stream, f.sent, Len(f.got), Len(f.sent), FALSE, o)
    BY <2>1, <2>2, Zenon
  <2>4. Len(f.got) <= Len(f.sent) /\ \A i \in 1..Len(f.got) : f.got[i] = f.sent[i]
    BY <1>3, <2>1, Zenon DEF StreamInv
  <2>5. AllParts(f.sent, Len(f.sent))
    BY <1>5 DEF AllParts
  <2>6. CASE n = Len(w)
    <3>1. f'.sent = Append(f.sent, w)
      BY <1>6, <2>6
    <3>2. SubSeq(w, 1, n) = w
      <4>1. /\ SubSeq(w, 1, n) \in Seq(Part) /\ Len(SubSeq(w, 1, n)) = n
            /\ \A j \in 1..n : SubSeq(w, 1, n)[j] = w[j]
        BY <1>4, CutIs
      <4>2. Len(SubSeq(w, 1, n)) = Len(w)
        BY <2>6, <4>1, Zenon
      <4>3. \A j \in 1..Len(SubSeq(w, 1, n)) : SubSeq(w, 1, n)[j] = w[j]
        BY <4>1, Zenon
      <4> QED
        BY <1>4, <4>1, <4>2, <4>3, SeqEqual, Zenon
    <3>3. \E p : Queued(f.stream \o w, Append(f.sent, w), Len(f.got), Len(f.sent) + 1, f'.torn, p)
      BY <1>4, <1>5, <1>8, <1>9, <2>3, <2>4, <2>5, QueueWhole, Zenon
    <3>4. \E p : Queued(f'.stream, f'.sent, Len(f'.got), Len(f'.sent), f'.torn, p)
      BY <1>6, <1>8, <3>1, <3>2, <3>3, Zenon
    <3>5. Len(f'.got) <= Len(f'.sent)
      BY <1>6, <1>8, <1>9, <2>4, <3>1
    <3>6. \A i \in 1..Len(f'.got) : f'.got[i] = f'.sent[i]
      <4> SUFFICES ASSUME NEW i \in 1..Len(f.got)
                   PROVE  f.got[i] = Append(f.sent, w)[i]
        BY <1>6, <3>1, Zenon
      <4>1. i \in 1..Len(f.sent)
        BY <1>9, <2>4
      <4> QED
        BY <1>8, <2>4, <4>1, Zenon
    <3> QED
      BY <3>4, <3>5, <3>6, Zenon
  <2>7. CASE n # Len(w)
    <3>0. f'.torn = TRUE
      BY <1>6, <2>7, Zenon
    <3>1. f'.sent = f.sent /\ n < Len(w)
      BY <1>4, <1>6, <2>7
    <3>2. Queued(f.stream \o SubSeq(w, 1, n), f.sent, Len(f.got), Len(f.sent), TRUE, o)
      BY <1>1, <1>4, <1>5, <1>9, <2>3, <2>4, <2>5, <3>1, QueueCut, Zenon
    <3> QED
      BY <1>6, <2>4, <3>0, <3>1, <3>2, Zenon
  <2> QED
    BY <2>6, <2>7, Zenon
<1>14. EventsThatFit'
  BY <1>3, <1>6, Zenon DEF EventsThatFit
<1> QED
  BY <1>11, <1>12, <1>13, <1>14, Zenon DEF Inv

\* What a receive takes is the first message of the queue, and what it took
\* into a buffer of the caller is an event that fits.
LEMMA DeliverStep ==
    ASSUME Inv, NEW b \in Int, NEW len \in Int, NEW n \in Nat, InStep,
           f.stream[1].size = n - 1, n <= Len(f.stream),
           f' = Deliver([f EXCEPT !.buff = b], n, len),
           len # Own => /\ n >= 4 /\ f.stream[2].op = "publish"
                        /\ f.stream[4].data_len = n - 4 /\ n - 4 <= len
    PROVE  Inv'
<1> DEFINE c == SubSeq(f.stream, 1, n)
           r == SubSeq(f.stream, n + 1, Len(f.stream))
<1>1. TypeInv /\ MessagesInv /\ StreamInv /\ EventsThatFit
  BY Zenon DEF Inv
<1>2. /\ f.stream \in Seq(Part) /\ f.sent \in Seq(Seq(Part)) /\ f.got \in Seq(Seq(Part))
      /\ f.into \in Seq(Int)
  BY <1>1, Zenon DEF TypeInv
<1>3. Len(f.stream) \in Nat /\ Len(f.sent) \in Nat /\ Len(f.got) \in Nat /\ Len(f.into) \in Nat
  BY <1>2
<1>4. n \in 0..Len(f.stream)
  BY <1>3
<1> DEFINE st == f.stream
<1>4a. st \in Seq(Part) /\ n \in 0..Len(st)
  BY <1>2, <1>4
<1> HIDE DEF st
<1>4b. /\ SubSeq(st, 1, n) \in Seq(Part) /\ Len(SubSeq(st, 1, n)) = n
       /\ \A j \in 1..n : SubSeq(st, 1, n)[j] = st[j]
       /\ SubSeq(st, n + 1, Len(st)) \in Seq(Part) /\ Len(SubSeq(st, n + 1, Len(st))) = Len(st) - n
       /\ \A j \in 1..(Len(st) - n) : SubSeq(st, n + 1, Len(st))[j] = st[n + j]
  BY <1>4a, CutIs, Zenon
<1>5. /\ c \in Seq(Part) /\ Len(c) = n /\ \A j \in 1..n : c[j] = f.stream[j]
      /\ r \in Seq(Part) /\ Len(r) = Len(f.stream) - n
  BY <1>4b, Zenon DEF st
<1>6. Shifted(r, f.stream, n, Len(f.stream) - n)
  BY <1>4b, Zenon DEF Shifted, st
<1>7. f' = [f EXCEPT !.buff = b, !.got = Append(@, c), !.into = Append(@, len), !.stream = r]
  BY <1>1 DEF Deliver, From, TypeInv
<1> HIDE DEF c, r
<1>8. /\ Append(f.got, c) \in Seq(Seq(Part)) /\ Len(Append(f.got, c)) = Len(f.got) + 1
      /\ Append(f.got, c)[Len(f.got) + 1] = c
      /\ \A i \in 1..Len(f.got) : Append(f.got, c)[i] = f.got[i]
  BY <1>2, <1>5, AppendProperties
<1>9. /\ Append(f.into, len) \in Seq(Int) /\ Len(Append(f.into, len)) = Len(f.into) + 1
      /\ Append(f.into, len)[Len(f.into) + 1] = len
      /\ \A i \in 1..Len(f.into) : Append(f.into, len)[i] = f.into[i]
  BY <1>2, AppendProperties
<1>10. /\ f'.stream = r /\ f'.sent = f.sent /\ f'.got = Append(f.got, c)
       /\ f'.into = Append(f.into, len) /\ f'.failed = f.failed /\ f'.misused = f.misused
       /\ f'.torn = f.torn
  BY <1>1, <1>7 DEF TypeInv
<1>11. TypeInv'
  <2>1. f' \in [stream : Seq(Part), closed : BOOLEAN, torn : BOOLEAN, misused : BOOLEAN,
                sent : Seq(Seq(Part)), got : Seq(Seq(Part)), into : Seq(Int),
                failed : BOOLEAN, buff : Int, max : BOOLEAN]
    BY <1>1, <1>5, <1>7, <1>8, <1>9 DEF TypeInv
  <2> QED
    BY <2>1, Zenon DEF TypeInv
<1>12. Len(f.into) = Len(f.got)
  BY <1>1, Zenon DEF MessagesInv
<1>13. MessagesInv'
  <2>1. Len(f'.into) = Len(f'.got)
    BY <1>3, <1>8, <1>9, <1>10, <1>12
  <2> QED
    BY <1>1, <1>10, <2>1, Zenon DEF MessagesInv
<1>14. StreamInv'
  <2> SUFFICES ASSUME ~f'.failed, ~f'.misused
               PROVE  /\ Len(f'.got) <= Len(f'.sent)
                      /\ \A i \in 1..Len(f'.got) : f'.got[i] = f'.sent[i]
                      /\ \E o : Queued(f'.stream, f'.sent, Len(f'.got), Len(f'.sent), f'.torn, o)
    BY Zenon DEF StreamInv
  <2>1. ~f.failed /\ ~f.misused
    BY <1>10, Zenon
  <2>2. PICK o : Queued(f.stream, f.sent, Len(f.got), Len(f.sent), f.torn, o)
    BY <1>1, <2>1, Zenon DEF StreamInv
  <2>3. Len(f.got) <= Len(f.sent) /\ \A i \in 1..Len(f.got) : f.got[i] = f.sent[i]
    BY <1>1, <2>1, Zenon DEF StreamInv
  <2>4. AllParts(f.sent, Len(f.sent))
    BY <1>2 DEF AllParts
  <2>5. \A i \in 1..Len(f.sent) : IsMessage(f.sent[i])
    BY <1>1, Zenon DEF MessagesInv
  <2>6. f.stream # <<>>
    BY DEF InStep
  <2>7. /\ Len(f.got) < Len(f.sent) /\ n = o[Len(f.got) + 1] /\ n = Len(f.sent[Len(f.got) + 1])
        /\ Found(f.stream, 0, n, f.sent[Len(f.got) + 1])
    BY <1>2, <1>3, <2>2, <2>3, <2>5, <2>6, FirstQueued, Zenon
  <2>7a. o[Len(f.got) + 1] = n /\ Len(f.got) < Len(f.sent)
    BY <2>7, Zenon
  <2>7b. Len(r) = Len(f.stream) - n
    BY <1>5, Zenon
  <2>8. \E p : Queued(r, f.sent, Len(f.got) + 1, Len(f.sent), f.torn, p)
    BY <1>2, <1>3, <1>6, <2>2, <2>4, <2>7a, <2>7b, TakeFirst
  <2>9. Len(f.got) + 1 \in 1..Len(f.sent)
    BY <1>3, <2>7
  <2>10. c = f.sent[Len(f.got) + 1]
    <3>1. f.sent[Len(f.got) + 1] \in Seq(Part)
      BY <2>4, <2>9, Zenon DEF AllParts
    <3>2. ASSUME NEW j \in 1..n
          PROVE  c[j] = f.sent[Len(f.got) + 1][j]
      <4>1. 0 + j = j
        OBVIOUS
      <4>2. f.stream[0 + j] = f.sent[Len(f.got) + 1][j]
        BY <2>7, Zenon DEF Found
      <4>3. f.stream[j] = f.sent[Len(f.got) + 1][j]
        BY <4>1, <4>2
      <4> QED
        BY <1>5, <4>3, Zenon
    <3>3. Len(c) = Len(f.sent[Len(f.got) + 1])
      BY <1>5, <2>7, Zenon
    <3>4. \A j \in 1..Len(c) : c[j] = f.sent[Len(f.got) + 1][j]
      BY <1>5, <3>2, Zenon
    <3> QED
      BY <1>5, <3>1, <3>3, <3>4, SeqEqual, Zenon
  <2>11. \E p : Queued(f'.stream, f'.sent, Len(f'.got), Len(f'.sent), f'.torn, p)
    BY <1>8, <1>10, <2>8, Zenon
  <2>11a. Len(f'.got) = Len(f.got) + 1 /\ Len(f'.sent) = Len(f.sent)
    BY <1>8, <1>10, Zenon
  <2>12. Len(f'.got) <= Len(f'.sent)
    BY <1>3, <2>7a, <2>11a
  <2>13. ASSUME NEW i \in 1..Len(f'.got)
         PROVE  f'.got[i] = f'.sent[i]
    <3>1. i = Len(f.got) + 1 \/ i \in 1..Len(f.got)
      BY <1>3, <1>8, <1>10
    <3>2. CASE i = Len(f.got) + 1
      BY <1>8, <1>10, <2>10, <3>2, Zenon
    <3>3. CASE i \in 1..Len(f.got)
      BY <1>8, <1>10, <2>3, <3>3, Zenon
    <3> QED
      BY <3>1, <3>2, <3>3, Zenon
  <2> QED
    BY <2>11, <2>12, <2>13, Zenon
<1>15. EventsThatFit'
  <2> SUFFICES ASSUME NEW i \in DOMAIN f'.got, f'.into[i] # Own, ~f'.misused
               PROVE  /\ f'.got[i][2].op = "publish"
                      /\ f'.got[i][4].data_len = Len(f'.got[i]) - 4
                      /\ f'.got[i][4].data_len <= f'.into[i]
    BY Zenon DEF EventsThatFit
  <2>0. DOMAIN Append(f.got, c) = 1..Len(Append(f.got, c))
    BY <1>8
  <2>1. i \in 1..Len(f'.got)
    BY <1>10, <2>0, Zenon
  <2>2. i = Len(f.got) + 1 \/ i \in 1..Len(f.got)
    BY <1>3, <1>8, <1>10, <2>1
  <2>3. CASE i = Len(f.got) + 1
    <3>1. f'.got[i] = c /\ f'.into[i] = len
      BY <1>8, <1>9, <1>10, <1>12, <2>3
    <3>2. n >= 4 /\ f.stream[2].op = "publish" /\ f.stream[4].data_len = n - 4 /\ n - 4 <= len
      BY <3>1
    <3>3. 2 \in 1..n /\ 4 \in 1..n
      BY <3>2
    <3>4. c[2] = f.stream[2] /\ c[4] = f.stream[4] /\ Len(c) = n
      BY <1>5, <3>3, Zenon
    <3> QED
      BY <3>1, <3>2, <3>4
  <2>4. CASE i \in 1..Len(f.got)
    <3>1. f'.got[i] = f.got[i] /\ f'.into[i] = f.into[i]
      BY <1>8, <1>9, <1>10, <1>12, <2>4
    <3>2. i \in DOMAIN f.got
      BY <1>2, <2>4
    <3> QED
      BY <1>1, <1>10, <3>1, <3>2, Zenon DEF EventsThatFit
  <2> QED
    BY <2>2, <2>3, <2>4, Zenon
<1> QED
  BY <1>11, <1>13, <1>14, <1>15, Zenon DEF Inv

\* What a step of the client finds at the begin of the stream.
LEMMA HeadIs ==
    ASSUME TypeInv, InStep
    PROVE  Head1 = f.stream[1] /\ f.stream[1].size \in Nat /\ Len(f.stream) \in Nat
<1>1. f.stream \in Seq(Part)
  BY Zenon DEF TypeInv
<1>2. f.stream[1] \in Part
  BY <1>1 DEF InStep
<1> QED
  BY <1>1, <1>2, Parts DEF InStep, Head1

\* A rest of the stream, also when it ends before.
LEMMA RestIs ==
    ASSUME TypeInv, NEW n \in Nat
    PROVE  SubSeq(f.stream, n + 1, Len(f.stream)) \in Seq(Part)
<1>1. f.stream \in Seq(Part)
  BY Zenon DEF TypeInv
<1> QED
  BY <1>1

\* Sends.
LEMMA SendsStep ==
    ASSUME Sizes \subseteq Nat, Inv,
           (\E n \in Sizes : publish_msg(n)) \/ send_key_op \/ set_receive_buffer
    PROVE  Inv'
<1>1. TypeInv
  BY Zenon DEF Inv
<1>2. Len(f.sent) + 1 \in Nat
  BY <1>1 DEF TypeInv
<1>3. ASSUME NEW n \in Sizes, publish_msg(n)
      PROVE  Inv'
  <2>1. n \in Nat
    OBVIOUS
  <2>2. ~f.misused /\ event_send("publish", Event(Len(f.sent) + 1, n))
    BY <1>3, Zenon DEF publish_msg, Again
  <2>3. Event(Len(f.sent) + 1, n) \in Seq(Part)
    BY <1>2, <2>1, DataIs, Zenon
  <2>4. "publish" \in {"publish", "key", "buffer"}
    OBVIOUS
  <2> QED
    BY <2>2, <2>3, <2>4, SendStep, Zenon
<1>4. ASSUME send_key_op
      PROVE  Inv'
  <2>1. ~f.misused /\ event_send("key", <<Key(Len(f.sent) + 1)>>)
    BY <1>4, Zenon DEF send_key_op, Again
  <2>2. 0 \in Nat /\ "key" \in {"publish", "key", "buffer"}
    OBVIOUS
  <2>3. <<Key(Len(f.sent) + 1)>> \in Seq(Part)
    BY <1>2, <2>2, DataIs, Zenon
  <2> QED
    BY <2>1, <2>2, <2>3, SendStep, Zenon
<1>5. ASSUME set_receive_buffer
      PROVE  Inv'
  <2>1. ~f.misused /\ event_send("buffer", <<[part |-> "len"]>>)
    BY <1>5, Zenon DEF set_receive_buffer, Again
  <2>2. 0 \in Nat /\ "buffer" \in {"publish", "key", "buffer"}
    OBVIOUS
  <2>3. <<[part |-> "len"]>> \in Seq(Part)
    BY <1>2, <2>2, DataIs, Zenon
  <2> QED
    BY <2>1, <2>2, <2>3, SendStep, Zenon
<1> QED
  BY <1>3, <1>4, <1>5, Zenon

\* The end of the connection.
LEMMA DisconnectStep ==
    ASSUME Inv, disconnect
    PROVE  Inv'
<1>1. TypeInv
  BY Zenon DEF Inv
<1>2. TypeInv'
  BY <1>1 DEF TypeInv, disconnect
<1>3. /\ f'.sent = f.sent /\ f'.got = f.got /\ f'.into = f.into /\ f'.misused = f.misused
      /\ f'.failed = f.failed /\ f'.stream = f.stream /\ f'.torn = f.torn
  BY <1>1 DEF TypeInv, disconnect
<1>4. MessagesInv'
  BY <1>3, Zenon DEF Inv, MessagesInv
<1>5. StreamInv'
  BY <1>3, Zenon DEF Inv, StreamInv
<1>6. EventsThatFit'
  BY <1>3, Zenon DEF Inv, EventsThatFit
<1> QED
  BY <1>2, <1>4, <1>5, <1>6, Zenon DEF Inv

\* A receive into a buffer of this library.
LEMMA WaitStep ==
    ASSUME Inv, wait_for_event
    PROVE  Inv'
<1> DEFINE size == f.stream[1].size
           big == size > f.buff
<1>1. TypeInv
  BY Zenon DEF Inv
<1>2. InStep
  BY Zenon DEF wait_for_event, recv
<1>3. Head1 = f.stream[1] /\ size \in Nat /\ Len(f.stream) \in Nat
  BY <1>1, <1>2, HeadIs, Zenon
<1>4. IF big /\ ~~f.max THEN f' = Fail(f, 1)
      ELSE /\ Ready(1 + size)
           /\ f' = Deliver([f EXCEPT !.buff = IF big THEN size ELSE @], 1 + size, Own)
  BY <1>3 DEF wait_for_event, recv
<1> HIDE DEF size, big
<1>5. CASE big /\ ~~f.max
  <2>1. f' = [f EXCEPT !.failed = TRUE, !.stream = SubSeq(f.stream, 1 + 1, Len(f.stream))]
    BY <1>1, <1>4, <1>5 DEF Fail
  <2>2. SubSeq(f.stream, 1 + 1, Len(f.stream)) \in Seq(Part)
    BY <1>1, RestIs
  <2> QED
    BY <2>1, <2>2, FailStep, Zenon
<1>6. CASE ~(big /\ ~~f.max)
  <2> DEFINE b == IF big THEN size ELSE f.buff
             n == 1 + size
  <2>1. n \in Nat /\ size = n - 1
    BY <1>3
  <2>2. b \in Int
    <3>1. f.buff \in Int
      BY <1>1, Zenon DEF TypeInv
    <3>2. size \in Int
      BY <1>3
    <3> QED
      BY <3>1, <3>2, Zenon
  <2>3. n <= Len(f.stream) /\ f' = Deliver([f EXCEPT !.buff = b], n, Own)
    BY <1>1, <1>3, <1>4, <1>6 DEF Ready, TypeInv
  <2> HIDE DEF b, n
  <2>4. f.stream[1].size = n - 1 /\ Own \in Int
    BY <2>1 DEF size, Own
  <2> QED
    BY <1>2, <2>1, <2>2, <2>3, <2>4, DeliverStep, Zenon
<1> QED
  BY <1>5, <1>6, Zenon

\* A receive into a buffer of the caller.
LEMMA ReceiveStep ==
    ASSUME Inv, NEW len \in Nat, recv_msg(len)
    PROVE  Inv'
<1> DEFINE size == f.stream[1].size
           n == 1 + size
<1>1. TypeInv
  BY Zenon DEF Inv
<1>2. InStep
  BY Zenon DEF recv_msg
<1>3. Head1 = f.stream[1] /\ size \in Nat /\ Len(f.stream) \in Nat
  BY <1>1, <1>2, HeadIs, Zenon
<1>4. \/ f' = Fail(f, 1) \/ f' = Fail(f, 2) \/ f' = Fail(f, 4)
      \/ /\ ~(size < 3) /\ f.stream[2].op = "publish" /\ ~(size - 1 > len)
         /\ f.stream[4].data_len = size - 3 /\ Ready(1 + size)
         /\ f' = Deliver(f, 1 + size, len)
  BY <1>3, Zenon DEF recv_msg
<1>5. ASSUME NEW i \in Nat, f' = Fail(f, i)
      PROVE  Inv'
  <2>1. f' = [f EXCEPT !.failed = TRUE, !.stream = SubSeq(f.stream, i + 1, Len(f.stream))]
    BY <1>1, <1>5 DEF Fail
  <2>2. SubSeq(f.stream, i + 1, Len(f.stream)) \in Seq(Part)
    BY <1>1, RestIs
  <2> QED
    BY <2>1, <2>2, FailStep, Zenon
<1>6. CASE f' = Fail(f, 1) \/ f' = Fail(f, 2) \/ f' = Fail(f, 4)
  <2>1. 1 \in Nat /\ 2 \in Nat /\ 4 \in Nat
    OBVIOUS
  <2> QED
    BY <1>5, <1>6, <2>1, Zenon
<1>7. ASSUME ~(size < 3), f.stream[2].op = "publish", ~(size - 1 > len),
             f.stream[4].data_len = size - 3, Ready(1 + size), f' = Deliver(f, 1 + size, len)
      PROVE  Inv'
  <2>0. size \in Nat /\ ~(size < 3) /\ ~(size - 1 > len)
    BY <1>3, <1>7, Zenon
  <2> HIDE DEF size
  <2>1. n \in Nat /\ size = n - 1 /\ n >= 4 /\ size - 3 = n - 4 /\ n - 4 <= len /\ len \in Int
    BY <2>0
  <2>2. n <= Len(f.stream)
    BY <1>3, <1>7 DEF Ready
  <2>3. f.buff \in Int /\ [f EXCEPT !.buff = f.buff] = f
    BY <1>1 DEF TypeInv
  <2>4. f' = Deliver([f EXCEPT !.buff = f.buff], n, len)
    BY <1>7, <2>3
  <2> HIDE DEF n
  <2>5. f.stream[1].size = n - 1
    BY <2>1, Zenon DEF size
  <2>6. f.stream[4].data_len = n - 4
    BY <1>7, <2>1, Zenon
  <2>7. n >= 4 /\ n - 4 <= len /\ n \in Nat /\ len \in Int
    BY <2>1, Zenon
  <2> QED
    BY <1>2, <1>7, <2>2, <2>3, <2>4, <2>5, <2>6, <2>7, DeliverStep, Zenon
<1> QED
  BY <1>4, <1>6, <1>7, Zenon

\* What is no header, and the end of the stream.
LEMMA LostStep ==
    ASSUME Inv, Astray \/ EndOfStream
    PROVE  Inv'
<1>1. TypeInv
  BY Zenon DEF Inv
<1>2. f.stream \in Seq(Part) /\ <<>> \in Seq(Part)
  BY <1>1 DEF TypeInv
<1>3. CASE Astray
  <2>1. f' = [f EXCEPT !.failed = TRUE, !.stream = f.stream]
    BY <1>1, <1>3 DEF Astray, TypeInv
  <2> QED
    BY <1>2, <2>1, FailStep, Zenon
<1>4. CASE EndOfStream
  <2>1. f' = [f EXCEPT !.failed = TRUE, !.stream = <<>>]
    BY <1>4, Zenon DEF EndOfStream
  <2> QED
    BY <1>2, <2>1, FailStep, Zenon
<1> QED
  BY <1>3, <1>4, Zenon

\* Every step.
LEMMA NextInv ==
    ASSUME Sizes \subseteq Nat, Spaces \subseteq Nat, Inv, [Next]_f
    PROVE  Inv'
<1>1. CASE (\E n \in Sizes : publish_msg(n)) \/ send_key_op \/ set_receive_buffer
  BY <1>1, SendsStep, Zenon
<1>2. CASE disconnect
  BY <1>2, DisconnectStep, Zenon
<1>3. CASE wait_for_event
  BY <1>3, WaitStep, Zenon
<1>4. ASSUME NEW len \in Spaces, recv_msg(len)
      PROVE  Inv'
  <2>1. len \in Nat
    OBVIOUS
  <2> QED
    BY <1>4, <2>1, ReceiveStep, Zenon
<1>5. CASE Astray \/ EndOfStream
  BY <1>5, LostStep, Zenon
<1>6. CASE UNCHANGED f
  BY <1>6, Zenon DEF Inv, TypeInv, MessagesInv, StreamInv, EventsThatFit
<1> QED
  BY <1>1, <1>2, <1>3, <1>4, <1>5, <1>6, Zenon DEF Next

\* The invariant holds.
THEOREM InvHolds ==
    ASSUME Sizes \subseteq Nat, Spaces \subseteq Nat
    PROVE  Spec => []Inv
<1>1. Init => Inv
  BY InitInv, Zenon
<1>2. Inv /\ [Next]_f => Inv'
  BY NextInv, Zenon
<1> QED
  BY <1>1, <1>2, PTL DEF Spec

\* Whatever a timeout leaves of a message, of whatever length the messages are:
\* until a receive fails, those received are those sent, whole and in order.
THEOREM MessagesInOrder ==
    ASSUME Sizes \subseteq Nat, Spaces \subseteq Nat
    PROVE  Spec => []WholeInOrder
<1>1. Inv => WholeInOrder
  <2> SUFFICES ASSUME Inv, ~f.failed, ~f.misused
               PROVE  IsPrefix(f.got, f.sent)
    BY Zenon DEF WholeInOrder
  <2>1. Len(f.got) <= Len(f.sent) /\ \A i \in 1..Len(f.got) : f.got[i] = f.sent[i]
    BY Zenon DEF Inv, StreamInv
  <2>2. f.got \in Seq(Seq(Part)) /\ f.sent \in Seq(Seq(Part))
    BY Zenon DEF Inv, TypeInv
  <2>3. Len(f.got) \in 0..Len(f.sent)
    BY <2>1, <2>2
  <2> DEFINE p == SubSeq(f.sent, 1, Len(f.got))
  <2>4. p \in Seq(Seq(Part)) /\ Len(p) = Len(f.got) /\ \A i \in 1..Len(f.got) : p[i] = f.sent[i]
    BY <2>2, <2>3, CutIs
  <2> HIDE DEF p
  <2>5. p = f.got
    BY <2>1, <2>2, <2>4, SeqEqual
  <2> QED
    BY <2>1, <2>2, <2>5 DEF IsPrefix, p
<1> QED
  BY <1>1, InvHolds, PTL

\* No message is put into a buffer of the caller without room for its data, or
\* that is no event.
THEOREM BuffersHold ==
    ASSUME Sizes \subseteq Nat, Spaces \subseteq Nat
    PROVE  Spec => []EventsThatFit
<1>1. Inv => EventsThatFit
  BY Zenon DEF Inv
<1> QED
  BY <1>1, InvHolds, PTL
=============================================================================
