------------------------- MODULE SocketStreamProofs --------------------------
(***************************************************************************)
(* The receiving half of a socket never loses, repeats or swaps a byte and *)
(* never reports the end of the stream too early: for any number of        *)
(* sockets, of readers that share them, of bytes and of buffer sizes.  The *)
(* sending half, at the end, carries every call in order, for any senders. *)
(* First, what the operations of the receive buffer preserve.              *)
(***************************************************************************)
EXTENDS SocketStream, CarriedCalls, TLAPS

QueueOf(S) == [l_buffer : Seq(S), s_buffer : Seq(S), bufempty : BOOLEAN]

-----------------------------------------------------------------------------
(* Sequences. *)

\* The type and the length of a concatenation.
LEMMA CatIsSeq ==
    ASSUME NEW S, NEW s \in Seq(S), NEW t \in Seq(S)
    PROVE  s \o t \in Seq(S) /\ Len(s \o t) = Len(s) + Len(t)
OBVIOUS

\* Concatenation is associative.
LEMMA CatAssoc ==
    ASSUME NEW S, NEW s \in Seq(S), NEW t \in Seq(S), NEW u \in Seq(S)
    PROVE  (s \o t) \o u = s \o (t \o u)
OBVIOUS

\* The empty sequence changes nothing it is concatenated to.
LEMMA EmptyIsUnit ==
    ASSUME NEW S, NEW s \in Seq(S)
    PROVE  /\ s \o <<>> = s
           /\ <<>> \in Seq(S)
OBVIOUS

\* Sequences with the same length and elements are the same.
LEMMA SameElements ==
    ASSUME NEW S, NEW s \in Seq(S), NEW t \in Seq(S),
           Len(s) = Len(t), \A i \in 1 .. Len(s) : s[i] = t[i]
    PROVE  s = t
OBVIOUS

\* Two sequences that hold the first m elements of s and the others make up s.
LEMMA PartsMakeWhole ==
    ASSUME NEW S, NEW s \in Seq(S), NEW m \in 0 .. Len(s),
           NEW a \in Seq(S), Len(a) = m, \A i \in 1 .. m : a[i] = s[i],
           NEW b \in Seq(S), Len(b) = Len(s) - m,
           \A i \in 1 .. Len(s) - m : b[i] = s[m + i]
    PROVE  a \o b = s
<1>1. a \o b \in Seq(S) /\ Len(a \o b) = Len(s)
  OBVIOUS
<1>2. ASSUME NEW i \in 1 .. Len(s) PROVE (a \o b)[i] = s[i]
  <2>1. (a \o b)[i] = IF i <= m THEN a[i] ELSE b[i - m]
    OBVIOUS
  <2>2. CASE i <= m
    BY <2>1, <2>2
  <2>3. CASE ~(i <= m)
    <3>1. i - m \in 1 .. Len(s) - m /\ m + (i - m) = i
      BY <2>3
    <3>2. b[i - m] = s[m + (i - m)]
      BY <3>1
    <3>3. QED
      BY <3>1, <3>2, <2>1, <2>3
  <2>4. QED
    BY <2>2, <2>3
<1>3. QED
  BY <1>1, <1>2, SameElements, Zenon

\* A sequence cut at m: the parts, and that together they are the sequence.
LEMMA SplitAt ==
    ASSUME NEW S, NEW s \in Seq(S), NEW m \in 0 .. Len(s)
    PROVE  /\ SubSeq(s, 1, m) \in Seq(S)
           /\ Len(SubSeq(s, 1, m)) = m
           /\ SubSeq(s, m + 1, Len(s)) \in Seq(S)
           /\ SubSeq(s, 1, m) \o SubSeq(s, m + 1, Len(s)) = s
<1> DEFINE a == SubSeq(s, 1, m)
           b == SubSeq(s, m + 1, Len(s))
<1>1. a \in Seq(S) /\ Len(a) = m /\ \A i \in 1 .. m : a[i] = s[i]
  OBVIOUS
<1>2. /\ b \in Seq(S) /\ Len(b) = Len(s) - m
      /\ \A i \in 1 .. Len(s) - m : b[i] = s[m + i]
  OBVIOUS
<1>3. a \o b = s
  <2> HIDE DEF a, b
  <2>1. QED
    BY <1>1, <1>2, PartsMakeWhole, ZenonT(60)
<1>4. QED
  <2> HIDE DEF a, b
  <2>1. a \in Seq(S) /\ Len(a) = m /\ b \in Seq(S) /\ a \o b = s
    BY <1>1, <1>2, <1>3
  <2>2. QED
    BY <2>1, Zenon DEF a, b

-----------------------------------------------------------------------------
(* The operations of _StringQueue, for buffers of any values and any length. *)

\* The slices s[:n] and s[n:] of a string are the two parts of it.
LEMMA SlicesSplit ==
    ASSUME NEW S, NEW s \in Seq(S), NEW n \in Nat
    PROVE  /\ UpTo(s, n) \in Seq(S)
           /\ Len(UpTo(s, n)) = IF n < Len(s) THEN n ELSE Len(s)
           /\ From(s, Len(UpTo(s, n))) \in Seq(S)
           /\ UpTo(s, n) \o From(s, Len(UpTo(s, n))) = s
<1>1. PICK m \in 0 .. Len(s) : m = IF n < Len(s) THEN n ELSE Len(s)
  OBVIOUS
<1>2. UpTo(s, n) = SubSeq(s, 1, m) /\ From(s, m) = SubSeq(s, m + 1, Len(s))
  BY <1>1, Zenon DEF UpTo, From
<1>3. UpTo(s, n) \in Seq(S) /\ Len(UpTo(s, n)) = m
  BY <1>2, SplitAt, Zenon
<1>4. From(s, m) \in Seq(S) /\ UpTo(s, n) \o From(s, m) = s
  BY <1>2, SplitAt, Zenon
<1>5. QED
  BY <1>1, <1>3, <1>4, Zenon

\* The types of the fields of a queue.
LEMMA QueueFields ==
    ASSUME NEW S, NEW q \in QueueOf(S)
    PROVE  /\ q.l_buffer \in Seq(S) /\ q.s_buffer \in Seq(S)
           /\ q.bufempty \in BOOLEAN
BY DEF QueueOf

\* The content of a queue is a sequence; its length is what __len__() returns.
LEMMA ContentIsSeq ==
    ASSUME NEW S, NEW q \in QueueOf(S)
    PROVE  Content(q) \in Seq(S) /\ Len(Content(q)) = QueueLen(q)
<1> DEFINE l == q.l_buffer
           s == q.s_buffer
<1>1. l \in Seq(S) /\ s \in Seq(S)
  BY QueueFields, Zenon
<1>2. Content(q) = s \o l /\ QueueLen(q) = Len(l) + Len(s)
  BY Zenon DEF Content, QueueLen
<1> HIDE DEF l, s
<1>3. s \o l \in Seq(S) /\ Len(s \o l) = Len(l) + Len(s)
  BY <1>1
<1>4. QED
  BY <1>2, <1>3, Zenon

\* write() adds its data at the end.
LEMMA WriteAdds ==
    ASSUME NEW S, NEW q \in QueueOf(S), NEW data \in Seq(S)
    PROVE  /\ WriteAppend(q, data) \in QueueOf(S)
           /\ Content(WriteAppend(q, data)) = Content(q) \o data
<1> DEFINE l == q.l_buffer
           s == q.s_buffer
           k == l \o data
<1>1. l \in Seq(S) /\ s \in Seq(S)
  BY QueueFields, Zenon
<1>2. k \in Seq(S)
  BY <1>1, CatIsSeq, Zenon
<1>3. WriteAppend(q, data) = [q EXCEPT !.l_buffer = k] /\ Content(q) = s \o l
  BY Zenon DEF WriteAppend, Content
<1>4. s \o k = (s \o l) \o data
  <2> HIDE DEF s, l
  <2>1. QED
    BY <1>1
<1> HIDE DEF k
<1>5. /\ [q EXCEPT !.l_buffer = k] \in QueueOf(S)
      /\ Content([q EXCEPT !.l_buffer = k]) = s \o k
  BY <1>2 DEF QueueOf, Content
<1>6. QED
  BY <1>3, <1>4, <1>5, Zenon

\* The second half of write() changes neither the type nor the content.
LEMMA MarkKeeps ==
    ASSUME NEW S, NEW q \in QueueOf(S)
    PROVE  /\ WriteMark(q) \in QueueOf(S)
           /\ Content(WriteMark(q)) = Content(q)
BY DEF WriteMark, Content, QueueOf

\* Joining the list does not change what the buffer holds.
LEMMA JoinKeeps ==
    ASSUME NEW S, NEW q \in QueueOf(S), NEW n \in Nat
    PROVE  /\ ReadFrom(q, n) \in QueueOf(S)
           /\ Content(ReadFrom(q, n)) = Content(q)
<1> DEFINE s == Content(q)
           e == <<>>
<1>1. s \in Seq(S)
  BY ContentIsSeq, Zenon
<1>2. BuildStr(q) = [q EXCEPT !.s_buffer = s, !.l_buffer = e]
  BY DEF BuildStr, Content
<1>3. s \o e = s /\ e \in Seq(S)
  <2> HIDE DEF s
  <2>1. QED
    BY <1>1, EmptyIsUnit, Zenon
<1> HIDE DEF s, e
<1>4. /\ [q EXCEPT !.s_buffer = s, !.l_buffer = e] \in QueueOf(S)
      /\ Content([q EXCEPT !.s_buffer = s, !.l_buffer = e]) = s \o e
  BY <1>1, <1>3 DEF QueueOf, Content
<1>5. BuildStr(q) \in QueueOf(S) /\ Content(BuildStr(q)) = s
  BY <1>2, <1>3, <1>4, Zenon
<1>6. QED
  BY <1>5, Zenon DEF ReadFrom, s

\* read() returns the first part of what the buffer holds and keeps the rest,
\* whichever of its two internal buffers the data is in.
THEOREM ReadSplits ==
    ASSUME NEW S, NEW q \in QueueOf(S), NEW n \in Nat
    PROVE  /\ ReadData(q, n) \in Seq(S)
           /\ ReadRest(q, n) \in QueueOf(S)
           /\ ReadData(q, n) \o Content(ReadRest(q, n)) = Content(q)
<1> DEFINE j == ReadFrom(q, n)
           l == j.l_buffer
           data == UpTo(j.s_buffer, n)
           rest == From(j.s_buffer, Len(data))
           none == rest = <<>>
<1>1. j \in QueueOf(S) /\ Content(j) = Content(q)
  BY JoinKeeps, Zenon
<1>2. /\ ReadData(q, n) = data
      /\ ReadRest(q, n) = [j EXCEPT !.s_buffer = rest, !.bufempty = none]
  BY Zenon DEF ReadData, ReadRest
<1> HIDE DEF j
<1>3. j.s_buffer \in Seq(S) /\ l \in Seq(S)
  BY <1>1, QueueFields, Zenon
<1>4. data \in Seq(S) /\ rest \in Seq(S) /\ data \o rest = j.s_buffer
  BY <1>3, SlicesSplit, Zenon
<1>5. data \o (rest \o l) = (data \o rest) \o l
  <2> HIDE DEF data, rest, none, l
  <2>1. data \in Seq(S) /\ rest \in Seq(S) /\ l \in Seq(S)
    BY <1>3, <1>4
  <2>2. QED
    BY <2>1
<1>6. Content(j) = (data \o rest) \o l
  <2> HIDE DEF data, rest
  <2>1. QED
    BY <1>4, Zenon DEF Content
<1>7. /\ ReadRest(q, n) \in QueueOf(S)
      /\ Content(ReadRest(q, n)) = rest \o l
  <2>1. none \in BOOLEAN
    OBVIOUS
  <2> HIDE DEF data, rest, none
  <2>2. /\ [j EXCEPT !.s_buffer = rest, !.bufempty = none] \in QueueOf(S)
        /\ Content([j EXCEPT !.s_buffer = rest, !.bufempty = none]) = rest \o l
    BY <2>1, <1>1, <1>4 DEF QueueOf, Content
  <2>3. QED
    BY <2>2, <1>2, Zenon
<1> HIDE DEF data, rest, l
<1>8. QED
  BY <1>1, <1>2, <1>4, <1>5, <1>6, <1>7, Zenon

\* An empty buffer stays empty.
LEMMA ReadShrinks ==
    ASSUME NEW S, NEW q \in QueueOf(S), NEW n \in Nat
    PROVE  QueueLen(q) = 0 => QueueLen(ReadRest(q, n)) = 0
<1> DEFINE a == ReadData(q, n)
           b == Content(ReadRest(q, n))
           c == Content(q)
<1>1. a \in Seq(S) /\ ReadRest(q, n) \in QueueOf(S) /\ a \o b = c
  BY ReadSplits, Zenon
<1>2. Len(b) = QueueLen(ReadRest(q, n)) /\ b \in Seq(S)
  BY <1>1, ContentIsSeq, Zenon
<1>3. Len(c) = QueueLen(q) /\ c \in Seq(S)
  BY ContentIsSeq, Zenon
<1>4. ASSUME Len(c) = 0 PROVE Len(b) = 0
  <2> HIDE DEF a, b, c
  <2>1. a \in Seq(S) /\ b \in Seq(S) /\ Len(a \o b) = 0
    BY <1>1, <1>2, <1>4
  <2>2. Len(a) + Len(b) = 0 /\ Len(a) \in Nat /\ Len(b) \in Nat
    BY <2>1
  <2>3. QED
    BY <2>2
<1> HIDE DEF b, c
<1>5. QED
  BY <1>2, <1>3, <1>4, Zenon

\* What read() returns has the size asked for, or all there is if that is less.
THEOREM ReadSize ==
    ASSUME NEW S, NEW q \in QueueOf(S), NEW n \in Nat
    PROVE  Len(ReadData(q, n)) = IF n < QueueLen(q) THEN n ELSE QueueLen(q)
<1> DEFINE l == q.l_buffer
           s == q.s_buffer
<1>1. l \in Seq(S) /\ s \in Seq(S)
  BY QueueFields, Zenon
<1>2. QueueLen(q) = Len(l) + Len(s)
  BY Zenon DEF QueueLen
<1>3. CASE n > Len(s)
  <2>1. ReadFrom(q, n).s_buffer = s \o l
    BY <1>3 DEF ReadFrom, BuildStr, QueueOf
  <2>2. ReadData(q, n) = UpTo(s \o l, n)
    BY <2>1, Zenon DEF ReadData
  <2> HIDE DEF l, s
  <2> DEFINE t == s \o l
  <2>3. t \in Seq(S) /\ Len(t) = Len(l) + Len(s)
    BY <1>1
  <2> HIDE DEF t
  <2>4. Len(UpTo(t, n)) = IF n < Len(t) THEN n ELSE Len(t)
    BY <2>3, SlicesSplit, Zenon
  <2>5. QED
    BY <1>2, <2>2, <2>3, <2>4, Zenon DEF t
<1>4. CASE ~(n > Len(s))
  <2>1. ReadData(q, n) = UpTo(s, n)
    BY <1>4, Zenon DEF ReadData, ReadFrom
  <2> HIDE DEF l, s
  <2>2. Len(ReadData(q, n)) = IF n < Len(s) THEN n ELSE Len(s)
    BY <1>1, <2>1, SlicesSplit, Zenon
  <2>3. Len(s) \in Nat /\ Len(l) \in Nat
    BY <1>1
  <2>4. QED
    BY <1>2, <1>4, <2>2, <2>3
<1>5. QED
  BY <1>3, <1>4

-----------------------------------------------------------------------------
(* The inductive invariant. *)

\* How the event side of a channel hangs together.
ChannelInv ==
    \A s \in Sockets :
        /\ dropped[s] <= arrived[s] /\ arrived[s] <= sent[s]
        /\ ~listening[s] => arrived[s] = dropped[s]
        /\ ~chanOpen[s] => peerClosed[s] /\ arrived[s] = sent[s]
        /\ closed[s] \/ notices[s] > 0 => ~chanOpen[s]
        /\ callback[s] = "close" => notices[s] > 0

\* What a reader knows of the socket it works on.
ReaderInv ==
    \A r \in Readers :
        /\ pc[r] = "drain" => ~chanOpen[sock[r]]
        /\ outcome[r] = "reset" =>
             ~chanOpen[sock[r]] /\ QueueLen(queue[sock[r]]) = 0

IInv == TypeOK /\ ChannelInv /\ ReaderInv /\ StreamInOrder

-----------------------------------------------------------------------------
(* Segments of the byte stream. *)

\* The bytes from a to b: a sequence of b - a numbers.
LEMMA SegmentIsSeq ==
    ASSUME NEW a \in Nat, NEW b \in Nat, a <= b
    PROVE  /\ Segment(a, b) \in Seq(Nat)
           /\ Len(Segment(a, b)) = b - a
           /\ \A i \in 1 .. b - a : Segment(a, b)[i] = a + i
BY DEF Segment

\* There are no bytes from a to a.
LEMMA SegmentEmpty ==
    ASSUME NEW a \in Nat
    PROVE  Segment(a, a) = <<>>
<1>1. Segment(a, a) \in Seq(Nat) /\ Len(Segment(a, a)) = 0
  BY SegmentIsSeq
<1>2. QED
  BY <1>1

\* The bytes from a to b, then those from b to c, are those from a to c.
LEMMA SegmentsJoin ==
    ASSUME NEW a \in Nat, NEW b \in Nat, NEW c \in Nat, a <= b, b <= c
    PROVE  Segment(a, b) \o Segment(b, c) = Segment(a, c)
<1> DEFINE s == Segment(a, c)
           t == Segment(a, b)
           u == Segment(b, c)
           m == b - a
<1>1. m \in Nat /\ m \in 0 .. c - a /\ c - a = m + (c - b)
  OBVIOUS
<1>2. s \in Seq(Nat) /\ Len(s) = c - a /\ \A i \in 1 .. c - a : s[i] = a + i
  BY SegmentIsSeq
<1>3. t \in Seq(Nat) /\ Len(t) = m /\ \A i \in 1 .. m : t[i] = a + i
  BY SegmentIsSeq
<1>4. u \in Seq(Nat) /\ Len(u) = c - b /\ \A i \in 1 .. c - b : u[i] = b + i
  BY SegmentIsSeq
<1> HIDE DEF s, t, u
<1>5. /\ m \in 0 .. Len(s)
      /\ \A i \in 1 .. m : t[i] = s[i]
      /\ Len(u) = Len(s) - m
      /\ \A i \in 1 .. Len(s) - m : u[i] = s[m + i]
  BY <1>1, <1>2, <1>3, <1>4
<1> HIDE DEF m
<1>6. t \o u = s
  BY <1>2, <1>3, <1>4, <1>5, PartsMakeWhole, Zenon
<1>7. QED
  BY <1>6, Zenon DEF s, t, u

-----------------------------------------------------------------------------
(* Types. *)

\* The buffer of a socket is a queue of numbers.
LEMMA QueueTyped ==
    ASSUME TypeOK, NEW s \in Sockets
    PROVE  queue[s] \in QueueOf(Nat) /\ received[s] \in Seq(Nat)
BY DEF TypeOK, QueueOf

\* The variables have their types at first.
LEMMA InitTypeOK == Init => TypeOK
<1> SUFFICES ASSUME Init PROVE TypeOK
  OBVIOUS
<1>1. NewQueue \in [l_buffer : Seq(Nat), s_buffer : Seq(Nat), bufempty : BOOLEAN]
  BY DEF NewQueue
<1>2. <<>> \in Seq(Nat)
  OBVIOUS
<1>3. QED
  BY <1>1, <1>2 DEF Init, TypeOK, TimeoutModes

\* Every step keeps the types; only write() and read() change a queue.
LEMMA StepTypeOK ==
    ASSUME TypeOK, ChannelInv, [Next]_vars
    PROVE  TypeOK'
<1> USE DEF TypeOK, remote, channel, settings, reader, environment
<1>1. ASSUME NEW s \in Sockets, PeerSend(s)
      PROVE  TypeOK'
  BY <1>1 DEF PeerSend
<1>2. ASSUME NEW s \in Sockets, PeerClose(s)
      PROVE  TypeOK'
  BY <1>2 DEF PeerClose
<1>3. ASSUME NEW s \in Sockets, NEW k \in 1 .. MaxSent, DropData(s, k)
      PROVE  TypeOK'
  <2>1. arrived[s] + k \in Nat /\ dropped[s] + k \in Nat
    BY StreamAssumption
  <2>2. arrived' \in [Sockets -> Nat] /\ dropped' \in [Sockets -> Nat]
    BY <1>3, <2>1 DEF DropData
  <2>3. QED
    BY <1>3, <2>2 DEF DropData
<1>4. ASSUME NEW s \in Sockets, NEW k \in 1 .. MaxSent, ChannelData(s, k)
      PROVE  TypeOK'
  <2>1. /\ arrived[s] \in Nat /\ arrived[s] + k \in Nat
        /\ arrived[s] <= arrived[s] + k
    BY StreamAssumption
  <2>2. Segment(arrived[s], arrived[s] + k) \in Seq(Nat)
    BY <2>1, SegmentIsSeq, Zenon
  <2>3. WriteAppend(queue[s], Segment(arrived[s], arrived[s] + k)) \in QueueOf(Nat)
    BY <2>2, QueueTyped, WriteAdds, Zenon
  <2>4. queue' \in [Sockets -> QueueOf(Nat)]
    BY <1>4, <2>3 DEF ChannelData, QueueOf
  <2>5. QED
    BY <1>4, <2>1, <2>4 DEF ChannelData, QueueOf
<1>5. ASSUME NEW s \in Sockets, Accept(s)
      PROVE  TypeOK'
  BY <1>5 DEF Accept
<1>6. ASSUME NEW s \in Sockets, ChannelClose(s)
      PROVE  TypeOK'
  <2>1. CASE listening[s]
    <3>1. PICK n \in 1 .. 2 : notices' = [notices EXCEPT ![s] = n]
      BY <1>6, <2>1 DEF ChannelClose
    <3>2. callback' = [callback EXCEPT ![s] = "close"]
      BY <1>6, <2>1 DEF ChannelClose
    <3>3. QED
      BY <1>6, <3>1, <3>2 DEF ChannelClose
  <2>2. CASE ~listening[s]
    BY <1>6, <2>2 DEF ChannelClose
  <2>3. QED
    BY <2>1, <2>2
<1>7. ASSUME NEW s \in Sockets, MarkData(s)
      PROVE  TypeOK'
  <2>1. WriteMark(queue[s]) \in QueueOf(Nat)
    BY QueueTyped, MarkKeeps, Zenon
  <2>2. queue' \in [Sockets -> QueueOf(Nat)]
    BY <1>7, <2>1 DEF MarkData, QueueOf
  <2>3. QED
    BY <1>7, <2>2 DEF MarkData, QueueOf
<1>8. ASSUME NEW s \in Sockets, HandleClosed(s)
      PROVE  TypeOK'
  BY <1>8 DEF HandleClosed, ChannelInv
<1>9. ASSUME NEW s \in Sockets, InterruptWait(s)
      PROVE  TypeOK'
  BY <1>9 DEF InterruptWait
<1>10. ASSUME NEW s \in Sockets, NEW how \in ShutModes, Shutdown(s, how)
      PROVE  TypeOK'
  BY <1>10, StreamAssumption DEF Shutdown
<1>11. ASSUME NEW s \in Sockets, NEW value \in Timeouts, SetTimeout(s, value)
      PROVE  TypeOK'
  BY <1>11, StreamAssumption DEF SetTimeout, TimeoutModes
<1>12. ASSUME NEW s \in Sockets, NEW flag \in BOOLEAN, SetBlocking(s, flag)
      PROVE  TypeOK'
  BY <1>12 DEF SetBlocking, TimeoutModes
<1>13. ASSUME NEW r \in Readers, NEW s \in Sockets, NEW n \in BufSizes, Recv(r, s, n)
      PROVE  TypeOK'
  BY <1>13 DEF Recv
<1>14. ASSUME NEW r \in Readers, TestClosed(r)
      PROVE  TypeOK'
  BY <1>14 DEF TestClosed, Goto
<1>15. ASSUME NEW r \in Readers, Drain(r)
      PROVE  TypeOK'
  BY <1>15 DEF Drain, TestEmpty, Goto, Finish
<1>16. ASSUME NEW r \in Readers, Poll(r)
      PROVE  TypeOK'
  BY <1>16 DEF Poll, Goto
<1>17. ASSUME NEW r \in Readers, Test(r)
      PROVE  TypeOK'
  BY <1>17 DEF Test, Goto
<1>18. ASSUME NEW r \in Readers, Retest(r)
      PROVE  TypeOK'
  BY <1>18 DEF Retest, Goto, Finish
<1>19. ASSUME NEW r \in Readers, TakeNotify(r)
      PROVE  TypeOK'
  BY <1>19 DEF TakeNotify, Goto
<1>20. ASSUME NEW r \in Readers, TimeOut(r)
      PROVE  TypeOK'
  BY <1>20 DEF TimeOut, Finish, Goto
<1>21. ASSUME NEW r \in Readers, Woken(r)
      PROVE  TypeOK'
  BY <1>21 DEF Woken, TestEmpty, Goto, Finish
<1>22. ASSUME NEW r \in Readers, Read(r)
      PROVE  TypeOK'
  <2>1. sock[r] \in Sockets /\ want[r] \in Nat
    BY StreamAssumption
  <2>2. /\ ReadData(queue[sock[r]], want[r]) \in Seq(Nat)
        /\ ReadRest(queue[sock[r]], want[r]) \in QueueOf(Nat)
    BY <2>1, QueueTyped, ReadSplits, Zenon
  <2>3. received[sock[r]] \o ReadData(queue[sock[r]], want[r]) \in Seq(Nat)
    BY <2>1, <2>2, QueueTyped, CatIsSeq, Zenon
  <2>4. QED
    BY <1>22, <2>1, <2>2, <2>3 DEF Read, Finish, Goto, QueueOf
<1>23. ASSUME UNCHANGED vars PROVE TypeOK'
  BY <1>23 DEF vars
<1>24. QED
  BY <1>1, <1>2, <1>3, <1>4, <1>5, <1>6, <1>7, <1>8, <1>9, <1>10, <1>11, <1>12, <1>13, <1>14, <1>15, <1>16, <1>17, <1>18, <1>19, <1>20, <1>21, <1>22, <1>23 DEF Next, CallbackStep, RecvStep

-----------------------------------------------------------------------------
(* The channels and their callbacks. *)

\* At first no channel is closed and no callback runs.
LEMMA InitChannelInv == Init => ChannelInv
BY DEF Init, ChannelInv

\* Every step keeps what is known of channels and callbacks.
LEMMA StepChannelInv ==
    ASSUME TypeOK, ChannelInv, [Next]_vars
    PROVE  ChannelInv'
<1> USE DEF TypeOK, ChannelInv, remote, channel, settings, reader, environment
<1>1. ASSUME NEW s \in Sockets, PeerSend(s) \/ PeerClose(s)
      PROVE  ChannelInv'
  <2>1. CASE PeerSend(s)
    BY <2>1 DEF PeerSend
  <2>2. CASE PeerClose(s)
    BY <2>2 DEF PeerClose
  <2>3. QED
    BY <1>1, <2>1, <2>2
<1>2. ASSUME NEW s \in Sockets, NEW k \in 1 .. MaxSent,
             DropData(s, k) \/ ChannelData(s, k)
      PROVE  ChannelInv'
  BY <1>2, StreamAssumption DEF DropData, ChannelData
<1>3. ASSUME NEW s \in Sockets, Accept(s)
      PROVE  ChannelInv'
  BY <1>3 DEF Accept
<1>4. ASSUME NEW s \in Sockets, ChannelClose(s)
      PROVE  ChannelInv'
  <2>1. CASE listening[s]
    <3>1. PICK n \in 1 .. 2 : notices' = [notices EXCEPT ![s] = n]
      BY <1>4, <2>1 DEF ChannelClose
    <3>2. QED
      BY <1>4, <2>1, <3>1 DEF ChannelClose
  <2>2. CASE ~listening[s]
    BY <1>4, <2>2 DEF ChannelClose
  <2>3. QED
    BY <2>1, <2>2
<1>5. ASSUME NEW s \in Sockets, CallbackStep(s)
      PROVE  ChannelInv'
  BY <1>5 DEF CallbackStep, MarkData, HandleClosed, InterruptWait
<1>6. ASSUME UNCHANGED <<remote, channel, closed>>
      PROVE  ChannelInv'
  BY <1>6
<1>7. ASSUME NEW r \in Readers, RecvStep(r)
      PROVE  UNCHANGED <<remote, channel, closed>>
  BY <1>7 DEF RecvStep, TestClosed, Drain, TestEmpty, Poll, Test, Retest,
              TakeNotify, TimeOut, Woken, Read
<1>8. ASSUME NEW r \in Readers, NEW s \in Sockets, NEW n \in BufSizes, Recv(r, s, n)
      PROVE  UNCHANGED <<remote, channel, closed>>
  BY <1>8 DEF Recv
<1>9. QED
  BY <1>1, <1>2, <1>3, <1>4, <1>5, <1>6, <1>7, <1>8
     DEF Next, vars, Shutdown, SetTimeout, SetBlocking

-----------------------------------------------------------------------------
(* The readers. *)

\* At first nobody is inside recv().
LEMMA InitReaderInv == Init => ReaderInv
BY DEF Init, ReaderInv

\* Every step keeps what the callers of recv() rely on.
LEMMA StepReaderInv ==
    ASSUME TypeOK, ChannelInv, ReaderInv, [Next]_vars
    PROVE  ReaderInv'
<1> USE DEF ReaderInv, remote, channel, settings, reader, environment
<1>1. \A s \in Sockets : IsClosed(s) => ~chanOpen[s]
  BY DEF ChannelInv, IsClosed
<1>2. ASSUME NEW s \in Sockets, NEW k \in 1 .. MaxSent, ChannelData(s, k)
      PROVE  ReaderInv'
  BY <1>2 DEF ChannelData, TypeOK
<1>3. ASSUME NEW s \in Sockets, MarkData(s)
      PROVE  ReaderInv'
  <2>1. \A x \in Sockets : QueueLen(queue'[x]) = QueueLen(queue[x])
    BY <1>3 DEF MarkData, WriteMark, QueueLen, TypeOK
  <2>2. QED
    BY <1>3, <2>1 DEF MarkData, TypeOK
<1>4. ASSUME NEW s \in Sockets, ChannelClose(s)
      PROVE  ReaderInv'
  BY <1>4 DEF ChannelClose, TypeOK
<1>5. ASSUME NEW r \in Readers, NEW s \in Sockets, NEW n \in BufSizes, Recv(r, s, n)
      PROVE  ReaderInv'
  BY <1>5 DEF Recv, TypeOK
<1>6. ASSUME NEW r \in Readers, TestClosed(r)
      PROVE  ReaderInv'
  BY <1>1, <1>6 DEF TestClosed, Goto, TypeOK
<1>7. ASSUME NEW r \in Readers, Drain(r)
      PROVE  ReaderInv'
  BY <1>7 DEF Drain, TestEmpty, Finish, Goto, TypeOK
<1>8. ASSUME NEW r \in Readers, Woken(r)
      PROVE  ReaderInv'
  BY <1>1, <1>8 DEF Woken, TestEmpty, Finish, Goto, TypeOK
<1>9. ASSUME NEW r \in Readers,
             Poll(r) \/ Test(r) \/ Retest(r) \/ TakeNotify(r) \/ TimeOut(r)
      PROVE  ReaderInv'
  BY <1>9 DEF Poll, Test, Retest, TakeNotify, TimeOut, Finish, Goto, TypeOK
<1>10. ASSUME NEW r \in Readers, Read(r)
       PROVE  ReaderInv'
  <2> DEFINE s    == sock[r]
             rest == ReadRest(queue[s], want[r])
  <2>1. s \in Sockets /\ want[r] \in Nat /\ queue[s] \in QueueOf(Nat)
    BY StreamAssumption, QueueTyped DEF TypeOK
  <2>2. QueueLen(queue[s]) = 0 => QueueLen(rest) = 0
    BY <2>1, ReadShrinks, Zenon
  <2> HIDE DEF rest
  <2>3. queue' = [queue EXCEPT ![s] = rest]
    BY <1>10 DEF Read, rest
  <2>4. QED
    BY <1>10, <2>1, <2>2, <2>3 DEF Read, Finish, Goto, TypeOK
<1>11. ASSUME UNCHANGED <<pc, sock, outcome, chanOpen, queue>>
       PROVE  ReaderInv'
  BY <1>11
<1>12. ASSUME NEW s \in Sockets,
              PeerSend(s) \/ PeerClose(s) \/ Accept(s) \/ HandleClosed(s)
                \/ InterruptWait(s)
       PROVE  UNCHANGED <<pc, sock, outcome, chanOpen, queue>>
  BY <1>12 DEF PeerSend, PeerClose, Accept, HandleClosed, InterruptWait
<1>13. QED
  BY <1>2, <1>3, <1>4, <1>5, <1>6, <1>7, <1>8, <1>9, <1>10, <1>11, <1>12
     DEF Next, CallbackStep, RecvStep, vars, DropData, Shutdown, SetTimeout,
         SetBlocking

-----------------------------------------------------------------------------
(* The bytes. *)

\* At first nothing has arrived and nothing was returned.
LEMMA InitStreamInOrder == Init => StreamInOrder
<1> SUFFICES ASSUME Init, NEW s \in Sockets
             PROVE  received[s] \o Content(queue[s]) = Segment(dropped[s], arrived[s])
  BY DEF StreamInOrder
<1>1. received[s] = <<>> /\ queue[s] = NewQueue /\ dropped[s] = 0 /\ arrived[s] = 0
  BY DEF Init
<1>2. Content(NewQueue) = <<>>
  BY DEF NewQueue, Content
<1>3. Segment(0, 0) = <<>>
  BY SegmentEmpty
<1>4. QED
  BY <1>1, <1>2, <1>3

\* Every step keeps the bytes in order; write() and read() are those that move them.
LEMMA StepStreamInOrder ==
    ASSUME TypeOK, ChannelInv, StreamInOrder, [Next]_vars
    PROVE  StreamInOrder'
<1> DEFINE Stays(x) == UNCHANGED <<received[x], queue[x], dropped[x], arrived[x]>>
           Holds(x) == received[x] \o Content(queue[x]) = Segment(dropped[x], arrived[x])
<1>1. ASSUME NEW x \in Sockets, Stays(x)
      PROVE  Holds(x)'
  BY <1>1, Zenon DEF StreamInOrder
<1>2. ASSUME NEW s \in Sockets, NEW k \in 1 .. MaxSent, DropData(s, k)
      PROVE  StreamInOrder'
  <2>1. \A x \in Sockets \ {s} : Stays(x)
    BY <1>2 DEF DropData, TypeOK, reader
  <2>2. /\ received'[s] = received[s] /\ queue'[s] = queue[s]
        /\ dropped[s] = arrived[s] /\ dropped'[s] = arrived'[s]
        /\ arrived[s] \in Nat /\ arrived'[s] \in Nat
    BY <1>2, StreamAssumption DEF DropData, TypeOK, ChannelInv, reader
  <2>3. Segment(dropped[s], arrived[s]) = Segment(dropped'[s], arrived'[s])
    <3>1. ASSUME NEW a \in Nat, NEW b \in Nat
          PROVE  Segment(a, a) = Segment(b, b)
      BY SegmentEmpty
    <3>2. QED
      BY <2>2, <3>1, Zenon
  <2>4. Holds(s)'
    BY <2>2, <2>3, Zenon DEF StreamInOrder
  <2>5. QED
    BY <1>1, <2>1, <2>4, Zenon DEF StreamInOrder
<1>3. ASSUME NEW s \in Sockets, NEW k \in 1 .. MaxSent, ChannelData(s, k)
      PROVE  StreamInOrder'
  <2> DEFINE a    == arrived[s]
             data == Segment(a, a + k)
             c    == Content(queue[s])
             r    == received[s]
  <2>1. \A x \in Sockets \ {s} : Stays(x)
    BY <1>3 DEF ChannelData, TypeOK, reader
  <2>2. /\ dropped[s] \in Nat /\ a \in Nat /\ a + k \in Nat
        /\ dropped[s] <= a /\ a <= a + k
    BY StreamAssumption DEF TypeOK, ChannelInv
  <2>3. /\ received'[s] = r /\ dropped'[s] = dropped[s] /\ arrived'[s] = a + k
        /\ queue'[s] = WriteAppend(queue[s], data)
    BY <1>3 DEF ChannelData, TypeOK, reader
  <2>4. r \in Seq(Nat) /\ c \in Seq(Nat) /\ data \in Seq(Nat)
    BY <2>2, QueueTyped, ContentIsSeq, SegmentIsSeq, Zenon
  <2>5. Content(queue'[s]) = c \o data
    BY <2>3, <2>4, QueueTyped, WriteAdds, Zenon
  <2>6. r \o (c \o data) = (r \o c) \o data
    <3> HIDE DEF r, c, data
    <3>1. QED
      BY <2>4
  <2>7. r \o c = Segment(dropped[s], a)
    BY Zenon DEF StreamInOrder
  <2>8. Segment(dropped[s], a) \o data = Segment(dropped[s], a + k)
    BY <2>2, SegmentsJoin, Zenon
  <2> HIDE DEF a, data, c, r
  <2>9. Holds(s)'
    BY <2>3, <2>5, <2>6, <2>7, <2>8, Zenon
  <2>10. QED
    BY <1>1, <2>1, <2>9, Zenon DEF StreamInOrder
<1>4. ASSUME NEW s \in Sockets, MarkData(s)
      PROVE  StreamInOrder'
  <2>1. \A x \in Sockets \ {s} : Stays(x)
    BY <1>4 DEF MarkData, TypeOK, reader
  <2>2. /\ received'[s] = received[s] /\ dropped'[s] = dropped[s]
        /\ arrived'[s] = arrived[s] /\ queue'[s] = WriteMark(queue[s])
    BY <1>4 DEF MarkData, TypeOK, reader
  <2>3. Content(queue'[s]) = Content(queue[s])
    BY <2>2, QueueTyped, MarkKeeps, Zenon
  <2>4. Holds(s)'
    BY <2>2, <2>3, Zenon DEF StreamInOrder
  <2>5. QED
    BY <1>1, <2>1, <2>4, Zenon DEF StreamInOrder
<1>5. ASSUME NEW x \in Readers, Read(x)
      PROVE  StreamInOrder'
  <2>1. PICK s \in Sockets : s = sock[x] /\ want[x] \in Nat
    BY StreamAssumption DEF TypeOK
  <2> DEFINE r    == received[s]
             data == ReadData(queue[s], want[x])
             rest == ReadRest(queue[s], want[x])
             c    == Content(rest)
  <2>2. /\ data \in Seq(Nat) /\ rest \in QueueOf(Nat)
        /\ data \o c = Content(queue[s])
    BY <2>1, QueueTyped, ReadSplits, Zenon
  <2>3. c \in Seq(Nat) /\ r \in Seq(Nat)
    BY <2>1, <2>2, QueueTyped, ContentIsSeq, Zenon
  <2>4. \A y \in Sockets \ {s} : Stays(y)
    BY <1>5, <2>1 DEF Read, TypeOK, environment, channel
  <2>5. /\ received'[s] = r \o data /\ queue'[s] = rest
        /\ dropped'[s] = dropped[s] /\ arrived'[s] = arrived[s]
    BY <1>5, <2>1 DEF Read, TypeOK, environment, channel
  <2>6. (r \o data) \o c = r \o (data \o c)
    <3> HIDE DEF r, data, c
    <3>1. data \in Seq(Nat) /\ c \in Seq(Nat) /\ r \in Seq(Nat)
      BY <2>2, <2>3
    <3>2. QED
      BY <3>1
  <2>7. r \o Content(queue[s]) = Segment(dropped[s], arrived[s])
    BY <2>1, Zenon DEF StreamInOrder
  <2> HIDE DEF r, data
  <2>8. Holds(s)'
    BY <2>2, <2>5, <2>6, <2>7, Zenon
  <2>9. QED
    BY <1>1, <2>1, <2>4, <2>8, Zenon DEF StreamInOrder
<1>6. ASSUME UNCHANGED <<received, queue, dropped, arrived>>
      PROVE  StreamInOrder'
  BY <1>6, Zenon DEF StreamInOrder
<1>7. ASSUME NEW s \in Sockets,
             \/ PeerSend(s) \/ PeerClose(s) \/ Accept(s) \/ ChannelClose(s)
             \/ HandleClosed(s) \/ InterruptWait(s)
      PROVE  UNCHANGED <<received, queue, dropped, arrived>>
  BY <1>7 DEF PeerSend, PeerClose, Accept, ChannelClose, HandleClosed,
              InterruptWait, channel, reader
<1>8. ASSUME NEW r \in Readers,
             \/ TestClosed(r) \/ Drain(r) \/ Poll(r) \/ Test(r) \/ Retest(r)
             \/ TakeNotify(r) \/ TimeOut(r) \/ Woken(r)
      PROVE  UNCHANGED <<received, queue, dropped, arrived>>
  BY <1>8 DEF TestClosed, Drain, TestEmpty, Poll, Test, Retest, TakeNotify,
              TimeOut, Woken, environment, channel
<1>9. ASSUME NEW s \in Sockets,
             \/ \E how \in ShutModes : Shutdown(s, how)
             \/ \E value \in Timeouts : SetTimeout(s, value)
             \/ \E flag \in BOOLEAN : SetBlocking(s, flag)
             \/ \E r \in Readers, n \in BufSizes : Recv(r, s, n)
      PROVE  UNCHANGED <<received, queue, dropped, arrived>>
  BY <1>9 DEF Shutdown, SetTimeout, SetBlocking, Recv, environment, channel, reader
<1>10. UNCHANGED vars => UNCHANGED <<received, queue, dropped, arrived>>
  BY DEF vars, channel, reader
<1>11. QED
  BY <1>2, <1>3, <1>4, <1>5, <1>6, <1>7, <1>8, <1>9, <1>10
     DEF Next, CallbackStep, RecvStep

-----------------------------------------------------------------------------
(* The theorems. *)

\* The invariant is inductive.
THEOREM Inductive == Spec => []IInv
<1>1. Init => IInv
  BY InitTypeOK, InitChannelInv, InitReaderInv, InitStreamInOrder DEF IInv
<1>2. IInv /\ [Next]_vars => IInv'
  BY StepTypeOK, StepChannelInv, StepReaderInv, StepStreamInOrder DEF IInv
<1>3. QED
  BY <1>1, <1>2, PTL DEF Spec

\* Every variable keeps its type.
THEOREM TypeCorrect == Spec => []TypeOK
<1>1. IInv => TypeOK
  BY DEF IInv
<1>2. QED
  BY <1>1, Inductive, PTL

\* recv() returns the bytes that arrived since accept(), in order, whoever calls it.
THEOREM BytesInOrder == Spec => []StreamInOrder
<1>1. IInv => StreamInOrder
  BY DEF IInv
<1>2. QED
  BY <1>1, Inductive, PTL

\* No recv() reports the connection reset while a byte is left to return.
THEOREM ResetOnlyAtEnd == Spec => []ResetMeansAllRead
<1>1. IInv => ResetMeansAllRead
  <2> SUFFICES ASSUME IInv, NEW r \in Readers, outcome[r] = "reset"
               PROVE  /\ peerClosed[sock[r]]
                      /\ received[sock[r]] = Segment(dropped[sock[r]], sent[sock[r]])
    BY DEF ResetMeansAllRead
  <2> DEFINE s == sock[r]
             c == Content(queue[s])
  <2>1. s \in Sockets
    BY DEF IInv, TypeOK
  <2>2. peerClosed[s] /\ arrived[s] = sent[s] /\ QueueLen(queue[s]) = 0
    BY <2>1 DEF IInv, ReaderInv, ChannelInv
  <2>3. received[s] \in Seq(Nat) /\ c \in Seq(Nat) /\ Len(c) = QueueLen(queue[s])
    BY <2>1, QueueTyped, ContentIsSeq, Zenon DEF IInv
  <2>4. received[s] \o c = received[s]
    <3> DEFINE x == received[s]
    <3> HIDE DEF x, c
    <3>1. x \in Seq(Nat) /\ c \in Seq(Nat) /\ Len(c) = 0
      BY <2>2, <2>3 DEF x
    <3>2. x \o c = x
      BY <3>1
    <3>3. QED
      BY <3>2, Zenon DEF x
  <2>5. received[s] \o c = Segment(dropped[s], arrived[s])
    BY <2>1, Zenon DEF IInv, StreamInOrder
  <2>6. QED
    BY <2>2, <2>4, <2>5, Zenon
<1>2. QED
  BY <1>1, Inductive, PTL

-----------------------------------------------------------------------------
(* Wakeups.  Two readers can take each other's notify events, so this is a  *)
(* theorem about an application that never has two calls of recv() running. *)

OneCaller == \A r1, r2 \in Readers : r1 = r2

WakeupInv == /\ TypeOK
             /\ \A s \in Sockets : listening[s] \/ incoming[s]
             /\ NoLostWakeup

\* Every step of a single caller keeps a notify event for a wait that may end.
LEMMA StepWakeup ==
    ASSUME OneCaller, WakeupInv, TypeOK', [Next]_vars
    PROVE  WakeupInv'
<1> USE DEF remote, channel, settings, reader, environment, GotData, IsClosed
<1>1. \A s \in Sockets : listening'[s] \/ incoming'[s]
  <2>1. ASSUME NEW s \in Sockets, Accept(s)
        PROVE  \A x \in Sockets : listening'[x] \/ incoming'[x]
    BY <2>1 DEF Accept, WakeupInv, TypeOK
  <2>2. \/ \E s \in Sockets : Accept(s)
        \/ UNCHANGED <<listening, incoming>>
    BY DEF Next, RecvStep, CallbackStep, vars, PeerSend, PeerClose, DropData,
           ChannelData, ChannelClose, MarkData, HandleClosed, InterruptWait,
           Shutdown, SetTimeout, SetBlocking, Recv, TestClosed, Drain, TestEmpty,
           Poll, Test, Retest, TakeNotify, TimeOut, Woken, Read
  <2>3. QED
    BY <2>1, <2>2 DEF WakeupInv
<1>2. ASSUME NEW s \in Sockets, NEW k \in 1 .. MaxSent,
             DropData(s, k) \/ ChannelData(s, k)
      PROVE  NoLostWakeup'
  <2>1. CASE DropData(s, k)
    BY <2>1 DEF DropData, WakeupInv, NoLostWakeup
  <2>2. CASE ChannelData(s, k)
    <3>1. /\ callback' = [callback EXCEPT ![s] = "mark"]
          /\ \A x \in Sockets \ {s} : queue'[x] = queue[x]
          /\ UNCHANGED <<pc, sock, incoming, closed, chanOpen, notify>>
      BY <2>2 DEF ChannelData, TypeOK, WakeupInv
    <3>2. QED
      BY <3>1 DEF WakeupInv, NoLostWakeup, TypeOK
  <2>3. QED
    BY <1>2, <2>1, <2>2
<1>3. ASSUME NEW s \in Sockets, MarkData(s)
      PROVE  NoLostWakeup'
  BY <1>3 DEF MarkData, WakeupInv, NoLostWakeup, TypeOK
<1>4. ASSUME NEW s \in Sockets, ChannelClose(s)
      PROVE  NoLostWakeup'
  BY <1>4 DEF ChannelClose, WakeupInv, NoLostWakeup, TypeOK
<1>5. ASSUME NEW s \in Sockets, HandleClosed(s)
      PROVE  NoLostWakeup'
  BY <1>5 DEF HandleClosed, WakeupInv, NoLostWakeup, TypeOK
<1>6. ASSUME NEW s \in Sockets, InterruptWait(s)
      PROVE  NoLostWakeup'
  BY <1>6 DEF InterruptWait, WakeupInv, NoLostWakeup, TypeOK
<1>7. ASSUME NEW r \in Readers, TakeNotify(r)
      PROVE  NoLostWakeup'
  BY <1>7 DEF TakeNotify, Goto, OneCaller, WakeupInv, NoLostWakeup, TypeOK
<1>8. ASSUME NEW r \in Readers, Test(r)
      PROVE  NoLostWakeup'
  BY <1>8 DEF Test, Goto, OneCaller, WakeupInv, NoLostWakeup, TypeOK
<1>9. ASSUME NEW r \in Readers,
             \/ TestClosed(r) \/ Drain(r) \/ Poll(r) \/ Retest(r) \/ TimeOut(r)
             \/ Woken(r) \/ Read(r)
      PROVE  NoLostWakeup'
  <2> USE DEF Goto, Finish, WakeupInv, TypeOK
  <2>1. TestClosed(r) \/ Poll(r) => pc'[r] # "waiting"
    BY DEF TestClosed, Poll
  <2>2. Drain(r) \/ Woken(r) => pc'[r] # "waiting"
    <3>1. ASSUME NEW from, TestEmpty(r, from) PROVE pc'[r] # "waiting"
      BY <3>1 DEF TestEmpty
    <3>2. ASSUME Goto(r, "woken", "read") PROVE pc'[r] # "waiting"
      BY <3>2
    <3> HIDE DEF Goto, IsClosed
    <3>3. QED
      BY <3>1, <3>2, Zenon DEF Drain, Woken
  <2>3. Retest(r) \/ TimeOut(r) => pc'[r] # "waiting"
    BY DEF Retest, TimeOut
  <2>4. Read(r) => pc'[r] # "waiting"
    BY DEF Read
  <2>5. pc'[r] # "waiting"
    BY <1>9, <2>1, <2>2, <2>3, <2>4
  <2>6. QED
    BY <2>5 DEF OneCaller, NoLostWakeup
<1>10. ASSUME NEW r \in Readers, NEW s \in Sockets, NEW n \in BufSizes, Recv(r, s, n)
       PROVE  NoLostWakeup'
  <2>1. pc'[r] # "waiting"
    BY <1>10 DEF Recv, WakeupInv, TypeOK
  <2>2. QED
    BY <2>1 DEF OneCaller, NoLostWakeup
<1>11. ASSUME UNCHANGED <<pc, sock, queue, incoming, closed, chanOpen, callback, notify>>
       PROVE  NoLostWakeup'
  BY <1>11 DEF WakeupInv, NoLostWakeup
<1>12. ASSUME NEW s \in Sockets,
              \/ PeerSend(s) \/ PeerClose(s) \/ Accept(s)
              \/ \E how \in ShutModes : Shutdown(s, how)
              \/ \E value \in Timeouts : SetTimeout(s, value)
              \/ \E flag \in BOOLEAN : SetBlocking(s, flag)
       PROVE  UNCHANGED <<pc, sock, queue, incoming, closed, chanOpen, callback, notify>>
  BY <1>12 DEF PeerSend, PeerClose, Accept, Shutdown, SetTimeout, SetBlocking
<1>13. NoLostWakeup'
  BY <1>2, <1>3, <1>4, <1>5, <1>6, <1>7, <1>8, <1>9, <1>10, <1>11, <1>12
     DEF Next, CallbackStep, RecvStep, vars
<1>14. QED
  BY <1>1, <1>13 DEF WakeupInv

\* With one caller, a recv() that waits although its condition holds always has a
\* notify event coming that will make it look again.
THEOREM NoWakeupLost ==
    ASSUME OneCaller
    PROVE  Spec => []NoLostWakeup
<1>1. Init => WakeupInv
  <2> SUFFICES ASSUME Init PROVE WakeupInv
    OBVIOUS
  <2>1. TypeOK
    BY InitTypeOK
  <2>2. QED
    BY <2>1 DEF Init, WakeupInv, NoLostWakeup
<1>2. WakeupInv /\ TypeOK' /\ [Next]_vars => WakeupInv'
  BY StepWakeup
<1>3. WakeupInv => NoLostWakeup
  BY DEF WakeupInv
<1>4. QED
  BY <1>1, <1>2, <1>3, TypeCorrect, PTL DEF Spec

-----------------------------------------------------------------------------
(* The byte stream.  A second reader can take what a first one was woken    *)
(* for, and its recv() returns nothing, which no byte stream does; so this  *)
(* too is about an application that never has two calls running.            *)

\* The flag of a buffer says that there is data only if there is, once write() is done.
BufferInv ==
    \A s \in Sockets :
        callback[s] = "mark" \/ ~queue[s].bufempty => QueueLen(queue[s]) > 0

\* What a single caller has seen is still so at the next step.
CallerInv ==
    \A r \in Readers :
        /\ pc[r] # "idle" => outcome[r] = "none"
        /\ pc[r] = "woken" => GotData(sock[r])
        /\ pc[r] = "read" => QueueLen(queue[sock[r]]) > 0

StreamInv == IInv /\ BufferInv /\ CallerInv

\* The length of a buffer is a number, and what write() adds counts.
LEMMA WriteGrows ==
    ASSUME NEW S, NEW q \in QueueOf(S), NEW data \in Seq(S)
    PROVE  /\ QueueLen(q) \in Nat
           /\ QueueLen(WriteAppend(q, data)) = QueueLen(q) + Len(data)
           /\ WriteAppend(q, data).bufempty = q.bufempty
<1> DEFINE l == q.l_buffer
           s == q.s_buffer
           k == l \o data
<1>1. l \in Seq(S) /\ s \in Seq(S)
  BY QueueFields, Zenon
<1>2. k \in Seq(S) /\ Len(k) = Len(l) + Len(data)
  BY <1>1, CatIsSeq, Zenon
<1>3. WriteAppend(q, data) = [q EXCEPT !.l_buffer = k] /\ QueueLen(q) = Len(l) + Len(s)
  BY Zenon DEF WriteAppend, QueueLen
<1> HIDE DEF k
<1>4. /\ QueueLen([q EXCEPT !.l_buffer = k]) = Len(k) + Len(s)
      /\ [q EXCEPT !.l_buffer = k].bufempty = q.bufempty
  BY DEF QueueOf, QueueLen
<1> HIDE DEF l, s
<1>5. Len(l) \in Nat /\ Len(s) \in Nat /\ Len(data) \in Nat
  BY <1>1
<1> QED BY <1>2, <1>3, <1>4, <1>5

\* read() says that the buffer has data only if a byte is left in it.
LEMMA ReadMarks ==
    ASSUME NEW S, NEW q \in QueueOf(S), NEW n \in Nat
    PROVE  ~ReadRest(q, n).bufempty => QueueLen(ReadRest(q, n)) > 0
<1> DEFINE j == ReadFrom(q, n)
           l == j.l_buffer
           rest == From(j.s_buffer, Len(UpTo(j.s_buffer, n)))
           none == rest = <<>>
<1>1. j \in QueueOf(S)
  BY JoinKeeps, Zenon
<1>2. ReadRest(q, n) = [j EXCEPT !.s_buffer = rest, !.bufempty = none]
  BY Zenon DEF ReadRest, ReadData
<1> HIDE DEF j
<1>3. rest \in Seq(S) /\ l \in Seq(S)
  <2>1. j.s_buffer \in Seq(S) /\ l \in Seq(S)
    BY <1>1, QueueFields, Zenon
  <2> QED BY <2>1, SlicesSplit, Zenon
<1> HIDE DEF rest
<1>4. /\ [j EXCEPT !.s_buffer = rest, !.bufempty = none].bufempty = none
      /\ QueueLen([j EXCEPT !.s_buffer = rest, !.bufempty = none]) = Len(l) + Len(rest)
  BY <1>1 DEF QueueOf, QueueLen
<1>5. ~none => Len(l) + Len(rest) > 0
  <2> HIDE DEF l
  <2> QED BY <1>3
<1> QED BY <1>2, <1>4, <1>5

\* The next k bytes of a remote device, k of them.
LEMMA NextSegment ==
    ASSUME NEW a \in Nat, NEW k \in 1 .. MaxSent
    PROVE  /\ Segment(a, a + k) \in Seq(Nat)
           /\ Len(Segment(a, a + k)) = k
           /\ k \in Nat /\ k > 0
<1>1. PICK b \in Nat : b = a + k
  BY StreamAssumption
<1>2. a <= b /\ b - a = k /\ k \in Nat /\ k > 0
  BY <1>1, StreamAssumption
<1>3. Segment(a, b) \in Seq(Nat) /\ Len(Segment(a, b)) = b - a
  BY <1>2, SegmentIsSeq
<1> QED
  BY <1>1, <1>2, <1>3, Zenon

\* Every step keeps the flags of the buffers, whoever reads.
LEMMA StepBufferInv ==
    ASSUME TypeOK, BufferInv, [Next]_vars
    PROVE  BufferInv'
<1> USE DEF BufferInv, remote, channel, settings, reader, environment
<1>1. ASSUME NEW s \in Sockets, NEW k \in 1 .. MaxSent, ChannelData(s, k)
      PROVE  BufferInv'
  <2> DEFINE data == Segment(arrived[s], arrived[s] + k)
  <2>1. data \in Seq(Nat) /\ Len(data) = k /\ k > 0
    <3>1. arrived[s] \in Nat
      BY DEF TypeOK
    <3> QED BY <3>1, NextSegment, Zenon
  <2>2. QueueLen(queue[s]) \in Nat /\ QueueLen(WriteAppend(queue[s], data)) = QueueLen(queue[s]) + k
    BY <2>1, QueueTyped, WriteGrows
  <2>3. /\ queue'[s] = WriteAppend(queue[s], data)
        /\ \A x \in Sockets \ {s} : queue'[x] = queue[x] /\ callback'[x] = callback[x]
    BY <1>1 DEF ChannelData, TypeOK
  <2> HIDE DEF data
  <2>4. QueueLen(queue'[s]) > 0
    BY <2>1, <2>2, <2>3
  <2> QED BY <2>3, <2>4
<1>2. ASSUME NEW s \in Sockets, MarkData(s)
      PROVE  BufferInv'
  <2>1. \A x \in Sockets : /\ QueueLen(queue'[x]) = QueueLen(queue[x])
                           /\ x # s => queue'[x] = queue[x] /\ callback'[x] = callback[x]
    BY <1>2 DEF MarkData, WriteMark, QueueLen, TypeOK
  <2>2. callback[s] = "mark"
    BY <1>2 DEF MarkData
  <2> QED BY <2>1, <2>2
<1>3. ASSUME NEW r \in Readers, Read(r)
      PROVE  BufferInv'
  <2> DEFINE s    == sock[r]
             rest == ReadRest(queue[s], want[r])
  <2>1. s \in Sockets /\ want[r] \in Nat /\ queue[s] \in QueueOf(Nat)
    BY StreamAssumption, QueueTyped DEF TypeOK
  <2>2. ~rest.bufempty => QueueLen(rest) > 0
    BY <2>1, ReadMarks, Zenon
  <2>3. callback' = callback /\ callback[s] # "mark"
    BY <1>3 DEF Read
  <2>4. queue'[s] = rest /\ \A x \in Sockets : x # s => queue'[x] = queue[x]
    <3>1. queue' = [queue EXCEPT ![s] = rest]
      BY <1>3 DEF Read
    <3> HIDE DEF rest, s
    <3> QED BY <2>1, <3>1 DEF TypeOK
  <2> HIDE DEF rest, s
  <2> QED BY <2>2, <2>3, <2>4
<1>4. ASSUME UNCHANGED queue, \A s \in Sockets : callback'[s] = "mark" => callback[s] = "mark"
      PROVE  BufferInv'
  BY <1>4
<1>5. ASSUME NEW s \in Sockets,
             \/ PeerSend(s) \/ PeerClose(s) \/ Accept(s) \/ ChannelClose(s)
             \/ HandleClosed(s) \/ InterruptWait(s)
             \/ \E k \in 1 .. MaxSent : DropData(s, k)
      PROVE  UNCHANGED queue /\ \A x \in Sockets : callback'[x] = "mark" => callback[x] = "mark"
  BY <1>5 DEF PeerSend, PeerClose, Accept, ChannelClose, HandleClosed, InterruptWait, DropData,
              TypeOK
<1>6. ASSUME NEW r \in Readers,
             \/ TestClosed(r) \/ Drain(r) \/ Poll(r) \/ Test(r) \/ Retest(r)
             \/ TakeNotify(r) \/ TimeOut(r) \/ Woken(r)
      PROVE  UNCHANGED <<queue, callback>>
  BY <1>6 DEF TestClosed, Drain, TestEmpty, Poll, Test, Retest, TakeNotify, TimeOut, Woken
<1>7. ASSUME NEW s \in Sockets,
             \/ \E how \in ShutModes : Shutdown(s, how)
             \/ \E value \in Timeouts : SetTimeout(s, value)
             \/ \E flag \in BOOLEAN : SetBlocking(s, flag)
             \/ \E r \in Readers, n \in BufSizes : Recv(r, s, n)
      PROVE  UNCHANGED <<queue, callback>>
  BY <1>7 DEF Shutdown, SetTimeout, SetBlocking, Recv
<1>8. UNCHANGED vars => UNCHANGED <<queue, callback>>
  BY DEF vars
<1> QED BY <1>1, <1>2, <1>3, <1>4, <1>5, <1>6, <1>7, <1>8 DEF Next, CallbackStep, RecvStep

\* Data in a buffer, and a closed channel, stay as they are until the caller reads.
LEMMA SeenStays ==
    ASSUME TypeOK, [Next]_vars, \A r \in Readers : ~Read(r)
    PROVE  \A s \in Sockets : /\ QueueLen(queue[s]) > 0 => QueueLen(queue'[s]) > 0
                              /\ ~queue[s].bufempty => ~queue'[s].bufempty
                              /\ IsClosed(s) => IsClosed(s)'
                              /\ incoming' = incoming
<1> USE DEF remote, channel, settings, reader, environment, IsClosed
<1> DEFINE Same == UNCHANGED <<queue, incoming, closed, chanOpen>>
<1>1. ASSUME Same
      PROVE  \A s \in Sockets : /\ QueueLen(queue[s]) > 0 => QueueLen(queue'[s]) > 0
                                /\ ~queue[s].bufempty => ~queue'[s].bufempty
                                /\ IsClosed(s) => IsClosed(s)'
                                /\ incoming' = incoming
  BY <1>1
<1>2. ASSUME NEW s \in Sockets, NEW k \in 1 .. MaxSent, ChannelData(s, k)
      PROVE  \A x \in Sockets : /\ QueueLen(queue[x]) > 0 => QueueLen(queue'[x]) > 0
                                /\ ~queue[x].bufempty => ~queue'[x].bufempty
                                /\ IsClosed(x) => IsClosed(x)'
                                /\ incoming' = incoming
  <2> DEFINE data == Segment(arrived[s], arrived[s] + k)
  <2>1. data \in Seq(Nat) /\ Len(data) \in Nat
    <3>1. arrived[s] \in Nat
      BY DEF TypeOK
    <3>2. Len(data) = k /\ k \in Nat /\ data \in Seq(Nat)
      BY <3>1, NextSegment, Zenon
    <3> QED BY <3>2, Zenon
  <2> HIDE DEF data
  <2>2. /\ QueueLen(queue[s]) \in Nat
        /\ QueueLen(WriteAppend(queue[s], data)) = QueueLen(queue[s]) + Len(data)
        /\ WriteAppend(queue[s], data).bufempty = queue[s].bufempty
    BY <2>1, QueueTyped, WriteGrows
  <2>3. /\ queue'[s] = WriteAppend(queue[s], data)
        /\ \A x \in Sockets \ {s} : queue'[x] = queue[x]
        /\ UNCHANGED <<incoming, closed, chanOpen>>
    BY <1>2 DEF ChannelData, TypeOK, data
  <2> QED BY <2>1, <2>2, <2>3
<1>3. ASSUME NEW s \in Sockets, MarkData(s)
      PROVE  \A x \in Sockets : /\ QueueLen(queue[x]) > 0 => QueueLen(queue'[x]) > 0
                                /\ ~queue[x].bufempty => ~queue'[x].bufempty
                                /\ IsClosed(x) => IsClosed(x)'
                                /\ incoming' = incoming
  <2>1. queue'[s] = WriteMark(queue[s]) /\ \A x \in Sockets \ {s} : queue'[x] = queue[x]
    BY <1>3 DEF MarkData, TypeOK
  <2>2. QueueLen(WriteMark(queue[s])) = QueueLen(queue[s]) /\ ~WriteMark(queue[s]).bufempty
    <3> DEFINE q == queue[s]
    <3>1. q \in QueueOf(Nat)
      BY QueueTyped
    <3> HIDE DEF q
    <3>2. QueueLen(WriteMark(q)) = QueueLen(q) /\ ~WriteMark(q).bufempty
      BY <3>1 DEF QueueOf, WriteMark, QueueLen
    <3> QED BY <3>2 DEF q
  <2>3. UNCHANGED <<incoming, closed, chanOpen>>
    BY <1>3 DEF MarkData
  <2> QED BY <2>1, <2>2, <2>3, Zenon
<1>4. ASSUME NEW s \in Sockets, ChannelClose(s) \/ HandleClosed(s)
      PROVE  \A x \in Sockets : /\ QueueLen(queue[x]) > 0 => QueueLen(queue'[x]) > 0
                                /\ ~queue[x].bufempty => ~queue'[x].bufempty
                                /\ IsClosed(x) => IsClosed(x)'
                                /\ incoming' = incoming
  <2>1. UNCHANGED <<queue, incoming>>
    BY <1>4 DEF ChannelClose, HandleClosed
  <2>2. \A x \in Sockets : closed[x] => closed'[x]
    BY <1>4 DEF ChannelClose, HandleClosed, TypeOK
  <2>3. \A x \in Sockets : ~chanOpen[x] => ~chanOpen'[x]
    BY <1>4 DEF ChannelClose, HandleClosed, TypeOK
  <2> QED BY <2>1, <2>2, <2>3
<1>5. ASSUME NEW s \in Sockets,
             \/ PeerSend(s) \/ PeerClose(s) \/ Accept(s) \/ InterruptWait(s)
             \/ \E k \in 1 .. MaxSent : DropData(s, k)
      PROVE  Same
  BY <1>5 DEF PeerSend, PeerClose, Accept, InterruptWait, DropData
<1>6. ASSUME NEW r \in Readers,
             \/ TestClosed(r) \/ Drain(r) \/ Poll(r) \/ Test(r) \/ Retest(r)
             \/ TakeNotify(r) \/ TimeOut(r) \/ Woken(r)
      PROVE  Same
  BY <1>6 DEF TestClosed, Drain, TestEmpty, Poll, Test, Retest, TakeNotify, TimeOut, Woken
<1>7. ASSUME NEW s \in Sockets,
             \/ \E how \in ShutModes : Shutdown(s, how)
             \/ \E value \in Timeouts : SetTimeout(s, value)
             \/ \E flag \in BOOLEAN : SetBlocking(s, flag)
             \/ \E r \in Readers, n \in BufSizes : Recv(r, s, n)
      PROVE  Same
  BY <1>7 DEF Shutdown, SetTimeout, SetBlocking, Recv
<1>8. UNCHANGED vars => Same
  BY DEF vars
<1> HIDE DEF Same
<1> QED BY <1>1, <1>2, <1>3, <1>4, <1>5, <1>6, <1>7, <1>8 DEF Next, CallbackStep, RecvStep

\* A step keeps what a single caller relies on.
LEMMA StepCallerInv ==
    ASSUME OneCaller, TypeOK, BufferInv, CallerInv, [Next]_vars
    PROVE  CallerInv'
<1> USE DEF remote, channel, settings, reader, environment
<1>1. CASE UNCHANGED <<pc, sock, outcome>> /\ \A r \in Readers : ~Read(r)
  <2> SUFFICES ASSUME NEW r \in Readers
               PROVE  /\ pc[r] # "idle" => outcome[r] = "none"
                      /\ pc[r] = "woken" => GotData(sock[r])'
                      /\ pc[r] = "read" => QueueLen(queue'[sock[r]]) > 0
    BY <1>1 DEF CallerInv, GotData, IsClosed
  <2>1. PICK s \in Sockets : s = sock[r]
    BY DEF TypeOK
  <2>2. /\ QueueLen(queue[s]) > 0 => QueueLen(queue'[s]) > 0
        /\ ~queue[s].bufempty => ~queue'[s].bufempty
        /\ IsClosed(s) => IsClosed(s)'
    BY <1>1, SeenStays
  <2>3. GotData(s) => GotData(s)'
    BY <2>2 DEF GotData
  <2>4. GotData(sock[r])' = GotData(s)'
    BY <1>1, <2>1 DEF GotData, IsClosed
  <2> QED BY <2>1, <2>2, <2>3, <2>4 DEF CallerInv
<1>2. ASSUME NEW r \in Readers, NEW s \in Sockets, NEW n \in BufSizes, Recv(r, s, n)
      PROVE  CallerInv'
  BY <1>2 DEF Recv, CallerInv, TypeOK, OneCaller
<1>3. ASSUME NEW r \in Readers,
             TestClosed(r) \/ Poll(r) \/ Test(r) \/ TakeNotify(r)
      PROVE  CallerInv'
  <2>1. UNCHANGED <<queue, incoming, closed, chanOpen, sock, outcome>>
    BY <1>3 DEF TestClosed, Poll, Test, TakeNotify
  <2>2. pc[r] # "idle" /\ pc'[r] # "read" /\ (pc'[r] = "woken" => GotData(sock[r]))
    BY <1>3 DEF TestClosed, Poll, Test, TakeNotify, Goto, TypeOK
  <2>3. \A x \in Readers : x = r
    BY DEF OneCaller
  <2> QED BY <2>1, <2>2, <2>3 DEF CallerInv, GotData, IsClosed
<1>4. ASSUME NEW r \in Readers, Drain(r) \/ Woken(r) \/ Retest(r) \/ TimeOut(r)
      PROVE  CallerInv'
  <2>1. UNCHANGED <<queue, incoming, closed, chanOpen, sock>>
    BY <1>4 DEF Drain, TestEmpty, Woken, Retest, TimeOut
  <2>2. \A x \in Readers : x = r
    BY DEF OneCaller
  <2>3. sock[r] \in Sockets /\ queue[sock[r]] \in QueueOf(Nat)
    BY QueueTyped DEF TypeOK
  <2>4. QueueLen(queue[sock[r]]) \in Nat
    <3>1. <<>> \in Seq(Nat)
      OBVIOUS
    <3> QED BY <2>3, <3>1, WriteGrows, Zenon
  <2>5. pc[r] # "idle" /\ outcome[r] = "none"
    BY <1>4 DEF Drain, TestEmpty, Woken, Retest, TimeOut, Finish, Goto, CallerInv
  <2>6. /\ pc'[r] # "idle" => outcome' = outcome
        /\ pc'[r] \in {"idle", "read", "woken"}
    BY <1>4 DEF Drain, TestEmpty, Woken, Retest, TimeOut, Finish, Goto, TypeOK
  <2>7. pc'[r] = "woken" => GotData(sock[r])
    BY <1>4 DEF Drain, TestEmpty, Woken, Retest, TimeOut, Finish, Goto, TypeOK
  <2>8. pc'[r] = "read" => QueueLen(queue[sock[r]]) # 0
    <3>1. CASE Drain(r)
      BY <3>1 DEF Drain, TestEmpty, Finish, Goto, TypeOK
    <3>2. CASE Woken(r)
      <4>1. CASE TestEmpty(r, "woken")
        BY <4>1 DEF TestEmpty, Finish, Goto, TypeOK
      <4>2. CASE ~IsClosed(sock[r]) /\ pc[r] = "woken"
        BY <2>3, <4>2 DEF CallerInv, GotData, BufferInv
      <4> QED BY <3>2, <4>1, <4>2 DEF Woken, Goto
    <3>3. CASE Retest(r) \/ TimeOut(r)
      BY <3>3 DEF Retest, TimeOut, Finish, Goto, TypeOK
    <3> QED BY <1>4, <3>1, <3>2, <3>3
  <2> QED BY <2>1, <2>2, <2>4, <2>5, <2>6, <2>7, <2>8 DEF CallerInv, GotData, IsClosed
<1>5. ASSUME NEW r \in Readers, Read(r)
      PROVE  CallerInv'
  <2>1. pc'[r] = "idle" /\ \A x \in Readers : x = r
    BY <1>5 DEF Read, Finish, Goto, TypeOK, OneCaller
  <2> QED BY <2>1 DEF CallerInv
<1>6. ASSUME NEW s \in Sockets,
             \/ PeerSend(s) \/ PeerClose(s) \/ Accept(s) \/ ChannelClose(s) \/ CallbackStep(s)
             \/ \E k \in 1 .. MaxSent : DropData(s, k) \/ ChannelData(s, k)
             \/ \E how \in ShutModes : Shutdown(s, how)
             \/ \E value \in Timeouts : SetTimeout(s, value)
             \/ \E flag \in BOOLEAN : SetBlocking(s, flag)
      PROVE  UNCHANGED <<pc, sock, outcome>>
  BY <1>6 DEF PeerSend, PeerClose, Accept, ChannelClose, CallbackStep, MarkData, HandleClosed,
              InterruptWait, DropData, ChannelData, Shutdown, SetTimeout, SetBlocking
<1>7. UNCHANGED vars => UNCHANGED <<pc, sock, outcome>>
  BY DEF vars
<1>8. CASE \E r \in Readers : Read(r)
  BY <1>5, <1>8
<1>9. CASE \A r \in Readers : ~Read(r)
  <2>1. CASE UNCHANGED <<pc, sock, outcome>>
    BY <1>1, <1>9, <2>1
  <2>2. CASE ~UNCHANGED <<pc, sock, outcome>>
    BY <1>2, <1>3, <1>4, <1>6, <1>7, <1>9, <2>2 DEF Next, RecvStep
  <2> QED BY <2>1, <2>2
<1> QED BY <1>8, <1>9

-----------------------------------------------------------------------------
(* Every step is a step of the byte stream, or changes nothing of it. *)

\* All that a socket was given: what it has returned, then what it holds.
Given(s) == received[s] \o Content(queue[s])

\* A sequence with others at its end extends it.
LEMMA CatExtends ==
    ASSUME NEW S, NEW s \in Seq(S), NEW t \in Seq(S)
    PROVE  Stream!Extends(s, s \o t)
<1> DEFINE u == s \o t
           p == SubSeq(u, 1, Len(s))
<1>1. u \in Seq(S) /\ Len(u) = Len(s) + Len(t) /\ \A i \in 1 .. Len(s) : u[i] = s[i]
  OBVIOUS
<1> HIDE DEF u
<1>2. Len(s) \in 0 .. Len(u) /\ Len(s) <= Len(u)
  BY <1>1
<1>3. p \in Seq(S) /\ Len(p) = Len(s)
  BY <1>1, <1>2, SplitAt, Zenon
<1>4. \A i \in 1 .. Len(s) : p[i] = u[i]
  BY <1>1, <1>2
<1> HIDE DEF p
<1>5. p = s
  BY <1>1, <1>3, <1>4, SameElements
<1> QED
  BY <1>2, <1>5 DEF u, p, Stream!Extends

\* What was given to a socket, and the part that recv() has returned.
LEMMA GivenTyped ==
    ASSUME TypeOK, NEW s \in Sockets
    PROVE  /\ Given(s) \in Seq(Nat)
           /\ Len(Given(s)) = Len(received[s]) + QueueLen(queue[s])
           /\ Len(received[s]) \in Nat /\ QueueLen(queue[s]) \in Nat
<1>1. received[s] \in Seq(Nat) /\ queue[s] \in QueueOf(Nat)
  BY QueueTyped
<1>2. Content(queue[s]) \in Seq(Nat) /\ Len(Content(queue[s])) = QueueLen(queue[s])
  BY <1>1, ContentIsSeq, Zenon
<1>3. Given(s) \in Seq(Nat) /\ Len(Given(s)) = Len(received[s]) + Len(Content(queue[s]))
  BY <1>1, <1>2, CatIsSeq, Zenon DEF Given
<1>4. Len(received[s]) \in Nat /\ Len(Content(queue[s])) \in Nat
  BY <1>1, <1>2
<1> QED
  BY <1>2, <1>3, <1>4, Zenon

\* A step that gives nothing, returns nothing and ends no call is a stutter.
LEMMA Stutters ==
    ASSUME UNCHANGED <<chanOpen, outcome, received>>,
           \A s \in Sockets : Content(queue'[s]) = Content(queue[s])
    PROVE  UNCHANGED Stream!abstract
BY DEF Stream!abstract

\* The run loop hands over the next bytes: they are added at the end.
LEMMA DataDelivers ==
    ASSUME TypeOK, NEW s \in Sockets, NEW k \in 1 .. MaxSent, ChannelData(s, k)
    PROVE  Stream!Deliver(s)
<1> DEFINE data == Segment(arrived[s], arrived[s] + k)
<1>1. /\ queue'[s] = WriteAppend(queue[s], data)
      /\ \A x \in Sockets : x # s => queue'[x] = queue[x]
      /\ UNCHANGED <<received, chanOpen, outcome>> /\ chanOpen[s]
  BY DEF ChannelData, TypeOK, reader
<1>2. data \in Seq(Nat)
  <2>1. arrived[s] \in Nat
    BY DEF TypeOK
  <2> QED BY <2>1, NextSegment, Zenon
<1> HIDE DEF data
<1>3. received[s] \in Seq(Nat) /\ queue[s] \in QueueOf(Nat)
  BY QueueTyped
<1>4. Content(queue'[s]) = Content(queue[s]) \o data /\ Content(queue[s]) \in Seq(Nat)
  BY <1>1, <1>2, <1>3, WriteAdds, ContentIsSeq, Zenon
<1>5. received'[s] \o Content(queue'[s]) = Given(s) \o data
  <2>1. received'[s] = received[s]
    BY <1>1
  <2> DEFINE a == received[s]
             b == Content(queue[s])
  <2>2. a \in Seq(Nat) /\ b \in Seq(Nat)
    BY <1>3, <1>4
  <2>3. received'[s] \o Content(queue'[s]) = a \o (b \o data) /\ Given(s) = a \o b
    BY <1>4, <2>1, Zenon DEF Given
  <2> HIDE DEF a, b
  <2>4. (a \o b) \o data = a \o (b \o data)
    BY <1>2, <2>2, CatAssoc
  <2> QED BY <2>3, <2>4, Zenon
<1>6. Stream!Extends(Given(s), Given(s) \o data)
  BY <1>2, GivenTyped, CatExtends, Zenon
<1>7. \A x \in Sockets : x # s => received'[x] \o Content(queue'[x]) = received[x] \o Content(queue[x])
  BY <1>1
<1> QED
  BY <1>1, <1>5, <1>6, <1>7 DEF Stream!Deliver, Given

\* read() takes the next bytes: as many as were asked for, or all there are.
LEMMA ReadGets ==
    ASSUME TypeOK, CallerInv, NEW r \in Readers, Read(r)
    PROVE  Stream!GetData(r, sock[r], want[r])
<1>1. PICK s \in Sockets, n \in BufSizes : s = sock[r] /\ n = want[r]
  BY DEF TypeOK
<1>2. n \in Nat /\ n > 0
  BY StreamAssumption
<1> DEFINE data == ReadData(queue[s], n)
           rest == ReadRest(queue[s], n)
<1>3. /\ pc[r] = "read"
      /\ outcome' = [outcome EXCEPT ![r] = IF data = <<>> THEN "empty" ELSE "data"]
      /\ received' = [received EXCEPT ![s] = @ \o data]
      /\ queue' = [queue EXCEPT ![s] = rest]
      /\ chanOpen' = chanOpen
  BY <1>1 DEF Read, Finish, Goto, environment, channel
<1>4. queue[s] \in QueueOf(Nat) /\ received[s] \in Seq(Nat)
  BY QueueTyped
<1>5. /\ data \in Seq(Nat) /\ rest \in QueueOf(Nat)
      /\ data \o Content(rest) = Content(queue[s])
      /\ Len(data) = IF n < QueueLen(queue[s]) THEN n ELSE QueueLen(queue[s])
  BY <1>2, <1>4, ReadSplits, ReadSize, Zenon
<1> HIDE DEF data, rest
<1>6. QueueLen(queue[s]) > 0 /\ outcome[r] = "none"
  BY <1>1, <1>3 DEF CallerInv
<1>7. /\ Len(received[s]) \in Nat /\ QueueLen(queue[s]) \in Nat
      /\ Len(Given(s)) = Len(received[s]) + QueueLen(queue[s])
  BY GivenTyped, Zenon
<1>8. data # <<>> /\ Len(data) \in Nat
  BY <1>2, <1>5, <1>6, <1>7
<1>9. /\ received'[s] = received[s] \o data /\ queue'[s] = rest
      /\ \A x \in Sockets : x # s => received'[x] = received[x] /\ queue'[x] = queue[x]
      /\ outcome' = [outcome EXCEPT ![r] = "data"]
  BY <1>3, <1>8 DEF TypeOK
<1>10. Len(received'[s]) = Len(received[s]) + Len(data)
  BY <1>4, <1>5, <1>9, CatIsSeq, Zenon
<1>11. received'[s] \o Content(queue'[s]) = received[s] \o Content(queue[s])
  <2> DEFINE a == received[s]
             c == Content(rest)
  <2>1. c \in Seq(Nat) /\ a \in Seq(Nat)
    BY <1>4, <1>5, ContentIsSeq, Zenon
  <2>2. received'[s] \o Content(queue'[s]) = (a \o data) \o c
    BY <1>9, Zenon
  <2>3. received[s] \o Content(queue[s]) = a \o (data \o c)
    BY <1>5, Zenon
  <2> HIDE DEF a, c
  <2>4. (a \o data) \o c = a \o (data \o c)
    BY <1>5, <2>1, CatAssoc
  <2> QED BY <2>2, <2>3, <2>4, Zenon
<1>12. Len(received'[s]) = IF Len(received[s]) + n < Len(Given(s))
                           THEN Len(received[s]) + n ELSE Len(Given(s))
  BY <1>2, <1>5, <1>7, <1>10
<1>13. Len(received[s]) < Len(Given(s))
  BY <1>6, <1>7
<1>14. \A x \in Sockets : received'[x] \o Content(queue'[x]) = received[x] \o Content(queue[x])
  BY <1>9, <1>11
<1>15. [x \in Sockets |-> Len(received'[x])]
         = [[x \in Sockets |-> Len(received[x])] EXCEPT ![s] = Len(received'[s])]
  BY <1>9
<1> DEFINE before == [x \in Sockets |-> received[x] \o Content(queue[x])]
           after  == [x \in Sockets |-> received'[x] \o Content(queue'[x])]
           lens   == [x \in Sockets |-> Len(received[x])]
<1>16. after = before
  BY <1>14
<1>17. before[s] = Given(s) /\ lens[s] = Len(received[s])
  BY DEF Given
<1> QED
  BY <1>1, <1>3, <1>6, <1>9, <1>12, <1>13, <1>15, <1>16, <1>17 DEF Stream!GetData

\* recv() begins: refused, or on its way.
LEMMA RecvCalls ==
    ASSUME NEW r \in Readers, NEW s \in Sockets, NEW n \in BufSizes, Recv(r, s, n)
    PROVE  Stream!Refuse(r) \/ Stream!Call(r)
BY DEF Recv, Stream!Refuse, Stream!Call, environment, channel

\* ECONNRESET: the remote end is closed and everything was returned.
LEMMA ResetEnds ==
    ASSUME TypeOK, ChannelInv, ReaderInv, CallerInv, NEW r \in Readers,
           pc[r] # "idle", pc[r] = "drain" \/ IsClosed(sock[r]),
           QueueLen(queue[sock[r]]) = 0,
           outcome' = [outcome EXCEPT ![r] = "reset"],
           UNCHANGED <<queue, received, chanOpen>>
    PROVE  Stream!EndOfStream(r, sock[r])
<1>1. PICK s \in Sockets : s = sock[r]
  BY DEF TypeOK
<1>2. outcome[r] = "none" /\ ~chanOpen[s]
  BY <1>1 DEF CallerInv, ReaderInv, ChannelInv, IsClosed
<1>3. Len(received[s]) = Len(Given(s))
  BY <1>1, GivenTyped
<1> QED
  BY <1>1, <1>2, <1>3 DEF Stream!EndOfStream, Given

\* A channel closes: so does the stream.
LEMMA ChannelCloses ==
    ASSUME NEW s \in Sockets, ChannelClose(s)
    PROVE  Stream!Close(s)
BY DEF ChannelClose, Stream!Close, reader

\* Steps that end a call with EAGAIN or a timeout give up.
LEMMA GivesUp ==
    ASSUME CallerInv, NEW r \in Readers, pc[r] # "idle", NEW x \in {"again", "timeout"},
           outcome' = [outcome EXCEPT ![r] = x],
           UNCHANGED <<queue, received, chanOpen>>
    PROVE  Stream!GiveUp(r)
BY DEF CallerInv, Stream!GiveUp

\* Every step of recv() and of the callbacks is one of the byte stream, or none.
LEMMA StepImplements ==
    ASSUME StreamInv, [Next]_vars
    PROVE  [Stream!Next]_(Stream!abstract)
<1> USE DEF StreamInv, IInv
<1> DEFINE Stutter == UNCHANGED Stream!abstract
           Same    == UNCHANGED <<chanOpen, outcome, received, queue>>
<1>1. ASSUME Same
      PROVE  Stutter
  BY <1>1, Stutters
<1>2. ASSUME NEW s \in Sockets, NEW k \in 1 .. MaxSent, ChannelData(s, k)
      PROVE  Stream!Next
  BY <1>2, DataDelivers DEF Stream!Next
<1>3. ASSUME NEW s \in Sockets, ChannelClose(s)
      PROVE  Stream!Next
  BY <1>3, ChannelCloses DEF Stream!Next
<1>4. ASSUME NEW s \in Sockets, MarkData(s)
      PROVE  Stutter
  <2>1. queue'[s] = WriteMark(queue[s]) /\ \A x \in Sockets : x # s => queue'[x] = queue[x]
    BY <1>4 DEF MarkData, TypeOK
  <2>2. Content(WriteMark(queue[s])) = Content(queue[s])
    BY QueueTyped, MarkKeeps, Zenon
  <2>3. \A x \in Sockets : Content(queue'[x]) = Content(queue[x])
    BY <2>1, <2>2, Zenon
  <2>4. UNCHANGED <<chanOpen, outcome, received>>
    BY <1>4 DEF MarkData, reader
  <2> QED BY <2>3, <2>4, Stutters
<1>5. ASSUME NEW r \in Readers, NEW s \in Sockets, NEW n \in BufSizes, Recv(r, s, n)
      PROVE  Stream!Next
  BY <1>5, RecvCalls DEF Stream!Next
<1>6. ASSUME NEW r \in Readers, Read(r)
      PROVE  Stream!Next
  <2>1. PICK s \in Sockets, n \in BufSizes : s = sock[r] /\ n = want[r]
    BY DEF TypeOK
  <2>2. Stream!GetData(r, sock[r], want[r])
    BY <1>6, ReadGets
  <2>3. Stream!GetData(r, s, n)
    BY <2>1, <2>2 DEF Stream!GetData
  <2> QED BY <2>3, Zenon DEF Stream!Next
<1>7. ASSUME NEW r \in Readers, Drain(r) \/ Woken(r)
      PROVE  Stream!Next \/ Stutter
  <2>1. UNCHANGED <<queue, received, chanOpen>> /\ pc[r] # "idle"
    BY <1>7 DEF Drain, Woken, TestEmpty, Finish, Goto, environment, channel
  <2>2. pc[r] = "drain" \/ IsClosed(sock[r]) \/ outcome' = outcome
    BY <1>7 DEF Drain, Woken, TestEmpty, Finish, Goto
  <2>3. \/ outcome' = outcome
        \/ outcome' = [outcome EXCEPT ![r] = "reset"] /\ QueueLen(queue[sock[r]]) = 0
    BY <1>7 DEF Drain, Woken, TestEmpty, Finish
  <2>4. CASE outcome' = outcome
    BY <1>1, <2>1, <2>4
  <2>5. CASE outcome' # outcome
    <3>1. Stream!EndOfStream(r, sock[r])
      BY <2>1, <2>2, <2>3, <2>5, ResetEnds
    <3>2. sock[r] \in Sockets
      BY DEF TypeOK
    <3> QED BY <3>1, <3>2 DEF Stream!Next
  <2> QED BY <2>4, <2>5
<1>8. ASSUME NEW r \in Readers, Retest(r) \/ TimeOut(r)
      PROVE  Stream!Next \/ Stutter
  <2>1. UNCHANGED <<queue, received, chanOpen>> /\ pc[r] # "idle"
    BY <1>8 DEF Retest, TimeOut, Finish, Goto, environment, channel
  <2>2. \/ outcome' = outcome
        \/ \E x \in {"again", "timeout"} : outcome' = [outcome EXCEPT ![r] = x]
    BY <1>8 DEF Retest, TimeOut, Finish
  <2>3. CASE outcome' = outcome
    BY <1>1, <2>1, <2>3
  <2>4. CASE outcome' # outcome
    <3>1. PICK x \in {"again", "timeout"} : outcome' = [outcome EXCEPT ![r] = x]
      BY <2>2, <2>4
    <3>2. Stream!GiveUp(r)
      BY <2>1, <3>1, GivesUp, Zenon
    <3> QED BY <3>2 DEF Stream!Next
  <2> QED BY <2>3, <2>4
<1>9. ASSUME NEW s \in Sockets,
             \/ PeerSend(s) \/ PeerClose(s) \/ Accept(s) \/ HandleClosed(s) \/ InterruptWait(s)
             \/ \E k \in 1 .. MaxSent : DropData(s, k)
      PROVE  Same
  BY <1>9 DEF PeerSend, PeerClose, Accept, HandleClosed, InterruptWait, DropData, channel, reader
<1>10. ASSUME NEW s \in Sockets,
              \/ \E how \in ShutModes : Shutdown(s, how)
              \/ \E value \in Timeouts : SetTimeout(s, value)
              \/ \E flag \in BOOLEAN : SetBlocking(s, flag)
       PROVE  Same
  BY <1>10 DEF Shutdown, SetTimeout, SetBlocking, channel, reader
<1>11. ASSUME NEW r \in Readers, TestClosed(r) \/ Poll(r) \/ Test(r) \/ TakeNotify(r)
       PROVE  Same
  BY <1>11 DEF TestClosed, Poll, Test, TakeNotify, environment, channel
<1>12. UNCHANGED vars => Same
  BY DEF vars, channel, reader
<1> HIDE DEF Stutter, Same
<1>13. Stream!Next \/ Stutter
  BY <1>1, <1>2, <1>3, <1>4, <1>5, <1>6, <1>7, <1>8, <1>9, <1>10, <1>11, <1>12
     DEF Next, CallbackStep, RecvStep
<1> QED
  BY <1>13 DEF Stutter

\* With one caller at a time, recv() and the callbacks implement the byte stream:
\* each call returns the next bytes, at least one and no more than were asked for,
\* reports the end only there, and a call that gives up takes nothing.
THEOREM RecvImplementsByteStream ==
    ASSUME OneCaller
    PROVE  Spec => ImplementsByteStream
<1>1. Init => StreamInv /\ Stream!Init
  <2> SUFFICES ASSUME Init PROVE StreamInv /\ Stream!Init
    OBVIOUS
  <2>1. IInv
    BY InitTypeOK, InitChannelInv, InitReaderInv, InitStreamInOrder DEF IInv
  <2>2. BufferInv /\ CallerInv
    BY DEF Init, BufferInv, CallerInv, NewQueue
  <2>3. \A s \in Sockets : received[s] = <<>> /\ Content(queue[s]) = <<>>
    BY DEF Init, NewQueue, Content
  <2>4. \A s \in Sockets : received[s] \o Content(queue[s]) = <<>> /\ Len(received[s]) = 0
    BY <2>3
  <2>5. Stream!Init
    BY <2>4 DEF Init, Stream!Init
  <2> QED BY <2>1, <2>2, <2>5 DEF StreamInv
<1>2. StreamInv /\ [Next]_vars => StreamInv'
  BY StepTypeOK, StepChannelInv, StepReaderInv, StepStreamInOrder, StepBufferInv, StepCallerInv
     DEF StreamInv, IInv
<1>3. StreamInv /\ [Next]_vars => [Stream!Next]_(Stream!abstract)
  BY StepImplements
<1> QED
  BY <1>1, <1>2, <1>3, PTL DEF Spec, ImplementsByteStream, Stream!Spec

-----------------------------------------------------------------------------
(* The sending half of a socket, for any threads, MTUs, room in the channel *)
(* and lengths of data.  It has a state of its own, of SocketSend, of which *)
(* CarriedCalls declares the calls and what the channel carries of them.    *)

CONSTANTS Sizes, Mtus, Room, SendTimeouts, SendShutModes, MaxCalls

VARIABLES proto, mtu, open, taken, sendState, sendTimeout, calls, sendPc

Send == INSTANCE SocketSend
            WITH Timeouts <- SendTimeouts, ShutModes <- SendShutModes,
                 commstate <- sendState, timeout <- sendTimeout, pc <- sendPc

Bytes == (1 .. MaxCalls) \X (Nat \ {0})

\* The smaller of two numbers.
LEMMA SmallerOfTwo ==
    ASSUME NEW a \in Int, NEW b \in Int
    PROVE  /\ Send!Min({a, b}) \in {a, b}
           /\ Send!Min({a, b}) <= a /\ Send!Min({a, b}) <= b
<1>1. \E x \in {a, b} : \A y \in {a, b} : x <= y
  OBVIOUS
<1>2. /\ Send!Min({a, b}) \in {a, b}
      /\ \A y \in {a, b} : Send!Min({a, b}) <= y
  BY <1>1 DEF Send!Min
<1> QED BY <1>2

\* A frame with some bytes of a call.
LEMMA ChunkFacts ==
    ASSUME NEW n \in 1 .. MaxCalls, NEW k \in Nat, NEW count \in Nat
    PROVE  /\ Send!Chunk(n, k, count) \in Seq(Bytes)
           /\ Len(Send!Chunk(n, k, count)) = count
           /\ \A i \in 1 .. count : Send!Chunk(n, k, count)[i] = <<n, k + i>>
<1> DEFINE f == Send!Chunk(n, k, count)
<1>1. /\ f = [i \in 1 .. count |-> <<n, k + i>>]
      /\ \A i \in 1 .. count : <<n, k + i>> \in Bytes
  BY DEF Send!Chunk, Bytes
<1>2. f \in [1 .. count -> Bytes]
  BY <1>1
<1>3. f \in Seq(Bytes) /\ Len(f) = count
  BY <1>2
<1> QED BY <1>1, <1>3

\* What Carried() says, of any sequence of bytes.
CarriedIn(s, n, k) ==
    /\ \A m \in 1 .. k : \E i \in DOMAIN s : s[i] = <<n, m>>
    /\ \A i \in DOMAIN s : s[i][1] = n => s[i][2] \in 1 .. k
    /\ \A i, j \in DOMAIN s :
          i < j /\ s[i][1] = n /\ s[j][1] = n => s[i][2] < s[j][2]

\* The sequence r is s with count bytes of call n behind it.
Behind(r, s, n, k, count) ==
    /\ DOMAIN s = 1 .. Len(s) /\ DOMAIN r = 1 .. (Len(s) + count)
    /\ \A i \in 1 .. Len(s) : r[i] = s[i]
    /\ \A i \in (Len(s) + 1) .. (Len(s) + count) : r[i] = <<n, k + (i - Len(s))>>

\* Where each element of a concatenation comes from.
LEMMA CatElements ==
    ASSUME NEW S, NEW s \in Seq(S), NEW t \in Seq(S)
    PROVE  /\ \A i \in 1 .. Len(s) : (s \o t)[i] = s[i]
           /\ \A i \in (Len(s) + 1) .. (Len(s) + Len(t)) : (s \o t)[i] = t[i - Len(s)]
<1>1. \A i \in 1 .. Len(s) : (s \o t)[i] = s[i]
  OBVIOUS
<1>2. \A i \in (Len(s) + 1) .. (Len(s) + Len(t)) : (s \o t)[i] = t[i - Len(s)]
  OBVIOUS
<1> QED BY <1>1, <1>2

\* A frame is written behind what the channel carries.
LEMMA FrameBehind ==
    ASSUME NEW s \in Seq(Bytes), NEW n \in 1 .. MaxCalls, NEW k \in Nat, NEW count \in Nat
    PROVE  /\ s \o Send!Chunk(n, k, count) \in Seq(Bytes)
           /\ Len(s \o Send!Chunk(n, k, count)) = Len(s) + count
           /\ Behind(s \o Send!Chunk(n, k, count), s, n, k, count)
<1> DEFINE f == Send!Chunk(n, k, count)
           r == s \o f
<1>1. f \in Seq(Bytes) /\ Len(f) = count /\ \A i \in 1 .. count : f[i] = <<n, k + i>>
  BY ChunkFacts
<1> HIDE DEF f
<1>2. r \in Seq(Bytes) /\ Len(r) = Len(s) + count
  BY <1>1, CatIsSeq
<1>3. /\ \A i \in 1 .. Len(s) : r[i] = s[i]
      /\ \A i \in (Len(s) + 1) .. (Len(s) + count) : r[i] = f[i - Len(s)]
  BY <1>1, CatElements
<1> HIDE DEF r
<1>4. \A i \in (Len(s) + 1) .. (Len(s) + count) : i - Len(s) \in 1 .. count
  BY <1>1
<1>5. /\ DOMAIN s = 1 .. Len(s) /\ DOMAIN r = 1 .. (Len(s) + count)
  BY <1>2
<1>6. Behind(r, s, n, k, count)
  BY <1>1, <1>3, <1>4, <1>5 DEF Behind
<1> QED BY <1>2, <1>6 DEF r, f

\* The next bytes of a call extend the part of it that the channel carries.
LEMMA FrameExtends ==
    ASSUME NEW s \in Seq(Bytes), NEW n \in 1 .. MaxCalls, NEW k \in Nat, NEW count \in Nat,
           NEW r, Behind(r, s, n, k, count), CarriedIn(s, n, k)
    PROVE  CarriedIn(r, n, k + count)
<1> DEFINE l == Len(s)
<1>1. /\ l \in Nat
      /\ DOMAIN r = 1 .. (l + count) /\ DOMAIN s = 1 .. l
      /\ \A i \in 1 .. l : r[i] = s[i]
      /\ \A i \in (l + 1) .. (l + count) : r[i] = <<n, k + (i - l)>>
  BY DEF Behind
<1> HIDE DEF l
<1>2. \A m \in 1 .. (k + count) : \E i \in DOMAIN r : r[i] = <<n, m>>
  <2> TAKE m \in 1 .. (k + count)
  <2>1. CASE m \in 1 .. k
    <3>1. PICK i \in DOMAIN s : s[i] = <<n, m>>
      BY <2>1 DEF CarriedIn
    <3>2. i \in DOMAIN r /\ r[i] = s[i]
      BY <1>1
    <3> QED BY <3>1, <3>2
  <2>2. CASE m \notin 1 .. k
    <3>1. PICK i \in (l + 1) .. (l + count) : i = l + (m - k)
      BY <1>1, <2>2
    <3>2. i \in DOMAIN r /\ r[i] = <<n, k + (i - l)>>
      BY <1>1
    <3>3. k + (i - l) = m
      BY <1>1, <3>1
    <3> QED BY <3>2, <3>3
  <2> QED BY <2>1, <2>2
<1>3. \A i \in DOMAIN r : r[i][1] = n => r[i][2] \in 1 .. (k + count)
  <2> SUFFICES ASSUME NEW i \in 1 .. (l + count), r[i][1] = n
               PROVE  r[i][2] \in 1 .. (k + count)
    BY <1>1
  <2>1. CASE i \in 1 .. l
    BY <1>1, <2>1 DEF CarriedIn
  <2>2. CASE i \in (l + 1) .. (l + count)
    <3>1. r[i][2] = k + (i - l)
      BY <1>1, <2>2
    <3> QED BY <1>1, <2>2, <3>1
  <2> QED BY <1>1, <2>1, <2>2
<1>4. \A i, j \in DOMAIN r :
          i < j /\ r[i][1] = n /\ r[j][1] = n => r[i][2] < r[j][2]
  <2> SUFFICES ASSUME NEW i \in 1 .. (l + count), NEW j \in 1 .. (l + count), i < j,
                      r[i][1] = n, r[j][1] = n
               PROVE  r[i][2] < r[j][2]
    BY <1>1
  <2>1. CASE j \in 1 .. l
    <3>1. i \in 1 .. l
      BY <1>1, <2>1
    <3> QED BY <1>1, <2>1, <3>1 DEF CarriedIn
  <2>2. CASE j \in (l + 1) .. (l + count)
    <3>1. r[j][2] = k + (j - l)
      BY <1>1, <2>2
    <3>2. CASE i \in 1 .. l
      <4>1. r[i][2] \in 1 .. k
        BY <1>1, <3>2 DEF CarriedIn
      <4> QED BY <1>1, <2>2, <3>1, <4>1
    <3>3. CASE i \in (l + 1) .. (l + count)
      <4>1. r[i][2] = k + (i - l)
        BY <1>1, <3>3
      <4> QED BY <1>1, <2>2, <3>1, <3>3, <4>1
    <3> QED BY <1>1, <3>2, <3>3
  <2> QED BY <1>1, <2>1, <2>2
<1> QED BY <1>2, <1>3, <1>4 DEF CarriedIn

\* The bytes of a call change nothing of what the channel carries of another one.
LEMMA FrameKeepsOthers ==
    ASSUME NEW s \in Seq(Bytes), NEW n \in 1 .. MaxCalls, NEW k \in Nat, NEW count \in Nat,
           NEW r, Behind(r, s, n, k, count),
           NEW o, o # n, NEW kept \in Nat, CarriedIn(s, o, kept)
    PROVE  CarriedIn(r, o, kept)
<1> DEFINE l == Len(s)
<1>1. /\ l \in Nat
      /\ DOMAIN r = 1 .. (l + count) /\ DOMAIN s = 1 .. l
      /\ \A i \in 1 .. l : r[i] = s[i]
      /\ \A i \in (l + 1) .. (l + count) : r[i] = <<n, k + (i - l)>>
  BY DEF Behind
<1> HIDE DEF l
<1>2. \A i \in 1 .. (l + count) : r[i][1] = o => i \in 1 .. l
  <2> SUFFICES ASSUME NEW i \in (l + 1) .. (l + count) PROVE r[i][1] = n
    BY <1>1
  <2> QED BY <1>1
<1>3. \A m \in 1 .. kept : \E i \in DOMAIN r : r[i] = <<o, m>>
  <2> TAKE m \in 1 .. kept
  <2>1. PICK i \in DOMAIN s : s[i] = <<o, m>>
    BY DEF CarriedIn
  <2>2. i \in DOMAIN r /\ r[i] = s[i]
    BY <1>1
  <2> QED BY <2>1, <2>2
<1>4. \A i \in DOMAIN r : r[i][1] = o => r[i][2] \in 1 .. kept
  BY <1>1, <1>2 DEF CarriedIn
<1>5. \A i, j \in DOMAIN r :
          i < j /\ r[i][1] = o /\ r[j][1] = o => r[i][2] < r[j][2]
  BY <1>1, <1>2 DEF CarriedIn
<1> QED BY <1>3, <1>4, <1>5 DEF CarriedIn

-----------------------------------------------------------------------------
(* The invariant. *)

Outcomes == {"none", "ok"} \cup Send!Errors
Calls == [n : 0 .. MaxCalls, size : Sizes \cup {0}, left : Nat, timed : BOOLEAN,
          outcome : Outcomes]
Labels == {"idle", "start", "setup", "loop", "write"}

\* What is known of a call: what the channel does not carry of it is left.
Facts(c, label, s, begun) ==
    /\ c.n <= begun /\ c.left <= c.size
    /\ c.n # 0 => CarriedIn(s, c.n, c.size - c.left)
    /\ label # "idle" => c.n # 0 /\ c.outcome = "none"
    /\ label \in {"start", "setup"} => c.left = c.size
    /\ c.outcome = "ok" => c.left = 0
    /\ c.outcome \in {"pipe", "again"} => c.left = c.size

\* The inductive invariant: no two threads are in one call, and the channel carries
\* nothing of a call that has not begun.
SendInv ==
    /\ Send!TypeOK
    /\ \A t \in Senders : Facts(call[t], sendPc[t], stream, calls)
    /\ \A t, u \in Senders : t # u /\ call[t].n # 0 => call[u].n # call[t].n
    /\ \A i \in DOMAIN stream : stream[i][1] <= calls

\* The types, with the names of this module.
LEMMA SendTypes ==
    ASSUME Send!TypeOK, Send!SendAssumption
    PROVE  /\ stream \in Seq(Bytes) /\ calls \in 0 .. MaxCalls /\ mtu \in Nat \ {0}
           /\ sendPc \in [Senders -> Labels] /\ call \in [Senders -> Calls]
           /\ Sizes \subseteq Nat /\ MaxCalls \in Nat
BY DEF Send!TypeOK, Send!SendAssumption, Bytes, Labels, Calls, Outcomes

\* The parts of a call.
LEMMA PartsOfCall ==
    ASSUME NEW c \in Calls, Sizes \subseteq Nat
    PROVE  /\ c.n \in 0 .. MaxCalls /\ c.size \in Nat /\ c.left \in Nat
           /\ c.outcome \in Outcomes
<1>1. c.n \in 0 .. MaxCalls /\ c.left \in Nat /\ c.outcome \in Outcomes
  BY DEF Calls
<1>2. c.size \in Sizes \cup {0}
  BY DEF Calls
<1>3. Sizes \cup {0} \subseteq Nat
  OBVIOUS
<1>4. c.size \in Nat
  BY <1>2, <1>3
<1> QED BY <1>1, <1>4

\* What the remote device, the run loop and the settings do leaves the calls alone.
LEMMA CallsAlone ==
    ASSUME SendInv, Send!TypeOK', call' = call, sendPc' = sendPc, calls' = calls,
           stream' = stream
    PROVE  SendInv'
<1>1. \A t \in Senders : Facts(call'[t], sendPc'[t], stream', calls')
  BY DEF SendInv
<1> QED BY <1>1 DEF SendInv

\* A step of a thread that leaves what the channel carries alone: only its own call has
\* to be looked at, which is the same one or a new one.
LEMMA OneCallSteps ==
    ASSUME SendInv, Send!SendAssumption, Send!TypeOK', NEW t \in Senders,
           NEW c \in Calls, NEW label \in Labels,
           call' = [call EXCEPT ![t] = c], sendPc' = [sendPc EXCEPT ![t] = label],
           stream' = stream,
           \/ calls' = calls /\ c.n = call[t].n
           \/ calls' = calls + 1 /\ c.n = calls',
           Facts(c, label, stream, calls')
    PROVE  SendInv'
<1>1. /\ calls \in Nat /\ calls' \in Nat
      /\ call \in [Senders -> Calls] /\ sendPc \in [Senders -> Labels]
  BY SendTypes DEF SendInv
<1>2. /\ call'[t] = c /\ sendPc'[t] = label
      /\ \A u \in Senders : u # t => call'[u] = call[u] /\ sendPc'[u] = sendPc[u]
  BY <1>1
<1>3. calls <= calls'
  BY <1>1
<1>4. \A u \in Senders : call[u].n \in Nat /\ call[u].n <= calls
  BY <1>1 DEF SendInv, Facts, Calls
<1>5. ASSUME NEW u \in Senders PROVE Facts(call'[u], sendPc'[u], stream', calls')
  <2>1. CASE u = t
    BY <1>2, <2>1
  <2>2. CASE u # t
    <3>1. Facts(call[u], sendPc[u], stream, calls)
      BY DEF SendInv
    <3>2. call[u].n <= calls'
      BY <1>1, <1>3, <1>4
    <3> QED BY <1>2, <2>2, <3>1, <3>2 DEF Facts
  <2> QED BY <2>1, <2>2
<1>6. ASSUME NEW u \in Senders, NEW v \in Senders, u # v, call'[u].n # 0
      PROVE  call'[v].n # call'[u].n
  <2>1. \A w \in Senders : call[w].n # calls + 1
    BY <1>1, <1>4
  <2>2. CASE u # t /\ v # t
    BY <1>2, <1>6, <2>2 DEF SendInv
  <2>3. CASE u = t
    BY <1>2, <1>6, <2>1, <2>3 DEF SendInv
  <2>4. CASE v = t
    BY <1>2, <1>6, <2>1, <2>4 DEF SendInv
  <2> QED BY <2>2, <2>3, <2>4
<1>7. \A i \in DOMAIN stream' : stream'[i][1] <= calls'
  <2> SUFFICES ASSUME NEW i \in DOMAIN stream PROVE stream[i][1] <= calls'
    OBVIOUS
  <2>1. stream[i][1] \in Int /\ stream[i][1] <= calls
    BY SendTypes DEF SendInv, Bytes
  <2> QED BY <1>1, <1>3, <2>1
<1> QED BY <1>5, <1>6, <1>7 DEF SendInv

\* The initial states.
LEMMA SendInitially == Send!SendAssumption /\ Send!Init => SendInv
<1> SUFFICES ASSUME Send!SendAssumption, Send!Init PROVE SendInv
  OBVIOUS
<1>1. Send!TypeOK
  BY DEF Send!SendAssumption, Send!Init, Send!TypeOK
<1>2. \A t \in Senders : /\ call[t] = [n |-> 0, size |-> 0, left |-> 0, timed |-> FALSE,
                                       outcome |-> "none"]
                         /\ sendPc[t] = "idle"
  BY DEF Send!Init
<1>3. calls = 0 /\ stream = <<>>
  BY DEF Send!Init
<1> QED BY <1>1, <1>2, <1>3 DEF SendInv, Facts

\* The remote device takes a byte.
LEMMA TakeKeeps ==
    ASSUME SendInv, Send!SendAssumption, Send!Take
    PROVE  SendInv'
<1>1. Send!TypeOK'
  <2>1. stream \in Seq(Bytes) /\ taken \in 0 .. Len(stream) /\ Len(stream) \in Nat
    BY SendTypes DEF SendInv, Send!TypeOK
  <2>2. taken' \in 0 .. Len(stream)
    BY <2>1 DEF Send!Take, Send!InFlight
  <2> QED BY <2>2 DEF SendInv, Send!TypeOK, Send!Take, Send!settings
<1> QED BY <1>1, CallsAlone DEF Send!Take

\* The channel is closed.
LEMMA CloseKeeps ==
    ASSUME SendInv, Send!PeerClose \/ Send!Close
    PROVE  SendInv'
<1>1. Send!TypeOK'
  BY DEF SendInv, Send!TypeOK, Send!PeerClose, Send!Close, Send!settings
<1> QED BY <1>1, CallsAlone DEF Send!PeerClose, Send!Close

\* Other threads change the settings of the socket.
LEMMA SettingsKeep ==
    ASSUME SendInv, Send!SendAssumption,
           \/ \E how \in SendShutModes : Send!Shutdown(how)
           \/ \E value \in SendTimeouts : Send!SetTimeout(value)
           \/ \E flag \in BOOLEAN : Send!SetBlocking(flag)
    PROVE  SendInv'
<1>1. /\ UNCHANGED <<proto, mtu, open, taken, stream>>
      /\ calls' = calls /\ sendPc' = sendPc /\ call' = call
      /\ sendState' \in {"unset", "RD", "WR", "RDWR"}
      /\ sendTimeout' \in {"none", "zero", "some"}
  BY DEF SendInv, Send!TypeOK, Send!SendAssumption, Send!Shutdown, Send!SetTimeout,
         Send!SetBlocking, Send!channel
<1>2. Send!TypeOK'
  BY <1>1 DEF SendInv, Send!TypeOK
<1> QED BY <1>1, <1>2, CallsAlone

\* What a step of a thread may change: its label and its call.
LEMMA ThreadTypes ==
    ASSUME Send!TypeOK, NEW t \in Senders, NEW c \in Calls, NEW label \in Labels,
           call' = [call EXCEPT ![t] = c], sendPc' = [sendPc EXCEPT ![t] = label],
           UNCHANGED Send!channel, UNCHANGED Send!settings, calls' \in 0 .. MaxCalls
    PROVE  Send!TypeOK'
<1>1. call' \in [Senders -> Calls] /\ sendPc' \in [Senders -> Labels]
  BY DEF Send!TypeOK, Calls, Labels, Outcomes
<1> QED BY <1>1 DEF Send!TypeOK, Send!channel, Send!settings, Calls, Labels, Outcomes

\* A call begins.
LEMMA CallKeeps ==
    ASSUME SendInv, Send!SendAssumption, NEW t \in Senders, NEW size \in Sizes,
           Send!Call(t, size)
    PROVE  SendInv'
<1>1. /\ calls \in 0 .. MaxCalls /\ MaxCalls \in Nat /\ calls < MaxCalls /\ size \in Nat
      /\ calls' = calls + 1 /\ stream \in Seq(Bytes)
  BY SendTypes DEF SendInv, Send!Call
<1>2. PICK m \in 1 .. MaxCalls : m = calls + 1
  BY <1>1
<1> DEFINE c == [n |-> m, size |-> size, left |-> size, timed |-> FALSE, outcome |-> "none"]
<1>3. /\ c \in Calls /\ c.n = m /\ c.size = size /\ c.left = size /\ c.outcome = "none"
  BY <1>1 DEF Calls, Outcomes
<1>4. call' = [call EXCEPT ![t] = c] /\ sendPc' = [sendPc EXCEPT ![t] = "start"]
  BY <1>1, <1>2 DEF Send!Call, Send!Goto
<1> HIDE DEF c
<1>5. UNCHANGED Send!channel /\ UNCHANGED Send!settings
  BY DEF Send!Call
<1>6. "start" \in Labels
  BY DEF Labels
<1>7. Send!TypeOK'
  <2>1. calls' \in 0 .. MaxCalls
    BY <1>1
  <2> QED BY <1>3, <1>4, <1>5, <1>6, <2>1, ThreadTypes DEF SendInv
<1>8. \A i \in DOMAIN stream : stream[i][1] <= calls /\ stream[i][1] \in Int
  BY <1>1 DEF SendInv, Bytes
<1>9. CarriedIn(stream, m, 0)
  BY <1>1, <1>2, <1>8 DEF CarriedIn
<1>10. Facts(c, "start", stream, calls')
  BY <1>1, <1>2, <1>3, <1>9 DEF Facts
<1>11. stream' = stream
  BY <1>5 DEF Send!channel
<1> QED BY <1>1, <1>2, <1>3, <1>4, <1>6, <1>7, <1>10, <1>11, OneCallSteps

\* A step of a call that writes nothing.
LEMMA QuietStep ==
    ASSUME SendInv, Send!SendAssumption, NEW t \in Senders, NEW c \in Calls,
           NEW label \in Labels,
           call' = [call EXCEPT ![t] = c], sendPc' = [sendPc EXCEPT ![t] = label],
           UNCHANGED Send!channel, UNCHANGED Send!settings, calls' = calls,
           c.n = call[t].n, c.size = call[t].size, c.left = call[t].left,
           label # "idle" => c.n # 0 /\ c.outcome = "none",
           label \in {"start", "setup"} => c.left = c.size,
           c.outcome = "ok" => c.left = 0,
           c.outcome \in {"pipe", "again"} => c.left = c.size
    PROVE  SendInv'
<1>1. calls' \in 0 .. MaxCalls
  BY SendTypes DEF SendInv
<1>2. Send!TypeOK'
  BY <1>1, ThreadTypes DEF SendInv
<1>3. Facts(call[t], sendPc[t], stream, calls)
  BY DEF SendInv
<1>4. Facts(c, label, stream, calls')
  BY <1>3 DEF Facts
<1>5. stream' = stream
  BY DEF Send!channel
<1> QED BY <1>2, <1>4, <1>5, OneCallSteps

\* A call ends.
LEMMA EndKeeps ==
    ASSUME SendInv, Send!SendAssumption, NEW t \in Senders, NEW result \in Outcomes,
           Send!End(t, result),
           UNCHANGED Send!channel, UNCHANGED Send!settings, calls' = calls,
           result = "ok" => call[t].left = 0,
           result \in {"pipe", "again"} => call[t].left = call[t].size
    PROVE  SendInv'
<1>1. call \in [Senders -> Calls]
  BY SendTypes DEF SendInv
<1>2. PICK c \in Calls : c = [call[t] EXCEPT !.outcome = result]
  BY <1>1 DEF Calls
<1>3. /\ c.n = call[t].n /\ c.size = call[t].size /\ c.left = call[t].left
      /\ c.outcome = result
  BY <1>1, <1>2 DEF Calls
<1>4. call' = [call EXCEPT ![t] = c] /\ sendPc' = [sendPc EXCEPT ![t] = "idle"]
  BY <1>2 DEF Send!End, Send!Goto
<1>5. "idle" \in Labels
  BY DEF Labels
<1> QED BY <1>3, <1>4, <1>5, QuietStep

\* send() looks whether writing is shut down.
LEMMA SendKeeps ==
    ASSUME SendInv, Send!SendAssumption, NEW t \in Senders, Send!Send(t)
    PROVE  SendInv'
<1>1. /\ call \in [Senders -> Calls] /\ Facts(call[t], sendPc[t], stream, calls)
      /\ UNCHANGED Send!channel /\ UNCHANGED Send!settings /\ calls' = calls
      /\ sendPc[t] = "start"
  BY SendTypes DEF SendInv, Send!Send, Send!At
<1>2. CASE Send!End(t, "pipe")
  <2>1. "pipe" \in Outcomes /\ "pipe" # "ok"
    BY DEF Outcomes, Send!Errors
  <2>2. call[t].left = call[t].size
    BY <1>1 DEF Facts
  <2> QED BY <1>1, <1>2, <2>1, <2>2, EndKeeps
<1>3. CASE Send!Goto(t, "setup") /\ call' = call
  <2>1. PICK c \in Calls : c = call[t]
    BY <1>1
  <2>2. call' = [call EXCEPT ![t] = c] /\ sendPc' = [sendPc EXCEPT ![t] = "setup"]
    BY <1>1, <1>3, <2>1 DEF Send!Goto
  <2>3. "setup" \in Labels
    BY DEF Labels
  <2>4. c.n # 0 /\ c.outcome = "none" /\ c.left = c.size
    BY <1>1, <2>1 DEF Facts
  <2> QED BY <1>1, <2>1, <2>2, <2>3, <2>4, QuietStep
<1> QED BY <1>2, <1>3 DEF Send!Send

\* send() does not begin if it may not wait but would have to.
LEMMA SetupKeeps ==
    ASSUME SendInv, Send!SendAssumption, NEW t \in Senders, Send!Setup(t)
    PROVE  SendInv'
<1>1. /\ call \in [Senders -> Calls] /\ Facts(call[t], sendPc[t], stream, calls)
      /\ UNCHANGED Send!channel /\ UNCHANGED Send!settings /\ calls' = calls
      /\ sendPc[t] = "setup"
  BY SendTypes DEF SendInv, Send!Setup, Send!At
<1>2. CASE Send!End(t, "again")
  <2>1. "again" \in Outcomes /\ "again" # "ok"
    BY DEF Outcomes, Send!Errors
  <2>2. call[t].left = call[t].size
    BY <1>1 DEF Facts
  <2> QED BY <1>1, <1>2, <2>1, <2>2, EndKeeps
<1>3. CASE /\ Send!Goto(t, "loop")
           /\ call' = [call EXCEPT ![t].timed = (sendTimeout = "some")]
  <2>1. PICK b \in BOOLEAN : b = (sendTimeout = "some")
    OBVIOUS
  <2>2. PICK c \in Calls : c = [call[t] EXCEPT !.timed = b]
    BY <1>1 DEF Calls
  <2>3. /\ c.n = call[t].n /\ c.size = call[t].size /\ c.left = call[t].left
        /\ c.outcome = call[t].outcome
    BY <1>1, <2>2 DEF Calls
  <2>4. call' = [call EXCEPT ![t] = c] /\ sendPc' = [sendPc EXCEPT ![t] = "loop"]
    BY <1>3, <2>1, <2>2 DEF Send!Goto
  <2>5. "loop" \in Labels
    BY DEF Labels
  <2>6. c.n # 0 /\ c.outcome = "none"
    BY <1>1, <2>3 DEF Facts
  <2> QED BY <1>1, <2>3, <2>4, <2>5, <2>6, QuietStep
<1> QED BY <1>2, <1>3 DEF Send!Setup

\* The next turn of the loop: the time may be up.
LEMMA CheckKeeps ==
    ASSUME SendInv, Send!SendAssumption, NEW t \in Senders, Send!Check(t)
    PROVE  SendInv'
<1>1. /\ call \in [Senders -> Calls] /\ Facts(call[t], sendPc[t], stream, calls)
      /\ UNCHANGED Send!channel /\ UNCHANGED Send!settings /\ calls' = calls
      /\ sendPc[t] = "loop"
  BY SendTypes DEF SendInv, Send!Check, Send!At
<1>2. ASSUME NEW o \in {"timeout", "unbound"}, Send!End(t, o)
      PROVE  SendInv'
  <2>1. o \in Outcomes /\ o # "ok" /\ o \notin {"pipe", "again"}
    BY DEF Outcomes, Send!Errors
  <2> QED BY <1>1, <1>2, <2>1, EndKeeps
<1>3. CASE Send!Goto(t, "write") /\ call' = call
  <2>1. PICK c \in Calls : c = call[t]
    BY <1>1
  <2>2. call' = [call EXCEPT ![t] = c] /\ sendPc' = [sendPc EXCEPT ![t] = "write"]
    BY <1>1, <1>3, <2>1 DEF Send!Goto
  <2>3. "write" \in Labels
    BY DEF Labels
  <2>4. c.n # 0 /\ c.outcome = "none"
    BY <1>1, <2>1 DEF Facts
  <2> QED BY <1>1, <2>1, <2>2, <2>3, <2>4, QuietStep
<1> QED BY <1>2, <1>3 DEF Send!Check

\* The call returns.
LEMMA ReturnKeeps ==
    ASSUME SendInv, Send!SendAssumption, NEW t \in Senders, Send!Return(t)
    PROVE  SendInv'
<1>1. /\ UNCHANGED Send!channel /\ UNCHANGED Send!settings /\ calls' = calls
      /\ call[t].left = 0 /\ Send!End(t, "ok")
  BY DEF Send!Return
<1>2. "ok" \in Outcomes /\ "ok" \notin {"pipe", "again"}
  BY DEF Outcomes
<1> QED BY <1>1, <1>2, EndKeeps

\* As much as the MTU allows is written behind what the channel carries, or the channel
\* is closed.
LEMMA WriteKeeps ==
    ASSUME SendInv, Send!SendAssumption, NEW t \in Senders, Send!Write(t)
    PROVE  SendInv'
<1>1. /\ call \in [Senders -> Calls] /\ Facts(call[t], sendPc[t], stream, calls)
      /\ sendPc \in [Senders -> Labels] /\ stream \in Seq(Bytes)
      /\ mtu \in Nat \ {0} /\ calls \in 0 .. MaxCalls /\ Sizes \subseteq Nat
      /\ calls' = calls /\ sendPc[t] = "write" /\ MaxCalls \in Nat
      /\ proto' = proto /\ mtu' = mtu /\ open' = open /\ taken' = taken
      /\ sendState' = sendState /\ sendTimeout' = sendTimeout
  BY SendTypes DEF SendInv, Send!Write, Send!At, Send!settings
<1>2. CASE ~open
  <2>1. Send!End(t, "broken") /\ stream' = stream
    BY <1>2 DEF Send!Write
  <2>2. UNCHANGED Send!channel /\ UNCHANGED Send!settings
    BY <1>1, <2>1 DEF Send!channel, Send!settings
  <2>3. "broken" \in Outcomes /\ "broken" # "ok" /\ "broken" \notin {"pipe", "again"}
    BY DEF Outcomes, Send!Errors
  <2> QED BY <1>1, <2>1, <2>2, <2>3, EndKeeps
<1>3. CASE open
  <2>1. /\ call[t].n \in 0 .. MaxCalls /\ call[t].n # 0 /\ call[t].outcome = "none"
        /\ call[t].left \in Nat /\ call[t].size \in Nat /\ call[t].left <= call[t].size
        /\ CarriedIn(stream, call[t].n, call[t].size - call[t].left)
        /\ call[t].n <= calls
    <3>1. call[t] \in Calls
      BY <1>1
    <3>2. call[t].n \in 0 .. MaxCalls /\ call[t].left \in Nat /\ call[t].size \in Nat
      BY <1>1, <3>1, PartsOfCall
    <3> QED BY <1>1, <3>2 DEF Facts
  <2>2. PICK n \in 1 .. MaxCalls : n = call[t].n
    BY <1>1, <2>1
  <2>3. PICK k \in Nat : k = call[t].size - call[t].left
    BY <2>1
  <2>4. PICK count \in Nat : count = Send!Min({call[t].left, mtu}) /\ count <= call[t].left
    <3>1. mtu \in Int /\ call[t].left \in Int
      BY <1>1, <2>1
    <3>2. /\ Send!Min({call[t].left, mtu}) \in {call[t].left, mtu}
          /\ Send!Min({call[t].left, mtu}) <= call[t].left
      BY <3>1, SmallerOfTwo
    <3>3. Send!Min({call[t].left, mtu}) \in Nat
      BY <1>1, <2>1, <3>2
    <3> QED BY <3>2, <3>3
  <2>5. /\ stream' = stream \o Send!Chunk(n, k, count)
        /\ sendPc' = [sendPc EXCEPT ![t] = "loop"]
        /\ call' = [call EXCEPT ![t].left = @ - count]
    BY <1>3, <2>2, <2>3, <2>4 DEF Send!Write, Send!ConnWrite, Send!Goto
  <2>6. /\ stream' \in Seq(Bytes) /\ Len(stream') = Len(stream) + count
        /\ Behind(stream', stream, n, k, count)
    BY <1>1, <2>5, FrameBehind
  <2>7. PICK c \in Calls : c = [call[t] EXCEPT !.left = @ - count]
    <3>1. PICK left \in Nat : left = call[t].left - count
      BY <2>1, <2>4
    <3>2. PICK c \in Calls : c = [call[t] EXCEPT !.left = left]
      BY <1>1 DEF Calls
    <3> QED BY <3>1, <3>2
  <2>8. /\ c.n = n /\ c.size = call[t].size /\ c.left = call[t].left - count
        /\ c.outcome = call[t].outcome
    BY <1>1, <2>2, <2>7 DEF Calls
  <2>9. call' = [call EXCEPT ![t] = c]
    BY <1>1, <2>5, <2>7
  <2>10. /\ call'[t] = c /\ sendPc'[t] = "loop"
         /\ \A u \in Senders : u # t => call'[u] = call[u] /\ sendPc'[u] = sendPc[u]
    BY <1>1, <2>5, <2>9
  <2>11. Send!TypeOK'
    <3>1. call' \in [Senders -> Calls] /\ sendPc' \in [Senders -> Labels]
      BY <1>1, <2>5, <2>9 DEF Labels
    <3>2. taken' \in 0 .. Len(stream')
      <4>1. taken \in 0 .. Len(stream) /\ Len(stream) \in Nat
        BY <1>1 DEF SendInv, Send!TypeOK
      <4> QED BY <1>1, <2>6, <4>1
    <3> QED BY <1>1, <2>6, <3>1, <3>2
            DEF SendInv, Send!TypeOK, Calls, Labels, Outcomes, Bytes
  <2>12. Facts(c, "loop", stream', calls')
    <3>1. CarriedIn(stream', n, k + count)
      BY <1>1, <2>1, <2>2, <2>3, <2>6, FrameExtends
    <3>2. k + count = c.size - c.left /\ c.left <= c.size
      BY <2>1, <2>3, <2>4, <2>8
    <3>3. c.left = 0 => c.outcome # "pipe" /\ c.outcome # "again"
      BY <2>1, <2>8
    <3> QED BY <1>1, <2>1, <2>2, <2>8, <3>1, <3>2 DEF Facts
  <2>13. ASSUME NEW u \in Senders PROVE Facts(call'[u], sendPc'[u], stream', calls')
    <3>1. CASE u = t
      BY <2>10, <2>12, <3>1
    <3>2. CASE u # t
      <4>1. Facts(call[u], sendPc[u], stream, calls) /\ call[u] \in Calls
        BY <1>1 DEF SendInv
      <4>2. call[u].n # n
        BY <2>1, <2>2, <3>2 DEF SendInv
      <4>3. call[u].size - call[u].left \in Nat
        <5>1. call[u].left \in Nat /\ call[u].size \in Nat
          BY <1>1, <4>1, PartsOfCall
        <5> QED BY <4>1, <5>1 DEF Facts
      <4>4. call[u].n # 0 => CarriedIn(stream', call[u].n, call[u].size - call[u].left)
        BY <1>1, <2>6, <4>1, <4>2, <4>3, FrameKeepsOthers DEF Facts
      <4> QED BY <1>1, <2>10, <3>2, <4>1, <4>4 DEF Facts
    <3> QED BY <3>1, <3>2
  <2>14. \A u, v \in Senders : u # v /\ call'[u].n # 0 => call'[v].n # call'[u].n
    <3>1. \A u \in Senders : call'[u].n = call[u].n
      BY <2>2, <2>8, <2>10
    <3> QED BY <3>1 DEF SendInv
  <2>15. \A i \in DOMAIN stream' : stream'[i][1] <= calls'
    <3>1. \A i \in 1 .. Len(stream) : stream[i][1] <= calls
      BY <1>1 DEF SendInv
    <3>2. \A i \in DOMAIN stream' :
             i \in 1 .. Len(stream) \/ i \in (Len(stream) + 1) .. (Len(stream) + count)
      BY <1>1, <2>6 DEF Behind
    <3>3. \A i \in (Len(stream) + 1) .. (Len(stream) + count) : stream'[i][1] = n
      <4> TAKE i \in (Len(stream) + 1) .. (Len(stream) + count)
      <4>1. stream'[i] = <<n, k + (i - Len(stream))>>
        BY <2>6 DEF Behind
      <4> QED BY <4>1
    <3>4. \A i \in 1 .. Len(stream) : stream'[i] = stream[i]
      BY <2>6 DEF Behind
    <3> QED BY <1>1, <2>1, <2>2, <3>1, <3>2, <3>3, <3>4
  <2> QED BY <2>11, <2>13, <2>14, <2>15 DEF SendInv
<1> QED BY <1>2, <1>3

-----------------------------------------------------------------------------
(* The theorems. *)

\* The types, what is known of the calls and what the channel carries are an invariant
\* of sending, for any threads, MTUs and lengths of data.
THEOREM SendInductive ==
    ASSUME Send!SendAssumption
    PROVE  Send!Spec => []SendInv
<1>1. Send!Init => SendInv
  BY SendInitially
<1>2. SendInv /\ [Send!Next]_(Send!vars) => SendInv'
  <2> SUFFICES ASSUME SendInv, [Send!Next]_(Send!vars) PROVE SendInv'
    OBVIOUS
  <2>1. CASE Send!Take
    BY <2>1, TakeKeeps
  <2>2. CASE Send!PeerClose \/ Send!Close
    BY <2>2, CloseKeeps
  <2>3. CASE \/ \E how \in SendShutModes : Send!Shutdown(how)
             \/ \E value \in SendTimeouts : Send!SetTimeout(value)
             \/ \E flag \in {f \in BOOLEAN : SendTimeouts # {}} : Send!SetBlocking(flag)
    BY <2>3, SettingsKeep
  <2>4. ASSUME NEW t \in Senders, NEW size \in Sizes, Send!Call(t, size) PROVE SendInv'
    BY <2>4, CallKeeps
  <2>5. ASSUME NEW t \in Senders, Send!Step(t) PROVE SendInv'
    BY <2>5, SendKeeps, SetupKeeps, CheckKeeps, WriteKeeps, ReturnKeeps DEF Send!Step
  <2>6. CASE UNCHANGED Send!vars
    <3>1. /\ UNCHANGED <<proto, mtu, open, taken, sendState, sendTimeout>>
          /\ stream' = stream /\ calls' = calls /\ sendPc' = sendPc /\ call' = call
      BY <2>6 DEF Send!vars
    <3>2. Send!TypeOK'
      BY <3>1 DEF SendInv, Send!TypeOK
    <3> QED BY <3>1, <3>2, CallsAlone
  <2> QED BY <2>1, <2>2, <2>3, <2>4, <2>5, <2>6 DEF Send!Next
<1> QED BY <1>1, <1>2, PTL DEF Send!Spec

\* Every variable of the sending half keeps its type.
THEOREM SendTypeCorrect ==
    ASSUME Send!SendAssumption
    PROVE  Send!Spec => []Send!TypeOK
<1>1. SendInv => Send!TypeOK
  BY DEF SendInv
<1> QED BY <1>1, SendInductive, PTL

\* The threads that send on one socket mix their data only frame by frame: of every call
\* the channel carries a part from the start, in order and once, all of it when send()
\* returns, nothing when it is refused.
THEOREM CallsAreCarriedInOrder ==
    ASSUME Send!SendAssumption
    PROVE  Send!Spec => []EachCallInOrder
<1>1. SendInv => EachCallInOrder
  <2> SUFFICES ASSUME SendInv, NEW t \in Senders, call[t].n # 0
               PROVE  \E k \in 0 .. call[t].size :
                         /\ Carried(call[t].n, k)
                         /\ call[t].outcome = "ok" => k = call[t].size
                         /\ call[t].outcome \in {"pipe", "again"} => k = 0
    BY DEF EachCallInOrder
  <2>1. Facts(call[t], sendPc[t], stream, calls)
    BY DEF SendInv
  <2>2. call[t].left \in Nat /\ call[t].size \in Nat /\ call[t].left <= call[t].size
    <3>1. call[t] \in Calls /\ Sizes \subseteq Nat
      BY SendTypes DEF SendInv
    <3> QED BY <2>1, <3>1, PartsOfCall DEF Facts
  <2>3. PICK k \in 0 .. call[t].size : k = call[t].size - call[t].left
    BY <2>2
  <2>4. Carried(call[t].n, k)
    BY <2>1, <2>3 DEF Facts, CarriedIn, Carried
  <2>5. /\ call[t].outcome = "ok" => k = call[t].size
        /\ call[t].outcome \in {"pipe", "again"} => k = 0
    BY <2>1, <2>2, <2>3 DEF Facts
  <2> QED BY <2>4, <2>5
<1> QED BY <1>1, SendInductive, PTL
=============================================================================
