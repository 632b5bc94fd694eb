------------------------ MODULE LinuxObexClientProofs ------------------------
(***************************************************************************)
(* Proofs about the Linux OBEX client, for any number of requests, clients *)
(* and chunks.                                                             *)
(***************************************************************************)
EXTENDS LinuxObexClient, TLAPS

Quiet == wire = <<>> /\ unanswered = <<>>

\* What a packet and a reply of the current request say about the body.
GoodPacket(p) ==
    /\ p.of = count /\ p.op = op
    /\ op = "put" /\ p.last /\ error = 0 => taken = size
    /\ op # "put" => p.last
    /\ op = "get" /\ error = 0 => moved = taken

GoodReply(r) ==
    /\ r.of = count
    /\ r.id # 0 => op = "connect" /\ r.id = count
    /\ r.kind = "more" => op \in Streams
    /\ r.kind = "more" /\ op = "get" => moved < taken
    /\ r.kind = "more" /\ op = "get" /\ error = 0 => moved + 1 = taken
    /\ r.kind = "ok" /\ op \in Streams /\ error = 0 => moved = size

\* A request that is waiting has one packet or reply on its way, its own.
Waiting ==
    pc = "waiting" =>
        \/ wire = <<>> /\ \E p \in Packets : unanswered = <<p>> /\ GoodPacket(p)
        \/ unanswered = <<>> /\ \E r \in Replies : wire = <<r>> /\ GoodReply(r)

Callback ==
    pc = "callback" => /\ Quiet
                       /\ op \in Streams
                       /\ op = "get" => moved < taken
                       /\ op = "get" /\ error = 0 => moved + 1 = taken

Returning ==
    pc = "returning" /\ error = 0 =>
        /\ busy = 0
        /\ resp \in Replies /\ resp.kind \in {"ok", "no", "unreadable"}
        /\ GoodReply(resp)

\* The flag busy keeps two requests apart: while it is not set nothing is on its way.
Apart ==
    /\ pc \in {"waiting", "callback"} => busy = count
    /\ pc \notin {"waiting", "callback"} => fileobj = 0
    /\ pc \notin {"waiting", "callback"} /\ busy = 0 => Quiet
    /\ pc \in {"waiting", "callback"} /\ op = "put" => moved = taken

Numbers ==
    /\ pc # "idle" => count # 0
    /\ pc # "idle" /\ op = "connect" => client # 0 /\ on[count] = client
    /\ connectionid <= count
    /\ connectionid # 0 => client # 0 /\ on[connectionid] = client

IInv ==
    TypeOK /\ Waiting /\ Callback /\ Returning /\ Apart /\ Numbers /\ OwnReply

-----------------------------------------------------------------------------

\* The records that stand for no response are not responses.
LEMMA NotReplies ==
    /\ NoReply.kind = "none" /\ NoReply.id = 0
    /\ Raised.kind = "raised" /\ Raised.id = 0
  BY DEF NoReply, Raised

\* IInv holds initially.
LEMMA InitIInv == Init => IInv
<1> SUFFICES ASSUME Init PROVE IInv
  OBVIOUS
<1> USE ClientAssumption DEF ClientAssumption, Init
<1>1. TypeOK
  <2>1. outcome \in [Requests -> Replies \cup {NoReply, Raised}]
    OBVIOUS
  <2>2. wire \in Seq(Replies) /\ unanswered \in Seq(Packets)
    OBVIOUS
  <2>3. /\ client \in 0 .. MaxClients /\ clients \in 0 .. MaxClients
        /\ size \in 0 .. MaxChunks /\ taken \in 0 .. size /\ moved \in 0 .. taken
        /\ count \in 0 .. MaxRequests
    OBVIOUS
  <2>4. on \in [Requests -> 0 .. MaxClients]
    OBVIOUS
  <2> QED
    BY <2>1, <2>2, <2>3, <2>4 DEF TypeOK, Ops
<1>2. Waiting /\ Callback /\ Returning /\ Apart /\ Numbers
  BY DEF Waiting, Callback, Returning, Apart, Numbers, Quiet
<1>3. OwnReply
  BY NotReplies DEF OwnReply
<1> QED
  BY <1>1, <1>2, <1>3 DEF IInv

\* A method that begins keeps IInv, with a new connection or without.
LEMMA CallKeeps == ASSUME NEW o \in Ops, IInv, Call(o) PROVE IInv'
<1> USE ClientAssumption DEF ClientAssumption, Call, Goto
<1>1. TypeOK'
  <2>1. count' \in Requests /\ count' \in 0 .. MaxRequests
    BY DEF IInv, TypeOK, Requests
  <2>2. /\ client' \in 0 .. MaxClients /\ clients' \in 0 .. MaxClients
        /\ busy' \in Requests \cup {0} /\ error' \in Requests \cup {0}
        /\ fileobj' \in Requests \cup {0}
        /\ resp' \in Replies \cup {NoReply}
        /\ up' \in BOOLEAN
    <3>1. CASE client = 0
      BY <3>1 DEF IInv, TypeOK, SetUp
    <3>2. CASE client # 0
      BY <3>2 DEF IInv, TypeOK, cdata, link
    <3> QED
      BY <3>1, <3>2
  <2>3. wire' \in Seq(Replies) /\ unanswered' \in Seq(Packets)
    <3>1. wire' \in {wire, <<>>} /\ unanswered' \in {unanswered, <<>>}
      BY DEF SetUp, link
    <3>2. <<>> \in Seq(Replies) /\ <<>> \in Seq(Packets)
      OBVIOUS
    <3> QED
      BY <3>1, <3>2 DEF IInv, TypeOK
  <2>4. on' \in [Requests -> 0 .. MaxClients]
    BY <2>1, <2>2 DEF IInv, TypeOK
  <2> QED
    BY <2>1, <2>2, <2>3, <2>4 DEF IInv, TypeOK, body
<1>2. Waiting' /\ Callback' /\ Returning'
  BY DEF Waiting, Callback, Returning
<1>3. Apart'
  BY DEF IInv, TypeOK, Apart, Quiet, SetUp, cdata, link
<1>4. Numbers'
  BY DEF IInv, TypeOK, Numbers, SetUp, Requests
<1>5. OwnReply'
  BY DEF IInv, OwnReply
<1> QED
  BY <1>1, <1>2, <1>3, <1>4, <1>5 DEF IInv

\* A method that ends keeps IInv, provided that it returns a response to its own
\* request or raises, and that nothing is on its way if the client is not busy.
LEMMA FinishKeeps ==
    ASSUME IInv, pc \in {"request", "returning"},
           NEW r \in Replies \cup {Raised}, Finish(r),
           r = Raised \/ (r.of = count /\ (r.id # 0 => op = "connect" /\ r.id = count)),
           fileobj' = 0,
           error' \in Requests \cup {0},
           resp' \in Replies \cup {NoReply},
           busy' \in Requests \cup {0},
           busy' = 0 => busy = 0
    PROVE  IInv'
<1> USE ClientAssumption DEF ClientAssumption, Finish
<1>0. count \in Requests
  BY DEF IInv, Numbers, TypeOK, Requests
<1>1. TypeOK'
  <2>1. r.id \in Requests \cup {0}
    BY NotReplies DEF Replies
  <2>2. client' \in 0 .. MaxClients /\ connectionid' \in Requests \cup {0}
    BY <2>1 DEF IInv, TypeOK, CloseTransport
  <2>3. up' \in BOOLEAN /\ wire' \in Seq(Replies) /\ unanswered' \in Seq(Packets)
    <3>1. /\ up' \in {up, FALSE}
          /\ wire' \in {wire, <<>>} /\ unanswered' \in {unanswered, <<>>}
      BY DEF CloseTransport, link
    <3>2. <<>> \in Seq(Replies) /\ <<>> \in Seq(Packets)
      OBVIOUS
    <3> QED
      BY <3>1, <3>2 DEF IInv, TypeOK
  <2>4. outcome' \in [Requests -> Replies \cup {NoReply, Raised}]
    BY <1>0 DEF IInv, TypeOK
  <2> QED
    BY <2>2, <2>3, <2>4 DEF IInv, TypeOK, body
<1>2. Waiting' /\ Callback' /\ Returning'
  BY DEF Waiting, Callback, Returning
<1>3. Apart'
  BY DEF IInv, Apart, Quiet, CloseTransport, link
<1>4. Numbers'
  <2>1. r.id # 0 => op = "connect" /\ r.id = count
    BY NotReplies
  <2> QED
    BY <1>0, <2>1 DEF IInv, TypeOK, Numbers, CloseTransport, Requests
<1>5. OwnReply'
  BY <1>0, NotReplies DEF IInv, TypeOK, OwnReply
<1> QED
  BY <1>1, <1>2, <1>3, <1>4, <1>5 DEF IInv

\* The ways to end before anything is sent keep IInv.
LEMMA RaiseKeeps == IInv /\ (BadHeaders \/ Refuse \/ SendFails) => IInv'
<1> SUFFICES ASSUME IInv, BadHeaders \/ Refuse \/ SendFails PROVE IInv'
  OBVIOUS
<1>1. count \in Requests /\ pc = "request" /\ fileobj = 0
  BY ClientAssumption DEF ClientAssumption, IInv, TypeOK, Numbers, Apart, Requests, BadHeaders, Refuse, SendFails
<1>2. Finish(Raised) /\ fileobj' = 0
  BY <1>1 DEF BadHeaders, Refuse, SendFails, RequestCleanup, cdata
<1>3. /\ error' \in Requests \cup {0}
      /\ resp' \in Replies \cup {NoReply}
      /\ busy' \in Requests \cup {0}
      /\ busy' = 0 => busy = 0
  BY <1>1 DEF IInv, TypeOK, BadHeaders, Refuse, SendFails, cdata
<1> QED
  BY <1>1, <1>2, <1>3, FinishKeeps

\* The return keeps IInv: what it returns is the response of the request, or it raises.
LEMMA ReturnKeeps == IInv /\ Return => IInv'
<1> SUFFICES ASSUME IInv, Return PROVE IInv'
  OBVIOUS
<1> DEFINE r == IF error # 0 \/ resp.kind = "unreadable" THEN Raised ELSE resp
<1>1. pc = "returning" /\ Finish(r) /\ UNCHANGED cdata
  BY DEF Return
<1>2. r \in Replies \cup {Raised}
  BY <1>1 DEF IInv, Returning
<1>3. r = Raised \/ (r.of = count /\ (r.id # 0 => op = "connect" /\ r.id = count))
  BY <1>1 DEF IInv, Returning, GoodReply
<1>4. /\ fileobj' = 0
      /\ error' \in Requests \cup {0}
      /\ resp' \in Replies \cup {NoReply}
      /\ busy' \in Requests \cup {0}
      /\ busy' = 0 => busy = 0
  BY <1>1 DEF IInv, TypeOK, Apart, cdata
<1> HIDE DEF r
<1> QED
  BY <1>1, <1>2, <1>3, <1>4, FinishKeeps

\* The first packet of a request is the only one on its way.
LEMMA SendKeeps == IInv /\ Send => IInv'
<1> SUFFICES ASSUME IInv, Send PROVE IInv'
  OBVIOUS
<1> USE ClientAssumption DEF ClientAssumption, Send, Goto
<1> DEFINE p == [of |-> count, op |-> op, last |-> op # "put"]
<1>1. count \in Requests /\ p \in Packets
  BY DEF IInv, TypeOK, Numbers, Requests, Packets
<1>2. wire = <<>> /\ unanswered = <<>>
  BY DEF IInv, Apart, Quiet
<1>3. unanswered' = <<p>> /\ wire' = <<>>
  BY <1>2 DEF link
<1>4. TypeOK'
  BY <1>1, <1>3 DEF IInv, TypeOK, python, calls, Streams
<1>5. Waiting'
  <2>1. GoodPacket(p)'
    BY DEF GoodPacket, calls
  <2>2. p' = p
    BY DEF calls
  <2> HIDE DEF p
  <2> QED
    BY <1>1, <1>3, <2>1, <2>2 DEF Waiting
<1>6. Callback' /\ Returning'
  BY DEF Callback, Returning
<1>7. Apart'
  BY DEF Apart, calls
<1>8. Numbers' /\ OwnReply'
  BY DEF IInv, Numbers, OwnReply, python, calls
<1> QED
  BY <1>4, <1>5, <1>6, <1>7, <1>8 DEF IInv

\* A reply that is handled is the one reply on its way, and it is a good one.
LEMMA ReceiveOne ==
    ASSUME IInv, NEW K, Receive(K)
    PROVE  /\ pc = "waiting" /\ busy = count /\ count \in Requests
           /\ unanswered = <<>> /\ wire' = <<>>
           /\ Head(wire) \in Replies /\ GoodReply(Head(wire)) /\ Head(wire).kind \in K
<1> USE ClientAssumption DEF ClientAssumption, Receive
<1>1. PICK r \in Replies : unanswered = <<>> /\ wire = <<r>> /\ GoodReply(r)
  BY DEF IInv, Waiting
<1>2. Head(wire) = r /\ Tail(wire) = <<>>
  BY <1>1
<1> QED
  BY <1>1, <1>2 DEF IInv, TypeOK, Apart, Numbers, Quiet, Requests

\* The end of a request, with an error or with the good reply that was received.
LEMMA EndKeeps ==
    ASSUME IInv, pc = "waiting", pc' = "returning",
           UNCHANGED <<python, op, body, calls>>,
           error' \in Requests \cup {0},
           busy' \in Requests \cup {0},
           fileobj' = 0,
           resp' \in Replies \cup {NoReply},
           up' \in BOOLEAN, wire' \in Seq(Replies), unanswered' \in Seq(Packets),
           busy' = 0 => Quiet',
           error' = 0 => /\ error = 0 /\ busy' = 0
                         /\ resp' \in Replies /\ GoodReply(resp')
                         /\ resp'.kind \in {"ok", "no", "unreadable"}
    PROVE  IInv'
<1>1. TypeOK'
  BY DEF IInv, TypeOK, python, body, calls
<1>2. Waiting' /\ Callback' /\ Apart'
  BY DEF Waiting, Callback, Apart
<1>3. Returning'
  BY DEF Returning, GoodReply, body, calls
<1>4. Numbers'
  BY DEF IInv, Numbers, python, calls
<1>5. OwnReply'
  BY DEF IInv, OwnReply, calls
<1> QED
  BY <1>1, <1>2, <1>3, <1>4, <1>5 DEF IInv

\* The final reply of a request keeps IInv.
LEMMA DoneKeeps == IInv /\ Done => IInv'
<1> SUFFICES ASSUME IInv, Done PROVE IInv'
  OBVIOUS
<1> DEFINE K == {"ok", "no", "unreadable"}
<1>1. /\ Receive(K)
      /\ pc' = "returning" /\ resp' = Head(wire) /\ fileobj' = 0 /\ busy' = 0
      /\ UNCHANGED <<python, op, error, body, up, unanswered, calls>>
  BY DEF Done, RequestDone, RequestCleanup
<1>2. /\ pc = "waiting" /\ unanswered = <<>> /\ wire' = <<>>
      /\ Head(wire) \in Replies /\ GoodReply(Head(wire)) /\ Head(wire).kind \in K
  BY <1>1, ReceiveOne
<1>3. up' \in BOOLEAN /\ error' \in Requests \cup {0}
  BY <1>1 DEF IInv, TypeOK
<1> HIDE DEF K
<1>4. wire' \in Seq(Replies) /\ unanswered' \in Seq(Packets) /\ Quiet'
  BY <1>1, <1>2 DEF Quiet
<1> QED
  BY <1>1, <1>2, <1>3, <1>4, EndKeeps DEF K

\* SetError always leaves an error, and keeps its type.
LEMMA ErrorIsSet ==
    ASSUME TypeOK, count \in Requests, SetError
    PROVE  error' \in Requests /\ error' # 0
  BY ClientAssumption DEF ClientAssumption, SetError, TypeOK, Requests

\* The ways to fail while waiting keep IInv: the two that leave the client busy too.
LEMMA FailKeeps == IInv /\ (ParseError \/ LinkError \/ InputError \/ TimeOut) => IInv'
<1> SUFFICES ASSUME IInv, ParseError \/ LinkError \/ InputError \/ TimeOut PROVE IInv'
  OBVIOUS
<1>1. /\ pc = "waiting" /\ pc' = "returning" /\ fileobj' = 0 /\ SetError
      /\ UNCHANGED <<python, op, body, calls>>
  BY DEF ParseError, LinkError, InputError, TimeOut, Receive, RequestDone,
         RequestCleanup, Goto
<1>2. count \in Requests /\ busy = count
  BY <1>1, ClientAssumption DEF ClientAssumption, IInv, TypeOK, Apart, Numbers, Requests
<1>3. error' \in Requests /\ error' # 0
  BY <1>1, <1>2, ErrorIsSet DEF IInv
<1>4. /\ busy' \in Requests \cup {0} /\ resp' \in Replies \cup {NoReply}
      /\ up' \in BOOLEAN
  BY <1>2 DEF IInv, TypeOK, ParseError, LinkError, InputError, TimeOut, RequestDone, link
<1>5. /\ wire' \in Seq(Replies) /\ unanswered' \in Seq(Packets)
      /\ busy' = 0 => Quiet'
  <2>1. CASE ParseError
    <3>1. unanswered' = <<>> /\ wire' = <<>>
      BY <2>1, ReceiveOne DEF ParseError
    <3> QED
      BY <3>1 DEF Quiet
  <2>2. CASE LinkError
    BY <2>2 DEF LinkError, Quiet
  <2>3. CASE InputError \/ TimeOut
    <3>1. busy' = busy /\ wire' = wire /\ unanswered' = unanswered
      BY <2>3 DEF InputError, TimeOut, link
    <3>2. busy' # 0
      BY <3>1, <1>2, ClientAssumption DEF ClientAssumption, Requests
    <3> QED
      BY <3>1, <3>2 DEF IInv, TypeOK
  <2> QED
    BY <2>1, <2>2, <2>3
<1> QED
  BY <1>1, <1>3, <1>4, <1>5, EndKeeps

\* A "more" keeps IInv: nothing is on its way while the file is called.
LEMMA StreamEventKeeps == IInv /\ StreamEvent => IInv'
<1> SUFFICES ASSUME IInv, StreamEvent PROVE IInv'
  OBVIOUS
<1>1. /\ Receive({"more"}) /\ op \in Streams /\ pc' = "callback"
      /\ UNCHANGED <<python, op, cdata, body, up, unanswered, calls>>
  BY DEF StreamEvent
<1>2. /\ pc = "waiting" /\ busy = count /\ unanswered = <<>> /\ wire' = <<>>
      /\ GoodReply(Head(wire)) /\ Head(wire).kind = "more"
  BY <1>1, ReceiveOne
<1>3. Quiet'
  BY <1>1, <1>2 DEF Quiet
<1>4. wire' \in Seq(Replies) /\ unanswered' \in Seq(Packets)
  BY <1>1, <1>2
<1>5. TypeOK'
  BY <1>1, <1>4 DEF IInv, TypeOK, python, cdata, body, calls
<1>6. Callback'
  BY <1>1, <1>2, <1>3 DEF Callback, GoodReply, body, cdata
<1>7. Waiting' /\ Returning'
  BY <1>1 DEF Waiting, Returning
<1>8. Apart' /\ Numbers' /\ OwnReply'
  BY <1>1, <1>2 DEF IInv, Apart, Numbers, OwnReply, python, cdata, body, calls
<1> QED
  BY <1>5, <1>6, <1>7, <1>8 DEF IInv

\* A packet that follows keeps IInv if it tells the truth about the body.
LEMMA PacketKeeps ==
    ASSUME IInv, pc \in {"waiting", "callback"}, pc' = "waiting",
           wire' = <<>>, unanswered = <<>>,
           UNCHANGED <<python, op, busy, fileobj, resp, size, up, calls>>,
           error' \in Requests \cup {0},
           taken' \in 0 .. size, moved' \in 0 .. taken',
           op = "put" => moved' = taken',
           op \in Streams,
           NEW last \in BOOLEAN, NextPacket(last),
           op = "put" /\ last /\ error' = 0 => taken' = size,
           op = "get" => last,
           op = "get" /\ error' = 0 => moved' = taken'
    PROVE  IInv'
<1> DEFINE p == [of |-> count, op |-> op, last |-> last]
<1>1. count \in Requests
  BY ClientAssumption DEF ClientAssumption, IInv, TypeOK, Numbers, Requests
<1>2. p \in Packets
  BY <1>1 DEF IInv, TypeOK, Packets
<1>3. unanswered' = <<p>>
  BY DEF NextPacket
<1>4. unanswered' \in Seq(Packets) /\ wire' \in Seq(Replies)
  BY <1>2, <1>3
<1>5. TypeOK'
  BY <1>4 DEF IInv, TypeOK, python, calls
<1>6. Waiting'
  <2>1. PICK q \in Packets : q = p
    BY <1>2
  <2>2. q.of = count' /\ q.op = op' /\ q.last = last
    BY <2>1 DEF calls
  <2>3. GoodPacket(q)'
    BY <2>2 DEF GoodPacket, Streams, calls
  <2>4. unanswered' = <<q>>
    BY <1>3, <2>1
  <2> HIDE DEF p
  <2> QED
    BY <2>3, <2>4 DEF Waiting
<1>7. Callback' /\ Returning'
  BY DEF Callback, Returning
<1>8. Apart' /\ Numbers' /\ OwnReply'
  BY DEF IInv, Apart, Numbers, OwnReply, python, calls
<1> QED
  BY <1>5, <1>6, <1>7, <1>8 DEF IInv

\* So it does when the file is gone: the request has an error from here on.
LEMMA StreamEventWithoutFileKeeps == IInv /\ StreamEventWithoutFile => IInv'
<1> SUFFICES ASSUME IInv, StreamEventWithoutFile PROVE IInv'
  OBVIOUS
<1>1. /\ Receive({"more"}) /\ op \in Streams /\ SetError /\ NextPacket(TRUE)
      /\ UNCHANGED <<python, pc, op, busy, fileobj, resp, body, up, calls>>
  BY DEF StreamEventWithoutFile
<1>2. /\ pc = "waiting" /\ pc' = "waiting" /\ count \in Requests
      /\ unanswered = <<>> /\ wire' = <<>>
  BY <1>1, ReceiveOne
<1>3. error' \in Requests \cup {0} /\ error' # 0
  BY <1>1, <1>2, ErrorIsSet, ClientAssumption DEF ClientAssumption, IInv, Requests
<1>4. /\ taken' \in 0 .. size /\ moved' \in 0 .. taken' /\ size' = size
      /\ op = "put" => moved' = taken'
  BY <1>1, <1>2 DEF IInv, TypeOK, Apart, body
<1> QED
  BY <1>1, <1>2, <1>3, <1>4, PacketKeeps

\* The packet that follows a call of the file keeps IInv.
LEMMA CallbackKeeps == IInv /\ CallbackStep => IInv'
<1> SUFFICES ASSUME IInv, CallbackStep PROVE IInv'
  OBVIOUS
<1> USE DEF Goto
<1>1. /\ pc = "callback" /\ pc' = "waiting" /\ op \in Streams
      /\ UNCHANGED <<python, op, busy, fileobj, resp, size, up, calls>>
      /\ wire' = <<>> /\ unanswered = <<>>
  BY DEF CallbackStep, FileToStream, StreamToFile, FileFails, cdata, body, IInv,
         Callback, Quiet
<1>2. /\ size \in Nat /\ taken \in 0 .. size /\ moved \in 0 .. taken
      /\ op = "put" => moved = taken
      /\ op = "get" => moved < taken
      /\ op = "get" /\ error = 0 => moved + 1 = taken
      /\ error \in Requests \cup {0}
  BY <1>1, ClientAssumption DEF ClientAssumption, IInv, TypeOK, Callback, Apart
<1>3. CASE FileToStream
  <2>1. /\ op = "put" /\ NextPacket(taken = size) /\ error' = error
        /\ taken' = IF taken < size THEN taken + 1 ELSE taken
        /\ moved' = IF taken < size THEN moved + 1 ELSE moved
    BY <1>3 DEF FileToStream, cdata
  <2>2. /\ taken' \in 0 .. size /\ moved' \in 0 .. taken' /\ moved' = taken'
        /\ taken = size => taken' = size
    BY <1>2, <2>1
  <2>3. (taken = size) \in BOOLEAN
    OBVIOUS
  <2> QED
    BY <1>1, <1>2, <2>1, <2>2, <2>3, PacketKeeps
<1>4. CASE StreamToFile
  <2>1. /\ op = "get" /\ NextPacket(TRUE) /\ error' = error
        /\ taken' = taken /\ moved' = moved + 1
    BY <1>4 DEF StreamToFile, cdata
  <2>2. /\ taken' \in 0 .. size /\ moved' \in 0 .. taken'
        /\ error' = 0 => moved' = taken'
    BY <1>2, <2>1
  <2> QED
    BY <1>1, <1>2, <2>1, <2>2, PacketKeeps
<1>5. CASE FileFails
  <2>1. SetError /\ NextPacket(TRUE) /\ UNCHANGED body
    BY <1>5 DEF FileFails
  <2>2. count \in Requests
    BY <1>1, ClientAssumption DEF ClientAssumption, IInv, TypeOK, Numbers, Requests
  <2>3. error' \in Requests \cup {0} /\ error' # 0
    BY <2>1, <2>2, ErrorIsSet DEF IInv
  <2>4. taken' \in 0 .. size /\ moved' \in 0 .. taken' /\ (op = "put" => moved' = taken')
    BY <1>2, <2>1 DEF body
  <2> QED
    BY <1>1, <2>1, <2>3, <2>4, PacketKeeps
<1> QED
  BY <1>3, <1>4, <1>5 DEF CallbackStep

\* Calls of the client from its file object keep IInv.
LEMMA NestedKeeps == IInv /\ (NestedRequest \/ NestedDisconnect) => IInv'
<1> SUFFICES ASSUME IInv, NestedRequest \/ NestedDisconnect PROVE IInv'
  OBVIOUS
<1> USE ClientAssumption DEF ClientAssumption
<1>1. /\ pc = "callback" /\ fileobj' = 0
      /\ UNCHANGED <<clients, pc, op, busy, error, resp, body, calls>>
      /\ CloseTransport \/ UNCHANGED <<client, connectionid, link>>
  BY DEF NestedRequest, NestedDisconnect, python
<1>2. Quiet' /\ wire' \in Seq(Replies) /\ unanswered' \in Seq(Packets)
  <2>1. wire = <<>> /\ unanswered = <<>>
    BY <1>1 DEF IInv, Callback, Quiet
  <2>2. wire' = <<>> /\ unanswered' = <<>>
    BY <1>1, <2>1 DEF CloseTransport, link
  <2> QED
    BY <2>2 DEF Quiet
<1>3. TypeOK'
  <2>1. /\ client' \in 0 .. MaxClients /\ connectionid' \in Requests \cup {0}
    BY <1>1 DEF IInv, TypeOK, CloseTransport
  <2>2. up' \in {up, FALSE}
    BY <1>1 DEF CloseTransport, link
  <2>3. up' \in BOOLEAN
    BY <2>2 DEF IInv, TypeOK
  <2> QED
    BY <1>1, <1>2, <2>1, <2>3 DEF IInv, TypeOK, body, calls
<1>4. Callback' /\ Waiting' /\ Returning'
  BY <1>1, <1>2 DEF IInv, Callback, Waiting, Returning, body
<1>5. Apart'
  BY <1>1 DEF IInv, Apart, body, calls
<1>6. Numbers' /\ OwnReply'
  BY <1>1 DEF IInv, TypeOK, Numbers, OwnReply, CloseTransport, Callback, Streams, calls
<1> QED
  BY <1>3, <1>4, <1>5, <1>6 DEF IInv

\* A reply to the current request says as much as its packet did.
LEMMA AnswerKeeps == IInv /\ Answer => IInv'
<1> SUFFICES ASSUME IInv, Answer PROVE IInv'
  OBVIOUS
<1> USE ClientAssumption DEF ClientAssumption
<1>1. UNCHANGED <<python, pc, op, cdata, size, moved, up, calls>>
  BY DEF Answer
<1>2. unanswered # <<>> /\ unanswered' = Tail(unanswered)
  BY DEF Answer
<1>3. PICK p \in Packets : p = Head(unanswered)
  BY <1>2 DEF IInv, TypeOK
<1>4. PICK r \in Replies :
         /\ wire' = Append(wire, r)
         /\ r.of = p.of
         /\ r.id # 0 => p.op = "connect" /\ r.id = p.of
         /\ \/ /\ r.kind = "more" /\ r.id = 0
               /\ ~p.last \/ (p.op = "get" /\ p.of = count /\ taken < size)
               /\ taken' = IF p.op = "get" /\ p.of = count /\ taken < size
                           THEN taken + 1 ELSE taken
            \/ /\ r.kind = "ok" /\ p.last
               /\ ~(p.op = "get" /\ p.of = count /\ taken < size)
               /\ taken' = taken
            \/ /\ r.kind \in {"no", "unreadable", "malformed"}
               /\ taken' = taken
  <2> DEFINE R(kind, id) == [of |-> p.of, kind |-> kind, id |-> id]
  <2>1. \A kind \in {"more", "ok", "no", "unreadable", "malformed"}, id \in {0, p.of} :
           R(kind, id) \in Replies
    BY <1>3 DEF Packets, Replies
  <2> QED
    BY <1>3, <2>1 DEF Answer, Reply
<1>5. taken' \in 0 .. size /\ moved \in 0 .. taken'
  BY <1>4 DEF IInv, TypeOK
<1>6. wire' \in Seq(Replies) /\ unanswered' \in Seq(Packets)
  BY <1>2, <1>4 DEF IInv, TypeOK
<1>7. TypeOK'
  BY <1>1, <1>5, <1>6 DEF IInv, TypeOK, python, cdata, calls
<1>8. pc # "callback" /\ (pc # "waiting" => ~Quiet)
  BY <1>2 DEF IInv, Callback, Quiet
<1>9. Waiting'
  <2> SUFFICES ASSUME pc = "waiting"
               PROVE  unanswered' = <<>> /\ wire' = <<r>> /\ GoodReply(r)'
    BY <1>1 DEF Waiting
  <2>1. PICK q \in Packets : wire = <<>> /\ unanswered = <<q>> /\ GoodPacket(q)
    BY <1>2 DEF IInv, Waiting
  <2>2. p = q /\ unanswered' = <<>> /\ wire' = <<r>>
    BY <1>2, <1>3, <1>4, <2>1
  <2>3. GoodPacket(p)
    BY <2>1, <2>2
  <2>4. op = "put" => moved = taken
    BY DEF IInv, Apart
  <2>5. GoodReply(r)'
    BY <1>1, <1>4, <2>3, <2>4 DEF IInv, TypeOK, GoodReply, GoodPacket, cdata, calls, Streams
  <2> QED
    BY <2>2, <2>5
<1>10. Callback'
  BY <1>1, <1>8 DEF Callback
<1>11. Returning'
  BY <1>1, <1>8 DEF IInv, Returning, Apart, cdata
<1>12. Apart'
  <2>1. pc = "waiting" /\ op = "put" => taken' = taken
    <3> SUFFICES ASSUME pc = "waiting", op = "put" PROVE taken' = taken
      OBVIOUS
    <3>1. PICK q \in Packets : unanswered = <<q>> /\ GoodPacket(q)
      BY <1>2 DEF IInv, Waiting
    <3>2. p.op = "put"
      BY <1>3, <3>1 DEF GoodPacket
    <3> QED
      BY <1>4, <3>2
  <2> QED
    BY <1>1, <1>8, <2>1 DEF IInv, Apart, cdata, calls
<1>13. Numbers' /\ OwnReply'
  BY <1>1 DEF IInv, Numbers, OwnReply, python, calls
<1> QED
  BY <1>7, <1>9, <1>10, <1>11, <1>12, <1>13 DEF IInv

\* Every step keeps IInv.
LEMMA NextKeeps == IInv /\ [Next]_vars => IInv'
<1> SUFFICES ASSUME IInv, [Next]_vars PROVE IInv'
  OBVIOUS
<1>1. CASE UNCHANGED vars
  BY <1>1 DEF vars, python, cdata, body, link, calls, IInv, TypeOK, Waiting, Callback,
     Returning, Apart, Numbers, OwnReply, Quiet, GoodPacket, GoodReply
<1>2. CASE \E o \in Ops : Call(o)
  BY <1>2, CallKeeps
<1>3. CASE RequestStep
  BY <1>3, RaiseKeeps, SendKeeps DEF RequestStep
<1>4. CASE InputStep \/ LinkError \/ InputError
  BY <1>4, StreamEventKeeps, StreamEventWithoutFileKeeps, DoneKeeps, FailKeeps
     DEF InputStep
<1>5. CASE CallbackStep
  BY <1>5, CallbackKeeps
<1>6. CASE Return
  BY <1>6, ReturnKeeps
<1>7. CASE NestedRequest \/ NestedDisconnect
  BY <1>7, NestedKeeps
<1>8. CASE Answer
  BY <1>8, AnswerKeeps
<1> QED
  BY <1>1, <1>2, <1>3, <1>4, <1>5, <1>6, <1>7, <1>8 DEF Next

\* The inductive invariant: at most one packet or reply is on its way, it belongs to
\* the request that is being made, and while the client is not busy there is none.
THEOREM Inductive == Spec => []IInv
  BY InitIInv, NextKeeps, PTL DEF Spec

-----------------------------------------------------------------------------
\* Every variable has its type, for any bounds.
THEOREM TypeCorrect == Spec => []TypeOK
<1>1. IInv => TypeOK
  BY DEF IInv
<1> QED
  BY <1>1, Inductive, PTL

\* request() of the C client: what it returns answers the request it was called for.
THEOREM RepliesAreOwn == Spec => []OwnReply
<1>1. IInv => OwnReply
  BY DEF IInv
<1> QED
  BY <1>1, Inductive, PTL

\* obexclient_requestcleanup() is called on every way out of request(): a Delete
\* never sends a file.
THEOREM FilesAreDropped == Spec => []NoFileLeft
<1>1. IInv => NoFileLeft
  BY DEF IInv, Apart, NoFileLeft
<1> QED
  BY <1>1, Inductive, PTL

\* The connection id of a session does not survive its transport.
THEOREM ConnectionIdIsCurrent == Spec => []ConnectionIdCurrent
<1>1. IInv => ConnectionIdCurrent
  BY DEF IInv, Numbers, ConnectionIdCurrent
<1> QED
  BY <1>1, Inductive, PTL

\* put() and get() say OK only of a body that was moved to its end.
THEOREM OkIsWhole == Spec => []OkMeansWhole
<1>1. IInv => OkMeansWhole
  BY DEF IInv, Returning, GoodReply, OkMeansWhole
<1> QED
  BY <1>1, Inductive, PTL
=============================================================================
