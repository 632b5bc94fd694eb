------------------------ MODULE LinuxObexServerProofs ------------------------
(***************************************************************************)
(* Theorems about LinuxObexServer, for any number of requests and chunks:  *)
(* what the client was told is received is in the file, and the references *)
(* to the file balance.                                                    *)
(***************************************************************************)
EXTENDS LinuxObexServer, SequenceTheorems, TLAPS

USE PushAssumption DEF PushAssumption

\* The answers of the server itself.
Responses == {"ok", "failed", "notimpl"}

Servers ==
    [notified : BOOLEAN, hasbody : BOOLEAN, fileobj : {"NULL", "None", "file"},
     rsp : Responses, refs : Int, gotfile : BOOLEAN, disconnected : BOOLEAN,
     busy : {"unset", "yes", "no"}, error : Failures \cup {"none"},
     undone : BOOLEAN, written : Seq(Chunks)]

\* The client has one request at a time, and of that either a packet or an answer is on
\* its way.  sendfile() makes three requests.
ClientInv ==
    /\ packet # "none" => InProgress /\ answer = "none"
    /\ answer # "none" => InProgress
    /\ request.n > 0 => /\ told[request.n].kind = request.kind
                        /\ told[request.n].size = request.size
    /\ \A n \in Requests : n > request.n => told[n].answer = "none"
    /\ request.at <= request.size
    /\ request.size > 0 => request.kind = "put"
    /\ request.at = 0 => request.lead \/ request.size = 0
    /\ request.lead => request.size > 0
    /\ answer = "continue" => request.at < request.size
    /\ sender = "sendfile" =>
         \A n \in 1 .. request.n : /\ told[n].kind = "put" <=> n = 2
                                   /\ n = 1 => told[n].kind = "connect"
                                   /\ n > 2 => told[n].kind = "disconnect"
    /\ sender = "sendfile" /\ sent = "ok" => request.n > 1 /\ told[2].answer = "ok"

\* The file ends with the first k chunks of request n, and has no other of it.
EndsWith(w, n, k) ==
    /\ k <= Len(w)
    /\ \A i \in 1 .. k : w[Len(w) - k + i] = <<n, i>>
    /\ \A j \in 1 .. Len(w) - k : w[j][1] # n

\* How far the server is with the request in progress: it has been asked for its file
\* before its first chunk.
MidRequest(s, at) ==
    /\ s.rsp = "ok"
    /\ s.notified => s.fileobj = "file"
    /\ at > 0 => s.notified
    /\ EndsWith(s.written, request.n, at)

\* The file has only chunks of Puts that have been begun.
ChunksInv ==
    \A j \in DOMAIN server.written :
       /\ server.written[j][1] <= request.n
       /\ told[server.written[j][1]].kind = "put"

\* What a packet or an answer on its way finds in the file.
PacketInv ==
    /\ packet = "request" /\ FirstPacket => EndsWith(server.written, request.n, 0)
    /\ packet = "request" /\ ~FirstPacket => MidRequest(server, request.at - 1)
    /\ answer = "continue" => MidRequest(server, request.at)
    /\ answer = "ok" /\ IsPut(request.kind)
         => EndsWith(server.written, request.n, request.size) /\ server.gotfile

ToldInv ==
    \A n \in Requests :
       told[n].answer = "ok" /\ IsPut(told[n].kind)
         => IsInFile(n, told[n].size) /\ server.gotfile

FileInv == ChunksInv /\ PacketInv /\ ToldInv

\* run() goes on until there is a file, and then does not raise.
RunInv ==
    /\ server.gotfile <=> pc = "parting" \/ (pc = "returned" /\ result = "ok")
    /\ result # "none" <=> pc = "returned"

\* The server holds the references it has taken, and a file only once it has asked for it.
Balanced(s) ==
    ~s.undone => /\ s.refs = IF s.fileobj = "file" THEN 1 ELSE 0
                 /\ s.fileobj = "file" => s.notified

\* It holds a file only in the middle of a request.
ReferencesInv ==
    /\ Balanced(server)
    /\ ~server.undone /\ server.fileobj = "file" =>
         /\ InProgress /\ answer \in {"none", "continue"}
         /\ ~(packet = "request" /\ FirstPacket)

IInv == TypeOK /\ server \in Servers /\ ClientInv /\ FileInv /\ RunInv /\ ReferencesInv

-----------------------------------------------------------------------------
(* The file. *)

LEMMA ChunksAppended ==
    ASSUME NEW w \in Seq(Chunks), NEW c \in Chunks, NEW v, v = Append(w, c)
    PROVE  /\ v \in Seq(Chunks) /\ Len(v) = Len(w) + 1 /\ v[Len(v)] = c
           /\ \A j \in 1 .. Len(w) : v[j] = w[j]
<1>1. /\ Append(w, c) \in Seq(Chunks) /\ Len(Append(w, c)) = Len(w) + 1
      /\ \A j \in 1 .. Len(w) : Append(w, c)[j] = w[j]
      /\ Append(w, c)[Len(w) + 1] = c
  BY AppendProperties
<1> QED BY <1>1

\* The next chunk after the first k.
LEMMA NextChunk ==
    ASSUME NEW w \in Seq(Chunks), NEW n \in Requests, NEW k \in Nat, k + 1 \in 1 .. MaxChunks,
           EndsWith(w, n, k)
    PROVE  EndsWith(Append(w, <<n, k + 1>>), n, k + 1)
<1> DEFINE c == <<n, k + 1>>
           v == Append(w, c)
<1>1. c \in Chunks
  BY DEF Chunks
<1>2. Len(w) \in Nat /\ Len(v) = Len(w) + 1 /\ v[Len(v)] = c
      /\ \A j \in 1 .. Len(w) : v[j] = w[j]
  BY <1>1, ChunksAppended, LenProperties
<1> HIDE DEF v
<1>3. \A i \in 1 .. k + 1 : v[Len(v) - (k + 1) + i] = <<n, i>>
  <2> SUFFICES ASSUME NEW i \in 1 .. k + 1 PROVE v[Len(v) - (k + 1) + i] = <<n, i>>
    OBVIOUS
  <2>1. CASE i = k + 1
    BY <1>2, <2>1
  <2>2. CASE i \in 1 .. k
    <3>1. Len(v) - (k + 1) + i = Len(w) - k + i /\ Len(w) - k + i \in 1 .. Len(w)
      BY <1>2, <2>2 DEF EndsWith
    <3> QED BY <1>2, <2>2, <3>1 DEF EndsWith
  <2> QED BY <2>1, <2>2
<1>4. \A j \in 1 .. Len(v) - (k + 1) : v[j][1] # n
  <2>1. \A j \in 1 .. Len(v) - (k + 1) : j \in 1 .. Len(w) - k /\ j \in 1 .. Len(w)
    BY <1>2
  <2>2. \A j \in 1 .. Len(w) - k : w[j][1] # n
    BY DEF EndsWith
  <2> QED BY <1>2, <2>1, <2>2
<1>5. k + 1 <= Len(v)
  BY <1>2 DEF EndsWith
<1> QED BY <1>3, <1>4, <1>5 DEF EndsWith, v

\* A Put that is in the file stays there when a chunk of another follows.
LEMMA StaysInFile ==
    ASSUME NEW n \in Requests, NEW size \in Nat, NEW m \in Requests \ {n},
           NEW i \in 1 .. MaxChunks, server.written \in Seq(Chunks), IsInFile(n, size),
           server'.written = Append(server.written, <<m, i>>)
    PROVE  IsInFile(n, size)'
<1> DEFINE w == server.written
           v == server'.written
<1>1. <<m, i>> \in Chunks
  BY DEF Chunks
<1>2. Len(w) \in Nat /\ Len(v) = Len(w) + 1 /\ v[Len(v)] = <<m, i>>
      /\ \A j \in 1 .. Len(w) : v[j] = w[j]
  BY <1>1, ChunksAppended, LenProperties
<1>3. DOMAIN w = 1 .. Len(w) /\ DOMAIN v = 1 .. Len(v)
  BY <1>1, ChunksAppended, LenProperties
<1>4. PICK k \in 0 .. Len(w) - size :
        /\ \A j \in 1 .. size : w[k + j] = <<n, j>>
        /\ \A j \in DOMAIN w : w[j][1] = n => j \in k + 1 .. k + size
  BY DEF IsInFile
<1> HIDE DEF w, v
<1>5. k \in 0 .. Len(v) - size
  BY <1>2
<1>6. \A j \in 1 .. size : v[k + j] = <<n, j>>
  <2>1. \A j \in 1 .. size : k + j \in 1 .. Len(w)
    BY <1>2, <1>4
  <2> QED BY <1>2, <1>4, <2>1
<1>7. \A j \in DOMAIN v : v[j][1] = n => j \in k + 1 .. k + size
  BY <1>2, <1>3, <1>4
<1> QED BY <1>5, <1>6, <1>7 DEF IsInFile, v

\* A file that ends with all of a Put has it.
LEMMA AllOfIt ==
    ASSUME NEW n \in Requests, NEW size \in Nat, server.written \in Seq(Chunks),
           EndsWith(server.written, n, size)
    PROVE  IsInFile(n, size)
<1> DEFINE w == server.written
           k == Len(w) - size
<1>1. Len(w) \in Nat /\ DOMAIN w = 1 .. Len(w)
  BY LenProperties
<1>2. k \in 0 .. Len(w) - size /\ Len(w) = k + size
  BY <1>1 DEF EndsWith
<1>3. \A i \in 1 .. size : w[k + i] = <<n, i>>
  BY DEF EndsWith
<1>4. \A j \in DOMAIN w : w[j][1] = n => j \in k + 1 .. k + size
  BY <1>1, <1>2 DEF EndsWith
<1> QED BY <1>2, <1>3, <1>4 DEF IsInFile

-----------------------------------------------------------------------------
(* The event handlers. *)

\* What no event handler changes.
Same(s, t) ==
    /\ t.gotfile = s.gotfile /\ t.disconnected = s.disconnected /\ t.undone = s.undone

LEMMA ErrorKept ==
    ASSUME NEW s \in Servers, NEW exc \in Failures
    PROVE  /\ Error(s, exc) \in Servers /\ Same(s, Error(s, exc))
           /\ Error(s, exc).error # "none"
           /\ Error(s, exc).written = s.written /\ Error(s, exc).rsp = s.rsp
           /\ Error(s, exc).refs = s.refs /\ Error(s, exc).fileobj = s.fileobj
           /\ Error(s, exc).notified = s.notified /\ Error(s, exc).hasbody = s.hasbody
           /\ Error(s, exc).busy = s.busy
BY DEF Error, Servers, Same, Failures

\* The server is asked for its file when there is none, or refuses.
LEMMA NotifyIsBalanced ==
    ASSUME NEW s \in Servers, Balanced(s), NEW kind \in Kinds, NEW readable \in BOOLEAN,
           NEW t, t = NotifyNewRequest(s, kind, readable)
    PROVE  /\ t \in Servers /\ Same(s, t) /\ Balanced(t)
           /\ t.written = s.written /\ t.hasbody = s.hasbody
           /\ t.rsp = "ok" /\ IsPut(kind) => t.notified /\ t.fileobj = "file"
<1> DEFINE e == Error(s, "OBEXError")
           v == Error(s, "ValueError")
<1>1. e \in Servers /\ Same(s, e) /\ Balanced(e) /\ e.written = s.written
      /\ e.hasbody = s.hasbody
  BY ErrorKept DEF Failures, Balanced, Same
<1>2. v \in Servers /\ Same(s, v) /\ Balanced(v) /\ v.written = s.written
      /\ v.hasbody = s.hasbody /\ v.refs = s.refs /\ v.fileobj = s.fileobj
  BY ErrorKept DEF Failures, Balanced, Same
<1> HIDE DEF e, v
<1>3. CASE s.notified
  <2>1. t = [s EXCEPT !.rsp = "failed"]
    BY <1>3 DEF NotifyNewRequest
  <2> QED BY <2>1 DEF Servers, Same, Balanced, Responses
<1>4. CASE ~s.notified /\ ~readable
  <2>1. t = [e EXCEPT !.rsp = "failed"]
    BY <1>4 DEF NotifyNewRequest, e
  <2> QED BY <1>1, <2>1 DEF Servers, Same, Balanced, Responses
<1>5. CASE ~s.notified /\ readable /\ kind = "get"
  <2>1. t = [v EXCEPT !.rsp = "failed", !.busy = "yes", !.notified = TRUE]
    BY <1>5 DEF NotifyNewRequest, v
  <2>2. t \in Servers /\ Same(v, t) /\ t.written = v.written /\ t.hasbody = v.hasbody
        /\ t.refs = v.refs /\ t.fileobj = v.fileobj /\ t.notified /\ t.rsp = "failed"
    BY <1>2, <2>1 DEF Servers, Same, Responses
  <2>3. Balanced(t)
    BY <1>2, <2>2 DEF Balanced, Same
  <2> QED BY <1>2, <2>2, <2>3 DEF Same
<1>6. CASE ~s.notified /\ readable /\ kind # "get"
  <2> DEFINE new == NewRequest(kind)
             refs == DropFile(s) + (IF new.file = "file" THEN 1 ELSE 0)
  <2>1. t = [s EXCEPT !.busy = "yes", !.notified = TRUE, !.rsp = new.code,
                      !.refs = refs, !.fileobj = new.file]
    BY <1>6 DEF NotifyNewRequest
  <2>2. new.code \in Responses /\ new.file \in {"file", "None"}
        /\ (IsPut(kind) => new.file = "file")
    BY DEF NewRequest, Responses
  <2>3. refs \in Int /\ (~s.undone => refs = IF new.file = "file" THEN 1 ELSE 0)
    BY <1>6, <2>2 DEF DropFile, Balanced, Servers
  <2> HIDE DEF refs, new
  <2>4. t \in Servers /\ Same(s, t) /\ t.written = s.written /\ t.hasbody = s.hasbody
        /\ t.refs = refs /\ t.fileobj = new.file /\ t.notified /\ t.undone = s.undone
    BY <2>1, <2>2, <2>3 DEF Servers, Same
  <2>5. Balanced(t)
    BY <2>3, <2>4 DEF Balanced
  <2> QED BY <2>2, <2>4, <2>5
<1> QED BY <1>3, <1>4, <1>5, <1>6

\* The state at the start of a packet: for the first packet all of the last request is
\* forgotten.
Begun(s) ==
    /\ s \in Servers /\ Same(server, s) /\ Balanced(s)
    /\ s.written = server.written
    /\ s.notified => s.fileobj = "file"
    /\ request.at > 1 => s.notified

LEMMA BeginsPacket ==
    ASSUME IInv, packet = "request", NEW streams \in BOOLEAN
    PROVE  /\ Begun(IF FirstPacket THEN IncomingRequest(server, streams) ELSE server)
           /\ request.at > 0 => EndsWith(server.written, request.n, request.at - 1)
           /\ request.at = 0 => EndsWith(server.written, request.n, 0)
           /\ request.n \in Requests /\ request.at \in 0 .. MaxChunks
           /\ request.kind \in Kinds
<1>1. server \in Servers /\ request.n \in Requests /\ request.at \in 0 .. MaxChunks
      /\ request.kind \in Kinds
  BY DEF IInv, TypeOK, Servers, ClientInv, InProgress, Requests
<1>2. CASE FirstPacket
  <2>1. request.at \in {0, 1}
    BY <1>1, <1>2 DEF FirstPacket
  <2>2. server.refs \in Int /\ DropFile(server) \in Int
    BY <1>1 DEF Servers, DropFile
  <2>3. ~server.undone => server.fileobj # "file" /\ DropFile(server) = 0
    BY <1>2 DEF IInv, ReferencesInv, Balanced, DropFile
  <2>4. Begun(IncomingRequest(server, streams))
    <3> DEFINE t == IncomingRequest(server, streams)
               refs == DropFile(server)
               rsp == IF IsPut(request.kind) /\ ~streams THEN "failed" ELSE "ok"
    <3>1. t = [server EXCEPT !.notified = FALSE, !.hasbody = FALSE, !.refs = refs,
                             !.rsp = rsp]
      BY DEF IncomingRequest
    <3>3. rsp \in Responses
      BY DEF Responses
    <3> HIDE DEF t, refs, rsp
    <3>2. t \in Servers /\ Same(server, t) /\ t.written = server.written
          /\ ~t.notified /\ t.refs = refs /\ t.fileobj = server.fileobj
          /\ t.undone = server.undone
      BY <1>1, <2>2, <3>1, <3>3 DEF Servers, Same, refs
    <3> QED BY <1>1, <2>1, <2>3, <3>2 DEF Begun, Balanced, refs, t
  <2>5. EndsWith(server.written, request.n, 0)
    BY <1>2 DEF IInv, FileInv, PacketInv
  <2> QED BY <1>1, <1>2, <2>1, <2>4, <2>5
<1>3. CASE ~FirstPacket
  <2>1. MidRequest(server, request.at - 1)
    BY <1>3 DEF IInv, FileInv, PacketInv
  <2>2. request.at > 0
    BY <1>1, <1>3 DEF FirstPacket, IInv, ClientInv
  <2>3. Begun(server)
    BY <1>1, <2>1, <2>2 DEF Begun, MidRequest, IInv, ReferencesInv, Same
  <2> QED BY <1>1, <1>3, <2>1, <2>2, <2>3 DEF MidRequest
<1> QED BY <1>2, <1>3

\* What the events of a packet leave.
Handled(s) ==
    /\ s \in Servers /\ Same(server, s) /\ Balanced(s)
    /\ \/ s.written = server.written
       \/ /\ request.kind = "put" /\ request.at > 0
          /\ s.written = Append(server.written, <<request.n, request.at>>)
    /\ s.rsp = "ok" => EndsWith(s.written, request.n, request.at)
    /\ s.rsp = "ok" /\ ~LastPacket => MidRequest(s, request.at)

LEMMA StreamIsWritten ==
    ASSUME IInv, packet = "request", HasBody, NEW a, Begun(a), a.rsp = "ok",
           NEW readable \in BOOLEAN, NEW writes \in BOOLEAN
    PROVE  /\ Handled(StreamAvailable(a, readable, writes))
           /\ StreamAvailable(a, readable, writes).hasbody
           /\ StreamAvailable(a, readable, writes).rsp = "ok"
                => MidRequest(StreamAvailable(a, readable, writes), request.at)
<1> DEFINE b == [a EXCEPT !.hasbody = TRUE]
           t == IF a.notified THEN b ELSE NotifyNewRequest(b, "put", readable)
           c == <<request.n, request.at>>
           u == StreamAvailable(a, readable, writes)
<1>1. /\ b \in Servers /\ Same(server, b) /\ Balanced(b) /\ b.hasbody
      /\ b.written = server.written /\ b.rsp = "ok"
      /\ b.notified = a.notified /\ b.fileobj = a.fileobj
  BY DEF Begun, Servers, Same, Balanced
<1>2. /\ t \in Servers /\ Same(server, t) /\ Balanced(t) /\ t.hasbody
      /\ t.written = server.written
      /\ t.rsp = "ok" => t.notified /\ t.fileobj = "file"
  <2>1. CASE a.notified
    BY <1>1, <2>1 DEF Begun
  <2>2. CASE ~a.notified
    <3>1. t = NotifyNewRequest(b, "put", readable)
      BY <2>2
    <3>2. "put" \in Kinds /\ IsPut("put")
      BY DEF Kinds, IsPut
    <3> HIDE DEF b
    <3> QED BY <1>1, <3>1, <3>2, NotifyIsBalanced DEF Same
  <2> QED BY <2>1, <2>2 DEF Begun, Servers
<1>3. u = IF t.rsp # "ok" THEN t
          ELSE IF t.fileobj = "NULL" THEN Error(t, "OBEXError")
          ELSE IF request.at = 0 THEN t
          ELSE IF ~writes THEN [Error(t, "OBEXError") EXCEPT !.rsp = "failed"]
          ELSE [t EXCEPT !.written = Append(@, c)]
  BY DEF StreamAvailable
<1>4. /\ request.at > 0 => EndsWith(server.written, request.n, request.at - 1)
      /\ request.at = 0 => EndsWith(server.written, request.n, 0)
      /\ request.n \in Requests /\ request.at \in 0 .. MaxChunks
  BY BeginsPacket
<1> HIDE DEF b, t, u
<1>5. CASE t.rsp # "ok"
  <2>1. u = t
    BY <1>3, <1>5
  <2> QED BY <1>2, <1>5, <2>1 DEF Handled, u
<1>6. CASE t.rsp = "ok" /\ request.at = 0
  <2>1. u = t
    BY <1>2, <1>3, <1>6
  <2>2. EndsWith(u.written, request.n, request.at)
    BY <1>2, <1>4, <1>6, <2>1
  <2>3. MidRequest(u, request.at)
    BY <1>2, <1>6, <2>1, <2>2 DEF MidRequest
  <2> QED BY <1>2, <2>1, <2>2, <2>3 DEF Handled, u
<1>7. CASE t.rsp = "ok" /\ request.at > 0 /\ ~writes
  <2> DEFINE e == Error(t, "OBEXError")
  <2>1. u = [e EXCEPT !.rsp = "failed"]
    BY <1>2, <1>3, <1>7
  <2>2. e \in Servers /\ Same(t, e) /\ Balanced(e) /\ e.written = t.written
        /\ e.hasbody = t.hasbody
    BY <1>2, ErrorKept DEF Failures, Balanced, Same
  <2> HIDE DEF e
  <2>3. u \in Servers /\ Same(server, u) /\ Balanced(u) /\ u.hasbody
        /\ u.written = server.written /\ u.rsp = "failed"
    BY <1>2, <2>1, <2>2 DEF Servers, Same, Balanced, Responses
  <2> QED BY <2>3 DEF Handled, u
<1>8. CASE t.rsp = "ok" /\ request.at > 0 /\ writes
  <2>1. u = [t EXCEPT !.written = Append(t.written, c)]
    BY <1>2, <1>3, <1>8
  <2>2. t.written \in Seq(Chunks) /\ c \in Chunks
    BY <1>2, <1>4, <1>8 DEF Servers, Chunks
  <2>3. Append(t.written, c) \in Seq(Chunks)
    BY <2>2, AppendProperties
  <2>4. u \in Servers /\ u.written = Append(server.written, c) /\ u.rsp = "ok"
        /\ u.notified /\ u.fileobj = "file" /\ u.hasbody
        /\ Same(server, u) /\ Balanced(u)
    BY <1>2, <1>8, <2>1, <2>3 DEF Servers, Same, Balanced
  <2>5. EndsWith(u.written, request.n, request.at)
    <3> DEFINE k == request.at - 1
    <3>1. k \in Nat /\ k + 1 = request.at /\ k + 1 \in 1 .. MaxChunks
      BY <1>4, <1>8
    <3>2. server.written \in Seq(Chunks)
      BY <1>2, <2>2
    <3>3. EndsWith(server.written, request.n, k)
      BY <1>4, <1>8
    <3> HIDE DEF k
    <3>4. EndsWith(Append(server.written, <<request.n, k + 1>>), request.n, k + 1)
      BY <1>4, <3>1, <3>2, <3>3, NextChunk
    <3> QED BY <2>4, <3>1, <3>4
  <2>6. request.kind = "put"
    BY DEF HasBody
  <2> QED BY <1>8, <2>4, <2>5, <2>6 DEF Handled, MidRequest, u
<1> QED BY <1>4, <1>5, <1>6, <1>7, <1>8

\* A packet leaves the server with its chunk in the file, or with an answer that is no OK.
LEMMA PacketIsHandled ==
    ASSUME IInv, packet = "request", NEW streams \in BOOLEAN,
           NEW readable \in BOOLEAN, NEW writes \in BOOLEAN
    PROVE  Handled(Handle(streams, readable, writes))
<1> DEFINE a == IF FirstPacket THEN IncomingRequest(server, streams) ELSE server
           b == IF HasBody /\ a.rsp = "ok" THEN StreamAvailable(a, readable, writes) ELSE a
           s == Handle(streams, readable, writes)
<1>1. Begun(a) /\ request.kind \in Kinds /\ request.at \in 0 .. MaxChunks
  BY BeginsPacket
<1>2. s = IF LastPacket /\ b.rsp = "ok" THEN ReceivedRequest(b, readable) ELSE b
  BY DEF Handle
<1>3. request.at \in 0 .. request.size /\ request.size \in 0 .. MaxChunks
      /\ (request.size > 0 => request.kind = "put")
  BY DEF IInv, TypeOK, ClientInv
<1> HIDE DEF a, s
<1>6. CASE a.rsp # "ok"
  <2>1. s = a
    BY <1>2, <1>6
  <2> QED BY <1>1, <1>6, <2>1 DEF Begun, Handled, s
<1>4. CASE HasBody /\ a.rsp = "ok"
  <2>1. b = StreamAvailable(a, readable, writes)
    BY <1>4
  <2>2. Handled(b) /\ b.hasbody
    BY <1>1, <1>4, <2>1, StreamIsWritten
  <2>3. ReceivedRequest(b, readable) = b
    BY <1>4, <2>2 DEF ReceivedRequest, IsPut, HasBody
  <2> QED BY <1>2, <2>2, <2>3 DEF s
<1>5. CASE ~HasBody /\ a.rsp = "ok"
  <2>1. b = a
    BY <1>5
  <2>2. request.at = 0
    BY <1>3, <1>5 DEF HasBody
  <2>3. EndsWith(server.written, request.n, 0)
    BY <2>2, BeginsPacket
  <2>4. Handled(a)
    BY <1>1, <1>5, <2>2, <2>3 DEF Begun, Handled, MidRequest
  <2>5. CASE LastPacket
    <3>1. s = ReceivedRequest(a, readable)
      BY <1>2, <1>5, <2>1, <2>5
    <3>2. s = a \/ s = NotifyNewRequest(a, request.kind, readable)
      BY <3>1 DEF ReceivedRequest
    <3>3. CASE s = NotifyNewRequest(a, request.kind, readable)
      <4>1. s \in Servers /\ Same(a, s) /\ Balanced(s) /\ s.written = a.written
        BY <1>1, <3>3, NotifyIsBalanced DEF Begun
      <4> QED BY <1>1, <2>2, <2>3, <2>5, <4>1 DEF Begun, Handled, Same, s
    <3> QED BY <2>4, <3>2, <3>3 DEF s
  <2>6. CASE ~LastPacket
    BY <1>2, <2>1, <2>4, <2>6 DEF s
  <2> QED BY <2>5, <2>6
<1> QED BY <1>4, <1>5, <1>6

-----------------------------------------------------------------------------
(* run() *)

\* t is s but for its error.
Agree(s, t) ==
    /\ t \in Servers /\ Same(s, t)
    /\ t.written = s.written /\ t.rsp = s.rsp /\ t.refs = s.refs
    /\ t.fileobj = s.fileobj /\ t.notified = s.notified

\* However process() returns, run() goes on, waits or returns as it should.
LEMMA RunGoesOn ==
    ASSUME IInv, Running, NEW s \in Servers, server.gotfile => s.gotfile,
           Processed(s) \/ Failed(s) \/ (pc = "parting" /\ Return(s, "ok"))
             \/ (pc # "parting" /\ LeaveLoop(s))
    PROVE  /\ Agree(s, server') /\ RunInv'
           /\ pc' \in {"serving", "parting", "returned"}
           /\ result' \in Failures \cup {"none", "ok"}
           /\ up' \in BOOLEAN
<1>1. /\ pc \in {"serving", "parting"} /\ result = "none" /\ up \in BOOLEAN
      /\ pc = "parting" => s.gotfile
  BY DEF Running, IInv, TypeOK, RunInv
<1>2. Agree(s, s) /\ s.error \in Failures \cup {"none"}
  BY DEF Agree, Same, Servers
<1>3. ASSUME NEW t, Agree(s, t), t.error \in Failures \cup {"none"}, LeaveLoop(t), pc = "serving"
      PROVE  Agree(s, server') /\ RunInv' /\ pc' \in {"serving", "parting", "returned"}
             /\ result' \in Failures \cup {"none", "ok"} /\ up' \in BOOLEAN
  BY <1>1, <1>3, Zenon DEF LeaveLoop, Return, RunInv, Failures
<1>4. CASE pc = "parting"
  BY <1>1, <1>2, <1>4 DEF Processed, Failed, Return, GoOn, RunInv
<1>5. CASE pc = "serving"
  <2>1. CASE Failed(s)
    <3> DEFINE t == Error(s, "OBEXError")
    <3>1. Agree(s, t) /\ t.error \in Failures \cup {"none"}
      BY ErrorKept DEF Agree, Failures, Servers
    <3>2. LeaveLoop(t)
      BY <1>5, <2>1 DEF Failed
    <3> HIDE DEF t
    <3> QED BY <1>3, <1>5, <3>1, <3>2
  <2>2. CASE LeaveLoop(s)
    BY <1>2, <1>3, <1>5, <2>2
  <2>3. CASE Processed(s) /\ ~LeaveLoop(s)
    <3>1. \/ Return(s, "AttributeError") /\ ~s.gotfile
          \/ GoOn(s) /\ ~s.gotfile
      BY <1>5, <2>3 DEF Processed
    <3> QED BY <1>1, <1>2, <1>5, <3>1 DEF Return, GoOn, RunInv, Failures
  <2> QED BY <1>5, <2>1, <2>2, <2>3
<1> QED BY <1>1, <1>4, <1>5

-----------------------------------------------------------------------------
(* The steps of the server. *)

\* What a step of the server leaves of the files it has received.
LEMMA FilesKept ==
    ASSUME IInv, UNCHANGED client, server' \in Servers, server.gotfile => server'.gotfile,
           \/ server'.written = server.written
           \/ /\ packet = "request" /\ request.kind = "put" /\ request.at > 0
              /\ server'.written = Append(server.written, <<request.n, request.at>>)
    PROVE  ChunksInv' /\ ToldInv'
<1> DEFINE w == server.written
           v == server'.written
           c == <<request.n, request.at>>
<1>1. w \in Seq(Chunks) /\ v \in Seq(Chunks)
  BY DEF IInv, TypeOK, Servers
<1>2. request' = request /\ told' = told
  BY DEF client
<1>3. CASE v = w
  <2>1. ChunksInv'
    BY <1>2, <1>3 DEF IInv, FileInv, ChunksInv
  <2>2. \A n \in Requests : IsInFile(n, told[n].size) => IsInFile(n, told[n].size)'
    BY <1>2, <1>3 DEF IsInFile
  <2>3. ToldInv'
    BY <1>2, <2>2 DEF IInv, FileInv, ToldInv
  <2> QED BY <2>1, <2>3
<1>4. CASE /\ packet = "request" /\ request.kind = "put" /\ request.at > 0
           /\ v = Append(w, c)
  <2>1. request.n \in Requests /\ told[request.n].answer = "none"
        /\ told[request.n].kind = "put" /\ request.at \in 1 .. MaxChunks
    BY <1>4 DEF IInv, TypeOK, ClientInv, InProgress, Requests
  <2>2. c \in Chunks
    BY <2>1 DEF Chunks
  <2>3. Len(w) \in Nat /\ Len(v) = Len(w) + 1 /\ v[Len(v)] = c
        /\ \A j \in 1 .. Len(w) : v[j] = w[j]
    BY <1>1, <1>4, <2>2, ChunksAppended, LenProperties
  <2>4. DOMAIN w = 1 .. Len(w) /\ DOMAIN v = 1 .. Len(v)
    BY <1>1, LenProperties
  <2>5. ChunksInv'
    <3> SUFFICES ASSUME NEW j \in 1 .. Len(v)
                 PROVE  v[j][1] <= request.n /\ told[v[j][1]].kind = "put"
      BY <1>2, <2>4 DEF ChunksInv
    <3>1. CASE j = Len(v)
      BY <2>1, <2>3, <3>1 DEF Requests
    <3>2. CASE j \in 1 .. Len(w)
      BY <2>3, <2>4, <3>2 DEF IInv, FileInv, ChunksInv
    <3> QED BY <2>3, <3>1, <3>2
  <2>6. ToldInv'
    <3> SUFFICES ASSUME NEW n \in Requests, told[n].answer = "ok", IsPut(told[n].kind)
                 PROVE  IsInFile(n, told[n].size)' /\ server'.gotfile
      BY <1>2 DEF ToldInv
    <3>1. IsInFile(n, told[n].size) /\ server.gotfile
      BY DEF IInv, FileInv, ToldInv
    <3>2. n # request.n /\ told[n].size \in Nat
      BY <2>1 DEF IInv, TypeOK
    <3>3. request.n \in Requests \ {n}
      BY <2>1, <3>2
    <3> DEFINE size == told[n].size
    <3> HIDE DEF size
    <3>4. IsInFile(n, size)'
      <4>1. IsInFile(n, size)
        BY <3>1 DEF size
      <4>2. size \in Nat
        BY <3>2 DEF size
      <4>3. size' = size
        BY <1>2 DEF size
      <4>4. PICK k \in 0 .. Len(w) - size :
              /\ \A j \in 1 .. size : w[k + j] = <<n, j>>
              /\ \A j \in DOMAIN w : w[j][1] = n => j \in k + 1 .. k + size
        BY <4>1 DEF IsInFile
      <4>5. k \in 0 .. Len(v) - size
        BY <2>3, <4>2, <4>4
      <4>6. \A j \in 1 .. size : v[k + j] = <<n, j>>
        <5>1. \A j \in 1 .. size : k + j \in 1 .. Len(w)
          BY <2>3, <4>2, <4>4
        <5> QED BY <2>3, <4>4, <5>1
      <4>7. \A j \in DOMAIN v : v[j][1] = n => j \in k + 1 .. k + size
        BY <2>3, <2>4, <3>2, <4>4
      <4> QED BY <4>3, <4>5, <4>6, <4>7 DEF IsInFile
    <3> QED BY <1>2, <3>1, <3>4 DEF size
  <2> QED BY <2>5, <2>6
<1> QED BY <1>3, <1>4

\* The client has nothing to do with a step of the server that takes a packet.
LEMMA ClientWaits ==
    ASSUME IInv, UNCHANGED client, packet' = "none",
           answer' = answer \/ (packet # "none" /\ answer' \in Answers
                                  /\ (answer' = "continue" => request.at < request.size))
    PROVE  ClientInv'
BY DEF IInv, ClientInv, client, InProgress

LEMMA TypesKept ==
    ASSUME IInv, UNCHANGED client, server' \in Servers, up' \in BOOLEAN,
           pc' \in {"serving", "parting", "returned"},
           result' \in Failures \cup {"none", "ok"},
           packet' \in {"none", "request", "abort"}, answer' \in Answers
    PROVE  TypeOK'
<1>1. server' \in [notified : BOOLEAN, hasbody : BOOLEAN, fileobj : {"NULL", "None", "file"},
                   rsp : Answers, refs : Int, gotfile : BOOLEAN, disconnected : BOOLEAN,
                   busy : {"unset", "yes", "no"}, error : Failures \cup {"none"},
                   undone : BOOLEAN, written : Seq(Chunks)]
  BY DEF Servers, Responses, Answers
<1>2. request' = request /\ told' = told /\ sender' = sender /\ sent' = sent
  BY DEF client
<1> QED BY <1>1, <1>2 DEF IInv, TypeOK

LEMMA HandlePacketKeeps == ASSUME IInv, HandlePacket PROVE IInv'
<1>1. packet = "request" /\ packet' = "none" /\ UNCHANGED client /\ Running
  BY DEF HandlePacket
<1>2. PICK streams \in BOOLEAN, readable \in BOOLEAN, writes \in BOOLEAN :
        LET s == Handle(streams, readable, writes)
        IN  IF LastPacket \/ s.rsp # "ok"
            THEN answer' = s.rsp /\ Processed(RequestDone(s))
            ELSE answer' = "continue" /\ Processed(s)
  BY DEF HandlePacket
<1> DEFINE s == Handle(streams, readable, writes)
           d == RequestDone(s)
<1>3. Handled(s)
  BY <1>1, PacketIsHandled
<1>4. /\ s \in Servers /\ Same(server, s) /\ Balanced(s) /\ s.rsp \in Responses
      /\ \/ s.written = server.written
         \/ /\ request.kind = "put" /\ request.at > 0
            /\ s.written = Append(server.written, <<request.n, request.at>>)
  BY <1>3 DEF Handled, Servers
<1>5. /\ request' = request /\ told' = told /\ sender' = sender /\ sent' = sent
      /\ request.at \in 0 .. request.size /\ request.size \in 0 .. MaxChunks
      /\ answer = "none" /\ InProgress
  BY <1>1 DEF client, IInv, TypeOK, ClientInv
<1>6. ASSUME NEW t \in Servers, Processed(t), server.gotfile => t.gotfile,
             t.written = s.written
      PROVE  Agree(t, server') /\ RunInv' /\ ChunksInv' /\ ToldInv'
             /\ pc' \in {"serving", "parting", "returned"}
             /\ result' \in Failures \cup {"none", "ok"} /\ up' \in BOOLEAN
  <2>1. /\ Agree(t, server') /\ RunInv' /\ pc' \in {"serving", "parting", "returned"}
        /\ result' \in Failures \cup {"none", "ok"} /\ up' \in BOOLEAN
    BY <1>1, <1>6, RunGoesOn
  <2>2. server' \in Servers /\ server'.written = s.written
        /\ (server.gotfile => server'.gotfile)
    BY <1>6, <2>1 DEF Agree, Same
  <2>3. ChunksInv' /\ ToldInv'
    BY <1>1, <1>4, <2>2, FilesKept
  <2> QED BY <2>1, <2>3
<1>7. CASE LastPacket \/ s.rsp # "ok"
  <2>1. answer' = s.rsp /\ Processed(d)
    BY <1>2, <1>7
  <2>2. DropFile(s) \in Int /\ (~s.undone => DropFile(s) = 0)
    BY <1>4 DEF DropFile, Balanced, Servers
  <2>3. /\ d \in Servers /\ d.undone = s.undone /\ d.written = s.written
        /\ d.rsp = s.rsp /\ d.fileobj = "NULL" /\ d.refs = DropFile(s)
        /\ d.gotfile = (s.gotfile \/ IsPut(request.kind))
    <3> DEFINE r == DropFile(s)
               g == s.gotfile \/ IsPut(request.kind)
               e == s.disconnected \/ request.kind = "disconnect"
    <3>1. d = [s EXCEPT !.disconnected = e, !.gotfile = g, !.busy = "no", !.refs = r,
                        !.fileobj = "NULL"]
      BY DEF RequestDone
    <3>2. r \in Int /\ g \in BOOLEAN /\ e \in BOOLEAN
      BY <1>4, <2>2 DEF Servers, IsPut
    <3> HIDE DEF r, g, e, d, s
    <3>3. /\ d \in Servers /\ d.undone = s.undone /\ d.written = s.written
          /\ d.rsp = s.rsp /\ d.fileobj = "NULL" /\ d.refs = r /\ d.gotfile = g
      BY <1>4, <3>1, <3>2 DEF Servers
    <3> QED BY <3>3 DEF r, g
  <2>4. server.gotfile => d.gotfile
    BY <1>4, <2>3 DEF Same
  <2>5. Agree(d, server') /\ RunInv' /\ ChunksInv' /\ ToldInv'
        /\ pc' \in {"serving", "parting", "returned"}
        /\ result' \in Failures \cup {"none", "ok"} /\ up' \in BOOLEAN
    BY <1>6, <2>1, <2>3, <2>4
  <2>6. answer' # "continue"
    BY <1>4, <2>1 DEF Responses
  <2>7. ClientInv' /\ TypeOK'
    <3>1. packet # "none" /\ answer' \in Answers
      BY <1>1, <1>4, <2>1 DEF Responses, Answers
    <3> QED BY <1>1, <2>5, <2>6, <3>1, ClientWaits, TypesKept DEF Agree
  <2>8. PacketInv'
    <3>1. ASSUME answer' = "ok", IsPut(request.kind)
          PROVE  EndsWith(server'.written, request.n, request.size) /\ server'.gotfile
      <4>1. s.rsp = "ok" /\ LastPacket
        BY <1>7, <2>1, <3>1
      <4>2. EndsWith(s.written, request.n, request.size)
        BY <1>3, <4>1 DEF Handled, LastPacket
      <4> QED BY <2>3, <2>5, <3>1, <4>2 DEF Agree, Same
    <3> QED BY <1>1, <1>5, <2>6, <3>1 DEF PacketInv
  <2>9. ReferencesInv'
    BY <2>2, <2>3, <2>5, <1>4 DEF Agree, Same, ReferencesInv, Balanced
  <2> QED BY <2>5, <2>7, <2>8, <2>9 DEF IInv, FileInv, Agree
<1>8. CASE ~LastPacket /\ s.rsp = "ok"
  <2>1. answer' = "continue" /\ Processed(s)
    BY <1>2, <1>8
  <2>2. server.gotfile => s.gotfile
    BY <1>4 DEF Same
  <2>3. Agree(s, server') /\ RunInv' /\ ChunksInv' /\ ToldInv'
        /\ pc' \in {"serving", "parting", "returned"}
        /\ result' \in Failures \cup {"none", "ok"} /\ up' \in BOOLEAN
    BY <1>4, <1>6, <2>1, <2>2
  <2>4. ClientInv' /\ TypeOK'
    <3>1. packet # "none" /\ answer' \in Answers /\ request.at < request.size
      BY <1>1, <1>5, <1>8, <2>1 DEF Answers, LastPacket
    <3> QED BY <1>1, <2>3, <3>1, ClientWaits, TypesKept DEF Agree
  <2>5. MidRequest(s, request.at)
    BY <1>3, <1>8 DEF Handled
  <2>6. PacketInv'
    BY <1>1, <1>5, <2>1, <2>3, <2>5 DEF PacketInv, MidRequest, Agree
  <2>7. ReferencesInv'
    BY <1>1, <1>4, <1>5, <2>1, <2>3 DEF Agree, Same, ReferencesInv, Balanced, InProgress
  <2> QED BY <2>3, <2>4, <2>6, <2>7 DEF IInv, FileInv, Agree
<1> QED BY <1>7, <1>8

\* A packet whose handling ends without an answer, or nothing has come at all: the server
\* has at most its error set, and it is known that a request was not done.
LEMMA NoAnswerKeeps ==
    ASSUME IInv, Running, UNCHANGED client, packet' = "none", NEW s \in Servers,
           Same(server, s) \/ (s.undone /\ s.gotfile = server.gotfile),
           s.undone \/ (s = server /\ packet = "none"),
           \/ /\ packet = "request" /\ answer' = answer
              /\ \/ s.written = server.written
                 \/ /\ request.kind = "put" /\ request.at > 0
                    /\ s.written = Append(server.written, <<request.n, request.at>>)
           \/ /\ s.written = server.written /\ s.rsp = server.rsp
              /\ s.notified = server.notified /\ s.fileobj = server.fileobj
              /\ answer' = answer \/ (packet # "none" /\ answer' \in {"failed", "aborted"}),
           Processed(s) \/ Failed(s) \/ (pc = "parting" /\ Return(s, "ok"))
             \/ (pc # "parting" /\ LeaveLoop(s))
    PROVE  IInv'
<1>1. server.gotfile => s.gotfile
  BY DEF Same
<1>2. /\ Agree(s, server') /\ RunInv' /\ pc' \in {"serving", "parting", "returned"}
      /\ result' \in Failures \cup {"none", "ok"} /\ up' \in BOOLEAN
  BY <1>1, RunGoesOn
<1>3. request' = request /\ told' = told /\ sender' = sender /\ sent' = sent
  BY DEF client
<1>4. server' \in Servers /\ server'.written = s.written /\ server'.gotfile = s.gotfile
      /\ s.gotfile = server.gotfile /\ server'.undone = s.undone
  BY <1>2 DEF Agree, Same
<1>5. ChunksInv' /\ ToldInv'
  BY <1>4, FilesKept
<1>6. answer' = answer \/ (packet # "none" /\ answer' \in {"failed", "aborted"})
  OBVIOUS
<1>7. ClientInv' /\ TypeOK'
  <2>1. answer' \in Answers
    BY <1>6 DEF IInv, TypeOK, Answers
  <2> QED BY <1>2, <1>4, <1>6, <2>1, ClientWaits, TypesKept DEF Answers
<1>8. PacketInv'
  <2>1. CASE packet = "request" /\ answer' = answer
    BY <1>3, <2>1 DEF PacketInv, IInv, ClientInv
  <2>2. CASE s.written = server.written /\ s.rsp = server.rsp
             /\ s.notified = server.notified /\ s.fileobj = server.fileobj
    BY <1>2, <1>3, <1>4, <1>6, <2>2 DEF PacketInv, IInv, FileInv, MidRequest, Agree
  <2> QED BY <2>1, <2>2
<1>9. ReferencesInv'
  <2>1. CASE s.undone
    BY <1>4, <2>1 DEF ReferencesInv, Balanced
  <2>2. CASE ~s.undone
    <3>1. s = server /\ packet = "none" /\ answer' = answer
      BY <1>6, <2>2
    <3>2. server'.refs = server.refs /\ server'.fileobj = server.fileobj
          /\ server'.notified = server.notified /\ server'.undone = server.undone
      BY <1>2, <3>1 DEF Agree, Same
    <3> QED BY <1>3, <3>1, <3>2 DEF ReferencesInv, Balanced, IInv, InProgress
  <2> QED BY <2>1, <2>2
<1> QED BY <1>2, <1>4, <1>5, <1>7, <1>8, <1>9 DEF IInv, FileInv

\* What is left of the server by an error, when the request is not done.
LEMMA ErrorIsUndone ==
    ASSUME NEW s \in Servers, NEW t, t = [Error(s, "OBEXError") EXCEPT !.undone = TRUE]
    PROVE  /\ t \in Servers /\ t.undone /\ t.gotfile = s.gotfile
           /\ t.written = s.written /\ t.rsp = s.rsp
           /\ t.notified = s.notified /\ t.fileobj = s.fileobj
<1> DEFINE e == Error(s, "OBEXError")
<1>1. /\ e \in Servers /\ e.gotfile = s.gotfile /\ e.written = s.written /\ e.rsp = s.rsp
      /\ e.notified = s.notified /\ e.fileobj = s.fileobj
  BY ErrorKept DEF Failures, Same
<1>2. t = [e EXCEPT !.undone = TRUE]
  OBVIOUS
<1> HIDE DEF e
<1> QED BY <1>1, <1>2 DEF Servers

LEMMA AnswerFailsKeeps == ASSUME IInv, AnswerFails PROVE IInv'
<1>1. PICK streams \in BOOLEAN, readable \in BOOLEAN, writes \in BOOLEAN :
        Failed([Error(Handle(streams, readable, writes), "OBEXError")
                  EXCEPT !.undone = TRUE])
  BY DEF AnswerFails
<1> DEFINE s == Handle(streams, readable, writes)
           t == [Error(s, "OBEXError") EXCEPT !.undone = TRUE]
<1>2. Running /\ packet = "request" /\ packet' = "none" /\ answer' = answer /\ UNCHANGED client
  BY DEF AnswerFails
<1>3. Handled(s)
  BY <1>2, PacketIsHandled
<1>4. t \in Servers /\ t.undone /\ t.gotfile = s.gotfile /\ t.written = s.written
  BY <1>3, ErrorIsUndone DEF Handled
<1>5. Failed(t)
  BY <1>1
<1> HIDE DEF t, s
<1> QED BY <1>2, <1>3, <1>4, <1>5, NoAnswerKeeps DEF Handled, Same

LEMMA HandleAbortKeeps == ASSUME IInv, HandleAbort PROVE IInv'
<1> DEFINE t == [server EXCEPT !.undone = TRUE]
<1>1. /\ Running /\ packet = "abort" /\ packet' = "none" /\ answer' = "aborted"
      /\ UNCHANGED client /\ Processed(t)
  BY DEF HandleAbort
<1>2. /\ t \in Servers /\ t.undone /\ t.gotfile = server.gotfile
      /\ t.written = server.written /\ t.rsp = server.rsp
      /\ t.notified = server.notified /\ t.fileobj = server.fileobj
  BY DEF IInv, Servers
<1> HIDE DEF t
<1> QED BY <1>1, <1>2, NoAnswerKeeps

LEMMA ErrorsKeep == ASSUME IInv, ParseError \/ LinkError PROVE IInv'
<1> DEFINE t == [Error(server, "OBEXError") EXCEPT !.undone = TRUE]
<1>1. /\ Running /\ packet' = "none" /\ UNCHANGED client /\ (Processed(t) \/ Failed(t))
      /\ answer' = answer \/ (packet # "none" /\ answer' = "failed")
  BY DEF ParseError, LinkError
<1>2. /\ t \in Servers /\ t.undone /\ t.gotfile = server.gotfile
      /\ t.written = server.written /\ t.rsp = server.rsp
      /\ t.notified = server.notified /\ t.fileobj = server.fileobj
  BY ErrorIsUndone DEF IInv
<1> HIDE DEF t
<1> QED BY <1>1, <1>2, NoAnswerKeeps

LEMMA TimeOutKeeps == ASSUME IInv, TimeOut PROVE IInv'
<1>1. /\ Running /\ packet = "none" /\ packet' = "none" /\ answer' = answer /\ UNCHANGED client
      /\ \/ pc = "parting" /\ Return(server, "ok")
         \/ pc # "parting" /\ LeaveLoop(server)
  BY DEF TimeOut
<1> QED BY <1>1, NoAnswerKeeps DEF IInv, Same

-----------------------------------------------------------------------------
(* The steps of the client. *)

LEMMA BeginKeeps ==
    ASSUME IInv, NEW kind \in Kinds, NEW size \in 0 .. MaxChunks, NEW lead \in BOOLEAN,
           NEW fails \in BOOLEAN, Begin(kind, size, lead, fails)
    PROVE  IInv'
<1> DEFINE n == request.n + 1
           at == IF lead \/ size = 0 THEN 0 ELSE 1
<1>1. /\ ~InProgress /\ packet = "none" /\ answer = "none" /\ MayBegin(kind)
      /\ n \in Requests /\ at \in 0 .. MaxChunks /\ request.n \in 0 .. MaxRequests
      /\ size > 0 => kind = "put"
      /\ lead => size > 0
      /\ fails => kind = "put" /\ sender = "sendfile"
      /\ request' = [n |-> n, kind |-> kind, size |-> size, lead |-> lead, at |-> at]
      /\ packet' = "request" /\ answer' = answer
      /\ told' = [told EXCEPT ![n] = [kind |-> kind, size |-> size, answer |-> "none"]]
      /\ sent' = (IF fails THEN "raised" ELSE sent)
      /\ server' = server /\ pc' = pc /\ result' = result /\ up' = up /\ sender' = sender
  BY DEF Begin, IInv, TypeOK, Requests
<1>2. request'.n = n /\ request'.kind = kind /\ request'.size = size /\ request'.lead = lead
      /\ request'.at = at
  BY <1>1
<1>3. /\ \A m \in Requests : m # n => told'[m] = told[m]
      /\ told'[n].kind = kind /\ told'[n].size = size /\ told'[n].answer = "none"
  BY <1>1 DEF IInv, TypeOK
<1>4. \A m \in 0 .. request.n : m < n
  BY <1>1
<1> HIDE DEF at
<1>5. at = IF lead \/ size = 0 THEN 0 ELSE 1
  BY DEF at
<1>6. TypeOK'
  <2>1. [kind |-> kind, size |-> size, answer |-> "none"]
          \in [kind : Kinds, size : 0 .. MaxChunks, answer : Answers]
    BY DEF Answers
  <2>2. request' \in [n : 0 .. MaxRequests, kind : Kinds, size : 0 .. MaxChunks,
                      lead : BOOLEAN, at : 0 .. MaxChunks]
    BY <1>1 DEF Requests
  <2> QED BY <1>1, <2>1, <2>2 DEF IInv, TypeOK
<1>7. ClientInv'
  <2>1. sender = "sendfile" =>
          \A m \in 1 .. n : /\ told'[m].kind = "put" <=> m = 2
                            /\ m = 1 => told'[m].kind = "connect"
                            /\ m > 2 => told'[m].kind = "disconnect"
    <3> SUFFICES ASSUME sender = "sendfile", NEW m \in 1 .. n
                 PROVE  /\ told'[m].kind = "put" <=> m = 2
                        /\ m = 1 => told'[m].kind = "connect"
                        /\ m > 2 => told'[m].kind = "disconnect"
      OBVIOUS
    <3>1. CASE m = n
      BY <1>1, <1>3, <3>1 DEF MayBegin
    <3>2. CASE m \in 1 .. request.n
      <4>1. told'[m] = told[m]
        BY <1>1, <1>3, <1>4, <3>2 DEF Requests
      <4> QED BY <3>2, <4>1 DEF IInv, ClientInv
    <3> QED BY <1>1, <3>1, <3>2
  <2>2. sender = "sendfile" /\ sent' = "ok" => n > 1 /\ told'[2].answer = "ok"
    <3> SUFFICES ASSUME sender = "sendfile", sent' = "ok"
                 PROVE  n > 1 /\ told'[2].answer = "ok"
      OBVIOUS
    <3>1. request.n > 1 /\ told[2].answer = "ok"
      BY <1>1 DEF IInv, ClientInv
    <3>2. 2 # n /\ 2 \in Requests
      BY <1>1, <3>1 DEF Requests
    <3> QED BY <1>1, <1>3, <3>1, <3>2
  <2>3. \A m \in Requests : m > n => told'[m].answer = "none"
    BY <1>1, <1>3 DEF IInv, ClientInv, Requests
  <2>4. InProgress'
    BY <1>1, <1>2, <1>3 DEF InProgress, Requests
  <2>5. at <= size /\ (at = 0 => lead \/ size = 0)
    BY <1>5
  <2> QED BY <1>1, <1>2, <1>3, <2>1, <2>2, <2>3, <2>4, <2>5 DEF ClientInv
<1>8. \A j \in DOMAIN server.written : /\ server.written[j][1] \in Requests
                                       /\ server.written[j][1] < n
                                       /\ told[server.written[j][1]].kind = "put"
  <2>1. server.written \in Seq(Chunks)
    BY DEF IInv, Servers
  <2>2. \A j \in DOMAIN server.written : server.written[j][1] \in Requests
    BY <2>1 DEF Chunks
  <2> QED BY <1>1, <2>2 DEF IInv, FileInv, ChunksInv, Requests
<1>9. ChunksInv'
  BY <1>1, <1>2, <1>3, <1>8 DEF ChunksInv, Requests
<1>10. ToldInv'
  <2> SUFFICES ASSUME NEW m \in Requests, told'[m].answer = "ok", IsPut(told'[m].kind)
               PROVE  IsInFile(m, told[m].size)' /\ server'.gotfile
    BY <1>3 DEF ToldInv
  <2>1. m # n /\ told'[m] = told[m]
    BY <1>3
  <2>2. IsInFile(m, told[m].size) /\ server.gotfile
    BY <2>1 DEF IInv, FileInv, ToldInv
  <2> QED BY <1>1, <2>1, <2>2 DEF IsInFile
<1>11. PacketInv'
  <2>1. FirstPacket'
    BY <1>2, <1>5 DEF FirstPacket
  <2>2. EndsWith(server.written, n, 0)
    <3>1. server.written \in Seq(Chunks)
      BY DEF IInv, Servers
    <3>2. Len(server.written) \in Nat /\ DOMAIN server.written = 1 .. Len(server.written)
      BY <3>1, LenProperties
    <3> QED BY <1>1, <1>8, <3>2 DEF EndsWith, Requests
  <2> QED BY <1>1, <1>2, <2>1, <2>2 DEF PacketInv
<1>12. ReferencesInv'
  BY <1>1 DEF IInv, ReferencesInv, Balanced
<1> QED BY <1>1, <1>6, <1>7, <1>9, <1>10, <1>11, <1>12 DEF IInv, FileInv, RunInv

LEMMA ContinueKeeps == ASSUME IInv, Continue PROVE IInv'
<1>1. /\ answer = "continue" /\ answer' = "none" /\ packet = "none"
      /\ server' = server /\ pc' = pc /\ result' = result /\ up' = up
      /\ told' = told /\ sender' = sender /\ sent' = sent
      /\ InProgress /\ request.at \in Nat /\ request.size \in 0 .. MaxChunks
      /\ request.at < request.size
      /\ MidRequest(server, request.at)
  BY DEF Continue, IInv, TypeOK, ClientInv, FileInv, PacketInv
<1>2. CASE packet' = "abort" /\ request' = request
  <2>1. TypeOK'
    BY <1>1, <1>2 DEF IInv, TypeOK, Answers
  <2>2. ClientInv'
    BY <1>1, <1>2 DEF IInv, ClientInv, InProgress
  <2>3. ChunksInv' /\ ToldInv'
    <3>1. ChunksInv'
      BY <1>1, <1>2 DEF IInv, FileInv, ChunksInv
    <3>2. ToldInv
      BY DEF IInv, FileInv
    <3>3. ToldInv'
      <4> SUFFICES ASSUME NEW n \in Requests, told'[n].answer = "ok", IsPut(told'[n].kind)
                   PROVE  IsInFile(n, told[n].size)' /\ server'.gotfile
        BY DEF ToldInv, IsPut
      <4>1. told' = told /\ server' = server
        BY <1>1
      <4>2. IsInFile(n, told[n].size) /\ server.gotfile
        BY <3>2, <4>1 DEF ToldInv
      <4> QED BY <4>1, <4>2 DEF IsInFile
    <3> QED BY <3>1, <3>3
  <2>4. PacketInv'
    BY <1>1, <1>2 DEF PacketInv
  <2>5. RunInv' /\ ReferencesInv'
    BY <1>1, <1>2 DEF IInv, RunInv, ReferencesInv, Balanced, InProgress
  <2> QED BY <1>1, <2>1, <2>2, <2>3, <2>4, <2>5 DEF IInv, FileInv
<1>3. CASE packet' = "request" /\ request' = [request EXCEPT !.at = @ + 1]
  <2>1. /\ request'.n = request.n /\ request'.kind = request.kind
        /\ request'.size = request.size /\ request'.lead = request.lead
        /\ request'.at = request.at + 1 /\ request.at + 1 \in 0 .. MaxChunks
        /\ request' \in [n : 0 .. MaxRequests, kind : Kinds, size : 0 .. MaxChunks,
                         lead : BOOLEAN, at : 0 .. MaxChunks]
    BY <1>1, <1>3 DEF IInv, TypeOK
  <2>2. TypeOK'
    BY <1>1, <1>3, <2>1 DEF IInv, TypeOK, Answers
  <2>3. ClientInv'
    BY <1>1, <1>3, <2>1 DEF IInv, ClientInv, InProgress
  <2>4. ~FirstPacket'
    BY <1>1, <2>1 DEF FirstPacket, IInv, ClientInv
  <2>5. PacketInv'
    <3>1. request'.at - 1 = request.at
      BY <1>1, <2>1
    <3>2. /\ packet' = "request" /\ answer' = "none" /\ server' = server
          /\ request'.n = request.n
      BY <1>1, <1>3, <2>1
    <3>3. MidRequest(server, request.at)
      BY <1>1
    <3> QED BY <2>4, <3>1, <3>2, <3>3 DEF PacketInv, MidRequest, EndsWith
  <2>6. ChunksInv' /\ ToldInv'
    BY <1>1, <2>1 DEF IInv, FileInv, ChunksInv, ToldInv, IsInFile
  <2>7. ReferencesInv'
    BY <1>1, <2>1, <2>4 DEF IInv, ReferencesInv, Balanced, InProgress
  <2> QED BY <1>1, <2>2, <2>3, <2>5, <2>6, <2>7 DEF IInv, FileInv, RunInv
<1> QED BY <1>2, <1>3 DEF Continue

LEMMA ReceiveKeeps == ASSUME IInv, Receive PROVE IInv'
<1> DEFINE n == request.n
<1>1. /\ answer \notin {"none", "continue"} /\ answer' = "none" /\ packet = "none"
      /\ told' = [told EXCEPT ![n].answer = answer]
      /\ sent' = (IF sender = "sendfile" /\ sent = "running"
                  THEN IF answer # "ok" THEN "raised"
                       ELSE IF request.kind = "put" THEN "ok" ELSE "running"
                  ELSE sent)
      /\ server' = server /\ pc' = pc /\ result' = result /\ up' = up
      /\ request' = request /\ packet' = packet /\ sender' = sender
      /\ n \in Requests /\ told[n].kind = request.kind /\ told[n].size = request.size
      /\ n > 0 /\ answer \in Answers
  BY DEF Receive, IInv, TypeOK, ClientInv, InProgress, Requests
<1>2. /\ \A m \in Requests : m # n => told'[m] = told[m]
      /\ told'[n].kind = told[n].kind /\ told'[n].size = told[n].size
      /\ told'[n].answer = answer
      /\ told' \in [Requests -> [kind : Kinds, size : 0 .. MaxChunks, answer : Answers]]
  BY <1>1 DEF IInv, TypeOK
<1>3. \A m \in Requests : told'[m].kind = told[m].kind /\ told'[m].size = told[m].size
  BY <1>2
<1>4. TypeOK'
  BY <1>1, <1>2 DEF IInv, TypeOK, Answers
<1>5. ClientInv'
  <2>1. sender = "sendfile" /\ sent' = "ok" => n > 1 /\ told'[2].answer = "ok"
    <3> SUFFICES ASSUME sender = "sendfile", sent' = "ok"
                 PROVE  n > 1 /\ told'[2].answer = "ok"
      OBVIOUS
    <3>1. CASE sent = "ok"
      <4>1. n > 1 /\ told[2].answer = "ok" /\ told[n].answer = "none" /\ 2 \in Requests
        BY <1>1, <3>1 DEF IInv, ClientInv, InProgress, Requests
      <4> QED BY <1>2, <4>1
    <3>2. CASE sent # "ok"
      <4>1. request.kind = "put" /\ answer = "ok"
        BY <1>1, <3>2
      <4>2. n = 2
        BY <1>1, <4>1 DEF IInv, ClientInv, Requests
      <4> QED BY <1>2, <4>1, <4>2
    <3> QED BY <3>1, <3>2
  <2>2. \A m \in Requests : m > n => told'[m].answer = "none"
    BY <1>1, <1>2 DEF IInv, ClientInv, Requests
  <2>3. sender = "sendfile" =>
          \A m \in 1 .. n : /\ told'[m].kind = "put" <=> m = 2
                            /\ m = 1 => told'[m].kind = "connect"
                            /\ m > 2 => told'[m].kind = "disconnect"
    BY <1>1, <1>3 DEF IInv, ClientInv, Requests
  <2> QED BY <1>1, <1>3, <2>1, <2>2, <2>3 DEF IInv, ClientInv, InProgress
<1>6. ChunksInv'
  <2>1. \A j \in DOMAIN server.written : server.written[j][1] \in Requests
    <3>1. server.written \in Seq(Chunks)
      BY DEF IInv, Servers
    <3> QED BY <3>1 DEF Chunks
  <2> QED BY <1>1, <1>3, <2>1 DEF IInv, FileInv, ChunksInv
<1>7. ToldInv'
  <2> SUFFICES ASSUME NEW m \in Requests, told'[m].answer = "ok", IsPut(told'[m].kind)
               PROVE  IsInFile(m, told[m].size) /\ server.gotfile
    BY <1>1, <1>3 DEF ToldInv, IsInFile
  <2>1. CASE m # n
    BY <1>2, <2>1 DEF IInv, FileInv, ToldInv
  <2>2. CASE m = n
    <3>1. EndsWith(server.written, n, request.size) /\ server.gotfile
      BY <1>1, <1>2, <2>2 DEF IInv, FileInv, PacketInv
    <3>2. server.written \in Seq(Chunks) /\ request.size \in Nat
      BY DEF IInv, Servers, TypeOK
    <3> HIDE DEF n
    <3>3. IsInFile(n, request.size)
      BY <1>1, <3>1, <3>2, AllOfIt
    <3> QED BY <1>1, <2>2, <3>1, <3>3
  <2> QED BY <2>1, <2>2
<1>8. PacketInv'
  BY <1>1 DEF PacketInv, IInv, FileInv, ClientInv
<1>9. ReferencesInv'
  BY <1>1 DEF IInv, ReferencesInv, Balanced
<1> QED BY <1>1, <1>4, <1>5, <1>6, <1>7, <1>8, <1>9 DEF IInv, FileInv, RunInv

LEMMA LoseLinkKeeps == ASSUME IInv, LoseLink PROVE IInv'
<1>1. /\ up' = FALSE /\ answer' = "none"
      /\ sent' = (IF sender = "sendfile" /\ sent = "running" THEN "raised" ELSE sent)
      /\ server' = server /\ pc' = pc /\ result' = result /\ request' = request
      /\ packet' = packet /\ told' = told /\ sender' = sender
  BY DEF LoseLink
<1>2. TypeOK'
  <2>1. sent' \in {"running", "ok", "raised"}
    BY <1>1 DEF IInv, TypeOK
  <2>2. answer' \in Answers
    BY <1>1 DEF Answers
  <2>3. TypeOK
    BY DEF IInv
  <2>4. /\ server' = server /\ pc' = pc /\ result' = result /\ request' = request
        /\ packet' = packet /\ told' = told /\ sender' = sender /\ up' \in BOOLEAN
    BY <1>1
  <2> QED BY <2>1, <2>2, <2>3, <2>4 DEF TypeOK
<1>3. ClientInv'
  BY <1>1 DEF IInv, ClientInv, InProgress
<1>4. FileInv'
  BY <1>1 DEF IInv, FileInv, ChunksInv, PacketInv, ToldInv, IsInFile, FirstPacket, MidRequest
<1>5. RunInv' /\ ReferencesInv'
  BY <1>1 DEF IInv, RunInv, ReferencesInv, Balanced, InProgress, FirstPacket
<1> QED BY <1>1, <1>2, <1>3, <1>4, <1>5 DEF IInv

-----------------------------------------------------------------------------
LEMMA Initially == Init => IInv
<1> SUFFICES ASSUME Init PROVE IInv
  OBVIOUS
<1>1. <<>> \in Seq(Chunks) /\ Len(<<>>) = 0 /\ DOMAIN <<>> = {}
  OBVIOUS
<1>2. server \in Servers
  BY <1>1 DEF Init, Servers, Responses
<1>3. TypeOK
  <2>1. server \in [notified : BOOLEAN, hasbody : BOOLEAN, fileobj : {"NULL", "None", "file"},
                   rsp : Answers, refs : Int, gotfile : BOOLEAN, disconnected : BOOLEAN,
                   busy : {"unset", "yes", "no"}, error : Failures \cup {"none"},
                   undone : BOOLEAN, written : Seq(Chunks)]
    BY <1>2 DEF Servers, Responses, Answers
  <2>2. request \in [n : 0 .. MaxRequests, kind : Kinds, size : 0 .. MaxChunks,
                    lead : BOOLEAN, at : 0 .. MaxChunks]
    BY DEF Init, Kinds
  <2>3. told \in [Requests -> [kind : Kinds, size : 0 .. MaxChunks, answer : Answers]]
    BY DEF Init, Kinds, Answers
  <2> QED BY <2>1, <2>2, <2>3 DEF Init, TypeOK, Answers
<1>4. ClientInv
  BY DEF Init, ClientInv, InProgress
<1>5. FileInv
  BY <1>1 DEF Init, FileInv, ChunksInv, PacketInv, ToldInv
<1>6. RunInv /\ ReferencesInv
  BY DEF Init, RunInv, ReferencesInv, Balanced
<1> QED BY <1>2, <1>3, <1>4, <1>5, <1>6 DEF IInv

\* The invariant is kept by every step, and so is always true.
THEOREM Inductive == Spec => []IInv
<1>1. IInv /\ [Next]_vars => IInv'
  <2> SUFFICES ASSUME IInv, [Next]_vars PROVE IInv'
    OBVIOUS
  <2>1. CASE Process
    BY <2>1, HandlePacketKeeps, AnswerFailsKeeps, HandleAbortKeeps, ErrorsKeep, TimeOutKeeps
       DEF Process
  <2>2. ASSUME NEW kind \in Kinds, NEW size \in 0 .. MaxChunks, NEW lead \in BOOLEAN,
               NEW fails \in BOOLEAN, Begin(kind, size, lead, fails)
        PROVE  IInv'
    BY <2>2, BeginKeeps
  <2>3. CASE Continue \/ Receive \/ LoseLink
    BY <2>3, ContinueKeeps, ReceiveKeeps, LoseLinkKeeps
  <2>4. CASE UNCHANGED vars
    <3>1. /\ server' = server /\ pc' = pc /\ result' = result /\ up' = up
          /\ request' = request /\ packet' = packet /\ answer' = answer /\ told' = told
          /\ sender' = sender /\ sent' = sent
      BY <2>4 DEF vars, client
    <3>2. FileInv'
      BY <3>1 DEF IInv, FileInv, ChunksInv, PacketInv, ToldInv, IsInFile, FirstPacket,
                  MidRequest
    <3> QED BY <3>1, <3>2 DEF IInv, TypeOK, ClientInv, InProgress, RunInv, ReferencesInv,
                              Balanced, FirstPacket
  <2> QED BY <2>1, <2>2, <2>3, <2>4 DEF Next
<1> QED BY <1>1, Initially, PTL DEF Spec

\* Every variable keeps its type.
THEOREM TypeCorrect == Spec => []TypeOK
<1>1. IInv => TypeOK
  BY DEF IInv
<1> QED BY <1>1, Inductive, PTL

\* As long as every request ends with OBEX_EV_REQDONE, the server drops the references
\* to the file that it has taken, and no other.
THEOREM ReferencesAreDropped == Spec => []ReferencesBalance
<1>1. IInv => ReferencesBalance
  BY DEF IInv, ReferencesInv, Balanced, ReferencesBalance
<1> QED BY <1>1, Inductive, PTL

\* What the client was told is received is in the file, whole and in one piece, and
\* recvfile() does not raise; of sendfile() the file has the body and nothing else.
THEOREM PutsAreReceived == Spec => []PutIsReceived
<1>1. ASSUME IInv PROVE PutIsReceived
  <2>1. \A n \in Requests : told[n].answer = "ok" /\ IsPut(told[n].kind)
          => IsInFile(n, told[n].size) /\ result \in {"none", "ok"}
    BY <1>1 DEF IInv, FileInv, ToldInv, RunInv, TypeOK
  <2>2. ASSUME sender = "sendfile", sent = "ok"
        PROVE  server.written = [i \in 1 .. told[2].size |-> <<2, i>>]
    <3> DEFINE w == server.written
               size == told[2].size
    <3>1. /\ w \in Seq(Chunks) /\ request.n \in Requests /\ request.n > 1
          /\ told[2].answer = "ok" /\ 2 \in Requests
      BY <1>1, <2>2 DEF IInv, TypeOK, Servers, ClientInv, Requests
    <3>2. size \in Nat /\ told[2].kind = "put"
      BY <1>1, <2>2, <3>1 DEF IInv, TypeOK, ClientInv, Requests
    <3>3. Len(w) \in Nat /\ DOMAIN w = 1 .. Len(w)
      BY <3>1, LenProperties
    <3>4. \A j \in 1 .. Len(w) : w[j][1] = 2
      <4> SUFFICES ASSUME NEW j \in 1 .. Len(w) PROVE w[j][1] = 2
        OBVIOUS
      <4>1. w[j] \in Chunks
        BY <3>1, <3>3
      <4>2. w[j][1] \in 1 .. request.n /\ told[w[j][1]].kind = "put"
        BY <1>1, <3>1, <3>3, <4>1 DEF IInv, FileInv, ChunksInv, Chunks, Requests
      <4> QED BY <1>1, <2>2, <4>2 DEF IInv, ClientInv
    <3> HIDE DEF w, size
    <3>5. PICK k \in 0 .. Len(w) - size :
            /\ \A i \in 1 .. size : w[k + i] = <<2, i>>
            /\ \A j \in DOMAIN w : w[j][1] = 2 => j \in k + 1 .. k + size
      BY <2>1, <3>1, <3>2 DEF IsInFile, IsPut, w, size
    <3>6. \A j \in 1 .. Len(w) : j \in k + 1 .. k + size
      BY <3>3, <3>4, <3>5
    <3>7. k = 0 /\ Len(w) = size
      <4>1. CASE Len(w) = 0
        BY <3>2, <3>5, <4>1
      <4>2. CASE Len(w) > 0
        <5>1. 1 \in k + 1 .. k + size /\ Len(w) \in k + 1 .. k + size
          BY <3>3, <3>6, <4>2
        <5>2. /\ k \in Int /\ 0 <= k /\ k <= Len(w) - size
              /\ size \in Nat /\ Len(w) \in Nat
          BY <3>2, <3>3
        <5>3. k + 1 <= 1 /\ Len(w) <= k + size
          BY <5>1, <5>2
        <5> QED BY <5>2, <5>3
      <4> QED BY <3>3, <4>1, <4>2
    <3>8. \A i \in 1 .. size : w[i] = <<2, i>>
      BY <3>2, <3>5, <3>7
    <3>9. w = [i \in 1 .. size |-> <<2, i>>]
      <4>1. w \in Seq(Chunks)
        BY <3>1 DEF w
      <4>2. w = [i \in 1 .. Len(w) |-> w[i]]
        BY <4>1, LenProperties
      <4> QED BY <3>7, <3>8, <4>2
    <3> QED BY <3>9 DEF w, size
  <2> QED BY <2>1, <2>2 DEF PutIsReceived
<1> QED BY <1>1, Inductive, PTL
=============================================================================
