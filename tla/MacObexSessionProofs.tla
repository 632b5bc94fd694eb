------------------------- MODULE MacObexSessionProofs -------------------------
(***************************************************************************)
(* Theorems about MacObexSession, for any number of requests and chunks:   *)
(* a request ends once, and as aborted only if that was asked; a Put the   *)
(* client was told is OK is in the server's file.                          *)
(***************************************************************************)
EXTENDS MacObexSession, SequenceTheorems, TLAPS

USE ObexClientAssumption DEF ObexClientAssumption

\* What the methods, the request and the delegate know of each other.
CallInv ==
    /\ call.pc # "idle" =>
         /\ count \in Requests
         /\ told[count].outcome = "none" /\ told[count].size = call.size
         /\ told[count].kind = IF call.kind \in Bodies THEN call.kind ELSE "other"
    /\ call.at <= call.size
    /\ call.size > 0 => call.kind = "put"
    /\ call.pc \in {"begin", "orphaned"} => c.busy
    /\ c.current = IF call.pc = "waiting" /\ c.busy THEN count ELSE 0
    /\ c.current = 0 => ~c.aborting
    /\ c.aborts => c.aborting
    /\ c.aborting => told[count].abort
    /\ call.pc = "waiting" /\ ~c.busy /\ c.error = "success" =>
         /\ c.response # "None"
         /\ c.response = "aborted" => told[count].abort
    /\ \A n \in Requests : /\ n > count => told[n].outcome = "none" /\ told[n].size = 0
                           /\ told[n].outcome = "aborted" => told[n].abort

\* The delegate is told of the end of a request when the method stops to wait for it.
TimesInv ==
    \A n \in Requests :
       /\ finishes[n] <= 1
       /\ n > count \/ (n = count /\ call.pc # "idle" /\ (call.pc = "begin" \/ c.busy))
            => finishes[n] = 0

\* The request has ended with an error, or is about to; or its delegate's client has
\* released it.
Dead(n) ==
    \/ told[n].outcome = "raised"
    \/ n = count /\ call.pc = "waiting" /\ ~c.busy /\ c.error # "success"
    \/ n = count /\ call.pc = "orphaned"

Replied(n) == toClient # <<>> /\ Reply.of = n

\* Of the request in progress, a packet or a reply is on its way, not both.  Packets and
\* replies of others are left of those that have had an error.
LinkInv ==
    /\ toServer # <<>> =>
         /\ IF c.current # 0 THEN Packet.of = c.current /\ ~Replied(c.current)
                             ELSE Dead(Packet.of)
         /\ IF Packet.kind = "put" THEN told[Packet.of].kind = "put" ELSE Packet.chunk = 0
    /\ toClient # <<>> => Reply.of <= count /\ (Reply.of = count => call.pc # "begin")
    /\ toServer # <<>> /\ c.current # 0 =>
         /\ Packet.kind = IF c.aborts THEN "abort" ELSE call.kind
         /\ call.kind = "put" /\ ~c.aborts =>
              /\ Packet.chunk = 0 => call.at = call.size
              /\ Packet.chunk > 0 => call.at = Packet.chunk
              /\ Packet.last /\ ~ShortReads => call.at = call.size

\* The server: run() and the handlers.  A Put that was aborted leaves its handler.
ServerInv ==
    /\ server.handler \in {"none", "put"} /\ ~server.aborted
    /\ result = "none" <=> pc # "returned"
    /\ result = "raised" => ~server.gotfile
    /\ result = "ok" \/ pc \in {"parting", "closing"} => server.gotfile
    /\ foreign => ~server.gotfile /\ ~server.definitely /\ result = "none"

\* A Put that has sent something, and that has not been aborted.
Spared(m) ==
    /\ m <= count
    /\ told[m].kind = "put" /\ told[m].outcome # "aborted"
    /\ m = count /\ call.pc # "idle" =>
         /\ call.pc \in {"waiting", "orphaned"}
         /\ ~c.busy => ~(c.error = "success" /\ c.response = "aborted")

\* It is too late to abort a Put for which run() has been told of a file, and an abort
\* that is answered has ended the Put in the handler.
GotInv ==
    /\ server.definitely =>
         \E m \in Requests : Spared(m) /\ (c.current = m /\ c.aborts => ~Replied(m))
    /\ server.gotfile =>
         \E m \in Requests :
            /\ Spared(m)
            /\ c.current = m =>
                 ~c.aborts /\ toServer = <<>> /\ ~(Replied(m) /\ Reply.code = "continue")

\* The file ends with the first k chunks of request n, and has no other of it.
EndsWith(w, n, k) ==
    /\ k <= Len(w)
    /\ \A i \in 1 .. k : w[Len(w) - k + i] = <<n, i>>
    /\ \A j \in 1 .. Len(w) - k : w[j][1] # n

\* Nothing is in the file of a request that has not begun.
ChunksInv ==
    \A j \in DOMAIN written :
       written[j][1] <= count /\ (written[j][1] = count => call.pc # "begin")

\* What a packet or a reply on its way finds in the file.
PacketInv ==
    c.current # 0 /\ call.kind = "put" /\ ~c.aborts =>
       /\ toServer # <<>> =>
            EndsWith(written, count, IF Packet.chunk = 0 THEN call.size ELSE Packet.chunk - 1)
       /\ Replied(count) /\ Reply.code = "continue" => EndsWith(written, count, call.at)
       /\ Replied(count) /\ Reply.code = "ok" =>
            EndsWith(written, count, call.size) /\ server.gotfile

\* What was, or will be, told is OK.
Accepted(n) ==
    \/ told[n].outcome = "ok"
    \/ n = count /\ call.pc = "waiting" /\ ~c.busy /\ c.error = "success" /\ c.response = "ok"

ToldInv ==
    \A n \in Requests :
       Accepted(n) /\ told[n].kind = "put" => IsInFile(n, told[n].size) /\ server.gotfile

FileInv == ChunksInv /\ PacketInv /\ ToldInv

IInv ==
    /\ TypeOK
    /\ CallInv
    /\ TimesInv
    /\ LinkInv
    /\ ServerInv
    /\ GotInv
    /\ ~foreign /\ ~ShortReads => FileInv

-----------------------------------------------------------------------------
(* What the actions of the client have in common. *)

\* A method returns or raises.
Ended(o) ==
    /\ call.pc # "idle" /\ call' = NoCall
    /\ \A n \in Requests \ {count} : told'[n] = told[n]
    /\ told'[count].kind = told[count].kind /\ told'[count].size = told[count].size
    /\ told'[count].abort = told[count].abort /\ told'[count].outcome = o
    /\ c.current = 0 /\ c'.current = 0 /\ ~c'.aborts /\ ~c'.aborting
    /\ toServer' = toServer /\ toClient' \in {<<>>, toClient}
    /\ UNCHANGED <<count, sender, finishes>>

\* The request in progress ends, with an error or with a reply.
Over(error, code) ==
    /\ c.current # 0
    /\ c'.current = 0 /\ ~c'.aborts /\ ~c'.aborting /\ ~c'.busy
    /\ c'.error = error /\ c'.response = IF c.aborts THEN "aborted" ELSE code
    /\ call'.pc = call.pc /\ call'.kind = call.kind
    /\ call'.size = call.size /\ call'.at = call.at
    /\ finishes' = [finishes EXCEPT ![c.current] = @ + 1]
    /\ toServer' = toServer /\ toClient' = <<>>
    /\ UNCHANGED <<count, told, sender>>

\* A reply on its way is one of the replies.
LEMMA ReplyType ==
    ASSUME ClientTypeOK, toClient # <<>>
    PROVE  /\ Reply \in Replies /\ Len(toClient) = 1
           /\ Reply.of \in Requests /\ Reply.code \in Codes \cup {"continue"}
<1>1. toClient \in Seq(Replies) /\ Len(toClient) <= 1
  BY DEF ClientTypeOK
<1>2. Reply \in Replies /\ Len(toClient) = 1
  <2>1. Len(toClient) = 1
    <3>1. \A seq \in Seq(Replies) : seq # <<>> => Len(seq) \in Nat \ {0}
      BY EmptySeq, Zenon
    <3>2. Len(toClient) \in Nat \ {0}
      BY <1>1, <3>1, Zenon
    <3>3. Len(toClient) <= 1
      BY <1>1
    <3>4. \A n \in Nat \ {0} : n <= 1 => n = 1
      OBVIOUS
    <3> QED  BY <3>2, <3>3, <3>4, Zenon
  <2>2. toClient[1] \in Replies
    BY <1>1, <2>1, ElementOfSeq
  <2> QED  BY <2>1, <2>2 DEF Reply
<1> QED  BY <1>2 DEF Replies

\* A packet on its way is one of the packets.
LEMMA PacketType ==
    ASSUME ClientTypeOK, toServer # <<>>
    PROVE  /\ Packet \in Packets /\ Len(toServer) = 1
           /\ Packet.of \in Requests /\ Packet.kind \in Kinds \cup {"abort"}
           /\ Packet.chunk \in 0 .. MaxChunks /\ Packet.last \in BOOLEAN
<1>1. toServer \in Seq(Packets) /\ Len(toServer) <= 1
  BY DEF ClientTypeOK
<1>2. Packet \in Packets /\ Len(toServer) = 1
  <2>1. Len(toServer) = 1
    <3>1. \A seq \in Seq(Packets) : seq # <<>> => Len(seq) \in Nat \ {0}
      BY EmptySeq, Zenon
    <3>2. Len(toServer) \in Nat \ {0}
      BY <1>1, <3>1, Zenon
    <3>3. Len(toServer) <= 1
      BY <1>1
    <3>4. \A n \in Nat \ {0} : n <= 1 => n = 1
      OBVIOUS
    <3> QED  BY <3>2, <3>3, <3>4, Zenon
  <2>2. toServer[1] \in Packets
    BY <1>1, <2>1, ElementOfSeq
  <2> QED  BY <2>1, <2>2 DEF Packet
<1> QED  BY <1>2 DEF Packets

\* The fields of c after the end of the request.
LEMMA FinishedFields ==
    ASSUME ClientTypeOK, NEW d, d = c \/ \E b \in BOOLEAN : d = [c EXCEPT !.open = b],
           NEW error \in {"success", "transport", "other"}, NEW code \in Codes \cup {"None"},
           FinishedCurrentRequest(d, error, code)
    PROVE  /\ c' \in [client   : BOOLEAN, busy : BOOLEAN,
                      error    : {"None", "success", "transport", "other"},
                      response : Codes \cup {"None", "aborted"},
                      current  : {0} \cup Requests, aborts : BOOLEAN,
                      aborting : BOOLEAN, open : BOOLEAN]
           /\ c'.current = 0 /\ ~c'.aborts /\ ~c'.aborting /\ ~c'.busy
           /\ c'.error = error /\ c'.response = IF c.aborts THEN "aborted" ELSE code
  BY DEF ClientTypeOK, FinishedCurrentRequest, DidFinish, FinishedRequest, Closed, Codes

\* Finish() ends the method in any of the ways there are.
LEMMA FinishFields ==
    ASSUME ClientTypeOK, CallInv, call.pc = "begin" \/ (call.pc = "waiting" /\ ~c.busy),
           NEW o \in Codes \cup {"raised", "aborted"}, Finish(o),
           UNCHANGED <<count, sender, finishes>>
    PROVE  ClientTypeOK' /\ Ended(o)
<1>1. count \in Requests /\ c.current = 0
  BY DEF CallInv, ClientTypeOK
<1>2. told' \in [Requests -> [kind : Bodies \cup {"other"}, size : 0 .. MaxChunks,
                     lost : BOOLEAN, abort : BOOLEAN,
                     outcome : Codes \cup {"none", "raised", "aborted"}]]
  <2> DEFINE r  == told[count]
             r1 == [r EXCEPT !.outcome = o]
             r2 == [r1 EXCEPT !.lost = call.lost]
             T  == [kind : Bodies \cup {"other"}, size : 0 .. MaxChunks,
                    lost : BOOLEAN, abort : BOOLEAN,
                    outcome : Codes \cup {"none", "raised", "aborted"}]
  <2>1. told' = [told EXCEPT ![count] = r2]
    BY <1>1 DEF Finish, ClientTypeOK
  <2>2. r \in T /\ told \in [Requests -> T] /\ call.lost \in BOOLEAN
    BY <1>1 DEF ClientTypeOK
  <2>3. r1 \in T
    <3> HIDE DEF r
    <3> QED  BY <2>2
  <2>4. r2 \in T
    <3> HIDE DEF r1
    <3> QED  BY <2>2, <2>3
  <2> HIDE DEF r2, T
  <2> QED  BY <2>1, <2>2, <2>4 DEF T
<1>3. call' = NoCall /\ call' \in [pc : {"idle", "begin", "waiting", "orphaned"}, kind : Kinds,
                          size : 0 .. MaxChunks, at : 0 .. MaxChunks, lost : BOOLEAN]
  BY DEF Finish, NoCall, Kinds
<1>4. /\ \A n \in Requests \ {count} : told'[n] = told[n]
      /\ told'[count].kind = told[count].kind /\ told'[count].size = told[count].size
      /\ told'[count].abort = told[count].abort /\ told'[count].outcome = o
  BY <1>1 DEF Finish, ClientTypeOK
<1>5. /\ c' \in [client   : BOOLEAN, busy : BOOLEAN,
                 error    : {"None", "success", "transport", "other"},
                 response : Codes \cup {"None", "aborted"},
                 current  : {0} \cup Requests, aborts : BOOLEAN,
                 aborting : BOOLEAN, open : BOOLEAN]
      /\ c'.current = 0 /\ ~c'.aborts /\ ~c'.aborting
  <2>1. CASE c' = c
    BY <1>1, <2>1 DEF ClientTypeOK, CallInv
  <2>2. CASE c' = Closed(c)
    BY <2>2 DEF ClientTypeOK, Closed
  <2> QED  BY <2>1, <2>2 DEF Finish
<1>6. toServer' = toServer /\ toClient' \in {<<>>, toClient} /\ up' \in BOOLEAN
  BY DEF Finish, ClientTypeOK, linkvars
<1>7. toClient' \in Seq(Replies) /\ Len(toClient') <= 1
  <2>1. toClient \in Seq(Replies) /\ Len(toClient) <= 1
    BY DEF ClientTypeOK
  <2>2. <<>> \in Seq(Replies) /\ Len(<<>>) = 0
    OBVIOUS
  <2>3. CASE toClient' = toClient
    BY <2>1, <2>3
  <2>4. CASE toClient' = <<>>
    BY <2>2, <2>4
  <2> QED  BY <1>6, <2>3, <2>4
<1> QED
  BY <1>1, <1>2, <1>3, <1>4, <1>5, <1>6, <1>7 DEF ClientTypeOK, Ended

\* How a method ends.
EndsAs(o) ==
    \/ o = "raised" /\ call.pc = "begin"
    \/ o = "raised" /\ call.pc = "waiting" /\ ~c.busy /\ (c.error # "success" \/ foreign)
    \/ o = c.response /\ call.pc = "waiting" /\ ~c.busy /\ c.error = "success"

\* The methods return or raise in these ways only.
LEMMA ReturnsEnd ==
    ASSUME ClientTypeOK, CallInv,
           \/ BadHeaders \/ Refuse \/ FirstReadFails \/ Return
           \/ foreign /\ BadResponse
    PROVE  ClientTypeOK' /\ \E o \in Codes \cup {"raised", "aborted"} : Ended(o) /\ EndsAs(o)
<1> DEFINE Raises == /\ call' = NoCall
                     /\ told' = [told EXCEPT ![count].outcome = "raised"]
                     /\ UNCHANGED <<c, linkvars>>
<1>1. "raised" \in Codes \cup {"raised", "aborted"}
  OBVIOUS
<1>2. ASSUME Raises, UNCHANGED <<count, sender, finishes>>,
             call.pc = "begin" \/ (call.pc = "waiting" /\ ~c.busy)
      PROVE  ClientTypeOK' /\ Ended("raised")
  <2>1. count \in Requests /\ c.current = 0 /\ ~c.aborts /\ ~c.aborting
    BY <1>2 DEF CallInv, ClientTypeOK
  <2>2. told' \in [Requests -> [kind : Bodies \cup {"other"}, size : 0 .. MaxChunks,
                       lost : BOOLEAN, abort : BOOLEAN,
                       outcome : Codes \cup {"none", "raised", "aborted"}]]
    <3> DEFINE r  == told[count]
               r1 == [r EXCEPT !.outcome = "raised"]
               T  == [kind : Bodies \cup {"other"}, size : 0 .. MaxChunks,
                      lost : BOOLEAN, abort : BOOLEAN,
                      outcome : Codes \cup {"none", "raised", "aborted"}]
    <3>1. told' = [told EXCEPT ![count] = r1]
      BY <1>2, <2>1 DEF ClientTypeOK
    <3>2. r \in T /\ told \in [Requests -> T]
      BY <2>1 DEF ClientTypeOK
    <3>3. r1 \in T
      <4> HIDE DEF r
      <4> QED  BY <3>2
    <3> HIDE DEF r1, T
    <3> QED  BY <3>1, <3>2, <3>3, <2>1 DEF T
  <2>3. call' \in [pc : {"idle", "begin", "waiting", "orphaned"}, kind : Kinds,
                   size : 0 .. MaxChunks, at : 0 .. MaxChunks, lost : BOOLEAN]
    BY <1>2 DEF NoCall, Kinds
  <2>4. /\ \A n \in Requests \ {count} : told'[n] = told[n]
        /\ told'[count].kind = told[count].kind /\ told'[count].size = told[count].size
        /\ told'[count].abort = told[count].abort /\ told'[count].outcome = "raised"
    BY <1>2, <2>1 DEF ClientTypeOK
  <2>5. c' = c /\ up' = up /\ toServer' = toServer /\ toClient' = toClient /\ count' = count
        /\ sender' = sender /\ finishes' = finishes /\ call' = NoCall
    BY <1>2 DEF linkvars
  <2>6. ClientTypeOK'
    BY <2>2, <2>3, <2>5 DEF ClientTypeOK
  <2>7. Ended("raised")
    BY <1>2, <2>1, <2>4, <2>5 DEF Ended
  <2> QED  BY <2>6, <2>7
<1>3. CASE BadHeaders
  <2>1. CASE Raises
    BY <1>1, <1>2, <1>3, <2>1 DEF BadHeaders, EndsAs
  <2>2. CASE Finish("raised")
    BY <1>1, <1>3, <2>2, FinishFields DEF BadHeaders, EndsAs
  <2> QED  BY <1>3, <2>1, <2>2 DEF BadHeaders
<1>4. CASE foreign /\ BadResponse
  <2>1. CASE Raises
    BY <1>1, <1>2, <1>4, <2>1 DEF BadResponse, EndsAs
  <2>2. CASE Finish("raised")
    BY <1>1, <1>4, <2>2, FinishFields DEF BadResponse, EndsAs
  <2> QED  BY <1>4, <2>1, <2>2 DEF BadResponse
<1>5. CASE Refuse \/ FirstReadFails
  BY <1>1, <1>5, FinishFields DEF Refuse, FirstReadFails, EndsAs
<1>6. CASE Return
  <2> DEFINE o == IF c.error = "success" THEN c.response ELSE "raised"
  <2>1. o \in Codes \cup {"raised", "aborted"} /\ EndsAs(o)
    BY <1>6 DEF Return, CallInv, ClientTypeOK, EndsAs
  <2>2. Finish(o) /\ UNCHANGED <<count, sender, finishes>> /\ call.pc = "waiting" /\ ~c.busy
    BY <1>6 DEF Return
  <2> HIDE DEF o
  <2> QED  BY <2>1, <2>2, FinishFields
<1> QED  BY <1>3, <1>4, <1>5, <1>6

\* A request ends with an error.
Fails ==
    \/ SessionError("transport") \/ SessionError("other")
    \/ ~up /\ PerformAbort
    \/ Continue /\ (call.kind = "delete" \/ (call.kind \in Bodies /\ ~up))

\* An error ends the request in progress.
LEMMA FailsOver ==
    ASSUME ClientTypeOK, CallInv, Fails
    PROVE  ClientTypeOK' /\ \E error \in {"transport", "other"} : Over(error, "None")
<1>1. PICK error \in {"transport", "other"} : FinishedCurrentRequest(c, error, "None")
  BY DEF Fails, SessionError, PerformAbort, Continue, Bodies
<1>2. c.current \in Requests /\ finishes \in [Requests -> Nat]
  <2>1. c.current # 0 \/ (toClient # <<>> /\ Reply.of = c.current)
    BY DEF Fails, SessionError, PerformAbort, Continue
  <2>2. c.current \in {0} \cup Requests /\ finishes \in [Requests -> Nat]
    BY DEF ClientTypeOK
  <2> QED  BY <2>1, <2>2, ReplyType
<1>3. toClient' = <<>> /\ toServer' = toServer /\ UNCHANGED <<count, told, sender>>
  BY DEF Fails, SessionError, PerformAbort, Continue, Bodies
<1>4. call' = call \/ \E b \in BOOLEAN : call' = [call EXCEPT !.lost = b]
  BY DEF Fails, SessionError, PerformAbort, Continue, Bodies, WriteBody, ClientTypeOK
<1>5. /\ call'.pc = call.pc /\ call'.kind = call.kind
      /\ call'.size = call.size /\ call'.at = call.at
      /\ call' \in [pc : {"idle", "begin", "waiting", "orphaned"}, kind : Kinds,
                    size : 0 .. MaxChunks, at : 0 .. MaxChunks, lost : BOOLEAN]
  BY <1>4 DEF ClientTypeOK
<1>6. finishes' = [finishes EXCEPT ![c.current] = @ + 1] /\ up' \in BOOLEAN
  BY <1>1 DEF FinishedCurrentRequest, ClientTypeOK
<1>7. Over(error, "None")
  <2>1. /\ c'.current = 0 /\ ~c'.aborts /\ ~c'.aborting /\ ~c'.busy
        /\ c'.error = error /\ c'.response = IF c.aborts THEN "aborted" ELSE "None"
    BY <1>1, FinishedFields
  <2> QED  BY <1>2, <1>3, <1>5, <1>6, <2>1 DEF Over, Requests
<1>8. finishes' \in [Requests -> Nat] /\ <<>> \in Seq(Replies) /\ Len(<<>>) = 0
  BY <1>2, <1>6
<1>9. ClientTypeOK'
  BY <1>1, <1>3, <1>5, <1>6, <1>8, FinishedFields DEF ClientTypeOK
<1> QED  BY <1>7, <1>9

\* So does its final response.
LEMMA FinalOver ==
    ASSUME ClientTypeOK, CallInv, FinalResponse
    PROVE  /\ ClientTypeOK' /\ Over("success", Reply.code)
           /\ toClient # <<>> /\ Reply.of = c.current /\ Reply.code \in Codes
<1>1. toClient # <<>> /\ Reply.of = c.current /\ Reply.code \in Codes /\ Reply.of \in Requests
  BY ReplyType DEF FinalResponse
<1>2. PICK b \in BOOLEAN :
         FinishedCurrentRequest([c EXCEPT !.open = b], "success", Reply.code)
  BY DEF FinalResponse, ClientTypeOK
<1>3. c.current \in Requests /\ finishes \in [Requests -> Nat]
  BY <1>1 DEF ClientTypeOK
<1>4. toClient' = <<>> /\ toServer' = toServer /\ UNCHANGED <<count, told, sender>>
  BY DEF FinalResponse
<1>5. PICK b1 \in BOOLEAN : call' = [call EXCEPT !.lost = b1]
  BY DEF FinalResponse, WriteBody, ClientTypeOK
<1>6. /\ call'.pc = call.pc /\ call'.kind = call.kind
      /\ call'.size = call.size /\ call'.at = call.at
      /\ call' \in [pc : {"idle", "begin", "waiting", "orphaned"}, kind : Kinds,
                    size : 0 .. MaxChunks, at : 0 .. MaxChunks, lost : BOOLEAN]
  BY <1>5 DEF ClientTypeOK
<1>7. finishes' = [finishes EXCEPT ![c.current] = @ + 1] /\ up' \in BOOLEAN
  BY <1>2 DEF FinishedCurrentRequest, ClientTypeOK
<1>8. Over("success", Reply.code)
  <2>1. /\ c'.current = 0 /\ ~c'.aborts /\ ~c'.aborting /\ ~c'.busy
        /\ c'.error = "success"
        /\ c'.response = IF c.aborts THEN "aborted" ELSE Reply.code
    BY <1>1, <1>2, FinishedFields
  <2> QED  BY <1>3, <1>4, <1>6, <1>7, <2>1 DEF Over, Requests
<1>9. finishes' \in [Requests -> Nat] /\ <<>> \in Seq(Replies) /\ Len(<<>>) = 0
  BY <1>3, <1>7
<1>10. ClientTypeOK'
  BY <1>1, <1>2, <1>4, <1>6, <1>7, <1>9, FinishedFields DEF ClientTypeOK
<1> QED  BY <1>1, <1>8, <1>10

\* A method is called: the fields that change.
LEMMA CallFields ==
    ASSUME ClientTypeOK, CallInv, NEW kind \in Kinds, NEW size \in {0, MaxChunks},
           Call(kind, size)
    PROVE  /\ ClientTypeOK'
           /\ \A n \in Requests \ {count + 1} : told'[n] = told[n]
           /\ told'[count + 1].kind = IF kind \in Bodies THEN kind ELSE "other"
           /\ told'[count + 1].size = size
           /\ told'[count + 1].outcome = told[count + 1].outcome
           /\ c'.busy /\ c'.current = c.current
           /\ c'.aborts = c.aborts /\ c'.aborting = c.aborting
<1> DEFINE T  == [kind : Bodies \cup {"other"}, size : 0 .. MaxChunks,
                  lost : BOOLEAN, abort : BOOLEAN,
                  outcome : Codes \cup {"none", "raised", "aborted"}]
           k  == IF kind \in Bodies THEN kind ELSE "other"
           r  == told[count + 1]
           r1 == [r EXCEPT !.kind = k]
           r2 == [r1 EXCEPT !.size = size]
<1>1. count + 1 \in Requests /\ count' = count + 1
  BY DEF Call, ClientTypeOK, Requests
<1>2. r \in T /\ told \in [Requests -> T] /\ k \in Bodies \cup {"other"}
      /\ size \in 0 .. MaxChunks
  BY <1>1 DEF ClientTypeOK
<1>3. r1 \in T /\ r1.kind = k /\ r1.outcome = r.outcome
  <2> HIDE DEF r, k
  <2> QED  BY <1>2
<1>4. r2 \in T /\ r2.kind = k /\ r2.outcome = r.outcome /\ r2.size = size
  <2> HIDE DEF r1, k, r
  <2> QED  BY <1>2, <1>3
<1>5. told' = [told EXCEPT ![count + 1] = r2]
  BY <1>1 DEF Call, ClientTypeOK
<1>6. /\ told' \in [Requests -> T] /\ told'[count + 1] = r2
      /\ \A n \in Requests \ {count + 1} : told'[n] = told[n]
  <2> HIDE DEF r2, T
  <2> QED  BY <1>1, <1>2, <1>4, <1>5
<1>7. /\ c' \in [client   : BOOLEAN, busy : BOOLEAN,
                 error    : {"None", "success", "transport", "other"},
                 response : Codes \cup {"None", "aborted"},
                 current  : {0} \cup Requests, aborts : BOOLEAN,
                 aborting : BOOLEAN, open : BOOLEAN]
      /\ c'.busy /\ c'.current = c.current
      /\ c'.aborts = c.aborts /\ c'.aborting = c.aborting
  BY DEF Call, Reset, ClientTypeOK
<1>8. /\ call' \in [pc : {"idle", "begin", "waiting", "orphaned"}, kind : Kinds,
                    size : 0 .. MaxChunks, at : 0 .. MaxChunks, lost : BOOLEAN]
      /\ count' \in 0 .. MaxRequests
  BY <1>1, <1>2 DEF Call, Requests
<1>9. ClientTypeOK'
  BY <1>6, <1>7, <1>8 DEF Call, ClientTypeOK, linkvars
<1> HIDE DEF r2, k
<1> QED  BY <1>4, <1>6, <1>7, <1>9 DEF k, r

\* The packet that is sent.
Sends(kind, at, last) ==
    toServer' = <<[of |-> count, kind |-> kind,
                   chunk |-> IF kind = "put" /\ at <= call.size THEN at ELSE 0,
                   last |-> last]>>

\* What is known of a packet that was sent.
LEMMA PacketSent ==
    ASSUME ClientTypeOK, count \in Requests, NEW kind \in Kinds \cup {"abort"},
           NEW at \in Nat, NEW last \in BOOLEAN, Sends(kind, at, last)
    PROVE  /\ toServer' \in Seq(Packets) /\ Len(toServer') <= 1 /\ toServer' # <<>>
           /\ Packet'.of = count /\ Packet'.kind = kind /\ Packet'.last = last
           /\ Packet'.chunk = IF kind = "put" /\ at <= call.size THEN at ELSE 0
<1>1. PICK p : p = [of |-> count, kind |-> kind,
                    chunk |-> IF kind = "put" /\ at <= call.size THEN at ELSE 0,
                    last |-> last]
  OBVIOUS
<1>2. p \in Packets
  BY <1>1 DEF Packets, ClientTypeOK
<1>3. toServer' = <<p>>
  BY <1>1 DEF Sends
<1>4. /\ toServer' \in Seq(Packets) /\ Len(toServer') <= 1 /\ toServer' # <<>>
      /\ Head(toServer') = p
  BY <1>2, <1>3
<1> QED  BY <1>1, <1>4 DEF Packet

\* The first packet goes out: the fields that change.
LEMMA BeginFields ==
    ASSUME ClientTypeOK, CallInv, Begin
    PROVE  /\ ClientTypeOK'
           /\ c'.current = count /\ c'.busy /\ c'.aborts = c.aborts
           /\ c'.aborting = c.aborting
           /\ call'.pc = "waiting" /\ call'.kind = call.kind /\ call'.size = call.size
           /\ call'.at = IF call.kind = "put" /\ call.size > 0 THEN 1 ELSE 0
           /\ \E last \in BOOLEAN :
                 /\ Sends(call.kind, call'.at, last)
                 /\ call.kind = "put" => last \in LastChunk(call'.at)
<1>1. PICK at : /\ at = IF call.kind = "put" /\ call.size > 0 THEN 1 ELSE 0
                /\ call' = [call EXCEPT !.pc = "waiting", !.at = at]
                /\ \E last \in IF call.kind = "put" THEN LastChunk(at) ELSE {TRUE} :
                      SendPacket(at, last)
  BY DEF Begin
<1>2. at \in 0 .. MaxChunks /\ count \in Requests /\ call.size >= at
  BY <1>1 DEF ClientTypeOK, CallInv, Begin
<1>3. /\ call'.pc = "waiting" /\ call'.kind = call.kind /\ call'.size = call.size
      /\ call'.at = at
      /\ call' \in [pc : {"idle", "begin", "waiting", "orphaned"}, kind : Kinds,
                    size : 0 .. MaxChunks, at : 0 .. MaxChunks, lost : BOOLEAN]
  BY <1>1, <1>2 DEF ClientTypeOK
<1>4. /\ c' \in [client   : BOOLEAN, busy : BOOLEAN,
                 error    : {"None", "success", "transport", "other"},
                 response : Codes \cup {"None", "aborted"},
                 current  : {0} \cup Requests, aborts : BOOLEAN,
                 aborting : BOOLEAN, open : BOOLEAN]
      /\ c'.current = count /\ c'.busy /\ c'.aborts = c.aborts
      /\ c'.aborting = c.aborting
  BY <1>2 DEF Begin, ClientTypeOK, CallInv
<1>5. PICK last \in BOOLEAN : /\ Sends(call.kind, at, last)
                              /\ call.kind = "put" => last \in LastChunk(at)
  BY <1>1 DEF SendPacket, Sends, LastChunk
<1>6. toServer' \in Seq(Packets) /\ Len(toServer') <= 1
  <2>1. call.kind \in Kinds \cup {"abort"} /\ at \in Nat
    BY <1>2 DEF ClientTypeOK
  <2> QED  BY <1>2, <1>5, <2>1, PacketSent
<1>7. ClientTypeOK'
  BY <1>3, <1>4, <1>6 DEF Begin, ClientTypeOK
<1> QED  BY <1>1, <1>3, <1>4, <1>5, <1>7

\* The Abort goes out: the fields that change.
LEMMA AbortFields ==
    ASSUME ClientTypeOK, CallInv, PerformAbort, up
    PROVE  /\ ClientTypeOK' /\ Sends("abort", 0, TRUE)
           /\ toClient # <<>> /\ toClient' = <<>>
           /\ c.current \in Requests /\ c.current = Reply.of /\ c.aborting
           /\ c'.aborts /\ c'.current = c.current /\ c'.busy = c.busy
           /\ c'.aborting = c.aborting /\ c'.error = c.error /\ c'.response = c.response
           /\ UNCHANGED <<call, count, told, sender, finishes>>
<1>1. /\ c' = [c EXCEPT !.aborts = TRUE]
      /\ toClient # <<>> /\ toClient' = <<>> /\ c.aborting /\ Reply.of = c.current
      /\ up' = up /\ UNCHANGED <<call, count, told, sender, finishes>>
  BY DEF PerformAbort
<1>2. c.current \in Requests
  BY <1>1, ReplyType
<1>3. /\ c' \in [client   : BOOLEAN, busy : BOOLEAN,
                 error    : {"None", "success", "transport", "other"},
                 response : Codes \cup {"None", "aborted"},
                 current  : {0} \cup Requests, aborts : BOOLEAN,
                 aborting : BOOLEAN, open : BOOLEAN]
      /\ c'.aborts /\ c'.current = c.current /\ c'.busy = c.busy
      /\ c'.aborting = c.aborting /\ c'.error = c.error /\ c'.response = c.response
  BY <1>1 DEF ClientTypeOK
<1>4. Sends("abort", 0, TRUE)
  BY DEF PerformAbort, Sends
<1>5. toServer' \in Seq(Packets) /\ Len(toServer') <= 1
  <2>1. count \in Requests
    BY <1>2 DEF CallInv, Requests
  <2>2. "abort" \in Kinds \cup {"abort"} /\ 0 \in Nat /\ TRUE \in BOOLEAN
    OBVIOUS
  <2> QED  BY <1>4, <2>1, <2>2, PacketSent
<1>6. <<>> \in Seq(Replies) /\ Len(<<>>) = 0
  OBVIOUS
<1>7. ClientTypeOK'
  BY <1>1, <1>3, <1>5, <1>6 DEF ClientTypeOK
<1> QED  BY <1>1, <1>2, <1>3, <1>4, <1>7

\* The next packet goes out: the fields that change.
LEMMA ContinueFields ==
    ASSUME ClientTypeOK, CallInv, Continue, up, call.kind \in Bodies
    PROVE  /\ ClientTypeOK'
           /\ toClient # <<>> /\ toClient' = <<>>
           /\ c.current \in Requests /\ c.current = Reply.of /\ Reply.code = "continue"
           /\ ~c.aborting
           /\ call'.pc = call.pc /\ call'.kind = call.kind /\ call'.size = call.size
           /\ call'.at = IF call.kind # "get" /\ call.at < call.size
                         THEN call.at + 1 ELSE call.at
           /\ \E last \in BOOLEAN :
                 /\ Sends(call.kind, call.at + 1, last)
                 /\ call.kind = "put" => last \in LastChunk(call.at + 1)
           /\ UNCHANGED <<c, count, told, sender, finishes>>
<1>1. /\ toClient # <<>> /\ toClient' = <<>> /\ ~c.aborting /\ Reply.of = c.current
      /\ Reply.code = "continue"
      /\ up' = up /\ UNCHANGED <<c, count, told, sender, finishes>>
  BY DEF Continue, Bodies
<1>2. c.current \in Requests /\ count \in Requests
  <2>1. c.current \in Requests
    BY <1>1, ReplyType
  <2> QED  BY <2>1 DEF CallInv, Requests
<1>3. \/ \E b \in BOOLEAN : call' = [call EXCEPT !.lost = b] /\ call.kind = "get"
      \/ call' = [call EXCEPT !.at = IF @ < call.size THEN @ + 1 ELSE @] /\ call.kind # "get"
  BY DEF Continue, WriteBody, ClientTypeOK, Bodies
<1>4. /\ call'.pc = call.pc /\ call'.kind = call.kind /\ call'.size = call.size
      /\ call'.at = IF call.kind # "get" /\ call.at < call.size
                    THEN call.at + 1 ELSE call.at
      /\ call' \in [pc : {"idle", "begin", "waiting", "orphaned"}, kind : Kinds,
                    size : 0 .. MaxChunks, at : 0 .. MaxChunks, lost : BOOLEAN]
  <2>1. /\ call.at \in 0 .. MaxChunks /\ call.size \in 0 .. MaxChunks
        /\ call \in [pc : {"idle", "begin", "waiting", "orphaned"}, kind : Kinds,
                     size : 0 .. MaxChunks, at : 0 .. MaxChunks, lost : BOOLEAN]
    BY DEF ClientTypeOK
  <2>2. PICK at : at = IF call.at < call.size THEN call.at + 1 ELSE call.at
    OBVIOUS
  <2>3. at \in 0 .. MaxChunks
    BY <2>1, <2>2
  <2>4. CASE \E b \in BOOLEAN : call' = [call EXCEPT !.lost = b] /\ call.kind = "get"
    BY <2>1, <2>4
  <2>5. CASE call' = [call EXCEPT !.at = at] /\ call.kind # "get"
    BY <2>1, <2>2, <2>3, <2>5
  <2> QED  BY <1>3, <2>2, <2>4, <2>5
<1>5. PICK last \in BOOLEAN : /\ Sends(call.kind, call.at + 1, last)
                              /\ call.kind = "put" => last \in LastChunk(call.at + 1)
  BY DEF Continue, SendPacket, Sends, LastChunk, Bodies
<1>6. toServer' \in Seq(Packets) /\ Len(toServer') <= 1
  <2>1. call.kind \in Kinds \cup {"abort"} /\ call.at + 1 \in Nat
    BY DEF ClientTypeOK
  <2> QED  BY <1>2, <1>5, <2>1, PacketSent
<1>7. <<>> \in Seq(Replies) /\ Len(<<>>) = 0
  OBVIOUS
<1>8. ClientTypeOK'
  BY <1>1, <1>4, <1>6, <1>7 DEF ClientTypeOK
<1> QED  BY <1>1, <1>2, <1>4, <1>5, <1>8

\* An abort is asked for: the fields that change.
LEMMA AskFields ==
    ASSUME ClientTypeOK, CallInv, AbortCurrentRequest
    PROVE  /\ ClientTypeOK'
           /\ c.current = count /\ count \in Requests /\ ~c.aborts
           /\ c'.aborting /\ c'.aborts = c.aborts /\ c'.current = c.current
           /\ c'.busy = c.busy /\ c'.error = c.error /\ c'.response = c.response
           /\ \A n \in Requests : /\ told'[n].kind = told[n].kind
                                  /\ told'[n].size = told[n].size
                                  /\ told'[n].outcome = told[n].outcome
                                  /\ told[n].abort => told'[n].abort
           /\ told'[count].abort
<1> DEFINE T  == [kind : Bodies \cup {"other"}, size : 0 .. MaxChunks,
                  lost : BOOLEAN, abort : BOOLEAN,
                  outcome : Codes \cup {"none", "raised", "aborted"}]
           r  == told[count]
           r1 == [r EXCEPT !.abort = TRUE]
<1>1. c.current = count /\ count \in Requests /\ ~c.aborts
  BY DEF AbortCurrentRequest, CallInv, Requests
<1>2. r \in T /\ told \in [Requests -> T]
  BY <1>1 DEF ClientTypeOK
<1>3. /\ r1 \in T /\ r1.kind = r.kind /\ r1.size = r.size
      /\ r1.outcome = r.outcome /\ r1.abort
  <2> HIDE DEF r
  <2> QED  BY <1>2
<1>4. told' = [told EXCEPT ![count] = r1]
  BY <1>1 DEF AbortCurrentRequest, ClientTypeOK
<1>5. /\ told' \in [Requests -> T] /\ told'[count] = r1
      /\ \A n \in Requests \ {count} : told'[n] = told[n]
  <2> HIDE DEF r1, T
  <2> QED  BY <1>1, <1>2, <1>3, <1>4
<1>6. /\ c' \in [client   : BOOLEAN, busy : BOOLEAN,
                 error    : {"None", "success", "transport", "other"},
                 response : Codes \cup {"None", "aborted"},
                 current  : {0} \cup Requests, aborts : BOOLEAN,
                 aborting : BOOLEAN, open : BOOLEAN]
      /\ c'.aborting /\ c'.aborts = c.aborts /\ c'.current = c.current
      /\ c'.busy = c.busy /\ c'.error = c.error /\ c'.response = c.response
  BY DEF AbortCurrentRequest, ClientTypeOK
<1>7. ClientTypeOK'
  BY <1>5, <1>6 DEF AbortCurrentRequest, ClientTypeOK, linkvars
<1>8. \A n \in Requests : /\ told'[n].kind = told[n].kind
                          /\ told'[n].size = told[n].size
                          /\ told'[n].outcome = told[n].outcome
                          /\ told[n].abort => told'[n].abort
  <2> HIDE DEF r1
  <2> QED  BY <1>3, <1>5
<1> QED
  <2> HIDE DEF r1
  <2> QED  BY <1>1, <1>3, <1>5, <1>6, <1>7, <1>8

\* A delegate makes a request: the fields that change.
LEMMA DelegateFields ==
    ASSUME ClientTypeOK, CallInv, NEW kind \in Kinds, RequestInDelegate(kind)
    PROVE  /\ ClientTypeOK'
           /\ count' = count + 1 /\ count \in Requests /\ count + 1 \in Requests
           /\ \A n \in Requests \ {count, count + 1} : told'[n] = told[n]
           /\ told'[count].kind = told[count].kind /\ told'[count].size = told[count].size
           /\ told'[count].abort = told[count].abort
           /\ told'[count].outcome =
                IF c.error = "success" THEN c.response ELSE "raised"
           /\ told'[count + 1].kind = IF kind \in Bodies THEN kind ELSE "other"
           /\ told'[count + 1].size = told[count + 1].size
           /\ told'[count + 1].abort = told[count + 1].abort
           /\ told'[count + 1].outcome = told[count + 1].outcome
           /\ c'.busy /\ c'.current = 0 /\ ~c'.aborts /\ ~c'.aborting
           /\ call'.pc = "orphaned" /\ call'.kind = kind /\ call'.size = 0 /\ call'.at = 0
           /\ toServer' # <<>> /\ Packet'.of = count + 1 /\ Packet'.kind = kind
           /\ Packet'.chunk = 0
           /\ finishes' = finishes /\ toClient' = toClient
<1> DEFINE T  == [kind : Bodies \cup {"other"}, size : 0 .. MaxChunks,
                  lost : BOOLEAN, abort : BOOLEAN,
                  outcome : Codes \cup {"none", "raised", "aborted"}]
           k  == IF kind \in Bodies THEN kind ELSE "other"
           o  == IF c.error = "success" THEN c.response ELSE "raised"
           r  == told[count]
           r1 == [r EXCEPT !.outcome = o]
           r2 == [r1 EXCEPT !.lost = call.lost]
           q  == told[count + 1]
           q1 == [q EXCEPT !.kind = k]
<1>1. /\ call.pc = "waiting" /\ ~c.busy /\ count \in Requests /\ count + 1 \in Requests
      /\ count' = count + 1 /\ c.current = 0 /\ ~c.aborts /\ ~c.aborting
  BY DEF RequestInDelegate, CallInv, ClientTypeOK, Requests
<1>2. /\ r \in T /\ q \in T /\ told \in [Requests -> T] /\ k \in Bodies \cup {"other"}
      /\ call.lost \in BOOLEAN /\ o \in Codes \cup {"none", "raised", "aborted"}
  <2>1. o \in Codes \cup {"none", "raised", "aborted"}
    BY <1>1 DEF CallInv, ClientTypeOK
  <2> HIDE DEF o
  <2> QED  BY <1>1, <2>1 DEF ClientTypeOK
<1>3. r1 \in T /\ r1.kind = r.kind /\ r1.size = r.size /\ r1.abort = r.abort /\ r1.outcome = o
  <2> HIDE DEF r, o
  <2> QED  BY <1>2
<1>4. r2 \in T /\ r2.kind = r.kind /\ r2.size = r.size /\ r2.abort = r.abort /\ r2.outcome = o
  <2> HIDE DEF r1, o, r
  <2> QED  BY <1>2, <1>3
<1>5. q1 \in T /\ q1.kind = k /\ q1.size = q.size /\ q1.abort = q.abort
      /\ q1.outcome = q.outcome
  <2> HIDE DEF q, k
  <2> QED  BY <1>2
<1>6. told' = [[told EXCEPT ![count] = r2] EXCEPT ![count + 1] = q1]
  <2>1. told' = [told EXCEPT ![count].outcome = o, ![count].lost = call.lost,
                             ![count + 1].kind = k]
    BY <1>1 DEF RequestInDelegate
  <2>2. told' = [[[told EXCEPT ![count] = r1] EXCEPT ![count].lost = call.lost]
                   EXCEPT ![count + 1].kind = k]
    <3> HIDE DEF o, k
    <3> QED  BY <2>1, <1>1, <1>2
  <2>3. [[told EXCEPT ![count] = r1] EXCEPT ![count].lost = call.lost]
          = [told EXCEPT ![count] = r2]
    <3> HIDE DEF r1, T
    <3> QED  BY <1>1, <1>2, <1>3
  <2>4. [told EXCEPT ![count] = r2][count + 1] = q
    <3>1. count # count + 1
      BY <1>1 DEF Requests
    <3> HIDE DEF r2, T
    <3> QED  BY <1>1, <1>2, <3>1
  <2> DEFINE f == [told EXCEPT ![count] = r2]
  <2>5. told' = [f EXCEPT ![count + 1].kind = k]
    BY <2>2, <2>3, Zenon
  <2>6. f[count + 1] = q
    BY <2>4
  <2> HIDE DEF f, q
  <2>7. told' = [f EXCEPT ![count + 1] = q1]
    BY <2>5, <2>6
  <2> QED  BY <2>7 DEF f
<1>7. /\ told' \in [Requests -> T] /\ told'[count] = r2 /\ told'[count + 1] = q1
      /\ \A n \in Requests \ {count, count + 1} : told'[n] = told[n]
  <2>1. count # count + 1
    BY <1>1 DEF Requests
  <2> HIDE DEF r2, q1, T
  <2> QED  BY <1>1, <1>2, <1>4, <1>5, <1>6, <2>1
<1>8. /\ c' \in [client   : BOOLEAN, busy : BOOLEAN,
                 error    : {"None", "success", "transport", "other"},
                 response : Codes \cup {"None", "aborted"},
                 current  : {0} \cup Requests, aborts : BOOLEAN,
                 aborting : BOOLEAN, open : BOOLEAN]
      /\ c'.busy /\ c'.current = 0 /\ ~c'.aborts /\ ~c'.aborting
  BY <1>1 DEF RequestInDelegate, Reset, ClientTypeOK
<1>9. /\ call' \in [pc : {"idle", "begin", "waiting", "orphaned"}, kind : Kinds,
                    size : 0 .. MaxChunks, at : 0 .. MaxChunks, lost : BOOLEAN]
      /\ call'.pc = "orphaned" /\ call'.kind = kind /\ call'.size = 0 /\ call'.at = 0
      /\ count' \in 0 .. MaxRequests
  BY <1>1 DEF RequestInDelegate, Requests
<1>10. PICK p : p = [of |-> count + 1, kind |-> kind, chunk |-> 0, last |-> TRUE]
  OBVIOUS
<1>11. p \in Packets /\ p.of = count + 1 /\ p.kind = kind /\ p.chunk = 0
  BY <1>1, <1>10 DEF Packets
<1>12. toServer' = <<p>>
  BY <1>1, <1>10 DEF RequestInDelegate
<1>13. /\ toServer' \in Seq(Packets) /\ Len(toServer') <= 1 /\ toServer' # <<>>
       /\ Packet' = p
  BY <1>11, <1>12 DEF Packet
<1>14. sender' = sender /\ finishes' = finishes /\ up' = up /\ toClient' = toClient
  BY DEF RequestInDelegate
<1>15. ClientTypeOK'
  BY <1>7, <1>8, <1>9, <1>13, <1>14 DEF ClientTypeOK
<1> HIDE DEF r2, q1, k, o
<1> QED  BY <1>1, <1>4, <1>5, <1>7, <1>8, <1>9, <1>11, <1>13, <1>14, <1>15 DEF k, o, r, q

-----------------------------------------------------------------------------
(* The actions of the client preserve the invariant. *)

\* What an action that leaves the server alone preserves.
Aside == UNCHANGED <<servervars, foreign>>

\* What is said of the server alone stays true.
LEMMA AsideFields ==
    ASSUME Aside
    PROVE  /\ server' = server /\ written' = written /\ notify' = notify /\ pc' = pc
           /\ result' = result /\ foreign' = foreign
           /\ ServerTypeOK => ServerTypeOK'
           /\ ServerInv => ServerInv'
           /\ \A n, size : IsInFile(n, size) => IsInFile(n, size)'
<1>1. /\ server' = server /\ written' = written /\ notify' = notify /\ pc' = pc
      /\ result' = result /\ foreign' = foreign
  BY DEF Aside, servervars
<1>2. ServerTypeOK => ServerTypeOK'
  BY <1>1 DEF ServerTypeOK
<1>3. ServerInv => ServerInv'
  BY <1>1 DEF ServerInv
<1>4. \A n, size : IsInFile(n, size) => IsInFile(n, size)'
  BY <1>1 DEF IsInFile
<1> QED  BY <1>1, <1>2, <1>3, <1>4

\* A request whose chunks end the file is in it in one piece.
LEMMA EndsIn ==
    ASSUME ServerTypeOK, NEW n, NEW k \in Nat, EndsWith(written, n, k)
    PROVE  IsInFile(n, k)
<1>1. Len(written) \in Nat /\ DOMAIN written = 1 .. Len(written)
  BY DEF ServerTypeOK
<1>2. PICK b : b = Len(written) - k
  OBVIOUS
<1>3. b \in 0 .. Len(written) - k
  BY <1>1, <1>2 DEF EndsWith
<1>4. \A i \in 1 .. k : written[b + i] = <<n, i>>
  BY <1>1, <1>2 DEF EndsWith
<1>5. \A j \in DOMAIN written : written[j][1] = n => j \in b + 1 .. b + k
  BY <1>1, <1>2, <1>3 DEF EndsWith
<1> QED  BY <1>3, <1>4, <1>5 DEF IsInFile

\* A method is called: nothing of the new request is anywhere.
LEMMA CallKeeps ==
    ASSUME IInv, NEW kind \in Kinds, NEW size \in {0, MaxChunks}, Call(kind, size), Aside
    PROVE  IInv'
<1>1. /\ ClientTypeOK /\ ServerTypeOK /\ CallInv /\ TimesInv /\ LinkInv /\ ServerInv
      /\ GotInv
  BY DEF IInv, TypeOK
<1>2. /\ ClientTypeOK' /\ count' = count + 1 /\ count + 1 \in Requests /\ call.pc = "idle"
      /\ \A n \in Requests \ {count + 1} : told'[n] = told[n]
      /\ told'[count + 1].kind = IF kind \in Bodies THEN kind ELSE "other"
      /\ told'[count + 1].size = size
      /\ told'[count + 1].outcome = told[count + 1].outcome
      /\ c'.busy /\ c'.current = c.current
      /\ c'.aborts = c.aborts /\ c'.aborting = c.aborting
      /\ finishes' = finishes /\ toServer' = toServer /\ toClient' = toClient
  <2>1. /\ count' = count + 1 /\ count + 1 \in Requests /\ call.pc = "idle"
        /\ finishes' = finishes /\ toServer' = toServer /\ toClient' = toClient
    BY <1>1 DEF Call, ClientTypeOK, Requests, linkvars
  <2>2. CallInv
    BY <1>1
  <2> QED  BY <1>1, <2>1, <2>2, CallFields
<1>3. /\ call'.pc = "begin" /\ call'.kind = kind /\ call'.size = size /\ call'.at = 0
      /\ (size > 0 => kind = "put")
  BY DEF Call
<1>4. count \in Nat /\ told[count + 1].outcome = "none" /\ c.current = 0
  BY <1>1, <1>2 DEF ClientTypeOK, CallInv
<1>5. TypeOK'
  <2>1. foreign \in BOOLEAN
    BY DEF IInv, TypeOK
  <2> QED  BY <1>1, <1>2, <2>1, AsideFields DEF TypeOK
<1>6. CallInv'
  <2>1. 0 <= size
    BY DEF ObexClientAssumption
  <2>2. \A n \in Requests : /\ n > count' => told'[n].outcome = "none" /\ told'[n].size = 0
                            /\ told'[n].outcome = "aborted" => told'[n].abort
    <3>1. \A n \in Requests : /\ n > count => told[n].outcome = "none" /\ told[n].size = 0
                              /\ told[n].outcome = "aborted" => told[n].abort
      BY <1>1 DEF CallInv
    <3> QED  BY <1>2, <1>4, <3>1 DEF Requests
  <2> QED  BY <1>1, <1>2, <1>3, <1>4, <2>1, <2>2 DEF CallInv
<1>7. TimesInv'
  BY <1>1, <1>2, <1>3, <1>4 DEF TimesInv, Requests
<1>8. \A n \in Requests : Dead(n) => Dead(n)' /\ n # count + 1
  BY <1>1, <1>2, <1>3, <1>4 DEF Dead
<1>9. LinkInv'
  <2>1. toServer # <<>> => Packet.of \in Requests
    BY <1>1, PacketType
  <2>2. toClient # <<>> => Reply.of <= count /\ Reply.of \in Nat
    BY <1>1, ReplyType DEF LinkInv, Requests
  <2> QED  BY <1>1, <1>2, <1>3, <1>4, <1>8, <2>1, <2>2 DEF LinkInv, Packet, Reply, Replied
<1>10. GotInv'
  <2>1. server' = server
    BY AsideFields
  <2>2. \A m \in Requests : Spared(m) => Spared(m)'
    BY <1>1, <1>2, <1>4 DEF Spared, Requests
  <2> QED  BY <1>1, <1>2, <1>4, <2>1, <2>2 DEF GotInv, Requests
<1>11. ASSUME FileInv PROVE FileInv'
  <2>1. written' = written /\ server' = server
    BY AsideFields
  <2>2. ChunksInv'
    <3>1. \A j \in DOMAIN written : written[j][1] \in Requests
      BY <1>1 DEF ServerTypeOK
    <3> QED  BY <1>2, <1>3, <1>4, <1>11, <2>1, <3>1 DEF FileInv, ChunksInv, Requests
  <2>3. PacketInv'
    BY <1>2, <1>4 DEF PacketInv
  <2>4. ToldInv'
    <3>1. \A n \in Requests : Accepted(n)' => Accepted(n) /\ n # count + 1
      BY <1>2, <1>3, <1>4 DEF Accepted
    <3> QED  BY <1>2, <1>11, <2>1, <3>1, AsideFields DEF FileInv, ToldInv
  <2> QED  BY <2>2, <2>3, <2>4 DEF FileInv
<1> QED  BY <1>1, <1>5, <1>6, <1>7, <1>9, <1>10, <1>11, AsideFields DEF IInv

\* A method returns: what is still on its way is of a request that has had an error.
LEMMA EndedKeeps ==
    ASSUME IInv, ClientTypeOK', NEW o \in Codes \cup {"raised", "aborted"},
           Ended(o), EndsAs(o), Aside
    PROVE  IInv'
<1>1. /\ ClientTypeOK /\ ServerTypeOK /\ CallInv /\ TimesInv /\ LinkInv /\ ServerInv
      /\ GotInv
  BY DEF IInv, TypeOK
<1>2. /\ call.pc # "idle" /\ count \in Requests
      /\ call'.pc = "idle" /\ call'.size = 0 /\ call'.at = 0
      /\ \A n \in Requests \ {count} : told'[n] = told[n]
      /\ told'[count].kind = told[count].kind /\ told'[count].size = told[count].size
      /\ told'[count].abort = told[count].abort /\ told'[count].outcome = o
      /\ c.current = 0 /\ c'.current = 0 /\ ~c'.aborts /\ ~c'.aborting
      /\ toServer' = toServer /\ toClient' \in {<<>>, toClient}
      /\ count' = count /\ finishes' = finishes /\ told[count].outcome = "none"
  BY <1>1 DEF Ended, CallInv, NoCall
<1>3. o = "aborted" => told[count].abort
  BY <1>1 DEF EndsAs, CallInv
<1>4. TypeOK'
  <2>1. foreign \in BOOLEAN
    BY DEF IInv, TypeOK
  <2> QED  BY <1>1, <2>1, AsideFields DEF TypeOK
<1>5. CallInv'
  <2>1. \A n \in Requests : /\ n > count' => told'[n].outcome = "none" /\ told'[n].size = 0
                            /\ told'[n].outcome = "aborted" => told'[n].abort
    <3>1. \A n \in Requests : /\ n > count => told[n].outcome = "none" /\ told[n].size = 0
                              /\ told[n].outcome = "aborted" => told[n].abort
      BY <1>1 DEF CallInv
    <3> QED  BY <1>2, <1>3, <3>1 DEF Requests
  <2> QED  BY <1>2, <2>1 DEF CallInv
<1>6. TimesInv'
  BY <1>1, <1>2 DEF TimesInv
<1>7. \A n \in Requests : Dead(n) => Dead(n)'
  BY <1>1, <1>2 DEF Dead, EndsAs
<1>8. LinkInv'
  <2>1. toServer # <<>> => Packet.of \in Requests
    BY <1>1, PacketType
  <2> QED  BY <1>1, <1>2, <1>7, <2>1 DEF LinkInv, Packet, Reply, Replied
<1>9. GotInv'
  <2>1. server' = server
    BY AsideFields
  <2>2. \A m \in Requests : Spared(m) => Spared(m)'
    BY <1>1, <1>2 DEF Spared, EndsAs
  <2> QED  BY <1>1, <1>2, <2>1, <2>2 DEF GotInv, Requests
<1>10. ASSUME FileInv, ~foreign PROVE FileInv'
  <2>1. written' = written /\ server' = server
    BY AsideFields
  <2>2. ChunksInv'
    BY <1>2, <1>10, <2>1 DEF FileInv, ChunksInv
  <2>3. PacketInv'
    BY <1>2 DEF PacketInv
  <2>4. ToldInv'
    <3>1. \A n \in Requests : Accepted(n)' => Accepted(n)
      BY <1>2 DEF Accepted, EndsAs
    <3> QED  BY <1>2, <1>10, <2>1, <3>1, AsideFields DEF FileInv, ToldInv
  <2> QED  BY <2>2, <2>3, <2>4 DEF FileInv
<1> QED  BY <1>1, <1>4, <1>5, <1>6, <1>8, <1>9, <1>10, AsideFields DEF IInv

\* A request ends: an OK to a Put was answered when its last chunk was written.
LEMMA OverKeeps ==
    ASSUME IInv, ClientTypeOK', NEW error \in {"success", "transport", "other"},
           NEW code \in Codes \cup {"None"}, Over(error, code), Aside,
           error = "success" =>
              toClient # <<>> /\ Reply.of = c.current /\ Reply.code = code /\ code \in Codes
    PROVE  IInv'
<1>1. /\ ClientTypeOK /\ ServerTypeOK /\ CallInv /\ TimesInv /\ LinkInv /\ ServerInv
      /\ GotInv
  BY DEF IInv, TypeOK
<1>2. /\ c.current = count /\ count \in Requests /\ call.pc = "waiting" /\ c.busy
      /\ c'.current = 0 /\ ~c'.aborts /\ ~c'.aborting /\ ~c'.busy
      /\ c'.error = error /\ c'.response = IF c.aborts THEN "aborted" ELSE code
      /\ call'.pc = call.pc /\ call'.kind = call.kind
      /\ call'.size = call.size /\ call'.at = call.at
      /\ toServer' = toServer /\ toClient' = <<>>
      /\ count' = count /\ told' = told /\ told[count].outcome = "none"
  BY <1>1 DEF Over, CallInv
<1>3. finishes' = [finishes EXCEPT ![count] = @ + 1] /\ finishes \in [Requests -> Nat]
  BY <1>1, <1>2 DEF Over, ClientTypeOK
<1>4. TypeOK'
  <2>1. foreign \in BOOLEAN
    BY DEF IInv, TypeOK
  <2> QED  BY <1>1, <2>1, AsideFields DEF TypeOK
<1>5. CallInv'
  <2>1. error = "success" => c'.response # "None" /\ (c'.response = "aborted" => c.aborts)
    BY <1>2 DEF Codes
  <2> QED  BY <1>1, <1>2, <2>1 DEF CallInv
<1>6. TimesInv'
  BY <1>1, <1>2, <1>3 DEF TimesInv, Requests
<1>7. LinkInv'
  <2>1. toServer # <<>> => error # "success" /\ Packet.of = count
    BY <1>1, <1>2 DEF LinkInv, Replied, Requests
  <2> QED  BY <1>1, <1>2, <2>1 DEF LinkInv, Packet, Reply, Dead
<1>8. GotInv'
  <2>1. server' = server
    BY AsideFields
  <2>2. \A m \in Requests : Spared(m) /\ (c.current = m => ~(error = "success" /\ c.aborts))
                              => Spared(m)'
    BY <1>1, <1>2 DEF Spared, Codes
  <2>3. \A m \in Requests : (c.current = m /\ c.aborts => ~Replied(m)) /\ error = "success"
                              => (c.current = m => ~c.aborts)
    BY DEF Replied
  <2>4. server.definitely => \E m \in Requests : Spared(m)'
    BY <1>1, <2>2, <2>3 DEF GotInv
  <2>5. server.gotfile => \E m \in Requests : Spared(m)'
    BY <1>1, <2>2 DEF GotInv
  <2> QED  BY <1>2, <2>1, <2>4, <2>5 DEF GotInv, Requests
<1>9. ASSUME FileInv PROVE FileInv'
  <2>1. written' = written /\ server' = server
    BY AsideFields
  <2>2. ChunksInv'
    BY <1>2, <1>9, <2>1 DEF FileInv, ChunksInv
  <2>3. PacketInv'
    BY <1>2 DEF PacketInv
  <2>4. ASSUME NEW n \in Requests, Accepted(n)', told'[n].kind = "put"
        PROVE  (IsInFile(n, told[n].size) /\ server.gotfile)'
    <3>1. CASE Accepted(n)
      BY <1>2, <1>9, <2>1, <2>4, <3>1, AsideFields DEF FileInv, ToldInv
    <3>2. CASE ~Accepted(n)
      <4>1. n = count /\ error = "success" /\ ~c.aborts /\ code = "ok"
        BY <1>2, <2>4, <3>2 DEF Accepted
      <4>2. call.kind = "put" /\ told[count].size = call.size
        BY <1>1, <1>2, <2>4, <4>1 DEF CallInv, Bodies
      <4>3. EndsWith(written, count, call.size) /\ server.gotfile
        BY <1>2, <1>9, <4>1, <4>2 DEF FileInv, PacketInv, Replied, Requests
      <4>4. IsInFile(count, call.size)
        BY <1>1, <4>3, EndsIn DEF ClientTypeOK
      <4> QED  BY <1>2, <2>1, <4>1, <4>2, <4>3, <4>4, AsideFields
    <3> QED  BY <3>1, <3>2
  <2>5. ToldInv'
    BY <2>4 DEF ToldInv
  <2> QED  BY <2>2, <2>3, <2>5 DEF FileInv
<1> QED  BY <1>1, <1>4, <1>5, <1>6, <1>7, <1>8, <1>9, AsideFields DEF IInv

\* A request begins: its first packet finds a file without its chunks.
LEMMA BeginKeeps ==
    ASSUME IInv, Begin, Aside
    PROVE  IInv'
<1>1. /\ ClientTypeOK /\ ServerTypeOK /\ CallInv /\ TimesInv /\ LinkInv /\ ServerInv
      /\ GotInv
  BY DEF IInv, TypeOK
<1>2. /\ call.pc = "begin" /\ count \in Requests /\ c.current = 0 /\ ~c.aborting
      /\ ~c.aborts
      /\ told[count].kind = IF call.kind \in Bodies THEN call.kind ELSE "other"
  BY <1>1 DEF Begin, CallInv
<1>3. /\ ClientTypeOK'
      /\ c'.current = count /\ c'.busy /\ ~c'.aborts /\ ~c'.aborting
      /\ call'.pc = "waiting" /\ call'.kind = call.kind /\ call'.size = call.size
      /\ call'.at = IF call.kind = "put" /\ call.size > 0 THEN 1 ELSE 0
  BY <1>1, <1>2, BeginFields
<1>4. PICK last \in BOOLEAN : /\ Sends(call.kind, call'.at, last)
                              /\ call.kind = "put" => last \in LastChunk(call'.at)
  BY <1>1, BeginFields
<1>5. /\ count' = count /\ told' = told /\ finishes' = finishes /\ toClient' = toClient
  BY DEF Begin
<1>6. PICK at : at = call'.at
  OBVIOUS
<1>7. at \in Nat /\ at <= call.size /\ call.size \in 0 .. MaxChunks
      /\ call.kind \in Kinds
  BY <1>1, <1>3, <1>6 DEF ClientTypeOK
<1>8. /\ toServer' # <<>> /\ Packet'.of = count /\ Packet'.kind = call.kind
      /\ Packet'.last = last /\ Packet'.chunk = IF call.kind = "put" THEN at ELSE 0
  <2>1. Sends(call.kind, at, last) /\ call.kind \in Kinds \cup {"abort"}
    BY <1>4, <1>6, <1>7
  <2> QED  BY <1>1, <1>2, <1>7, <2>1, PacketSent
<1>9. TypeOK'
  <2>1. foreign \in BOOLEAN
    BY DEF IInv, TypeOK
  <2> QED  BY <1>1, <1>3, <2>1, AsideFields DEF TypeOK
<1>10. CallInv'
  BY <1>1, <1>2, <1>3, <1>5, <1>6, <1>7 DEF CallInv
<1>11. TimesInv'
  BY <1>1, <1>2, <1>3, <1>5 DEF TimesInv
<1>12. toClient # <<>> => Reply.of <= count /\ Reply.of # count
  BY <1>1, <1>2 DEF LinkInv
<1>13. ~Replied(count)'
  BY <1>5, <1>12 DEF Replied, Reply
<1>14. LinkInv'
  <2>1. /\ Packet'.of = c'.current
        /\ IF Packet'.kind = "put" THEN told'[Packet'.of].kind = "put" ELSE Packet'.chunk = 0
    BY <1>2, <1>3, <1>5, <1>8 DEF Bodies
  <2>2. toClient' # <<>> => Reply'.of <= count' /\ (Reply'.of = count' => call'.pc # "begin")
    BY <1>3, <1>5, <1>12 DEF Reply
  <2>3. Packet'.kind = call'.kind
    BY <1>3, <1>8
  <2>4. ASSUME call'.kind = "put"
        PROVE  /\ Packet'.chunk = 0 => call'.at = call'.size
               /\ Packet'.chunk > 0 => call'.at = Packet'.chunk
               /\ Packet'.last /\ ~ShortReads => call'.at = call'.size
    <3>1. last \in LastChunk(at)
      BY <1>3, <1>4, <1>6, <2>4
    <3>2. at < call.size => (last => ShortReads)
      BY <3>1 DEF LastChunk
    <3>3. at = IF call.size > 0 THEN 1 ELSE 0
      BY <1>3, <1>6, <2>4
    <3>4. Packet'.chunk = at /\ Packet'.last = last /\ call'.size = call.size
          /\ call'.at = at
      BY <1>3, <1>6, <1>8, <2>4
    <3> QED  BY <1>7, <3>2, <3>3, <3>4
  <2>5. c'.current # 0
    BY <1>2, <1>3 DEF Requests
  <2>6. ~(toClient' # <<>> /\ Reply'.of = c'.current)
    BY <1>3, <1>5, <1>13 DEF Replied
  <2> QED  BY <1>3, <1>8, <2>1, <2>2, <2>3, <2>4, <2>5, <2>6 DEF LinkInv, Replied
<1>15. GotInv'
  <2>1. server' = server
    BY AsideFields
  <2>2. \A m \in Requests : Spared(m) => Spared(m)' /\ m # count
    BY <1>2, <1>3, <1>5 DEF Spared
  <2> QED  BY <1>1, <1>3, <2>1, <2>2 DEF GotInv
<1>16. ASSUME FileInv PROVE FileInv'
  <2>1. written' = written /\ server' = server
    BY AsideFields
  <2>2. ChunksInv'
    BY <1>3, <1>5, <1>16, <2>1 DEF FileInv, ChunksInv
  <2>3. PacketInv'
    <3>1. EndsWith(written, count, 0)
      <4>1. /\ Len(written) \in Nat /\ DOMAIN written = 1 .. Len(written)
        BY <1>1 DEF ServerTypeOK
      <4>2. \A j \in DOMAIN written : written[j][1] # count
        BY <1>2, <1>16 DEF FileInv, ChunksInv
      <4> QED  BY <4>1, <4>2 DEF EndsWith
    <3>2. call.kind = "put" =>
            (IF Packet'.chunk = 0 THEN call'.size ELSE Packet'.chunk - 1) = 0
      BY <1>3, <1>6, <1>7, <1>8
    <3>3. PICK k : k = IF Packet'.chunk = 0 THEN call'.size ELSE Packet'.chunk - 1
      OBVIOUS
    <3>4. call.kind = "put" => EndsWith(written', count', k)
      BY <1>5, <2>1, <3>1, <3>2, <3>3
    <3> QED  BY <1>3, <1>5, <1>13, <3>3, <3>4 DEF PacketInv
  <2>4. ToldInv'
    <3>1. \A n \in Requests : Accepted(n)' => Accepted(n)
      BY <1>3, <1>5 DEF Accepted
    <3> QED  BY <1>5, <1>16, <2>1, <3>1, AsideFields DEF FileInv, ToldInv
  <2> QED  BY <2>2, <2>3, <2>4 DEF FileInv
<1> QED  BY <1>1, <1>9, <1>10, <1>11, <1>14, <1>15, <1>16, AsideFields DEF IInv

\* An abort is asked for, and nothing happens yet.
LEMMA AskKeeps ==
    ASSUME IInv, AbortCurrentRequest, Aside
    PROVE  IInv'
<1>1. /\ ClientTypeOK /\ ServerTypeOK /\ CallInv /\ TimesInv /\ LinkInv /\ ServerInv
      /\ GotInv
  BY DEF IInv, TypeOK
<1>2. /\ ClientTypeOK'
      /\ c.current = count /\ count \in Requests /\ ~c.aborts
      /\ c'.aborting /\ c'.aborts = c.aborts /\ c'.current = c.current
      /\ c'.busy = c.busy /\ c'.error = c.error /\ c'.response = c.response
      /\ \A n \in Requests : /\ told'[n].kind = told[n].kind
                             /\ told'[n].size = told[n].size
                             /\ told'[n].outcome = told[n].outcome
                             /\ told[n].abort => told'[n].abort
      /\ told'[count].abort
  BY <1>1, AskFields
<1>3. /\ call' = call /\ count' = count /\ finishes' = finishes
      /\ toServer' = toServer /\ toClient' = toClient
  BY DEF AbortCurrentRequest, linkvars
<1>4. TypeOK'
  <2>1. foreign \in BOOLEAN
    BY DEF IInv, TypeOK
  <2> QED  BY <1>1, <1>2, <2>1, AsideFields DEF TypeOK
<1>5. CallInv'
  BY <1>1, <1>2, <1>3 DEF CallInv, Requests
<1>6. TimesInv'
  BY <1>1, <1>2, <1>3 DEF TimesInv
<1>7. \A n \in Requests : Dead(n) => Dead(n)'
  BY <1>2, <1>3 DEF Dead
<1>8. LinkInv'
  <2>1. toServer # <<>> => Packet.of \in Requests
    BY <1>1, PacketType
  <2> QED  BY <1>1, <1>2, <1>3, <1>7, <2>1 DEF LinkInv, Packet, Reply, Replied
<1>9. GotInv'
  <2>1. server' = server
    BY AsideFields
  <2>2. \A m \in Requests : Spared(m) => Spared(m)'
    BY <1>2, <1>3 DEF Spared
  <2> QED  BY <1>1, <1>2, <1>3, <2>1, <2>2 DEF GotInv, Replied, Reply
<1>10. ASSUME FileInv PROVE FileInv'
  <2>1. written' = written /\ server' = server
    BY AsideFields
  <2>2. ChunksInv'
    BY <1>3, <1>10, <2>1 DEF FileInv, ChunksInv
  <2>3. PacketInv'
    BY <1>2, <1>3, <1>10, <2>1 DEF FileInv, PacketInv, Replied, Reply, Packet
  <2>4. ToldInv'
    <3>1. \A n \in Requests : Accepted(n)' => Accepted(n)
      BY <1>2, <1>3 DEF Accepted
    <3> QED  BY <1>2, <1>10, <2>1, <3>1, AsideFields DEF FileInv, ToldInv
  <2> QED  BY <2>2, <2>3, <2>4 DEF FileInv
<1> QED  BY <1>1, <1>4, <1>5, <1>6, <1>8, <1>9, <1>10, AsideFields DEF IInv

\* A reply is dropped, or the link breaks.
LEMMA DropKeeps ==
    ASSUME IInv, UNCHANGED clientvars, up' \in BOOLEAN, toServer' = toServer,
           toClient' \in {<<>>, toClient}, Aside
    PROVE  IInv'
<1>1. /\ ClientTypeOK /\ ServerTypeOK /\ CallInv /\ TimesInv /\ LinkInv /\ ServerInv
      /\ GotInv
  BY DEF IInv, TypeOK
<1>2. /\ c' = c /\ call' = call /\ count' = count /\ told' = told /\ sender' = sender
      /\ finishes' = finishes
  BY DEF clientvars
<1>3. ClientTypeOK'
  <2>1. <<>> \in Seq(Replies) /\ Len(<<>>) = 0
    OBVIOUS
  <2>2. toClient' \in Seq(Replies) /\ Len(toClient') <= 1
    <3>1. CASE toClient' = toClient
      BY <1>1, <3>1 DEF ClientTypeOK
    <3>2. CASE toClient' = <<>>
      BY <2>1, <3>2
    <3> QED  BY <3>1, <3>2
  <2> QED  BY <1>1, <1>2, <2>2 DEF ClientTypeOK
<1>4. TypeOK'
  <2>1. foreign \in BOOLEAN
    BY DEF IInv, TypeOK
  <2> QED  BY <1>1, <1>3, <2>1, AsideFields DEF TypeOK
<1>5. CallInv' /\ TimesInv'
  BY <1>1, <1>2 DEF CallInv, TimesInv
<1>6. \A n : (Dead(n) => Dead(n)') /\ (Replied(n)' => Replied(n) /\ Reply' = Reply)
  BY <1>2 DEF Dead, Replied, Reply
<1>7. LinkInv'
  BY <1>1, <1>2, <1>6 DEF LinkInv, Packet, Reply, Replied
<1>8. GotInv'
  <2>1. server' = server
    BY AsideFields
  <2>2. \A m \in Requests : Spared(m) => Spared(m)'
    BY <1>2 DEF Spared
  <2> QED  BY <1>1, <1>2, <1>6, <2>1, <2>2 DEF GotInv
<1>9. ASSUME FileInv PROVE FileInv'
  <2>1. written' = written /\ server' = server
    BY AsideFields
  <2>2. ChunksInv'
    BY <1>2, <1>9, <2>1 DEF FileInv, ChunksInv
  <2>3. PacketInv'
    BY <1>2, <1>6, <1>9, <2>1 DEF FileInv, PacketInv, Packet
  <2>4. ToldInv'
    <3>1. \A n \in Requests : Accepted(n)' => Accepted(n)
      BY <1>2 DEF Accepted
    <3> QED  BY <1>2, <1>9, <2>1, <3>1, AsideFields DEF FileInv, ToldInv
  <2> QED  BY <2>2, <2>3, <2>4 DEF FileInv
<1> QED  BY <1>1, <1>4, <1>5, <1>7, <1>8, <1>9, AsideFields DEF IInv

\* The Abort goes out: the reply it waited for was not the last.
LEMMA AbortKeeps ==
    ASSUME IInv, PerformAbort, up, Aside
    PROVE  IInv'
<1>1. /\ ClientTypeOK /\ ServerTypeOK /\ CallInv /\ TimesInv /\ LinkInv /\ ServerInv
      /\ GotInv
  BY DEF IInv, TypeOK
<1>2. /\ ClientTypeOK' /\ Sends("abort", 0, TRUE)
      /\ toClient # <<>> /\ toClient' = <<>>
      /\ c.current \in Requests /\ c.current = Reply.of /\ c.aborting
      /\ c'.aborts /\ c'.current = c.current /\ c'.busy = c.busy
      /\ c'.aborting = c.aborting /\ c'.error = c.error /\ c'.response = c.response
      /\ call' = call /\ finishes' = finishes /\ count' = count /\ told' = told
  BY <1>1, AbortFields
<1>3. Reply.code = "continue"
  BY DEF PerformAbort
<1>4. c.current = count /\ count \in Requests /\ c.current # 0
  BY <1>1, <1>2 DEF CallInv, Requests
<1>5. /\ toServer' # <<>> /\ Packet'.of = count /\ Packet'.kind = "abort"
      /\ Packet'.chunk = 0
  <2>1. "abort" \in Kinds \cup {"abort"} /\ 0 \in Nat /\ TRUE \in BOOLEAN
    OBVIOUS
  <2> QED  BY <1>1, <1>2, <1>4, <2>1, PacketSent
<1>6. TypeOK'
  <2>1. foreign \in BOOLEAN
    BY DEF IInv, TypeOK
  <2> QED  BY <1>1, <1>2, <2>1, AsideFields DEF TypeOK
<1>7. CallInv'
  BY <1>1, <1>2 DEF CallInv
<1>8. TimesInv'
  BY <1>1, <1>2 DEF TimesInv
<1>9. LinkInv'
  BY <1>2, <1>4, <1>5 DEF LinkInv, Replied
<1>10. GotInv'
  <2>1. server' = server
    BY AsideFields
  <2>2. \A m \in Requests : Spared(m) => Spared(m)'
    BY <1>2 DEF Spared
  <2>3. \A m \in Requests : ~Replied(m)'
    BY <1>2 DEF Replied
  <2>4. server.gotfile => \E m \in Requests : Spared(m) /\ c.current # m
    BY <1>1, <1>2, <1>3 DEF GotInv, Replied
  <2> QED  BY <1>1, <1>2, <2>1, <2>2, <2>3, <2>4 DEF GotInv
<1>11. ASSUME FileInv PROVE FileInv'
  <2>1. written' = written /\ server' = server
    BY AsideFields
  <2>2. ChunksInv'
    BY <1>2, <1>11, <2>1 DEF FileInv, ChunksInv
  <2>3. PacketInv'
    BY <1>2 DEF PacketInv
  <2>4. ToldInv'
    <3>1. \A n \in Requests : Accepted(n)' => Accepted(n)
      BY <1>2 DEF Accepted
    <3> QED  BY <1>2, <1>11, <2>1, <3>1, AsideFields DEF FileInv, ToldInv
  <2> QED  BY <2>2, <2>3, <2>4 DEF FileInv
<1> QED  BY <1>1, <1>6, <1>7, <1>8, <1>9, <1>10, <1>11, AsideFields DEF IInv

\* The next packet goes out: it has the chunk after the last one written.
LEMMA ContinueKeeps ==
    ASSUME IInv, Continue, up, call.kind \in Bodies, Aside
    PROVE  IInv'
<1>1. /\ ClientTypeOK /\ ServerTypeOK /\ CallInv /\ TimesInv /\ LinkInv /\ ServerInv
      /\ GotInv
  BY DEF IInv, TypeOK
<1>2. /\ ClientTypeOK'
      /\ toClient # <<>> /\ toClient' = <<>>
      /\ c.current \in Requests /\ c.current = Reply.of /\ Reply.code = "continue"
      /\ ~c.aborting
      /\ call'.pc = call.pc /\ call'.kind = call.kind /\ call'.size = call.size
      /\ call'.at = IF call.kind # "get" /\ call.at < call.size
                    THEN call.at + 1 ELSE call.at
      /\ c' = c /\ finishes' = finishes /\ count' = count /\ told' = told
  BY <1>1, ContinueFields
<1>3. PICK last \in BOOLEAN : /\ Sends(call.kind, call.at + 1, last)
                              /\ call.kind = "put" => last \in LastChunk(call.at + 1)
  BY <1>1, ContinueFields
<1>4. /\ c.current = count /\ count \in Requests /\ c.current # 0 /\ ~c.aborts
      /\ call.pc = "waiting"
      /\ told[count].kind = IF call.kind \in Bodies THEN call.kind ELSE "other"
  BY <1>1, <1>2 DEF CallInv, Requests
<1>5. PICK at : at = call.at
  OBVIOUS
<1>6. at \in Nat /\ at <= call.size /\ call.size \in 0 .. MaxChunks /\ call.kind \in Kinds
  BY <1>1, <1>5 DEF ClientTypeOK, CallInv
<1>7. /\ toServer' # <<>> /\ Packet'.of = count /\ Packet'.kind = call.kind
      /\ Packet'.last = last
      /\ Packet'.chunk = IF call.kind = "put" /\ at + 1 <= call.size THEN at + 1 ELSE 0
  <2>1. Sends(call.kind, at + 1, last) /\ call.kind \in Kinds \cup {"abort"}
        /\ at + 1 \in Nat
    BY <1>3, <1>5, <1>6
  <2> QED  BY <1>1, <1>4, <2>1, PacketSent
<1>8. TypeOK'
  <2>1. foreign \in BOOLEAN
    BY DEF IInv, TypeOK
  <2> QED  BY <1>1, <1>2, <2>1, AsideFields DEF TypeOK
<1>9. CallInv'
  <2>1. call'.at <= call'.size
    BY <1>2, <1>5, <1>6
  <2> QED  BY <1>1, <1>2, <2>1 DEF CallInv
<1>10. TimesInv'
  BY <1>1, <1>2 DEF TimesInv
<1>11. LinkInv'
  <2>1. IF Packet'.kind = "put" THEN told'[Packet'.of].kind = "put" ELSE Packet'.chunk = 0
    BY <1>2, <1>4, <1>7 DEF Bodies
  <2>2. ASSUME call'.kind = "put"
        PROVE  /\ Packet'.chunk = 0 => call'.at = call'.size
               /\ Packet'.chunk > 0 => call'.at = Packet'.chunk
               /\ Packet'.last /\ ~ShortReads => call'.at = call'.size
    <3>1. last \in LastChunk(at + 1)
      BY <1>2, <1>3, <1>5, <2>2
    <3>2. at + 1 < call.size => (last => ShortReads)
      BY <3>1 DEF LastChunk
    <3>3. call'.at = IF at < call.size THEN at + 1 ELSE at
      BY <1>2, <1>5, <2>2
    <3>4. /\ Packet'.chunk = IF at + 1 <= call.size THEN at + 1 ELSE 0
          /\ Packet'.last = last /\ call'.size = call.size
      BY <1>2, <1>7, <2>2
    <3> QED  BY <1>6, <3>2, <3>3, <3>4
  <2> QED  BY <1>2, <1>4, <1>7, <2>1, <2>2 DEF LinkInv, Replied
<1>12. GotInv'
  <2>1. server' = server
    BY AsideFields
  <2>2. \A m \in Requests : Spared(m) => Spared(m)'
    BY <1>2 DEF Spared
  <2>3. \A m \in Requests : ~Replied(m)'
    BY <1>2 DEF Replied
  <2>4. server.gotfile => \E m \in Requests : Spared(m) /\ c.current # m
    BY <1>1, <1>2 DEF GotInv, Replied
  <2> QED  BY <1>1, <1>2, <2>1, <2>2, <2>3, <2>4 DEF GotInv
<1>13. ASSUME FileInv PROVE FileInv'
  <2>1. written' = written /\ server' = server
    BY AsideFields
  <2>2. ChunksInv'
    BY <1>2, <1>13, <2>1 DEF FileInv, ChunksInv
  <2>3. PacketInv'
    <3>1. call.kind = "put" => EndsWith(written, count, at)
      BY <1>2, <1>4, <1>5, <1>13 DEF FileInv, PacketInv, Replied
    <3>2. PICK k : k = IF Packet'.chunk = 0 THEN call'.size ELSE Packet'.chunk - 1
      OBVIOUS
    <3>3. call.kind = "put" => k = at
      BY <1>2, <1>6, <1>7, <3>2
    <3>4. call.kind = "put" => EndsWith(written', count', k)
      BY <1>2, <2>1, <3>1, <3>3
    <3> QED  BY <1>2, <3>2, <3>4 DEF PacketInv, Replied
  <2>4. ToldInv'
    <3>1. \A n \in Requests : Accepted(n)' => Accepted(n)
      BY <1>2 DEF Accepted
    <3> QED  BY <1>2, <1>13, <2>1, <3>1, AsideFields DEF FileInv, ToldInv
  <2> QED  BY <2>2, <2>3, <2>4 DEF FileInv
<1> QED  BY <1>1, <1>8, <1>9, <1>10, <1>11, <1>12, <1>13, AsideFields DEF IInv

\* A delegate makes a request: the old one is over, and the new one is nobody's.
LEMMA DelegateKeeps ==
    ASSUME IInv, NEW kind \in Kinds, RequestInDelegate(kind), Aside
    PROVE  IInv'
<1>1. /\ ClientTypeOK /\ ServerTypeOK /\ CallInv /\ TimesInv /\ LinkInv /\ ServerInv
      /\ GotInv
  BY DEF IInv, TypeOK
<1>2. /\ ClientTypeOK'
      /\ count' = count + 1 /\ count \in Requests /\ count + 1 \in Requests
      /\ \A n \in Requests \ {count, count + 1} : told'[n] = told[n]
      /\ told'[count].kind = told[count].kind /\ told'[count].size = told[count].size
      /\ told'[count].abort = told[count].abort
      /\ told'[count].outcome = IF c.error = "success" THEN c.response ELSE "raised"
      /\ told'[count + 1].kind = IF kind \in Bodies THEN kind ELSE "other"
      /\ told'[count + 1].size = told[count + 1].size
      /\ told'[count + 1].abort = told[count + 1].abort
      /\ told'[count + 1].outcome = told[count + 1].outcome
      /\ c'.busy /\ c'.current = 0 /\ ~c'.aborts /\ ~c'.aborting
      /\ call'.pc = "orphaned" /\ call'.kind = kind /\ call'.size = 0 /\ call'.at = 0
      /\ toServer' # <<>> /\ Packet'.of = count + 1 /\ Packet'.kind = kind
      /\ Packet'.chunk = 0
      /\ finishes' = finishes /\ toClient' = toClient
  BY <1>1, DelegateFields
<1>3. /\ call.pc = "waiting" /\ ~c.busy /\ c.current = 0 /\ count \in Nat
      /\ told[count].outcome = "none"
      /\ told[count + 1].outcome = "none" /\ told[count + 1].size = 0
  BY <1>1, <1>2 DEF RequestInDelegate, CallInv, Requests
<1>4. TypeOK'
  <2>1. foreign \in BOOLEAN
    BY DEF IInv, TypeOK
  <2> QED  BY <1>1, <1>2, <2>1, AsideFields DEF TypeOK
<1>5. CallInv'
  <2>1. \A n \in Requests : /\ n > count' => told'[n].outcome = "none" /\ told'[n].size = 0
                            /\ told'[n].outcome = "aborted" => told'[n].abort
    <3>1. \A n \in Requests : /\ n > count => told[n].outcome = "none" /\ told[n].size = 0
                              /\ told[n].outcome = "aborted" => told[n].abort
      BY <1>1 DEF CallInv
    <3>2. c.error = "success" /\ c.response = "aborted" => told[count].abort
      BY <1>1, <1>3 DEF CallInv
    <3> QED  BY <1>2, <1>3, <3>1, <3>2 DEF Requests
  <2>2. call'.size = 0 /\ call'.at <= call'.size
    BY <1>2
  <2> QED  BY <1>2, <1>3, <2>1, <2>2 DEF CallInv
<1>6. TimesInv'
  BY <1>1, <1>2, <1>3 DEF TimesInv, Requests
<1>7. LinkInv'
  <2>1. \A n : n = count' => Dead(n)'
    BY <1>2 DEF Dead
  <2>2. toClient # <<>> => Reply.of <= count /\ Reply.of \in Nat
    BY <1>1, ReplyType DEF LinkInv, Requests
  <2>3. toClient' # <<>> => Reply'.of <= count' /\ call'.pc # "begin"
    BY <1>2, <1>3, <2>2 DEF Reply
  <2>4. Packet'.kind = "put" => told'[Packet'.of].kind = "put"
    BY <1>2 DEF Bodies
  <2> QED  BY <1>2, <2>1, <2>3, <2>4 DEF LinkInv
<1>8. GotInv'
  <2>1. server' = server
    BY AsideFields
  <2>2. \A m \in Requests : Spared(m) => Spared(m)' /\ c'.current # m
    BY <1>1, <1>2, <1>3 DEF Spared, Requests, CallInv
  <2> QED  BY <1>1, <1>2, <1>3, <2>1, <2>2 DEF GotInv
<1>9. ASSUME FileInv PROVE FileInv'
  <2>1. written' = written /\ server' = server
    BY AsideFields
  <2>2. ChunksInv'
    <3>1. \A j \in DOMAIN written : written[j][1] \in Requests
      BY <1>1 DEF ServerTypeOK
    <3> QED  BY <1>2, <1>3, <1>9, <2>1, <3>1 DEF FileInv, ChunksInv, Requests
  <2>3. PacketInv'
    BY <1>2 DEF PacketInv
  <2>4. ToldInv'
    <3>1. \A n \in Requests : Accepted(n)' => Accepted(n) /\ n # count + 1
      BY <1>2, <1>3 DEF Accepted
    <3>2. \A n \in Requests \ {count + 1} : /\ told'[n].kind = told[n].kind
                                            /\ told'[n].size = told[n].size
      BY <1>2
    <3> QED  BY <1>9, <2>1, <3>1, <3>2, AsideFields DEF FileInv, ToldInv
  <2> QED  BY <2>2, <2>3, <2>4 DEF FileInv
<1> QED  BY <1>1, <1>4, <1>5, <1>6, <1>7, <1>8, <1>9, AsideFields DEF IInv

\* Every action of the client preserves the invariant.
LEMMA ClientKeeps ==
    ASSUME IInv, ClientStep, UNCHANGED <<servervars, foreign>>
    PROVE  IInv'
<1>1. ClientTypeOK /\ CallInv /\ Aside
  BY DEF IInv, TypeOK, Aside
<1>2. CASE \E kind \in Kinds, size \in {0, MaxChunks} : Call(kind, size)
  BY <1>1, <1>2, CallKeeps
<1>3. CASE BadHeaders \/ Refuse \/ FirstReadFails \/ Return \/ (foreign /\ BadResponse)
  <2>1. /\ ClientTypeOK'
        /\ \E o \in Codes \cup {"raised", "aborted"} : Ended(o) /\ EndsAs(o)
    BY <1>1, <1>3, ReturnsEnd
  <2> QED  BY <1>1, <2>1, EndedKeeps
<1>4. CASE Begin
  BY <1>1, <1>4, BeginKeeps
<1>5. CASE AbortCurrentRequest
  BY <1>1, <1>5, AskKeeps
<1>6. CASE Fails
  <2>1. ClientTypeOK' /\ \E error \in {"transport", "other"} : Over(error, "None")
    BY <1>1, <1>6, FailsOver
  <2>2. PICK error \in {"success", "transport", "other"} : Over(error, "None")
                                                          /\ error # "success"
    BY <2>1
  <2>3. "None" \in Codes \cup {"None"}
    OBVIOUS
  <2> QED  BY <1>1, <2>1, <2>2, <2>3, OverKeeps
<1>7. CASE FinalResponse
  <2>1. /\ ClientTypeOK' /\ Over("success", Reply.code)
        /\ toClient # <<>> /\ Reply.of = c.current /\ Reply.code \in Codes
    BY <1>1, <1>7, FinalOver
  <2>2. PICK code \in Codes \cup {"None"} : code = Reply.code
    BY <2>1
  <2> QED  BY <1>1, <2>1, <2>2, OverKeeps
<1>8. CASE \/ NextReadFails \/ IgnoreResponse
           \/ Continue /\ call.kind \notin Bodies \cup {"delete"}
  <2>1. /\ UNCHANGED clientvars /\ up' \in BOOLEAN /\ toServer' = toServer
        /\ toClient' \in {<<>>, toClient}
    BY <1>1, <1>8 DEF NextReadFails, IgnoreResponse, Continue, Bodies, clientvars, ClientTypeOK
  <2> QED  BY <1>1, <2>1, DropKeeps
<1>9. CASE PerformAbort /\ up
  BY <1>1, <1>9, AbortKeeps
<1>10. CASE Continue /\ up /\ call.kind \in Bodies
  BY <1>1, <1>10, ContinueKeeps
<1>11. CASE \E kind \in Kinds : RequestInDelegate(kind)
  BY <1>1, <1>11, DelegateKeeps
<1> QED  BY <1>2, <1>3, <1>4, <1>5, <1>6, <1>7, <1>8, <1>9, <1>10, <1>11
           DEF ClientStep, ClientEvent, Fails

-----------------------------------------------------------------------------
(* The functions that the request handlers are made of. *)

Servers ==
    [handler  : {"none"} \cup Kinds,
     definitely : BOOLEAN, aborted : BOOLEAN,
     session  : BOOLEAN, error : BOOLEAN, gotfile : BOOLEAN,
     gotdisconnect : BOOLEAN, disconnected : BOOLEAN]

States ==
    [server : Servers, calls : Nat, code : Codes \cup {"continue"},
     written : Seq(Requests \X (1 .. MaxChunks))]

\* What run() and the properties do not read differs at most.
Like(s, r) ==
    /\ s.handler = r.handler /\ s.definitely = r.definitely /\ s.aborted = r.aborted
    /\ s.gotfile = r.gotfile

\* The state the handlers begin with.
LEMMA StateType ==
    ASSUME ServerTypeOK
    PROVE  /\ State \in States /\ State.server = server /\ State.written = written
           /\ State.calls = 0 /\ State.code = "continue"
<1>1. server \in Servers /\ written \in Seq(Requests \X (1 .. MaxChunks))
  BY DEF ServerTypeOK, Servers
<1> QED  BY <1>1 DEF State, States

\* server:errorOccurred: changes no field that matters here.
LEMMA ErrorFields ==
    ASSUME NEW t \in States, NEW u, u = ErrorOccurred(t)
    PROVE  /\ u \in States /\ Like(u.server, t.server)
           /\ u.code = t.code /\ u.written = t.written
<1> DEFINE s == [t.server EXCEPT !.error = TRUE]
           t1 == [t EXCEPT !.server = s]
<1>1. /\ t.server \in Servers /\ t.calls \in Nat /\ t.code \in Codes \cup {"continue"}
      /\ t.written \in Seq(Requests \X (1 .. MaxChunks))
  BY DEF States
<1>2. s \in Servers /\ Like(s, t.server)
  BY <1>1 DEF Servers, Like
<1>3. /\ t1 \in States /\ t1.server = s /\ t1.code = t.code /\ t1.written = t.written
      /\ t1.calls = t.calls
  <2> HIDE DEF s
  <2> QED  BY <1>1, <1>2 DEF States
<1>4. u = [t1 EXCEPT !.calls = @ + 1]
  BY DEF ErrorOccurred, States
<1> HIDE DEF t1
<1>5. u \in States /\ u.server = t1.server /\ u.code = t1.code /\ u.written = t1.written
  <2>1. t1.calls + 1 \in Nat
    BY <1>1, <1>3
  <2> QED  BY <1>3, <1>4, <2>1 DEF States
<1> QED  BY <1>2, <1>3, <1>5

\* notifyRequestFinished ends a Put: as received, unless it was aborted.
LEMMA NotifyFields ==
    ASSUME NEW t \in States, NEW u, u = NotifyRequestFinished(t)
    PROVE  /\ u \in States /\ u.code = t.code /\ u.written = t.written
           /\ u.server.handler = t.server.handler
           /\ u.server.definitely = (t.server.definitely /\ t.server.handler # "put")
           /\ ~t.server.aborted => ~u.server.aborted
           /\ t.server.handler = "put" /\ t.server.definitely => ~u.server.aborted
           /\ u.server.gotfile =
                (t.server.gotfile \/ ( /\ t.server.handler = "put" /\ t.server.definitely
                                       /\ ~t.server.aborted))
<1>1. /\ t.server \in Servers /\ t.calls \in Nat /\ t.code \in Codes \cup {"continue"}
      /\ t.written \in Seq(Requests \X (1 .. MaxChunks)) /\ t.calls + 1 \in Nat
  BY DEF States
<1>2. CASE t.server.handler = "disconnect"
  <2> DEFINE s == [t.server EXCEPT !.disconnected = TRUE]
             n == t.calls + 1
  <2>1. s \in Servers /\ Like(s, t.server)
    BY <1>1 DEF Servers, Like
  <2>2. u = [t EXCEPT !.server = s, !.calls = n]
    BY <1>2 DEF NotifyRequestFinished, States
  <2>3. n \in Nat
    BY <1>1
  <2> HIDE DEF s, n
  <2>4. u \in States /\ u.server = s /\ u.code = t.code /\ u.written = t.written
    BY <1>1, <2>1, <2>2, <2>3 DEF States
  <2>5. /\ t.server.definitely \in BOOLEAN /\ t.server.gotfile \in BOOLEAN
        /\ s.definitely \in BOOLEAN
    BY <1>1, <2>1 DEF Servers
  <2> QED  BY <1>2, <2>1, <2>4, <2>5 DEF Like
<1>3. CASE t.server.handler = "put" /\ t.server.definitely
  <2> DEFINE s == [t.server EXCEPT !.definitely = FALSE, !.aborted = FALSE]
             n == t.calls + 1
             d == [t EXCEPT !.server = s, !.calls = n]
             e == IF t.server.aborted THEN [s EXCEPT !.error = TRUE]
                  ELSE [s EXCEPT !.gotfile = TRUE]
  <2>1. /\ s \in Servers /\ ~s.definitely /\ ~s.aborted /\ s.handler = "put"
        /\ s.gotfile = t.server.gotfile
    BY <1>1, <1>3 DEF Servers
  <2>2. /\ e \in Servers /\ ~e.definitely /\ ~e.aborted /\ e.handler = "put"
        /\ e.gotfile = (t.server.gotfile \/ ~t.server.aborted)
    <3>1. t.server.gotfile \in BOOLEAN /\ t.server.aborted \in BOOLEAN
      BY <1>1 DEF Servers
    <3> HIDE DEF s
    <3> QED  BY <2>1, <3>1 DEF Servers
  <2>3. d \in States /\ d.server = s /\ d.code = t.code /\ d.written = t.written
    <3>1. n \in Nat
      BY <1>1
    <3> HIDE DEF s, n
    <3> QED  BY <1>1, <2>1, <3>1 DEF States
  <2>4. u = [d EXCEPT !.server = e]
    <3>1. d = [t EXCEPT !.calls = @ + 1, !.server.definitely = FALSE,
                        !.server.aborted = FALSE]
      BY DEF States
    <3>2. u = IF t.server.aborted THEN [d EXCEPT !.server.error = TRUE]
              ELSE [d EXCEPT !.server.gotfile = TRUE]
      <4> HIDE DEF d
      <4> QED  BY <1>3, <3>1 DEF NotifyRequestFinished
    <3> HIDE DEF d, s
    <3> QED  BY <2>3, <3>2 DEF States
  <2>5. u \in States /\ u.server = e /\ u.code = t.code /\ u.written = t.written
    <3> HIDE DEF d, e
    <3> QED  BY <2>2, <2>3, <2>4 DEF States
  <2>6. t.server.gotfile \in BOOLEAN /\ u.server.definitely \in BOOLEAN
    BY <1>1, <2>2, <2>5 DEF Servers
  <2> HIDE DEF e
  <2> QED  BY <1>3, <2>2, <2>5, <2>6
<1>4. CASE t.server.handler # "disconnect" /\ ~(t.server.handler = "put" /\ t.server.definitely)
  <2>1. u = t
    BY <1>4 DEF NotifyRequestFinished
  <2>2. t.server.gotfile \in BOOLEAN /\ t.server.definitely \in BOOLEAN
    BY <1>1 DEF Servers
  <2> QED  BY <1>4, <2>1, <2>2
<1> QED  BY <1>2, <1>3, <1>4

\* The packet's chunk is in the file w after v, or nothing is.
Took(w, v) ==
    IF Packet.chunk = 0 THEN w = v ELSE w = Append(v, <<Packet.of, Packet.chunk>>)

\* A Put is answered OK only on its last packet, with the chunk written.
LEMMA PutFields ==
    ASSUME ClientTypeOK, toServer # <<>>, NEW t \in States, NEW writes \in BOOLEAN,
           NEW u, u = PutResponse(t, writes)
    PROVE  /\ u \in States
           /\ u.server.handler = t.server.handler /\ u.server.definitely
           /\ u.server.aborted = t.server.aborted /\ u.server.gotfile = t.server.gotfile
           /\ u.code \in {"ok", "continue", "failed"}
           /\ u.code = "ok" => Packet.last
           /\ u.code # "failed" => Took(u.written, t.written)
           /\ u.code = "failed" => u.written = t.written
<1> DEFINE s == [t.server EXCEPT !.definitely = TRUE]
           d == [t EXCEPT !.server = s]
           code == IF Packet.last THEN "ok" ELSE "continue"
           w == Append(t.written, <<Packet.of, Packet.chunk>>)
<1>1. /\ t.server \in Servers /\ t.calls \in Nat /\ t.code \in Codes \cup {"continue"}
      /\ t.written \in Seq(Requests \X (1 .. MaxChunks))
  BY DEF States
<1>2. /\ s \in Servers /\ s.definitely /\ s.handler = t.server.handler
      /\ s.aborted = t.server.aborted /\ s.gotfile = t.server.gotfile
  BY <1>1 DEF Servers
<1>3. /\ d \in States /\ d.server = s /\ d.written = t.written
      /\ d = [t EXCEPT !.server.definitely = TRUE]
  <2>1. d = [t EXCEPT !.server.definitely = TRUE]
    BY DEF States
  <2> HIDE DEF s
  <2> QED  BY <1>1, <1>2, <2>1 DEF States
<1>4. code \in Codes \cup {"continue"} /\ code \in {"ok", "continue"}
      /\ (code = "ok" => Packet.last)
  BY DEF Codes
<1>5. CASE Packet.chunk = 0
  <2>1. u = [d EXCEPT !.code = code]
    <3> HIDE DEF d
    <3> QED  BY <1>3, <1>5 DEF PutResponse
  <2> HIDE DEF d, code
  <2>2. u \in States /\ u.server = s /\ u.code = code /\ u.written = t.written
    BY <1>3, <1>4, <2>1 DEF States
  <2> HIDE DEF s
  <2> QED  BY <1>2, <1>4, <1>5, <2>2 DEF Took
<1>6. CASE Packet.chunk # 0 /\ writes
  <2>1. u = [d EXCEPT !.code = code, !.written = Append(@, <<Packet.of, Packet.chunk>>)]
    <3> HIDE DEF d
    <3> QED  BY <1>3, <1>6 DEF PutResponse
  <2>2. w \in Seq(Requests \X (1 .. MaxChunks))
    <3>1. <<Packet.of, Packet.chunk>> \in Requests \X (1 .. MaxChunks)
      BY <1>6, PacketType
    <3> QED  BY <1>1, <3>1, AppendProperties
  <2>3. u = [d EXCEPT !.code = code, !.written = w]
    <3> HIDE DEF d, code
    <3> QED  BY <1>3, <2>1 DEF States
  <2> HIDE DEF d, code, w
  <2>4. u \in States /\ u.server = s /\ u.code = code /\ u.written = w
    BY <1>3, <1>4, <2>2, <2>3 DEF States
  <2> HIDE DEF s
  <2> QED  BY <1>2, <1>4, <1>6, <2>4 DEF Took, w
<1>7. CASE Packet.chunk # 0 /\ ~writes
  <2>1. PICK e : e = ErrorOccurred(d)
    OBVIOUS
  <2>2. u = [e EXCEPT !.code = "failed"]
    <3> HIDE DEF d
    <3> QED  BY <1>3, <1>7, <2>1 DEF PutResponse
  <2>3. e \in States /\ Like(e.server, d.server) /\ e.written = d.written
    <3> HIDE DEF d
    <3> QED  BY <1>3, <2>1, ErrorFields
  <2> HIDE DEF d
  <2>4. u \in States /\ u.server = e.server /\ u.code = "failed" /\ u.written = e.written
    BY <2>2, <2>3 DEF States, Codes
  <2> HIDE DEF s
  <2> QED  BY <1>2, <1>3, <1>7, <2>3, <2>4 DEF Like
<1> QED  BY <1>5, <1>6, <1>7

\* A response is prepared: t is the state of a server that has a handler for the packet.
LEMMA ResponseFields ==
    ASSUME ClientTypeOK, toServer # <<>>, Packet.kind # "abort", NEW t \in States,
           NEW writes \in BOOLEAN, NEW u, u = PrepareResponse(t, writes)
    PROVE  /\ u \in States
           /\ u.server.handler = t.server.handler
           /\ u.server.definitely => t.server.definitely \/ Packet.kind = "put"
           /\ u.server.aborted = t.server.aborted /\ u.server.gotfile = t.server.gotfile
           /\ u.code = "continue" =>
                /\ Packet.kind = "put" \/ (Packet.kind = "delete" /\ t.server.definitely)
                /\ u.server.definitely /\ Took(u.written, t.written)
           /\ Packet.kind = "put" =>
                /\ u.server.definitely
                /\ u.code = "ok" => Packet.last /\ Took(u.written, t.written)
           /\ u.written = t.written
                \/ (Packet.chunk # 0 /\ u.written = Append(t.written, <<Packet.of, Packet.chunk>>))
<1>1. CASE Packet.kind = "put" \/ (Packet.kind = "delete" /\ t.server.definitely)
  <2>1. u = PutResponse(t, writes)
    BY <1>1 DEF PrepareResponse
  <2> QED  BY <1>1, <2>1, PutFields DEF Took
<1>2. ASSUME NEW code \in Codes, u = [t EXCEPT !.code = code],
             Packet.kind # "put"
      PROVE  u \in States /\ u.server = t.server /\ u.code = code /\ u.written = t.written
  BY <1>2 DEF States
<1>3. CASE Packet.kind = "connect"
  <2>1. u = [t EXCEPT !.code = "ok"] /\ "ok" \in Codes /\ "ok" # "continue"
    BY <1>3 DEF PrepareResponse, Codes
  <2> QED  BY <1>2, <1>3, <2>1
<1>4. CASE Packet.kind = "disconnect"
  <2> DEFINE s == [t.server EXCEPT !.gotdisconnect = TRUE]
             n == t.calls + 1
  <2>1. s \in Servers /\ Like(s, t.server)
    BY DEF States, Servers, Like
  <2>2. u = [t EXCEPT !.code = "ok", !.calls = n, !.server = s]
    BY <1>4 DEF PrepareResponse, States
  <2>3. n \in Nat
    BY DEF States
  <2> HIDE DEF s, n
  <2>4. u \in States /\ u.server = s /\ u.code = "ok" /\ u.written = t.written
    BY <2>1, <2>2, <2>3 DEF States, Codes
  <2> QED  BY <1>4, <2>1, <2>4 DEF Like
<1>5. CASE /\ Packet.kind \notin {"connect", "disconnect", "put"}
           /\ ~(Packet.kind = "delete" /\ t.server.definitely)
  <2>1. u = [t EXCEPT !.code = "notimpl"] /\ "notimpl" \in Codes /\ "notimpl" # "continue"
    BY <1>5 DEF PrepareResponse, Codes
  <2> QED  BY <1>2, <1>5, <2>1
<1> QED  BY <1>1, <1>3, <1>4, <1>5

\* handleRequestEvent: up to the response.
LEMMA EventFields ==
    ASSUME ClientTypeOK, ServerTypeOK, ServerInv, toServer # <<>>, Packet.kind # "abort",
           NEW reads \in BOOLEAN, NEW writes \in BOOLEAN,
           NEW u, u = HandleRequestEvent(reads, writes)
    PROVE  /\ u \in States /\ ~u.server.aborted /\ u.server.gotfile = server.gotfile
           /\ u.server.definitely =>
                u.server.handler = "put" /\ (server.definitely \/ Packet.kind = "put")
           /\ u.code = "continue" =>
                /\ u.server.handler = "put" /\ u.server.definitely
                /\ Packet.kind = "put" \/ server.definitely
                /\ Took(u.written, written)
           /\ Packet.kind = "put" /\ u.code = "ok" =>
                u.server.definitely /\ Packet.last /\ Took(u.written, written)
           /\ u.written = written
                \/ (Packet.chunk # 0 /\ u.written = Append(written, <<Packet.of, Packet.chunk>>))
<1> DEFINE h == HandlerFor(Packet.kind)
           s == [server EXCEPT !.handler = h, !.definitely = FALSE, !.aborted = FALSE]
           t == IF server.handler # "none" THEN State
                ELSE [State EXCEPT !.server.handler = h,
                                   !.server.definitely = FALSE, !.server.aborted = FALSE]
<1>1. /\ State \in States /\ State.server = server /\ State.written = written
      /\ State.code = "continue" /\ server \in Servers
      /\ server.handler \in {"none", "put"} /\ ~server.aborted
  BY StateType DEF ServerInv, States
<1>2. h \in Kinds /\ (Packet.kind = "put" => h = "put")
  BY PacketType DEF HandlerFor, Kinds
<1>3. /\ t \in States /\ t.written = written /\ t.code = "continue"
      /\ ~t.server.aborted /\ t.server.gotfile = server.gotfile
      /\ t.server.handler = IF server.handler # "none" THEN "put" ELSE h
      /\ t.server.definitely => server.handler = "put" /\ server.definitely
  <2>1. CASE server.handler = "none"
    <3>1. /\ s \in Servers /\ s.handler = h /\ ~s.definitely /\ ~s.aborted
          /\ s.gotfile = server.gotfile
      <4> HIDE DEF h
      <4> QED  BY <1>1, <1>2 DEF Servers
    <3>2. t = [State EXCEPT !.server = s]
      <4> HIDE DEF h
      <4> QED  BY <1>1, <2>1 DEF States
    <3> HIDE DEF s, t, h
    <3>3. t \in States /\ t.server = s /\ t.code = State.code /\ t.written = State.written
      BY <1>1, <3>1, <3>2 DEF States
    <3> QED  BY <1>1, <2>1, <3>1, <3>3
  <2>2. CASE server.handler = "put"
    <3>1. t = State
      BY <2>2
    <3> HIDE DEF t, s, h
    <3> QED  BY <1>1, <2>2, <3>1
  <2> QED  BY <1>1, <2>1, <2>2
<1>4. u = IF t.server.handler # h \/ ~reads
          THEN [ErrorOccurred(t) EXCEPT !.code = "failed"]
          ELSE PrepareResponse(t, writes)
  BY DEF HandleRequestEvent
<1> HIDE DEF h, t, s
<1>5. CASE t.server.handler # h \/ ~reads
  <2>1. PICK e : e = ErrorOccurred(t)
    OBVIOUS
  <2>2. e \in States /\ Like(e.server, t.server) /\ e.written = t.written
    BY <1>3, <2>1, ErrorFields
  <2>3. u = [e EXCEPT !.code = "failed"]
    BY <1>4, <1>5, <2>1
  <2>4. u \in States /\ u.server = e.server /\ u.code = "failed" /\ u.written = e.written
    BY <2>2, <2>3 DEF States, Codes
  <2> QED  BY <1>3, <2>2, <2>4 DEF Like
<1>6. CASE t.server.handler = h /\ reads
  <2>1. u = PrepareResponse(t, writes)
    BY <1>4, <1>6
  <2>2. /\ u \in States
        /\ u.server.handler = t.server.handler
        /\ u.server.definitely => t.server.definitely \/ Packet.kind = "put"
        /\ u.server.aborted = t.server.aborted /\ u.server.gotfile = t.server.gotfile
        /\ u.code = "continue" =>
             /\ Packet.kind = "put" \/ (Packet.kind = "delete" /\ t.server.definitely)
             /\ u.server.definitely /\ Took(u.written, t.written)
        /\ Packet.kind = "put" =>
             /\ u.server.definitely
             /\ u.code = "ok" => Packet.last /\ Took(u.written, t.written)
        /\ u.written = t.written
             \/ (Packet.chunk # 0 /\ u.written = Append(t.written, <<Packet.of, Packet.chunk>>))
    BY <1>3, <2>1, ResponseFields
  <2> QED  BY <1>1, <1>2, <1>3, <1>6, <2>2
<1> QED  BY <1>1, <1>5, <1>6

\* What an event handler does to the fields of the server.
LEMMA BecomesType ==
    ASSUME ServerTypeOK, NEW t \in States, Becomes(t), pc' = pc, result' = result
    PROVE  ServerTypeOK' /\ server' = t.server /\ written' = t.written
<1>1. /\ t.server \in Servers /\ t.calls \in Nat
      /\ t.written \in Seq(Requests \X (1 .. MaxChunks))
  BY DEF States
<1>2. notify + t.calls \in Nat
  BY <1>1 DEF ServerTypeOK
<1> QED  BY <1>1, <1>2 DEF Becomes, ServerTypeOK, Servers

\* A packet is handled, and this would be the response.
Handled(code) ==
    /\ server'.handler \in {"none", "put"} /\ ~server'.aborted
    /\ server'.definitely => server.definitely \/ Packet.kind = "put"
    /\ server.gotfile => server'.gotfile
    /\ server'.gotfile => \/ server.gotfile
                          \/ /\ server.definitely \/ Packet.kind = "put"
                             /\ code # "continue"
    /\ Packet.kind = "put" =>
         /\ code = "continue" => Took(written', written)
         /\ code = "ok" => Packet.last /\ server'.gotfile /\ Took(written', written)
    /\ \/ written' = written
       \/ Packet.chunk # 0 /\ written' = Append(written, <<Packet.of, Packet.chunk>>)

\* A packet that is answered.
LEMMA HandledFields ==
    ASSUME ClientTypeOK, ServerTypeOK, ServerInv, HandleRequest
    PROVE  /\ ServerTypeOK'
           /\ \E code \in Codes \cup {"continue"} : Handled(code) /\ Answer(code)
<1>1. /\ toServer # <<>> /\ Packet.kind # "abort" /\ pc' = pc /\ result' = result
  BY DEF HandleRequest, Handling
<1>2. PICK reads \in BOOLEAN, writes \in BOOLEAN :
         LET t == HandleRequestEvent(reads, writes) IN
         Becomes(Finished(t)) /\ Answer(t.code)
  BY DEF HandleRequest
<1>3. PICK t : t = HandleRequestEvent(reads, writes)
  OBVIOUS
<1>4. PICK f : f = Finished(t)
  OBVIOUS
<1>5. Becomes(f) /\ Answer(t.code)
  BY <1>2, <1>3, <1>4
<1>6. /\ t \in States /\ ~t.server.aborted /\ t.server.gotfile = server.gotfile
      /\ t.server.definitely =>
           t.server.handler = "put" /\ (server.definitely \/ Packet.kind = "put")
      /\ t.code = "continue" =>
           /\ t.server.handler = "put" /\ t.server.definitely
           /\ Packet.kind = "put" \/ server.definitely
           /\ Took(t.written, written)
      /\ Packet.kind = "put" /\ t.code = "ok" =>
           t.server.definitely /\ Packet.last /\ Took(t.written, written)
      /\ t.written = written
           \/ (Packet.chunk # 0 /\ t.written = Append(written, <<Packet.of, Packet.chunk>>))
  BY <1>1, <1>3, EventFields
<1>7. t.code \in Codes \cup {"continue"}
  BY <1>6 DEF States
<1>8. CASE t.code = "continue"
  <2>1. f = t
    BY <1>4, <1>8 DEF Finished
  <2>2. ServerTypeOK' /\ server' = t.server /\ written' = t.written
    BY <1>1, <1>5, <1>6, <2>1, BecomesType
  <2>3. Handled("continue")
    BY <1>6, <1>8, <2>2 DEF Handled
  <2> QED  BY <1>5, <1>7, <1>8, <2>2, <2>3
<1>9. CASE t.code # "continue"
  <2>1. PICK n : n = NotifyRequestFinished(t)
    OBVIOUS
  <2>2. /\ n \in States /\ n.code = t.code /\ n.written = t.written
        /\ n.server.handler = t.server.handler
        /\ n.server.definitely = (t.server.definitely /\ t.server.handler # "put")
        /\ ~t.server.aborted => ~n.server.aborted
        /\ n.server.gotfile =
             (t.server.gotfile \/ ( /\ t.server.handler = "put" /\ t.server.definitely
                                    /\ ~t.server.aborted))
    BY <1>6, <2>1, NotifyFields
  <2>3. f = [n EXCEPT !.server.handler = "none"]
    BY <1>4, <1>9, <2>1 DEF Finished
  <2> DEFINE s == [n.server EXCEPT !.handler = "none"]
  <2>4. /\ s \in Servers /\ s.handler = "none" /\ s.definitely = n.server.definitely
        /\ s.aborted = n.server.aborted /\ s.gotfile = n.server.gotfile
    BY <2>2 DEF States, Servers
  <2>5. f = [n EXCEPT !.server = s]
    BY <2>2, <2>3 DEF States
  <2> HIDE DEF s
  <2>6. f \in States /\ f.server = s /\ f.written = n.written
    BY <2>2, <2>4, <2>5 DEF States
  <2>7. ServerTypeOK' /\ server' = s /\ written' = n.written
    BY <1>1, <1>5, <2>6, BecomesType
  <2>8. Handled(t.code)
    <3>1. server.gotfile \in BOOLEAN /\ server.definitely \in BOOLEAN
      BY DEF ServerTypeOK
    <3>2. ~server'.definitely /\ ~server'.aborted /\ server'.handler = "none"
      BY <1>6, <2>2, <2>4, <2>7
    <3>3. server'.gotfile = (server.gotfile \/ t.server.definitely)
      BY <1>6, <2>2, <2>4, <2>7, <3>1
    <3>4. written' = t.written
      BY <2>2, <2>7
    <3> QED  BY <1>6, <1>9, <3>1, <3>2, <3>3, <3>4 DEF Handled
  <2> QED  BY <1>5, <1>7, <2>7, <2>8
<1> QED  BY <1>8, <1>9

\* A packet whose response cannot be sent.
LEMMA ResponseFailsFields ==
    ASSUME ClientTypeOK, ServerTypeOK, ServerInv, ResponseFails
    PROVE  ServerTypeOK' /\ Handled("failed")
<1>1. /\ toServer # <<>> /\ Packet.kind # "abort" /\ pc' = pc /\ result' = result
  BY DEF ResponseFails, Handling
<1>2. PICK writes \in BOOLEAN :
         LET t == HandleRequestEvent(TRUE, writes) IN
         Becomes([ErrorOccurred(t) EXCEPT !.server.handler = "none"])
  BY DEF ResponseFails
<1>3. PICK t : t = HandleRequestEvent(TRUE, writes)
  OBVIOUS
<1>4. PICK e : e = ErrorOccurred(t)
  OBVIOUS
<1>5. /\ t \in States /\ ~t.server.aborted /\ t.server.gotfile = server.gotfile
      /\ t.server.definitely => server.definitely \/ Packet.kind = "put"
      /\ t.written = written
           \/ (Packet.chunk # 0 /\ t.written = Append(written, <<Packet.of, Packet.chunk>>))
  <2>1. TRUE \in BOOLEAN
    OBVIOUS
  <2> QED  BY <1>1, <1>3, <2>1, EventFields
<1>6. /\ e \in States /\ Like(e.server, t.server) /\ e.written = t.written
  BY <1>4, <1>5, ErrorFields
<1> DEFINE s == [e.server EXCEPT !.handler = "none"]
           f == [e EXCEPT !.server = s]
<1>7. Becomes(f)
  <2>1. Becomes([e EXCEPT !.server.handler = "none"])
    BY <1>2, <1>3, <1>4
  <2>2. f = [e EXCEPT !.server.handler = "none"]
    BY <1>6 DEF States
  <2> HIDE DEF f
  <2> QED  BY <2>1, <2>2
<1>8. /\ s \in Servers /\ s.handler = "none" /\ s.definitely = e.server.definitely
      /\ s.aborted = e.server.aborted /\ s.gotfile = e.server.gotfile
  BY <1>6 DEF States, Servers
<1> HIDE DEF s
<1>9. f \in States /\ f.server = s /\ f.written = e.written
  BY <1>6, <1>8 DEF States
<1> HIDE DEF f
<1>10. ServerTypeOK' /\ server' = s /\ written' = t.written
  BY <1>1, <1>6, <1>7, <1>9, BecomesType
<1>11. server'.gotfile = server.gotfile
  BY <1>5, <1>6, <1>8, <1>10 DEF Like
<1> QED  BY <1>5, <1>6, <1>8, <1>10, <1>11 DEF Like, Handled

\* An abort ends a Put without a file.
LEMMA AbortedFields ==
    ASSUME ClientTypeOK, ServerTypeOK, ServerInv, HandleAbort
    PROVE  /\ ServerTypeOK' /\ written' = written
           /\ server'.handler \in {"none", "put"} /\ ~server'.aborted
           /\ server'.gotfile = server.gotfile
           /\ \/ server' = server /\ toClient' = toClient /\ toServer' = <<>>
              \/ ~server'.definitely /\ Answer("ok")
<1>1. /\ server.handler \in {"none", "put"} /\ pc' = pc /\ result' = result
  BY DEF HandleAbort, ServerInv
<1>2. CASE server.handler = "none"
  <2>1. /\ toServer' = <<>> /\ toClient' = toClient /\ server' = server
        /\ notify' = notify /\ written' = written
    BY <1>2 DEF HandleAbort
  <2> QED  BY <1>1, <2>1 DEF ServerTypeOK, ServerInv
<1>3. CASE server.handler = "put"
  <2> DEFINE t == [State EXCEPT !.server.aborted = TRUE, !.server.definitely = TRUE]
             s == [server EXCEPT !.aborted = TRUE, !.definitely = TRUE]
  <2>1. Becomes(NotifyRequestFinished(t)) /\ Answer("ok")
    BY <1>3 DEF HandleAbort
  <2>2. State \in States /\ State.server = server /\ State.written = written
    BY StateType
  <2>3. /\ s \in Servers /\ s.aborted /\ s.definitely /\ s.handler = "put"
        /\ s.gotfile = server.gotfile
    BY <1>3, <2>2 DEF States, Servers
  <2>4. t = [State EXCEPT !.server = s]
    BY <2>2 DEF States
  <2> HIDE DEF s, t
  <2>5. t \in States /\ t.server = s /\ t.written = written
    BY <2>2, <2>3, <2>4 DEF States
  <2>6. PICK n : n = NotifyRequestFinished(t)
    OBVIOUS
  <2>7. /\ n \in States /\ n.written = t.written /\ n.server.handler = "put"
        /\ ~n.server.definitely /\ ~n.server.aborted
        /\ n.server.gotfile = server.gotfile
    <3>1. server.gotfile \in BOOLEAN
      BY DEF ServerTypeOK
    <3>2. /\ n \in States /\ n.written = t.written
          /\ n.server.handler = t.server.handler
          /\ n.server.definitely = (t.server.definitely /\ t.server.handler # "put")
          /\ (t.server.handler = "put" /\ t.server.definitely => ~n.server.aborted)
          /\ n.server.gotfile =
               (t.server.gotfile \/ ( /\ t.server.handler = "put" /\ t.server.definitely
                                      /\ ~t.server.aborted))
      BY <2>5, <2>6, NotifyFields
    <3> QED  BY <2>3, <2>5, <3>1, <3>2
  <2>8. ServerTypeOK' /\ server' = n.server /\ written' = n.written
    BY <1>1, <2>1, <2>6, <2>7, BecomesType
  <2> QED  BY <2>1, <2>5, <2>7, <2>8
<1> QED  BY <1>1, <1>2, <1>3

-----------------------------------------------------------------------------
(* The file. *)

\* The chunk after the last one makes the end of the file longer.
LEMMA NextChunk ==
    ASSUME ServerTypeOK, NEW n, NEW k \in Nat, EndsWith(written, n, k)
    PROVE  EndsWith(Append(written, <<n, k + 1>>), n, k + 1)
<1>1. PICK w : w = Append(written, <<n, k + 1>>)
  OBVIOUS
<1>2. PICK len \in Nat : len = Len(written)
  BY DEF ServerTypeOK
<1>3. /\ Len(w) = len + 1 /\ w[len + 1] = <<n, k + 1>>
      /\ \A j \in 1 .. len : w[j] = written[j]
  BY <1>1, <1>2 DEF ServerTypeOK
<1>4. /\ k <= len
      /\ \A i \in 1 .. k : written[len - k + i] = <<n, i>>
      /\ \A j \in 1 .. len - k : written[j][1] # n
  BY <1>2 DEF EndsWith
<1>5. \A i \in 1 .. k + 1 : w[(len + 1) - (k + 1) + i] = <<n, i>>
  <2> TAKE i \in 1 .. k + 1
  <2>1. CASE i = k + 1
    <3>1. (len + 1) - (k + 1) + i = len + 1
      BY <2>1
    <3> QED  BY <1>3, <2>1, <3>1
  <2>2. CASE i \in 1 .. k
    <3>1. (len + 1) - (k + 1) + i = len - k + i /\ len - k + i \in 1 .. len
      BY <1>4, <2>2
    <3> QED  BY <1>3, <1>4, <2>2, <3>1
  <2> QED  BY <2>1, <2>2
<1>6. \A j \in 1 .. (len + 1) - (k + 1) : w[j][1] # n
  <2> TAKE j \in 1 .. (len + 1) - (k + 1)
  <2>1. j \in 1 .. len - k /\ j \in 1 .. len
    BY <1>4
  <2> QED  BY <1>3, <1>4, <2>1
<1>7. k + 1 <= Len(w)
  BY <1>3, <1>4
<1> QED  BY <1>1, <1>3, <1>5, <1>6, <1>7 DEF EndsWith

\* Chunks of other requests do not change what is in the file of one.
LEMMA StaysIn ==
    ASSUME ServerTypeOK, NEW n, NEW size \in Nat, IsInFile(n, size), NEW m, NEW i, m # n,
           written' = Append(written, <<m, i>>)
    PROVE  IsInFile(n, size)'
<1>1. PICK w : w = written'
  OBVIOUS
<1>2. PICK len \in Nat : len = Len(written)
  BY DEF ServerTypeOK
<1>3. /\ Len(w) = len + 1 /\ w[len + 1] = <<m, i>> /\ DOMAIN w = 1 .. len + 1
      /\ DOMAIN written = 1 .. len
      /\ \A j \in 1 .. len : w[j] = written[j]
  BY <1>1, <1>2 DEF ServerTypeOK
<1>4. PICK k \in 0 .. len - size :
         /\ \A b \in 1 .. size : written[k + b] = <<n, b>>
         /\ \A j \in 1 .. len : written[j][1] = n => j \in k + 1 .. k + size
  BY <1>2, <1>3 DEF IsInFile
<1>5. k \in 0 .. Len(w) - size
  BY <1>3, <1>4
<1>6. \A b \in 1 .. size : w[k + b] = <<n, b>>
  <2> TAKE b \in 1 .. size
  <2>1. k + b \in 1 .. len
    BY <1>4
  <2> QED  BY <1>3, <1>4, <2>1
<1>7. \A j \in 1 .. len + 1 : w[j][1] = n => j \in k + 1 .. k + size
  <2> TAKE j \in 1 .. len + 1
  <2>1. CASE j = len + 1
    BY <1>3, <2>1
  <2>2. CASE j \in 1 .. len
    BY <1>3, <1>4, <2>2
  <2> QED  BY <2>1, <2>2
<1> QED  BY <1>1, <1>3, <1>5, <1>6, <1>7 DEF IsInFile

-----------------------------------------------------------------------------
(* The actions of the server preserve the invariant. *)

\* Whose packet it is that the server has.
LEMMA PacketFacts ==
    ASSUME ClientTypeOK, CallInv, LinkInv, toServer # <<>>
    PROVE  /\ Packet.of \in Requests /\ Packet.of <= count
           /\ Packet.of = count => call.pc # "begin"
           /\ ~Accepted(Packet.of)
           /\ c.current # 0 => Packet.of = c.current /\ ~Replied(c.current)
           /\ Packet.kind = "put" => Spared(Packet.of)
<1>1. Packet.of \in Requests /\ c.current \in {0} \cup Requests
  BY PacketType DEF ClientTypeOK
<1>2. Packet.kind = "put" => told[Packet.of].kind = "put"
  BY DEF LinkInv
<1>3. CASE c.current # 0
  <2>1. /\ Packet.of = count /\ c.current = count /\ ~Replied(c.current)
        /\ call.pc = "waiting" /\ c.busy /\ told[count].outcome = "none"
    BY <1>3 DEF LinkInv, CallInv
  <2> QED  BY <1>1, <1>2, <2>1 DEF Accepted, Spared, Requests
<1>4. CASE c.current = 0
  <2>1. Dead(Packet.of)
    BY <1>4 DEF LinkInv
  <2>2. /\ Packet.of > count => told[Packet.of].outcome = "none"
        /\ call.pc # "idle" => told[count].outcome = "none" /\ count \in Requests
        /\ call.pc = "orphaned" => c.busy
        /\ count \in Nat
    BY <1>1 DEF CallInv, ClientTypeOK
  <2>3. Packet.of <= count
    BY <1>1, <2>1, <2>2 DEF Dead, Requests
  <2> QED  BY <1>1, <1>2, <1>4, <2>1, <2>2, <2>3 DEF Dead, Accepted, Spared
<1> QED  BY <1>3, <1>4

\* What is known of a reply that was sent.
LEMMA ReplySent ==
    ASSUME ClientTypeOK, toServer # <<>>, NEW code \in Codes \cup {"continue"},
           NEW body \in BOOLEAN,
           toClient' = <<[of |-> Packet.of, code |-> code, body |-> body]>>
    PROVE  /\ toClient' \in Seq(Replies) /\ Len(toClient') <= 1 /\ toClient' # <<>>
           /\ Reply'.of = Packet.of /\ Reply'.code = code
<1>1. PICK r : r = [of |-> Packet.of, code |-> code, body |-> body]
  OBVIOUS
<1>2. r \in Replies
  BY <1>1, PacketType DEF Replies
<1>3. /\ toClient' \in Seq(Replies) /\ Len(toClient') <= 1 /\ toClient' # <<>>
      /\ Head(toClient') = r
  BY <1>1, <1>2
<1> QED  BY <1>1, <1>3 DEF Reply

\* The server has done with a packet: it is answered, or is not.
Answered(code) ==
    /\ toServer' = <<>>
    /\ \/ toClient' = toClient
       \/ toClient' # <<>> /\ Reply'.of = Packet.of /\ Reply'.code = code

\* An answer is sent if the link is there.
LEMMA AnswerFields ==
    ASSUME ClientTypeOK, toServer # <<>>, NEW code \in Codes \cup {"continue"},
           Answer(code), UNCHANGED <<clientvars, up>>
    PROVE  ClientTypeOK' /\ Answered(code)
<1>1. toServer' = <<>> /\ <<>> \in Seq(Packets) /\ Len(<<>>) = 0
  BY DEF Answer
<1>2. CASE up
  <2>1. toClient' = <<[of |-> Packet.of, code |-> code, body |-> FALSE]>>
    BY <1>2 DEF Answer
  <2>2. /\ toClient' \in Seq(Replies) /\ Len(toClient') <= 1 /\ toClient' # <<>>
        /\ Reply'.of = Packet.of /\ Reply'.code = code
    <3>1. FALSE \in BOOLEAN
      OBVIOUS
    <3> QED  BY <2>1, <3>1, ReplySent
  <2> QED  BY <1>1, <2>2 DEF Answered, ClientTypeOK, clientvars
<1>3. CASE ~up
  <2>1. toClient' = toClient
    BY <1>3 DEF Answer
  <2> QED  BY <1>1, <2>1 DEF Answered, ClientTypeOK, clientvars
<1> QED  BY <1>2, <1>3

\* What an answer leaves of the link.
LEMMA AnsweredKeeps ==
    ASSUME ClientTypeOK, CallInv, LinkInv, toServer # <<>>, UNCHANGED clientvars,
           NEW code, Answered(code)
    PROVE  /\ LinkInv'
           /\ \A n : Replied(n)' => \/ Replied(n) /\ Reply' = Reply
                                    \/ n = Packet.of /\ Reply'.code = code
<1>1. /\ c' = c /\ call' = call /\ count' = count /\ told' = told /\ toServer' = <<>>
  BY DEF clientvars, Answered
<1>2. /\ Packet.of \in Requests /\ Packet.of <= count
      /\ Packet.of = count => call.pc # "begin"
  BY PacketFacts
<1>3. toClient' # <<>> => Reply'.of <= count /\ (Reply'.of = count => call.pc # "begin")
  <2>1. CASE toClient' = toClient
    BY <2>1 DEF LinkInv, Reply
  <2>2. CASE toClient' # <<>> /\ Reply'.of = Packet.of
    BY <1>2, <2>2
  <2> QED  BY <2>1, <2>2 DEF Answered
<1>4. LinkInv'
  BY <1>1, <1>3 DEF LinkInv
<1>5. \A n : Replied(n)' => \/ Replied(n) /\ Reply' = Reply
                            \/ n = Packet.of /\ Reply'.code = code
  BY DEF Answered, Replied, Reply
<1> QED  BY <1>4, <1>5

\* A packet is handled: what is written is its chunk, at the end of the file.
LEMMA ServedKeeps ==
    ASSUME IInv, ClientTypeOK', ServerTypeOK', ~foreign, toServer # <<>>,
           Packet.kind # "abort", pc # "returned",
           UNCHANGED <<clientvars, pc, result, foreign>>,
           NEW code, Handled(code), Answered(code)
    PROVE  IInv'
<1>1. /\ ClientTypeOK /\ ServerTypeOK /\ CallInv /\ TimesInv /\ LinkInv /\ ServerInv
      /\ GotInv
  BY DEF IInv, TypeOK
<1>2. /\ c' = c /\ call' = call /\ count' = count /\ told' = told /\ sender' = sender
      /\ finishes' = finishes /\ pc' = pc /\ result' = result /\ foreign' = foreign
      /\ toServer' = <<>>
  BY DEF clientvars, Answered
<1>3. TypeOK' /\ CallInv' /\ TimesInv'
  <2>1. foreign \in BOOLEAN
    BY DEF IInv, TypeOK
  <2> QED  BY <1>1, <1>2, <2>1 DEF TypeOK, CallInv, TimesInv
<1>4. /\ LinkInv'
      /\ \A n : Replied(n)' => \/ Replied(n) /\ Reply' = Reply
                               \/ n = Packet.of /\ Reply'.code = code
  BY <1>1, AnsweredKeeps
<1>5. ServerInv'
  <2>1. result = "none" /\ server'.handler \in {"none", "put"} /\ ~server'.aborted
    BY <1>1 DEF ServerInv, Handled
  <2>2. server.gotfile => server'.gotfile
    BY DEF Handled
  <2> QED  BY <1>1, <1>2, <2>1, <2>2 DEF ServerInv
<1>6. PICK p \in Requests : p = Packet.of
  BY <1>1, PacketType
<1>7. /\ p <= count /\ (p = count => call.pc # "begin") /\ ~Accepted(p)
      /\ c.current # 0 => p = c.current /\ ~Replied(c.current)
      /\ Packet.kind = "put" => Spared(p)
  BY <1>1, <1>6, PacketFacts
<1>8. c.current # 0 => ~c.aborts /\ Packet.kind = call.kind
  BY <1>1 DEF LinkInv
<1>9. \A m \in Requests : Spared(m) => Spared(m)'
  BY <1>2 DEF Spared
<1>10. \A m \in Requests : c.current = m => c.current # 0
  BY DEF Requests
<1>11. GotInv'
  <2>1. ASSUME server'.definitely
        PROVE  \E m \in Requests : Spared(m) /\ (c.current = m => ~c.aborts)
    <3>1. CASE Packet.kind = "put"
      BY <1>7, <1>8, <1>10, <3>1
    <3>2. CASE server.definitely
      BY <1>1, <1>8, <1>10, <3>2 DEF GotInv
    <3> QED  BY <2>1, <3>1, <3>2 DEF Handled
  <2>2. ASSUME server'.gotfile
        PROVE  \E m \in Requests :
                  Spared(m) /\ (c.current = m => ~(Replied(m)' /\ Reply'.code = "continue"))
    <3>1. CASE server.gotfile
      <4>1. PICK m \in Requests : Spared(m) /\ (c.current = m => toServer = <<>>)
        BY <1>1, <3>1 DEF GotInv
      <4> QED  BY <4>1

    <3>2. CASE (server.definitely \/ Packet.kind = "put") /\ code # "continue"
      <4>1. PICK m \in Requests : Spared(m)
        BY <1>1, <1>6, <1>7, <3>2 DEF GotInv
      <4>2. c.current = m => ~(Replied(m)' /\ Reply'.code = "continue")
        BY <1>4, <1>7, <1>10, <3>2
      <4> QED  BY <4>1, <4>2
    <3> QED  BY <2>2, <3>1, <3>2 DEF Handled
  <2> QED  BY <1>2, <1>8, <1>9, <1>10, <2>1, <2>2 DEF GotInv
<1>12. ASSUME FileInv, ~ShortReads PROVE FileInv'
  <2>1. \/ written' = written
        \/ Packet.chunk # 0 /\ written' = Append(written, <<p, Packet.chunk>>)
    BY <1>6 DEF Handled
  <2>2. ChunksInv'
    <3>1. CASE written' = written
      BY <1>2, <1>12, <3>1 DEF FileInv, ChunksInv
    <3>2. CASE written' = Append(written, <<p, Packet.chunk>>)
      <4>1. PICK len \in Nat : len = Len(written)
        BY <1>1 DEF ServerTypeOK
      <4>2. /\ DOMAIN written' = 1 .. len + 1 /\ DOMAIN written = 1 .. len
            /\ written'[len + 1] = <<p, Packet.chunk>>
            /\ \A j \in 1 .. len : written'[j] = written[j]
        BY <1>1, <3>2, <4>1 DEF ServerTypeOK
      <4>3. ASSUME NEW j \in 1 .. len + 1
            PROVE  written'[j][1] <= count /\ (written'[j][1] = count => call.pc # "begin")
        <5>1. CASE j = len + 1
          BY <1>7, <4>2, <5>1
        <5>2. CASE j \in 1 .. len
          BY <1>12, <4>2, <5>2 DEF FileInv, ChunksInv
        <5> QED  BY <5>1, <5>2
      <4> QED  BY <1>2, <4>2, <4>3 DEF ChunksInv
    <3> QED  BY <2>1, <3>1, <3>2
  <2>3. PacketInv'
    <3>1. SUFFICES ASSUME c.current # 0, call.kind = "put", ~c.aborts, Replied(count)',
                          Reply'.code \in {"continue", "ok"}
                   PROVE  /\ Reply'.code = "continue" => EndsWith(written', count, call.at)
                          /\ Reply'.code = "ok" => /\ EndsWith(written', count, call.size)
                                                   /\ server'.gotfile
      BY <1>2 DEF PacketInv, Replied
    <3>2. c.current = count /\ p = count /\ Packet.kind = "put" /\ ~Replied(count)
      BY <1>1, <1>7, <1>8, <3>1 DEF CallInv
    <3>3. Reply'.code = code
      BY <1>2, <1>4, <3>1, <3>2 DEF Replied
    <3>4. Took(written', written) /\ (code = "ok" => Packet.last /\ server'.gotfile)
      BY <3>1, <3>2, <3>3 DEF Handled
    <3>5. PICK chunk \in 0 .. MaxChunks : chunk = Packet.chunk
      BY <1>1, PacketType
    <3>6. /\ chunk = 0 => call.at = call.size
          /\ chunk > 0 => call.at = chunk
          /\ Packet.last => call.at = call.size
      BY <1>1, <1>12, <3>1, <3>5 DEF LinkInv
    <3>7. PICK k : k = IF Packet.chunk = 0 THEN call.size ELSE Packet.chunk - 1
      OBVIOUS
    <3>8. EndsWith(written, count, k)
      BY <1>12, <3>1, <3>7 DEF FileInv, PacketInv
    <3>9. EndsWith(written', count, call.at)
      <4>1. CASE chunk = 0
        BY <3>4, <3>5, <3>6, <3>7, <3>8, <4>1 DEF Took
      <4>2. CASE chunk # 0
        <5>1. k \in Nat /\ chunk = k + 1
          BY <3>5, <3>7, <4>2
        <5>2. written' = Append(written, <<count, k + 1>>)
          BY <1>6, <3>2, <3>4, <3>5, <4>2, <5>1 DEF Took
        <5>3. EndsWith(Append(written, <<count, k + 1>>), count, k + 1)
          BY <1>1, <3>8, <5>1, NextChunk
        <5>4. call.at = k + 1
          BY <3>5, <3>6, <4>2, <5>1
        <5> QED  BY <5>2, <5>3, <5>4
      <4> QED  BY <4>1, <4>2
    <3> QED  BY <3>3, <3>4, <3>6, <3>9
  <2>4. ToldInv'
    <3>1. ASSUME NEW n \in Requests, Accepted(n), told[n].kind = "put"
          PROVE  (IsInFile(n, told[n].size) /\ server.gotfile)'
      <4>1. IsInFile(n, told[n].size) /\ server.gotfile /\ n # p
        BY <1>7, <1>12, <3>1 DEF FileInv, ToldInv
      <4>2. PICK size \in Nat : size = told[n].size
        BY <1>1 DEF ClientTypeOK
      <4>3. CASE written' = written
        BY <1>2, <4>1, <4>3 DEF Handled, IsInFile
      <4>4. CASE written' = Append(written, <<p, Packet.chunk>>)
        <5>1. IsInFile(n, size)'
          BY <1>1, <4>1, <4>2, <4>4, StaysIn
        <5> QED  BY <1>2, <4>1, <4>2, <5>1 DEF Handled
      <4> QED  BY <2>1, <4>3, <4>4
    <3>2. \A n \in Requests : Accepted(n)' => Accepted(n)
      BY <1>2 DEF Accepted
    <3> QED  BY <1>2, <3>1, <3>2 DEF ToldInv
  <2> QED  BY <2>2, <2>3, <2>4 DEF FileInv
<1> QED  BY <1>2, <1>3, <1>4, <1>5, <1>11, <1>12 DEF IInv

\* An abort is handled: run() does not have a file of that request.
LEMMA AbortedKeeps ==
    ASSUME IInv, HandleAbort, ~foreign, UNCHANGED foreign
    PROVE  IInv'
<1>1. /\ ClientTypeOK /\ ServerTypeOK /\ CallInv /\ TimesInv /\ LinkInv /\ ServerInv
      /\ GotInv
  BY DEF IInv, TypeOK
<1>2. /\ c' = c /\ call' = call /\ count' = count /\ told' = told /\ sender' = sender
      /\ finishes' = finishes /\ pc' = pc /\ result' = result /\ foreign' = foreign
      /\ up' = up
  BY DEF HandleAbort, clientvars
<1>3. toServer # <<>> /\ Packet.kind = "abort" /\ pc # "returned"
  BY DEF HandleAbort, Handling
<1>4. /\ ServerTypeOK' /\ written' = written
      /\ server'.handler \in {"none", "put"} /\ ~server'.aborted
      /\ server'.gotfile = server.gotfile
      /\ \/ server' = server /\ toClient' = toClient /\ toServer' = <<>>
         \/ ~server'.definitely /\ Answer("ok")
  BY <1>1, AbortedFields
<1>5. ClientTypeOK' /\ Answered("ok") /\ (server' = server \/ ~server'.definitely)
  <2>1. CASE server' = server /\ toClient' = toClient /\ toServer' = <<>>
    <3>1. <<>> \in Seq(Packets) /\ Len(<<>>) = 0
      OBVIOUS
    <3> QED  BY <1>1, <1>2, <2>1, <3>1 DEF ClientTypeOK, Answered
  <2>2. CASE ~server'.definitely /\ Answer("ok")
    <3>1. "ok" \in Codes \cup {"continue"} /\ UNCHANGED <<clientvars, up>>
      BY <1>2 DEF Codes, clientvars
    <3> QED  BY <1>1, <1>3, <2>2, <3>1, AnswerFields
  <2> QED  BY <1>4, <2>1, <2>2
<1>6. TypeOK' /\ CallInv' /\ TimesInv'
  <2>1. foreign \in BOOLEAN
    BY DEF IInv, TypeOK
  <2> QED  BY <1>1, <1>2, <1>4, <1>5, <2>1 DEF TypeOK, CallInv, TimesInv
<1>7. /\ LinkInv'
      /\ \A n : Replied(n)' => \/ Replied(n) /\ Reply' = Reply
                               \/ n = Packet.of /\ Reply'.code = "ok"
  <2>1. UNCHANGED clientvars
    BY <1>2 DEF clientvars
  <2> QED  BY <1>1, <1>3, <1>5, <2>1, AnsweredKeeps
<1>8. ServerInv'
  BY <1>1, <1>2, <1>3, <1>4, <1>5 DEF ServerInv
<1>9. \A m \in Requests : Spared(m) => Spared(m)'
  BY <1>2 DEF Spared
<1>10. toServer' = <<>>
  BY <1>5 DEF Answered
<1>11. GotInv'
  <2>1. ASSUME server'.definitely
        PROVE  \E m \in Requests : Spared(m) /\ (c.current = m /\ c.aborts => ~Replied(m)')
    <3>1. server' = server /\ toClient' = toClient
      BY <1>4, <2>1
    <3>2. \A m \in Requests : Replied(m)' => Replied(m)
      BY <3>1 DEF Replied, Reply
    <3> QED  BY <1>1, <2>1, <3>1, <3>2 DEF GotInv
  <2>2. ASSUME server'.gotfile
        PROVE  \E m \in Requests : Spared(m) /\ c.current # m
    BY <1>1, <1>3, <1>4, <2>2 DEF GotInv
  <2> QED  BY <1>2, <1>9, <2>1, <2>2 DEF GotInv
<1>12. ASSUME FileInv PROVE FileInv'
  <2>1. ChunksInv'
    BY <1>2, <1>4, <1>12 DEF FileInv, ChunksInv
  <2>2. PacketInv'
    <3>1. c.current # 0 => c.aborts
      BY <1>1, <1>3 DEF LinkInv, ClientTypeOK, Kinds
    <3> QED  BY <1>2, <3>1 DEF PacketInv
  <2>3. ToldInv'
    <3>1. \A n \in Requests : Accepted(n)' => Accepted(n)
      BY <1>2 DEF Accepted
    <3> QED  BY <1>2, <1>4, <1>12, <3>1 DEF FileInv, ToldInv, IsInFile
  <2> QED  BY <2>1, <2>2, <2>3 DEF FileInv
<1> QED  BY <1>2, <1>6, <1>7, <1>8, <1>11, <1>12 DEF IInv

\* The events and waits of run() that have nothing to do with a packet.
LEMMA WaitKeeps ==
    ASSUME IInv, ~foreign, UNCHANGED foreign,
           ChannelClosed \/ SessionFails \/ Wake \/ TimeOut
    PROVE  IInv'
<1>1. /\ ClientTypeOK /\ ServerTypeOK /\ CallInv /\ TimesInv /\ LinkInv /\ ServerInv
      /\ GotInv
  BY DEF IInv, TypeOK
<1>2. /\ c' = c /\ call' = call /\ count' = count /\ told' = told /\ sender' = sender
      /\ finishes' = finishes /\ foreign' = foreign
      /\ toServer' = toServer /\ toClient' = toClient
  BY DEF ChannelClosed, SessionFails, Wake, TimeOut, clientvars, linkvars
<1>3. up' \in BOOLEAN
  BY <1>1 DEF ChannelClosed, SessionFails, Wake, TimeOut, linkvars, EndRun, ClientTypeOK
<1>4. /\ ServerTypeOK' /\ written' = written
      /\ server'.handler \in {"none", "put"} /\ ~server'.aborted
      /\ server'.definitely = server.definitely /\ server'.gotfile = server.gotfile
      /\ pc # "returned" => \/ pc' = pc /\ result' = result
                            \/ /\ pc' \in {"parting", "closing"} /\ server.gotfile
                               /\ result' = result
                            \/ pc' = "returned" /\ result' = "ok" /\ server.gotfile
                            \/ pc' = "returned" /\ result' = "raised" /\ ~server.gotfile
      /\ pc # "returned"
  <2>1. CASE ChannelClosed \/ SessionFails
    <3>1. pc # "returned" /\ pc' = pc /\ result' = result
      BY <2>1 DEF ChannelClosed, SessionFails
    <3>2. PICK e : e = ErrorOccurred(State)
      OBVIOUS
    <3>3. State \in States /\ State.server = server /\ State.written = written
      BY <1>1, StateType
    <3>4. e \in States /\ Like(e.server, server) /\ e.written = written
      BY <3>2, <3>3, ErrorFields
    <3>5. CASE Becomes(e)
      BY <1>1, <3>1, <3>4, <3>5, BecomesType DEF Like, ServerInv
    <3>6. CASE Becomes([e EXCEPT !.server.session = FALSE, !.server.handler = "none"])
      <4> DEFINE s == [e.server EXCEPT !.session = FALSE, !.handler = "none"]
                 f == [e EXCEPT !.server = s]
      <4>1. /\ s \in Servers /\ s.handler = "none" /\ s.definitely = e.server.definitely
            /\ s.aborted = e.server.aborted /\ s.gotfile = e.server.gotfile
        BY <3>4 DEF States, Servers
      <4>2. f = [e EXCEPT !.server.session = FALSE, !.server.handler = "none"]
        BY <3>4 DEF States
      <4> HIDE DEF s
      <4>3. f \in States /\ f.server = s /\ f.written = e.written
        BY <3>4, <4>1 DEF States
      <4> HIDE DEF f
      <4>4. Becomes(f)
        BY <3>6, <4>2
      <4>5. ServerTypeOK' /\ server' = s /\ written' = written
        BY <1>1, <3>1, <3>4, <4>3, <4>4, BecomesType
      <4> QED  BY <1>1, <3>1, <3>4, <4>1, <4>5 DEF Like, ServerInv
    <3> QED  BY <2>1, <3>2, <3>5, <3>6 DEF ChannelClosed, SessionFails
  <2>2. CASE TimeOut
    BY <1>1, <2>2 DEF TimeOut, EndRun, ServerInv, ServerTypeOK
  <2>3. CASE Wake
    <3>1. /\ server' = server /\ written' = written /\ pc # "returned" /\ notify > 0
          /\ notify' = notify - 1
      BY <2>3 DEF Wake
    <3>2. server.gotfile \in BOOLEAN /\ notify' \in Nat
      BY <1>1, <3>1 DEF ServerTypeOK
    <3>3. \/ pc' = pc /\ result' = result
          \/ pc' \in {"parting", "closing"} /\ server.gotfile /\ result' = result
          \/ pc' = "returned" /\ result' = "ok" /\ server.gotfile
          \/ pc' = "returned" /\ result' = "raised" /\ ~server.gotfile
      BY <1>1, <2>3, <3>2 DEF Wake, EndRun, ServerInv
    <3>4. pc' \in {"file", "parting", "closing", "returned"}
          /\ result' \in {"none", "ok", "raised"}
      BY <1>1, <3>3 DEF ServerTypeOK
    <3> QED  BY <1>1, <3>1, <3>2, <3>3, <3>4 DEF ServerTypeOK, ServerInv
  <2> QED  BY <2>1, <2>2, <2>3
<1>5. TypeOK'
  <2>1. foreign \in BOOLEAN
    BY DEF IInv, TypeOK
  <2> QED  BY <1>1, <1>2, <1>3, <1>4, <2>1 DEF TypeOK, ClientTypeOK
<1>6. CallInv' /\ TimesInv'
  BY <1>1, <1>2 DEF CallInv, TimesInv
<1>7. LinkInv'
  BY <1>1, <1>2 DEF LinkInv, Packet, Reply, Replied, Dead
<1>8. ServerInv'
  BY <1>1, <1>2, <1>4 DEF ServerInv
<1>9. GotInv'
  <2>1. \A m \in Requests : Spared(m) => Spared(m)'
    BY <1>2 DEF Spared
  <2> QED  BY <1>1, <1>2, <1>4, <2>1 DEF GotInv, Replied, Reply
<1>10. ASSUME FileInv PROVE FileInv'
  <2>1. ChunksInv'
    BY <1>2, <1>4, <1>10 DEF FileInv, ChunksInv
  <2>2. PacketInv'
    BY <1>2, <1>4, <1>10 DEF FileInv, PacketInv, Packet, Reply, Replied
  <2>3. ToldInv'
    <3>1. \A n \in Requests : Accepted(n)' => Accepted(n)
      BY <1>2 DEF Accepted
    <3> QED  BY <1>2, <1>4, <1>10, <3>1 DEF FileInv, ToldInv, IsInFile
  <2> QED  BY <2>1, <2>2, <2>3 DEF FileInv
<1> QED  BY <1>2, <1>5, <1>6, <1>7, <1>8, <1>9, <1>10 DEF IInv

\* Another server answers anything.
LEMMA ForeignKeeps ==
    ASSUME IInv, ForeignAnswer
    PROVE  IInv'
<1>1. /\ ClientTypeOK /\ ServerTypeOK /\ CallInv /\ TimesInv /\ LinkInv /\ ServerInv
      /\ GotInv
  BY DEF IInv, TypeOK
<1>2. /\ foreign /\ foreign' = foreign /\ toServer # <<>> /\ toServer' = <<>> /\ up' = up
      /\ UNCHANGED clientvars /\ UNCHANGED servervars
  BY DEF ForeignAnswer
<1>3. /\ c' = c /\ call' = call /\ count' = count /\ told' = told /\ sender' = sender
      /\ finishes' = finishes /\ server' = server /\ written' = written
      /\ notify' = notify /\ pc' = pc /\ result' = result
  BY <1>2 DEF clientvars, servervars
<1>4. PICK code \in Codes \cup {"continue"}, body \in BOOLEAN :
         toClient' = <<[of |-> Packet.of, code |-> code, body |-> body]>>
  BY DEF ForeignAnswer
<1>5. /\ toClient' \in Seq(Replies) /\ Len(toClient') <= 1 /\ toClient' # <<>>
      /\ Reply'.of = Packet.of /\ Reply'.code = code
  BY <1>1, <1>2, <1>4, ReplySent
<1>6. ClientTypeOK'
  <2>1. <<>> \in Seq(Packets) /\ Len(<<>>) = 0
    OBVIOUS
  <2> QED  BY <1>1, <1>2, <1>3, <1>5, <2>1 DEF ClientTypeOK
<1>7. TypeOK' /\ CallInv' /\ TimesInv' /\ ServerInv'
  BY <1>1, <1>2, <1>3, <1>6 DEF TypeOK, ServerTypeOK, CallInv, TimesInv, ServerInv
<1>8. LinkInv'
  <2>1. Answered(code)
    BY <1>2, <1>5 DEF Answered
  <2> QED  BY <1>1, <1>2, <2>1, AnsweredKeeps
<1>9. GotInv'
  BY <1>1, <1>2, <1>3 DEF GotInv, ServerInv
<1> QED  BY <1>2, <1>7, <1>8, <1>9 DEF IInv

\* Nothing has happened yet.
LEMMA InitHolds ==
    ASSUME Init
    PROVE  IInv
<1>1. /\ c = [client |-> FALSE, busy |-> FALSE, error |-> "None", response |-> "None",
              current |-> 0, aborts |-> FALSE, aborting |-> FALSE, open |-> FALSE]
      /\ call = NoCall /\ count = 0
      /\ told = [n \in Requests |-> [kind |-> "other", size |-> 0, lost |-> FALSE,
                                     abort |-> FALSE, outcome |-> "none"]]
      /\ sender \in {"sendfile", "other"}
      /\ finishes = [n \in Requests |-> 0]
      /\ up = TRUE /\ toServer = <<>> /\ toClient = <<>>
  BY DEF Init, ClientInit
<1>2. /\ server = [handler |-> "none", definitely |-> FALSE, aborted |-> FALSE,
                   session |-> TRUE, error |-> FALSE, gotfile |-> FALSE,
                   gotdisconnect |-> FALSE, disconnected |-> FALSE]
      /\ written = <<>> /\ notify = 0 /\ pc = "file" /\ result = "none"
      /\ foreign \in BOOLEAN
  BY DEF Init, ServerInit
<1>3. ClientTypeOK
  <2>1. /\ <<>> \in Seq(Packets) /\ <<>> \in Seq(Replies) /\ Len(<<>>) = 0
    OBVIOUS
  <2>2. call \in [pc : {"idle", "begin", "waiting", "orphaned"}, kind : Kinds,
                  size : 0 .. MaxChunks, at : 0 .. MaxChunks, lost : BOOLEAN]
    BY <1>1 DEF NoCall, Kinds
  <2>3. told \in [Requests -> [kind : Bodies \cup {"other"}, size : 0 .. MaxChunks,
                     lost : BOOLEAN, abort : BOOLEAN,
                     outcome : Codes \cup {"none", "raised", "aborted"}]]
    BY <1>1
  <2>4. c \in [client   : BOOLEAN, busy : BOOLEAN,
               error    : {"None", "success", "transport", "other"},
               response : Codes \cup {"None", "aborted"},
               current  : {0} \cup Requests, aborts : BOOLEAN,
               aborting : BOOLEAN, open : BOOLEAN]
    BY <1>1
  <2>5. finishes \in [Requests -> Nat] /\ count \in 0 .. MaxRequests
    BY <1>1
  <2> QED  BY <1>1, <2>1, <2>2, <2>3, <2>4, <2>5 DEF ClientTypeOK
<1>4. ServerTypeOK
  <2>1. written \in Seq(Requests \X (1 .. MaxChunks))
    BY <1>2
  <2> QED  BY <1>2, <2>1 DEF ServerTypeOK
<1>5. CallInv
  BY <1>1 DEF CallInv, NoCall
<1>6. TimesInv /\ LinkInv
  BY <1>1 DEF TimesInv, LinkInv
<1>7. ServerInv /\ GotInv
  BY <1>2 DEF ServerInv, GotInv
<1>8. FileInv
  BY <1>1, <1>2 DEF FileInv, ChunksInv, PacketInv, ToldInv, Accepted, NoCall
<1> QED  BY <1>2, <1>3, <1>4, <1>5, <1>6, <1>7, <1>8 DEF IInv, TypeOK

\* Every step preserves the invariant.
LEMMA StepKeeps ==
    ASSUME IInv, [Next]_vars
    PROVE  IInv'
<1>1. ClientTypeOK /\ ServerTypeOK /\ CallInv /\ ServerInv
  BY DEF IInv, TypeOK
<1>2. CASE ClientStep /\ UNCHANGED <<servervars, foreign>>
  BY <1>2, ClientKeeps
<1>3. CASE ~foreign /\ HandleRequest /\ UNCHANGED foreign
  <2>1. ServerTypeOK' /\ \E code \in Codes \cup {"continue"} : Handled(code) /\ Answer(code)
    BY <1>1, <1>3, HandledFields
  <2>2. PICK code \in Codes \cup {"continue"} : Handled(code) /\ Answer(code)
    BY <2>1
  <2>3. /\ toServer # <<>> /\ Packet.kind # "abort" /\ pc # "returned"
        /\ UNCHANGED <<clientvars, up, pc, result>>
    BY <1>3 DEF HandleRequest, Handling
  <2>4. ClientTypeOK' /\ Answered(code)
    BY <1>1, <2>2, <2>3, AnswerFields
  <2> QED  BY <1>3, <2>1, <2>2, <2>3, <2>4, ServedKeeps
<1>4. CASE ~foreign /\ ResponseFails /\ UNCHANGED foreign
  <2>1. ServerTypeOK' /\ Handled("failed")
    BY <1>1, <1>4, ResponseFailsFields
  <2>2. /\ toServer # <<>> /\ Packet.kind # "abort" /\ pc # "returned"
        /\ UNCHANGED <<clientvars, up, toClient, pc, result>> /\ toServer' = <<>>
    BY <1>4 DEF ResponseFails, Handling
  <2>3. ClientTypeOK' /\ Answered("failed")
    <3>1. <<>> \in Seq(Packets) /\ Len(<<>>) = 0
      OBVIOUS
    <3> QED  BY <1>1, <2>2, <3>1 DEF ClientTypeOK, Answered, clientvars
  <2> QED  BY <1>4, <2>1, <2>2, <2>3, ServedKeeps
<1>5. CASE ~foreign /\ HandleAbort /\ UNCHANGED foreign
  BY <1>5, AbortedKeeps
<1>6. CASE /\ ~foreign /\ UNCHANGED foreign
           /\ ChannelClosed \/ SessionFails \/ Wake \/ TimeOut
  BY <1>6, WaitKeeps
<1>7. CASE ForeignAnswer
  BY <1>7, ForeignKeeps
<1>8. CASE LoseLink \/ UNCHANGED vars
  <2>1. /\ UNCHANGED clientvars /\ up' \in BOOLEAN /\ toServer' = toServer
        /\ toClient' \in {<<>>, toClient} /\ Aside
    BY <1>1, <1>8 DEF LoseLink, vars, linkvars, Aside, ClientTypeOK
  <2> QED  BY <2>1, DropKeeps
<1> QED  BY <1>2, <1>3, <1>4, <1>5, <1>6, <1>7, <1>8 DEF Next, ServerEvent

-----------------------------------------------------------------------------
\* What the client, the server and the link know of each other is an invariant of OBEX
\* on the Mac: BBBluetoothOBEXClient, BBBluetoothOBEXServer and what lies between.
THEOREM Inductive == Spec => []IInv
<1>1. Init => IInv
  BY InitHolds
<1>2. IInv /\ [Next]_vars => IInv'
  BY StepKeeps
<1> QED  BY <1>1, <1>2, PTL DEF Spec

\* Every variable of the session keeps its type.
THEOREM TypeCorrect == Spec => []TypeOK
<1>1. IInv => TypeOK
  BY DEF IInv
<1> QED  BY <1>1, Inductive, PTL

\* What the delegate was told changes only when the request in progress ends.
LEMMA TellsInTurn ==
    ASSUME IInv, [Next]_vars, NEW n \in Requests, finishes'[n] # finishes[n]
    PROVE  \E error, code : Over(error, code) /\ n = c.current
<1>1. ClientTypeOK /\ CallInv
  BY DEF IInv, TypeOK
<1>2. CASE Fails
  <2>1. PICK error : Over(error, "None")
    BY <1>1, <1>2, FailsOver
  <2> QED  BY <1>1, <2>1 DEF Over, ClientTypeOK
<1>3. CASE FinalResponse
  <2>1. Over("success", Reply.code)
    BY <1>1, <1>3, FinalOver
  <2> QED  BY <1>1, <2>1 DEF Over, ClientTypeOK
<1>4. CASE ClientStep /\ ~Fails /\ ~FinalResponse
  BY <1>4 DEF ClientStep, ClientEvent, Fails, Call, RequestInDelegate, BadHeaders, Refuse,
              FirstReadFails, Begin, AbortCurrentRequest, NextReadFails, PerformAbort,
              Continue, IgnoreResponse, Return, BadResponse, clientvars
<1>5. CASE ~ClientStep
  BY <1>5 DEF Next, ServerEvent, HandleRequest, ResponseFails, HandleAbort, ChannelClosed,
              Wake, TimeOut, SessionFails, ForeignAnswer, LoseLink, vars, clientvars
<1> QED  BY <1>2, <1>3, <1>4, <1>5

\* finishedCurrentRequestWithError:responseCode: tells the delegate of each request once
\* at most: of the one that was made last, while its method waits.
THEOREM RequestsFinishOnce == Spec => FinishedOnce
<1>1. IInv /\ [Next]_vars =>
        [\A n \in Requests :
           finishes'[n] # finishes[n] =>
             /\ finishes[n] = 0 /\ finishes'[n] = 1
             /\ n = count /\ call.pc = "waiting" /\ c.busy /\ ~c'.busy]_vars
  <2> SUFFICES ASSUME IInv, [Next]_vars, NEW n \in Requests, finishes'[n] # finishes[n]
               PROVE  /\ finishes[n] = 0 /\ finishes'[n] = 1
                      /\ n = count /\ call.pc = "waiting" /\ c.busy /\ ~c'.busy
    OBVIOUS
  <2>1. PICK error, code : Over(error, code) /\ n = c.current
    BY TellsInTurn
  <2>2. n = count /\ call.pc = "waiting" /\ c.busy /\ ~c'.busy
    BY <2>1 DEF IInv, CallInv, Over, Requests
  <2>3. finishes[n] = 0
    BY <2>2 DEF IInv, TimesInv
  <2>4. finishes'[n] = finishes[n] + 1
    BY <2>1 DEF IInv, TypeOK, ClientTypeOK, Over
  <2> QED  BY <2>2, <2>3, <2>4
<1> QED  BY <1>1, Inductive, PTL DEF FinishedOnce, Spec

\* A request returns as aborted only if abortCurrentRequest: was called during it, and
\* recvfile() does not return normally with the file of such a Put.
THEOREM AbortsAreAsked == Spec => []AbortedAsAsked
<1>1. IInv => AbortedAsAsked
  <2> SUFFICES ASSUME IInv, NEW n \in Requests, told[n].outcome = "aborted"
               PROVE  /\ told[n].abort
                      /\ result = "ok" => \E m \in Requests \ {n} : told[m].kind = "put"
    BY DEF AbortedAsAsked
  <2>1. told[n].abort
    BY DEF IInv, CallInv
  <2>2. ASSUME result = "ok"
        PROVE  \E m \in Requests \ {n} : told[m].kind = "put"
    <3>1. server.gotfile
      BY <2>2 DEF IInv, ServerInv
    <3>2. PICK m \in Requests : Spared(m)
      BY <3>1 DEF IInv, GotInv
    <3>3. told[m].kind = "put" /\ m # n
      BY <3>2 DEF Spared
    <3> QED  BY <3>3
  <2> QED  BY <2>1, <2>2
<1> QED  BY <1>1, Inductive, PTL

\* Where read() of a file returns what it is asked for until the end, a Put that was
\* answered OK is in the server's file, whole and in one piece, and recvfile() does not
\* raise.
THEOREM PutsAreReceived ==
    ASSUME ~ShortReads
    PROVE  Spec => []PutIsReceived
<1>1. IInv => PutIsReceived
  <2> SUFFICES ASSUME IInv, NEW n \in Requests, ~foreign,
                      told[n].outcome = "ok", told[n].kind = "put"
               PROVE  IsInFile(n, told[n].size) /\ result # "raised"
    BY DEF PutIsReceived
  <2>1. IsInFile(n, told[n].size) /\ server.gotfile
    BY DEF IInv, FileInv, ToldInv, Accepted
  <2> QED  BY <2>1 DEF IInv, ServerInv
<1> QED  BY <1>1, Inductive, PTL
=============================================================================
