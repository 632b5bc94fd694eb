--------------------------- MODULE LinuxObexServer ---------------------------
(***************************************************************************)
(* recvfile() on Linux: the push server of src/src/linux/_obex.py over the *)
(* OBEXServer type of src/src/linux/lightblueobex_server.c, receiving from *)
(* one connection.  At the other end is sendfile() of the same package, or *)
(* another client that makes any requests in any order.                    *)
(*                                                                         *)
(* OpenOBEX reads one packet in each call of process() and tells the       *)
(* server of it in a series of events; so a packet is one step, and the    *)
(* event handlers are operators on the state of the server.                *)
(*                                                                         *)
(* OpenOBEX and the link are external.  Assumed of OpenOBEX: it answers    *)
(* each packet before it takes another; when the server has denied a       *)
(* request it sends that answer to the packet at hand and tells of no      *)
(* OBEX_EV_REQ; a request that the client aborts, or whose packet cannot   *)
(* be parsed, ends without OBEX_EV_REQDONE.                                *)
(***************************************************************************)
EXTENDS Integers, Sequences

CONSTANTS MaxRequests,  \* bound: requests the client makes
          MaxChunks     \* bound: chunks in the body of a Put

ASSUME PushAssumption == MaxRequests \in Nat /\ MaxChunks \in Nat

Requests == 1 .. MaxRequests

\* "delete" is a Put without a body.  "other" stands for any operation the push
\* server does not implement, but for Get.
Kinds == {"connect", "disconnect", "put", "delete", "get", "other"}

Answers  == {"none", "continue", "ok", "failed", "notimpl", "aborted"}
Failures == {"OBEXError", "ValueError", "AttributeError"}

VARIABLES
    server,   \* the fields of both server objects, and the file: see TypeOK
    pc,       \* where run() is
    result,   \* how recvfile() ended
    up,       \* the link is up
    request,  \* the last request of the client: see TypeOK
    packet,   \* its packet on the way to the server, if any
    answer,   \* the answer on the way to the client, if any
    told,     \* told[n]: request n, and the final answer to it that the client has read
    sender,   \* what the client is: "sendfile" or "other"
    sent      \* how sendfile() ends

client == <<request, told, sender, sent>>
vars   == <<server, pc, result, up, packet, answer, client>>

Chunks == Requests \X (1 .. MaxChunks)

TypeOK ==
    /\ server \in [notified : BOOLEAN, hasbody : BOOLEAN,  \* fields of OBEXServer
                   fileobj  : {"NULL", "None", "file"},
                   rsp      : Answers,                     \* set on the OpenOBEX object
                   refs     : Int,      \* references to the file taken, less those dropped
                   gotfile  : BOOLEAN, disconnected : BOOLEAN,
                   busy     : {"unset", "yes", "no"},
                   error    : Failures \cup {"none"},
                   undone   : BOOLEAN,  \* a request has ended without OBEX_EV_REQDONE
                   written  : Seq(Chunks)]                 \* what is in the file
    /\ pc \in {"serving", "parting", "returned"}
    /\ result \in Failures \cup {"none", "ok"}
    /\ up \in BOOLEAN
    /\ request \in [n : 0 .. MaxRequests, kind : Kinds,
                    size : 0 .. MaxChunks,  \* chunks in its body
                    lead : BOOLEAN,         \* its first packet has headers only
                    at   : 0 .. MaxChunks]  \* the chunk in its last packet, or 0
    /\ packet \in {"none", "request", "abort"}
    /\ answer \in Answers
    /\ told \in [Requests -> [kind : Kinds, size : 0 .. MaxChunks, answer : Answers]]
    /\ sender \in {"sendfile", "other"}
    /\ sent \in {"running", "ok", "raised"}

Init ==
    /\ server = [notified |-> FALSE, hasbody |-> FALSE, fileobj |-> "NULL",
                 rsp |-> "ok", refs |-> 0, gotfile |-> FALSE, disconnected |-> FALSE,
                 busy |-> "unset", error |-> "none", undone |-> FALSE,
                 written |-> <<>>]
    /\ pc = "serving" /\ result = "none"
    /\ up = TRUE
    /\ request = [n |-> 0, kind |-> "connect", size |-> 0, lead |-> FALSE,
                  at |-> 0]
    /\ packet = "none" /\ answer = "none"
    /\ told = [n \in Requests |-> [kind |-> "connect", size |-> 0, answer |-> "none"]]
    /\ sender \in {"sendfile", "other"}
    /\ sent = "running"

\* Of the packet that the client has sent last: whether it is the first of its request,
\* the last, and whether it has a body header, which need not have data in it.
FirstPacket == IF request.lead THEN request.at = 0 ELSE request.at <= 1
LastPacket  == request.at = request.size
HasBody     == request.kind = "put" /\ (request.size = 0 \/ request.at > 0)

-----------------------------------------------------------------------------
(* The event handlers, as functions of the server's state s *)

\* error(): the first error is kept.
Error(s, exc) == IF s.error = "none" THEN [s EXCEPT !.error = exc] ELSE s

\* Py_XDECREF(self->fileobj); only references to the file itself are counted.
DropFile(s) == IF s.fileobj = "file" THEN s.refs - 1 ELSE s.refs

IsPut(kind) == kind \in {"put", "delete"}

\* newrequest(): the response and the file it returns.
NewRequest(kind) ==
    IF IsPut(kind) THEN [code |-> "ok", file |-> "file"]
    ELSE IF kind \in {"connect", "disconnect"} THEN [code |-> "ok", file |-> "None"]
    ELSE [code |-> "notimpl", file |-> "None"]

\* obexserver_notifynewrequest() and obexserver_setresponse(): None has no read(), so
\* a Get fails.  "readable" says whether the request headers could be read.
NotifyNewRequest(s, kind, readable) ==
    IF s.notified THEN [s EXCEPT !.rsp = "failed"]
    ELSE IF ~readable THEN [Error(s, "OBEXError") EXCEPT !.rsp = "failed"]
    ELSE IF kind = "get"
    THEN [Error(s, "ValueError") EXCEPT !.rsp = "failed", !.busy = "yes",
                                        !.notified = TRUE]
    ELSE LET new == NewRequest(kind)
         IN  [s EXCEPT !.busy = "yes", !.notified = TRUE, !.rsp = new.code,
                       !.refs = DropFile(s) + (IF new.file = "file" THEN 1 ELSE 0),
                       !.fileobj = new.file]

\* OBEX_EV_REQHINT.  The file of the last request is dropped, and the pointer is kept.
\* A Put is refused, without an error, if OpenOBEX does not stream its body to us.
IncomingRequest(s, streams) ==
    [s EXCEPT !.notified = FALSE, !.hasbody = FALSE, !.refs = DropFile(s),
              !.rsp = IF IsPut(request.kind) /\ ~streams THEN "failed" ELSE "ok"]

\* Mutant of StreamAvailable: the client is not told of a failed write.
StreamAvailableSilently(s, readable, writes) ==
    LET t == IF s.notified THEN [s EXCEPT !.hasbody = TRUE]
             ELSE NotifyNewRequest([s EXCEPT !.hasbody = TRUE], "put", readable)
    IN  IF t.rsp # "ok" \/ request.at = 0 THEN t
        ELSE IF ~writes THEN Error(t, "OBEXError")
        ELSE [t EXCEPT !.written = Append(@, <<request.n, request.at>>)]

\* OBEX_EV_STREAMAVAIL, with data or with none; "writes" is whether write() succeeds.
StreamAvailable(s, readable, writes) ==
    LET t == IF s.notified THEN [s EXCEPT !.hasbody = TRUE]
             ELSE NotifyNewRequest([s EXCEPT !.hasbody = TRUE], "put", readable)
    IN  IF t.rsp # "ok" THEN t
        ELSE IF t.fileobj = "NULL" THEN Error(t, "OBEXError")
        ELSE IF request.at = 0 THEN t
        ELSE IF ~writes THEN [Error(t, "OBEXError") EXCEPT !.rsp = "failed"]
        ELSE [t EXCEPT !.written = Append(@, <<request.n, request.at>>)]

\* OBEX_EV_REQ.  A Put with a body has been looked at already.
ReceivedRequest(s, readable) ==
    IF IsPut(request.kind) /\ s.hasbody THEN s
    ELSE NotifyNewRequest(s, request.kind, readable)

\* Mutant of RequestDone: the pointer to the file is kept.
RequestDoneKeepsPointer(s) ==
    [s EXCEPT !.disconnected = @ \/ request.kind = "disconnect",
              !.gotfile = @ \/ IsPut(request.kind),
              !.busy = "no", !.refs = DropFile(s)]

\* OBEX_EV_REQDONE, and requestdone().
RequestDone(s) ==
    [s EXCEPT !.disconnected = @ \/ request.kind = "disconnect",
              !.gotfile = @ \/ IsPut(request.kind),
              !.busy = "no", !.refs = DropFile(s), !.fileobj = "NULL"]

-----------------------------------------------------------------------------
(* run(), around process() *)

\* run() raises or returns, and so does recvfile(); the connection is closed.
Return(s, r) ==
    /\ pc' = "returned"
    /\ result' = r
    /\ server' = s
    /\ up' = FALSE

GoOn(s) == server' = s /\ UNCHANGED <<pc, result, up>>

\* run() leaves its loop, to wait for a Disconnect, or to raise.
LeaveLoop(s) ==
    IF ~s.gotfile THEN Return(s, IF s.error = "none" THEN "OBEXError" ELSE s.error)
    ELSE IF s.disconnected THEN Return(s, "ok")
    ELSE pc' = "parting" /\ server' = s /\ UNCHANGED <<result, up>>

\* process() has returned a positive number and left the server in state s.  busy
\* has no value before the first request.
Processed(s) ==
    IF pc = "parting" THEN IF s.disconnected THEN Return(s, "ok") ELSE GoOn(s)
    ELSE IF s.gotfile THEN LeaveLoop(s)
    ELSE IF s.error # "none" /\ s.busy = "unset" THEN Return(s, "AttributeError")
    ELSE IF s.error # "none" /\ s.busy = "no" THEN LeaveLoop(s)
    ELSE GoOn(s)

\* process() has returned -1.
Failed(s) ==
    IF pc = "parting" THEN Return(s, "ok") ELSE LeaveLoop(Error(s, "OBEXError"))

Running == pc # "returned"

\* What the events of a packet leave of the server, before an answer is sent.
Handle(streams, readable, writes) ==
    LET a == IF FirstPacket THEN IncomingRequest(server, streams) ELSE server
        b == IF HasBody /\ a.rsp = "ok" THEN StreamAvailable(a, readable, writes) ELSE a
    IN  IF LastPacket /\ b.rsp = "ok" THEN ReceivedRequest(b, readable) ELSE b

\* A packet is handled and answered.
HandlePacket ==
    /\ Running /\ up /\ packet = "request"
    /\ packet' = "none"
    /\ \E streams, readable, writes \in BOOLEAN :
          LET s == Handle(streams, readable, writes) IN
          IF LastPacket \/ s.rsp # "ok"
          THEN answer' = s.rsp /\ Processed(RequestDone(s))
          ELSE answer' = "continue" /\ Processed(s)
    /\ UNCHANGED client

\* The answer cannot be sent: OBEX_EV_LINKERR.
AnswerFails ==
    /\ Running /\ packet = "request"
    /\ packet' = "none"
    /\ \E streams, readable, writes \in BOOLEAN :
          Failed([Error(Handle(streams, readable, writes), "OBEXError")
                    EXCEPT !.undone = TRUE])
    /\ UNCHANGED <<answer, client>>

\* OBEX_EV_ABORT has no handler.
HandleAbort ==
    /\ Running /\ up /\ packet = "abort"
    /\ packet' = "none"
    /\ answer' = "aborted"
    /\ Processed([server EXCEPT !.undone = TRUE])
    /\ UNCHANGED client

\* OBEX_EV_PARSEERR: the packet cannot be parsed; process() may call that a failure.
ParseError ==
    /\ Running /\ up /\ packet # "none" /\ sender = "other"
    /\ packet' = "none"
    /\ answer' = "failed"
    /\ LET s == [Error(server, "OBEXError") EXCEPT !.undone = TRUE]
       IN  Processed(s) \/ Failed(s)
    /\ UNCHANGED client

\* OBEX_EV_LINKERR with nothing to handle.
LinkError ==
    /\ Running /\ ~up /\ packet # "request"
    /\ packet' = "none"
    /\ Failed([Error(server, "OBEXError") EXCEPT !.undone = TRUE])
    /\ UNCHANGED <<answer, client>>

\* Mutant of TimeOut: the wait for a Disconnect goes on.
TimeOutGoesOn ==
    /\ Running /\ up /\ packet = "none"
    /\ IF pc = "parting" THEN GoOn(server) ELSE LeaveLoop(server)
    /\ UNCHANGED <<packet, answer, client>>

\* process() has waited for 60 seconds, or 3, in vain.
TimeOut ==
    /\ Running /\ up /\ packet = "none"
    /\ IF pc = "parting" THEN Return(server, "ok") ELSE LeaveLoop(server)
    /\ UNCHANGED <<packet, answer, client>>

-----------------------------------------------------------------------------
(* The client *)

InProgress == request.n > 0 /\ told[request.n].answer = "none"

\* sendfile() connects, puts, and disconnects whatever has come of the Put; if it was
\* refused the connection, put() raises.
MayBegin(kind) ==
    \/ sender = "other"
    \/ request.n = 0 /\ kind = "connect"
    \/ request.n = 1 /\ kind = "put" /\ sent = "running"
    \/ request.n = 2 /\ kind = "disconnect"

\* The first packet of a request.  If the file of sendfile() cannot be read to its end
\* the body ends there, like any other, and sendfile() will raise.
Begin(kind, size, lead, fails) ==
    /\ up /\ ~InProgress /\ packet = "none" /\ answer = "none"
    /\ request.n < MaxRequests
    /\ MayBegin(kind)
    /\ size > 0 => kind = "put"
    /\ lead => size > 0
    /\ fails => kind = "put" /\ sender = "sendfile"
    /\ request' = [n |-> request.n + 1, kind |-> kind, size |-> size, lead |-> lead,
                   at |-> IF lead \/ size = 0 THEN 0 ELSE 1]
    /\ packet' = "request"
    /\ told' = [told EXCEPT ![request'.n] = [kind |-> kind, size |-> size, answer |-> "none"]]
    /\ sent' = IF fails THEN "raised" ELSE sent
    /\ UNCHANGED <<server, pc, result, up, answer, sender>>

\* The server wants more: the next chunk, or the client gives the request up.
Continue ==
    /\ up /\ answer = "continue"
    /\ answer' = "none"
    /\ \/ /\ packet' = "request"
          /\ request' = [request EXCEPT !.at = @ + 1]
       \/ /\ sender = "other"
          /\ packet' = "abort"
          /\ UNCHANGED request
    /\ UNCHANGED <<server, pc, result, up, told, sender, sent>>

\* The final answer, which may have been on its way when the connection was closed.
Receive ==
    /\ answer \notin {"none", "continue"}
    /\ answer' = "none"
    /\ told' = [told EXCEPT ![request.n].answer = answer]
    /\ sent' = IF sender = "sendfile" /\ sent = "running"
               THEN IF answer # "ok" THEN "raised"
                    ELSE IF request.kind = "put" THEN "ok" ELSE "running"
               ELSE sent
    /\ UNCHANGED <<server, pc, result, up, request, packet, sender>>

\* The link breaks, or the client finds out that it has, or closes it.  What the
\* server was sent may still reach it.
LoseLink ==
    /\ up \/ answer # "none" \/ sent = "running"
    /\ up' = FALSE
    /\ answer' = "none"
    /\ sent' = IF sender = "sendfile" /\ sent = "running" THEN "raised" ELSE sent
    /\ UNCHANGED <<server, pc, result, request, packet, told, sender>>

-----------------------------------------------------------------------------
Process == HandlePacket \/ AnswerFails \/ HandleAbort \/ ParseError \/ LinkError \/ TimeOut

Next ==
    \/ Process
    \/ \E kind \in Kinds, size \in 0 .. MaxChunks, lead, fails \in BOOLEAN :
          Begin(kind, size, lead, fails)
    \/ Continue \/ Receive \/ LoseLink

Spec == Init /\ [][Next]_vars

\* process() returns: it has a packet, or its time is up.  Nothing is assumed of the
\* client.
FairSpec == Spec /\ WF_vars(Process)

-----------------------------------------------------------------------------
(* What is checked. *)

\* The chunks of request n in the file are 1 .. size, in order and in one piece.
IsInFile(n, size) ==
    \E k \in 0 .. Len(server.written) - size :
       /\ \A i \in 1 .. size : server.written[k + i] = <<n, i>>
       /\ \A j \in DOMAIN server.written :
             server.written[j][1] = n => j \in k + 1 .. k + size

\* When sendfile() returns normally, the file that recvfile() has received is the body
\* it has sent, and recvfile() does not raise.  And whatever else a client does, a Put to
\* which it was told OK has all its chunks in the file, in order and with nothing in
\* between.
PutIsReceived ==
    /\ sender = "sendfile" /\ sent = "ok"
         => server.written = [i \in 1 .. told[2].size |-> <<2, i>>]
    /\ \A n \in Requests :
         told[n].answer = "ok" /\ IsPut(told[n].kind)
           => IsInFile(n, told[n].size) /\ result \in {"none", "ok"}

\* As long as every request ends with OBEX_EV_REQDONE the server drops the references
\* to the file that it has taken, and no other: its destructor drops the last.
ReferencesBalance ==
    ~server.undone => server.refs = IF server.fileobj = "file" THEN 1 ELSE 0

\* recvfile() ends, although the client may stop in the middle of a request.
RunEnds == <>(pc = "returned")
=============================================================================
