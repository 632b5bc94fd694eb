--------------------------- MODULE LinuxObexClient ---------------------------
(***************************************************************************)
(* The OBEX client of the Linux implementation: the Python class           *)
(* OBEXClient (src/src/linux/_obex.py) over the type of the same name in   *)
(* C (src/src/linux/lightblueobex_client.c), which runs the OpenOBEX       *)
(* library in a loop until its request is done.                            *)
(*                                                                         *)
(* Requests are numbered in the order they are made; a number stands for   *)
(* the request, its file and its reply.  What the body of a file contains  *)
(* is left out: only the chunks it is moved in are counted.                *)
(*                                                                         *)
(* OpenOBEX and the server are external.  Of them is assumed that a        *)
(* request is a series of packets, each answered once, that a reply is     *)
(* taken for one to the request that is being made, and that the server    *)
(* says OK to a Put or Get only after the last packet.                     *)
(***************************************************************************)
EXTENDS Integers, Sequences

CONSTANTS MaxRequests,  \* bound: requests ever made
          MaxClients,   \* bound: C clients ever created
          MaxChunks,    \* bound: chunks in the body of a file
          Nested        \* whether the file objects call the client again

ASSUME ClientAssumption ==
    /\ MaxRequests \in Nat /\ MaxClients \in Nat /\ MaxChunks \in Nat
    /\ Nested \in BOOLEAN

Requests == 1 .. MaxRequests
Streams  == {"put", "get"}
Ops      == Streams \cup {"connect", "disconnect", "delete", "setpath"}

\* A reply to request "of"; "id" is the connection id in the reply to a connect.
\* "unreadable" is a final reply whose headers cannot be turned into Python values,
\* "malformed" one that OpenOBEX cannot parse.
Replies == [of   : Requests,
            kind : {"more", "ok", "no", "unreadable", "malformed"},
            id   : Requests \cup {0}]
Raised  == [of |-> 0, kind |-> "raised", id |-> 0]
NoReply == [of |-> 0, kind |-> "none", id |-> 0]

VARIABLES
    client,        \* __client: the number of the C client, or 0
    clients,       \* number of C clients created
    connectionid,  \* __connectionid, named by the request that was given it, or 0
    pc,            \* where the calling thread is
    op,            \* the operation it has called
    busy,          \* busy: the request that has set it, or 0
    error,         \* error: the request during which it was set, or 0
    fileobj,       \* fileobj: the request whose file it is, or 0
    resp,          \* resp and resp_headers
    size,          \* chunks in the body of the current request
    taken,         \* of these, how many the file (Put) or server (Get) has supplied
    moved,         \* of these, how many were handed on
    up,            \* the link to the server is up
    unanswered,    \* packets the server has not answered
    wire,          \* replies OpenOBEX has not handled
    count,         \* number of requests made
    on,            \* on[n]: the C client that request n was made on
    outcome        \* outcome[n]: what request n returned

python == <<client, clients, connectionid>>
cdata  == <<busy, error, fileobj, resp>>
body   == <<size, taken, moved>>
link   == <<up, unanswered, wire>>
calls  == <<count, on, outcome>>
vars   == <<python, pc, op, cdata, body, link, calls>>

Packets == [of : Requests, op : Ops, last : BOOLEAN]

TypeOK ==
    /\ client \in 0 .. MaxClients /\ clients \in 0 .. MaxClients
    /\ connectionid \in Requests \cup {0}
    /\ pc \in {"idle", "request", "waiting", "callback", "returning"}
    /\ op \in Ops
    /\ busy \in Requests \cup {0}
    /\ error \in Requests \cup {0}
    /\ fileobj \in Requests \cup {0}
    /\ resp \in Replies \cup {NoReply}
    /\ size \in 0 .. MaxChunks /\ taken \in 0 .. size /\ moved \in 0 .. taken
    /\ up \in BOOLEAN
    /\ unanswered \in Seq(Packets)
    /\ wire \in Seq(Replies)
    /\ count \in 0 .. MaxRequests
    /\ on \in [Requests -> 0 .. MaxClients]
    /\ outcome \in [Requests -> Replies \cup {NoReply, Raised}]

Init ==
    /\ client = 0 /\ clients = 0 /\ connectionid = 0
    /\ pc = "idle" /\ op = "connect"
    /\ busy = 0 /\ error = 0 /\ fileobj = 0 /\ resp = NoReply
    /\ size = 0 /\ taken = 0 /\ moved = 0
    /\ up = FALSE /\ unanswered = <<>> /\ wire = <<>>
    /\ count = 0
    /\ on = [n \in Requests |-> 0]
    /\ outcome = [n \in Requests |-> NoReply]

Goto(from, to) == pc = from /\ pc' = to

-----------------------------------------------------------------------------
(* The Python class *)

\* __setUp(): a new connection to the device and a new C client.  If either fails
\* OBEXError is raised and the call is no step of the model.
SetUp ==
    /\ clients < MaxClients
    /\ clients' = clients + 1
    /\ client' = clients'
    /\ busy' = 0 /\ error' = 0 /\ fileobj' = 0 /\ resp' = NoReply
    /\ up' = TRUE /\ unanswered' = <<>> /\ wire' = <<>>

\* A method is called.  All but connect() raise OBEXError if there is no client.
Call(o) ==
    /\ Goto("idle", "request")
    /\ count < MaxRequests
    /\ count' = count + 1
    /\ op' = o
    /\ IF client = 0
       THEN o = "connect" /\ SetUp
       ELSE UNCHANGED <<client, clients, cdata, link>>
    /\ on' = [on EXCEPT ![count'] = client']
    /\ UNCHANGED <<connectionid, body, outcome>>

\* Mutant of CloseTransport: the connection id is kept.
CloseTransportKeepingId ==
    /\ client' = 0
    /\ UNCHANGED connectionid
    /\ up' = FALSE /\ unanswered' = <<>> /\ wire' = <<>>

CloseTransport ==
    /\ client' = 0
    /\ connectionid' = 0
    /\ up' = FALSE /\ unanswered' = <<>> /\ wire' = <<>>

\* The method returns the response r, or raises.  disconnect() closes the transport
\* whatever has happened, connect() if the server refuses.
Finish(r) ==
    /\ pc' = "idle"
    /\ outcome' = [outcome EXCEPT ![count] = r]
    /\ IF op = "disconnect" \/ (op = "connect" /\ r.kind = "no")
       THEN CloseTransport
       ELSE /\ connectionid' = IF op = "connect" /\ r.kind = "ok" THEN r.id
                               ELSE connectionid
            /\ UNCHANGED <<client, link>>
    /\ UNCHANGED <<clients, op, body, count, on>>

\* __convertheaders() finds a header it does not know, or a value of a wrong type.
BadHeaders ==
    /\ pc = "request"
    /\ Finish(Raised)
    /\ UNCHANGED cdata

-----------------------------------------------------------------------------
(* The request of the C client *)

\* Mutant of RequestCleanup: the file is kept.
RequestKeepsFile == fileobj' = IF op \in Streams THEN count ELSE fileobj

RequestCleanup == fileobj' = 0

\* An error that is set already is kept.
SetError == error' = IF error # 0 THEN error ELSE count

\* startrequest() raises before it has changed anything: another request is in
\* progress, or OpenOBEX refuses the request, its headers or its data.
Refuse ==
    /\ pc = "request"
    /\ RequestCleanup
    /\ Finish(Raised)
    /\ UNCHANGED <<busy, error, resp>>

\* OBEX_Request() fails, as it does on a link that is down; busy has been set.  The
\* call that is to reset the error does nothing if there is one.
SendFails ==
    /\ pc = "request" /\ busy = 0
    /\ busy' = count
    /\ resp' = NoReply
    /\ RequestCleanup
    /\ Finish(Raised)
    /\ UNCHANGED error

Send ==
    /\ Goto("request", "waiting")
    /\ busy = 0 /\ up
    /\ busy' = count
    /\ resp' = NoReply
    /\ fileobj' = IF op \in Streams THEN count ELSE fileobj
    /\ size' \in IF op \in Streams THEN 0 .. MaxChunks ELSE {0}
    /\ taken' = 0 /\ moved' = 0
    /\ unanswered' = Append(unanswered, [of |-> count, op |-> op, last |-> op # "put"])
    /\ UNCHANGED <<python, op, error, up, wire, calls>>

\* The next reply is handled, and it is of kind k.
Receive(k) ==
    /\ pc = "waiting" /\ wire # <<>> /\ Head(wire).kind \in k
    /\ wire' = Tail(wire)

\* The packet that answers a "more": with the next chunk (Put), its end, or none (Get).
NextPacket(last) ==
    unanswered' = Append(unanswered, [of |-> count, op |-> op, last |-> last])

\* OBEX_EV_STREAMEMPTY or OBEX_EV_STREAMAVAIL: the file is to be read or written.
StreamEvent ==
    /\ Receive({"more"}) /\ op \in Streams /\ fileobj # 0
    /\ pc' = "callback"
    /\ UNCHANGED <<python, op, cdata, body, up, unanswered, calls>>

\* The same when there is no file: an error is set and the body is ended (Put) or
\* the chunk dropped (Get); the request goes on.
StreamEventWithoutFile ==
    /\ Receive({"more"}) /\ op \in Streams /\ fileobj = 0
    /\ SetError
    /\ NextPacket(TRUE)
    /\ UNCHANGED <<python, pc, op, busy, fileobj, resp, body, up, calls>>

\* Mutant of FileToStream: what read() returns at the end counts as a chunk.
FileToStreamPastEnd ==
    /\ Goto("callback", "waiting") /\ op = "put"
    /\ taken' = taken + 1
    /\ moved' = moved + 1
    /\ NextPacket(taken = size)
    /\ UNCHANGED <<python, op, cdata, size, up, wire, calls>>

\* read() has returned a chunk or nothing; write() has taken the chunk.
FileToStream ==
    /\ Goto("callback", "waiting") /\ op = "put"
    /\ taken' = IF taken < size THEN taken + 1 ELSE taken
    /\ moved' = IF taken < size THEN moved + 1 ELSE moved
    /\ NextPacket(taken = size)
    /\ UNCHANGED <<python, op, cdata, size, up, wire, calls>>

StreamToFile ==
    /\ Goto("callback", "waiting") /\ op = "get"
    /\ moved' = moved + 1
    /\ NextPacket(TRUE)
    /\ UNCHANGED <<python, op, cdata, size, taken, up, wire, calls>>

\* Mutant of FileFails: the failure is not recorded.
FileFailsSilently ==
    /\ Goto("callback", "waiting")
    /\ NextPacket(TRUE)
    /\ UNCHANGED <<python, op, cdata, body, up, wire, calls>>

\* read() or write() has raised, or returned something of no use.
FileFails ==
    /\ Goto("callback", "waiting")
    /\ SetError
    /\ NextPacket(TRUE)
    /\ UNCHANGED <<python, op, busy, fileobj, resp, body, up, wire, calls>>

\* Meanwhile the file object has called the client.  A request is refused; on the
\* way its file replaces that of the running request and is then dropped.
NestedRequest ==
    /\ Nested
    /\ pc = "callback" /\ client # 0
    /\ fileobj # 0
    /\ fileobj' = 0
    /\ UNCHANGED <<python, pc, op, busy, error, resp, body, link, calls>>

\* A nested disconnect() is refused as well and then closes the transport.
NestedDisconnect ==
    /\ Nested
    /\ pc = "callback" /\ client # 0
    /\ fileobj' = 0
    /\ CloseTransport
    /\ UNCHANGED <<clients, pc, op, busy, error, resp, body, calls>>

\* obexclient_requestdone(): the loop ends.
RequestDone(r) ==
    /\ pc' = "returning"
    /\ resp' = r
    /\ RequestCleanup
    /\ busy' = 0

\* OBEX_EV_REQDONE
Done ==
    /\ Receive({"ok", "no", "unreadable"})
    /\ RequestDone(Head(wire))
    /\ UNCHANGED <<python, op, error, body, up, unanswered, calls>>

\* OBEX_EV_PARSEERR
ParseError ==
    /\ Receive({"malformed"})
    /\ SetError
    /\ RequestDone(NoReply)
    /\ UNCHANGED <<python, op, body, up, unanswered, calls>>

\* OBEX_EV_LINKERR
LinkError ==
    /\ pc = "waiting"
    /\ SetError
    /\ RequestDone(NoReply)
    /\ up' = FALSE /\ wire' = <<>> /\ unanswered' = <<>>
    /\ UNCHANGED <<python, op, body, calls>>

\* OBEX_HandleInput() fails without an event, or with a link error that names no
\* request: busy is not reset.
InputError ==
    /\ Goto("waiting", "returning")
    /\ RequestCleanup
    /\ SetError
    /\ UNCHANGED <<python, op, busy, resp, body, link, calls>>

\* Mutant of TimeOut: the loop goes on.
TimeOutIgnored ==
    /\ Goto("waiting", "waiting")
    /\ wire = <<>>
    /\ UNCHANGED <<python, op, cdata, body, link, calls>>

\* Mutant of TimeOut: it raises at once, keeps no error and lets go of the request.
TimeOutRaises ==
    /\ pc = "waiting" /\ wire = <<>>
    /\ RequestCleanup
    /\ busy' = 0
    /\ Finish(Raised)
    /\ UNCHANGED <<error, resp>>

\* OBEX_HandleInput() has waited for input in vain: likewise.
TimeOut ==
    /\ Goto("waiting", "returning")
    /\ wire = <<>>
    /\ RequestCleanup
    /\ SetError
    /\ UNCHANGED <<python, op, busy, resp, body, link, calls>>

\* The error raises IOError, which becomes OBEXError; so do headers that could not
\* be read.
Return ==
    /\ pc = "returning"
    /\ Finish(IF error # 0 \/ resp.kind = "unreadable" THEN Raised ELSE resp)
    /\ UNCHANGED cdata

-----------------------------------------------------------------------------
(* The server *)

Reply(p, kind, id) == wire' = Append(wire, [of |-> p.of, kind |-> kind, id |-> id])

\* It answers a packet.  It asks for more of a Put until the last packet, and sends
\* more of a Get until there is no more.
Answer ==
    /\ up /\ unanswered # <<>>
    /\ unanswered' = Tail(unanswered)
    /\ LET p == Head(unanswered)
           more == p.op = "get" /\ p.of = count /\ taken < size
       IN  \/ /\ ~p.last \/ more
              /\ Reply(p, "more", 0)
              /\ taken' = IF more THEN taken + 1 ELSE taken
           \/ /\ p.last /\ ~more
              /\ \E id \in IF p.op = "connect" THEN {0, p.of} ELSE {0} :
                    Reply(p, "ok", id)
              /\ UNCHANGED taken
           \/ /\ \E kind \in {"no", "unreadable", "malformed"} : Reply(p, kind, 0)
              /\ UNCHANGED taken
    /\ UNCHANGED <<python, pc, op, cdata, size, moved, up, calls>>

-----------------------------------------------------------------------------
RequestStep  == BadHeaders \/ Refuse \/ SendFails \/ Send
CallbackStep == FileToStream \/ StreamToFile \/ FileFails
InputStep    == StreamEvent \/ StreamEventWithoutFile \/ Done \/ ParseError \/ TimeOut

Next ==
    \/ \E o \in Ops : Call(o)
    \/ RequestStep \/ InputStep \/ LinkError \/ InputError \/ CallbackStep \/ Return
    \/ NestedRequest \/ NestedDisconnect
    \/ Answer

Spec == Init /\ [][Next]_vars

\* The calling thread runs and the file objects return from read() and write().
\* OBEX_HandleInput() returns: with a reply if there is one, at the latest when the
\* time is up.  Nothing is assumed of the server.
Fairness ==
    /\ WF_vars(RequestStep)
    /\ WF_vars(InputStep)
    /\ WF_vars(CallbackStep)
    /\ WF_vars(Return)

FairSpec == Spec /\ Fairness

-----------------------------------------------------------------------------
(* What is checked. *)

\* A request that returns a response returns the one the server gave to that very
\* request, although requests before it were given up while their reply was due.
OwnReply ==
    \A n \in Requests : outcome[n].kind \in {"ok", "no"} => outcome[n].of = n

\* Between requests no file is kept: delete() is told from put() by its having no
\* file, so that it would send the one that an earlier request has left.
NoFileLeft == pc \in {"idle", "request"} => fileobj = 0

\* A connection id is used only on the connection on which the server has given it.
ConnectionIdCurrent ==
    connectionid # 0 => client # 0 /\ on[connectionid] = client

\* A put() or get() that returns OK has moved the whole body, also when the file
\* fails for one chunk or calls the client itself.
OkMeansWhole ==
    pc = "returning" /\ error = 0 /\ resp.kind = "ok" /\ op \in Streams
      => moved = size

\* A method that has been called returns or raises, although the server may stop
\* answering at any time.
CallEnds == pc # "idle" ~> pc = "idle"

\* "reset data for the new request" (startrequest): a request fails because of an
\* error of its own, not because of one that an earlier request has met.
FailureIsOwn == pc = "returning" /\ error # 0 => error = count
=============================================================================
