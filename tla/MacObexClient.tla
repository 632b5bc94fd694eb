---------------------------- MODULE MacObexClient ----------------------------
(***************************************************************************)
(* The OBEX client of the Mac: the Python class OBEXClient                 *)
(* (src/src/mac/_obex.py), which starts a request and waits in the event   *)
(* loop, over BBBluetoothOBEXClient and the request classes of             *)
(* LightAquaBlue, which answer the events of the system's OBEX session.    *)
(* A Cocoa application that uses LightAquaBlue in the same way may also    *)
(* abort a request, and make one in a method of its delegate, which the    *)
(* Python class does not offer.                                            *)
(*                                                                         *)
(* The session (OBEXSession of IOBluetooth) is external.  Assumed of it:   *)
(* one command at a time; a reply or an error for each; no reply to a      *)
(* command that has had an error; no command but Connect before Connect.   *)
(*                                                                         *)
(* A file object that calls the client while a request runs only has its   *)
(* call refused, since LightAquaBlue has a request already; what this      *)
(* changes (__reset()) has these values anyway.                            *)
(***************************************************************************)
EXTENDS Integers, Sequences

CONSTANTS MaxRequests,  \* bound: requests made
          MaxChunks,    \* bound: full packets in the body of a file
          ShortReads    \* whether read(n) may return fewer than n bytes before the end

ASSUME ObexClientAssumption ==
    MaxRequests \in Nat /\ MaxChunks \in Nat /\ ShortReads \in BOOLEAN

Requests == 1 .. MaxRequests
Kinds    == {"connect", "disconnect", "put", "delete", "get", "setpath"}
Bodies   == {"put", "get"}
Codes    == {"ok", "failed", "notimpl"}

\* A packet of request "of"; "chunk" is the number of the chunk in its body, or 0.
Packets  == [of : Requests, kind : Kinds \cup {"abort"}, chunk : 0 .. MaxChunks,
             last : BOOLEAN]
Replies  == [of : Requests, code : Codes \cup {"continue"}, body : BOOLEAN]

VARIABLES
    c,         \* fields of both client objects: see ClientTypeOK
    call,      \* the call that is made, and where it is
    count,     \* requests made
    told,      \* told[n]: request n, and what it returned
    sender,    \* who calls: "sendfile" calls three of the methods, once each
    finishes,  \* finishes[n]: how often the delegate was told that request n is over
    up,        \* the channel is open
    toServer,  \* packets that have not reached the server, at most one
    toClient   \* replies that have not reached the client, at most one

clientvars == <<c, call, count, told, sender, finishes>>
linkvars   == <<up, toServer, toClient>>

ClientTypeOK ==
    /\ c \in [client   : BOOLEAN,                                \* __client is not None
              busy     : BOOLEAN,                                \* __busy
              error    : {"None", "success", "transport", "other"},
              response : Codes \cup {"None", "aborted"},
              current  : {0} \cup Requests,                      \* mCurrentRequest
              aborts   : BOOLEAN,                                \* and that it is an Abort
              aborting : BOOLEAN,                                \* mAborting
              open     : BOOLEAN]                                \* the session is connected
    /\ call \in [pc   : {"idle", "begin", "waiting", "orphaned"}, kind : Kinds,
                 size : 0 .. MaxChunks,  \* chunks in the body of a Put
                 at   : 0 .. MaxChunks,  \* chunks read from the file
                 lost : BOOLEAN]         \* a chunk could not be written (Get)
    /\ count \in 0 .. MaxRequests
    /\ told \in [Requests -> [kind : Bodies \cup {"other"}, size : 0 .. MaxChunks,
                             lost    : BOOLEAN,
                             abort   : BOOLEAN,  \* an abort was asked for
                             outcome : Codes \cup {"none", "raised", "aborted"}]]
    /\ sender \in {"sendfile", "other"}
    /\ finishes \in [Requests -> Nat]
    /\ up \in BOOLEAN
    /\ toServer \in Seq(Packets) /\ Len(toServer) <= 1
    /\ toClient \in Seq(Replies) /\ Len(toClient) <= 1

NoCall == [pc |-> "idle", kind |-> "connect", size |-> 0, at |-> 0, lost |-> FALSE]

ClientInit ==
    /\ c = [client |-> FALSE, busy |-> FALSE, error |-> "None", response |-> "None",
            current |-> 0, aborts |-> FALSE, aborting |-> FALSE, open |-> FALSE]
    /\ call = NoCall
    /\ count = 0
    /\ told = [n \in Requests |-> [kind |-> "other", size |-> 0, lost |-> FALSE,
                                   abort |-> FALSE, outcome |-> "none"]]
    /\ sender \in {"sendfile", "other"}
    /\ finishes = [n \in Requests |-> 0]
    /\ up = TRUE /\ toServer = <<>> /\ toClient = <<>>

-----------------------------------------------------------------------------
(* The Python class *)

\* __closetransport(): the LightAquaBlue client goes with the channel.
Closed(d) == [d EXCEPT !.client = FALSE, !.current = 0, !.aborts = FALSE,
                       !.aborting = FALSE, !.open = FALSE]

\* __reset()
Reset(d) == [d EXCEPT !.busy = TRUE, !.error = "None", !.response = "None"]

\* Mutant of FinishedRequest: after an error the wait goes on.
FinishedRequestIfOK(d, error, response) ==
    LET e == IF error = "transport" THEN Closed(d) ELSE d
    IN  [e EXCEPT !.error = error, !.response = response, !.busy = error # "success"]

\* _finishedrequest(), called by the delegate.
FinishedRequest(d, error, response) ==
    LET e == IF error = "transport" THEN Closed(d) ELSE d
    IN  [e EXCEPT !.error = error, !.response = response, !.busy = FALSE]

\* sendfile(): connect() without headers; put(), unless connect() has raised; and
\* disconnect() whatever put() has done.  Its answer is that of put().
MayCall(kind) ==
    sender = "sendfile" =>
       \/ count = 0 /\ kind = "connect"
       \/ count = 1 /\ kind = "put" /\ told[1].outcome # "raised"
       \/ count = 2 /\ kind = "disconnect"

HasHeaders(kind) == sender = "sendfile" => kind = "put"

\* A method is called; all but connect() raise unless there is a client
\* (__checkconnected()), and then nothing has changed.
Call(kind, size) ==
    /\ call.pc = "idle" /\ count < MaxRequests
    /\ kind = "connect" \/ c.client
    /\ MayCall(kind)
    /\ size > 0 => kind = "put"
    /\ count' = count + 1
    /\ told' = [told EXCEPT ![count'].kind = IF kind \in Bodies THEN kind ELSE "other",
                          ![count'].size = size]
    /\ c' = Reset([c EXCEPT !.client = TRUE])
    /\ call' = [pc |-> "begin", kind |-> kind, size |-> size, at |-> 0, lost |-> FALSE]
    /\ UNCHANGED <<sender, finishes, linkvars>>

\* The method returns or raises.  disconnect() closes the channel whatever has
\* happened, connect() unless the server has accepted.
Finish(outcome) ==
    /\ call' = NoCall
    /\ told' = [told EXCEPT ![count].outcome = outcome, ![count].lost = call.lost]
    /\ IF call.kind = "disconnect" \/ (call.kind = "connect" /\ outcome # "ok")
       THEN c' = Closed(c) /\ up' = FALSE /\ toClient' = <<>> /\ UNCHANGED toServer
       ELSE UNCHANGED <<c, linkvars>>

\* _headersdicttoset() finds a header it does not know, or a value of a wrong type.
\* Of connect() this leaves a client that is not connected.
BadHeaders ==
    /\ call.pc = "begin" /\ HasHeaders(call.kind)
    /\ IF call.kind = "connect"
       THEN /\ call' = NoCall
            /\ told' = [told EXCEPT ![count].outcome = "raised"]
            /\ UNCHANGED <<c, linkvars>>
       ELSE Finish("raised")
    /\ UNCHANGED <<count, sender, finishes>>

\* The session refuses the command: no channel, not connected, or connected already.
Refuse ==
    /\ call.pc = "begin"
    /\ ~up \/ (c.open = (call.kind = "connect"))
    /\ Finish("raised")
    /\ UNCHANGED <<count, sender, finishes>>

\* The file cannot be read for the first packet: put() raises.
FirstReadFails ==
    /\ call.pc = "begin" /\ call.kind = "put"
    /\ Finish("raised")
    /\ UNCHANGED <<count, sender, finishes>>

\* waituntil(self._done) returns.
Return ==
    /\ call.pc = "waiting" /\ ~c.busy
    /\ Finish(IF c.error = "success" THEN c.response ELSE "raised")
    /\ UNCHANGED <<count, sender, finishes>>

\* The same, but the headers of the response cannot be read, for instance a time that
\* is none: __getresponse() raises.  connect() has then not closed anything.
BadResponse ==
    /\ call.pc = "waiting" /\ ~c.busy /\ c.error = "success"
    /\ IF call.kind = "connect"
       THEN /\ call' = NoCall
            /\ told' = [told EXCEPT ![count].outcome = "raised"]
            /\ UNCHANGED <<c, linkvars>>
       ELSE Finish("raised")
    /\ UNCHANGED <<count, sender, finishes>>

-----------------------------------------------------------------------------
(* LightAquaBlue *)

\* readNextChunkForHeaderLength:isLastChunk: takes a packet that is not full for the
\* last.  The last chunk of a file may fill its packet.
LastChunk(at) ==
    IF at < call.size THEN IF ShortReads THEN BOOLEAN ELSE {FALSE}
    ELSE IF at = call.size /\ at > 0 THEN BOOLEAN
    ELSE {TRUE}

\* The next packet of the running request is given to the session.
SendPacket(at, last) ==
    toServer' = <<[of |-> count, kind |-> call.kind,
                   chunk |-> IF call.kind = "put" /\ at <= call.size THEN at ELSE 0,
                   last |-> last]>>

\* beginWithHeaders:
Begin ==
    /\ call.pc = "begin"
    /\ up /\ c.open # (call.kind = "connect")
    /\ LET at == IF call.kind = "put" /\ call.size > 0 THEN 1 ELSE 0 IN
       /\ call' = [call EXCEPT !.pc = "waiting", !.at = at]
       /\ \E last \in IF call.kind = "put" THEN LastChunk(at) ELSE {TRUE} :
             SendPacket(at, last)
    /\ c' = [c EXCEPT !.current = count]
    /\ UNCHANGED <<count, told, sender, finishes, up, toClient>>

\* The delegate's method for the request, that for an Abort if it is one.  Each calls
\* _finishedrequest().  (That of the Python class has none for an Abort.)
DidFinish(d, error, code) ==
    FinishedRequest(d, error, IF c.aborts THEN "aborted" ELSE code)

\* Mutant of FinishedCurrentRequest: the abort flag stays.
FinishedKeepingAbort(d, error, code) ==
    /\ c' = DidFinish([d EXCEPT !.current = 0, !.aborts = FALSE], error, code)
    /\ up' = (up /\ error # "transport")
    /\ finishes' = [finishes EXCEPT ![c.current] = @ + 1]

\* Mutant of FinishedCurrentRequest: the request stays.
FinishedKeepingRequest(d, error, code) ==
    /\ c' = DidFinish([d EXCEPT !.aborting = FALSE], error, code)
    /\ up' = (up /\ error # "transport")
    /\ finishes' = [finishes EXCEPT ![c.current] = @ + 1]

\* finishedCurrentRequestWithError:responseCode: tells the delegate and then releases the
\* request.  The method of the Python delegate does nothing but _finishedrequest(); for
\* what another may do before the release see RequestInDelegate.
FinishedCurrentRequest(d, error, code) ==
    /\ c' = DidFinish([d EXCEPT !.current = 0, !.aborts = FALSE, !.aborting = FALSE],
                      error, code)
    /\ up' = (up /\ error # "transport")
    /\ finishes' = [finishes EXCEPT ![c.current] = @ + 1]

\* abortCurrentRequest: the Abort has to wait for its turn.
AbortCurrentRequest ==
    /\ sender = "other"
    /\ c.current # 0 /\ ~c.aborts /\ ~c.aborting
    /\ c' = [c EXCEPT !.aborting = TRUE]
    /\ told' = [told EXCEPT ![count].abort = TRUE]
    /\ UNCHANGED <<call, count, sender, finishes, linkvars>>

Reply == Head(toClient)

\* processResponseWithHeaders:responseCode: of "Continue", when an abort is due.
PerformAbort ==
    /\ toClient # <<>> /\ Reply.of = c.current /\ Reply.code = "continue"
    /\ c.aborting
    /\ toClient' = <<>>
    /\ \/ /\ up
          /\ c' = [c EXCEPT !.aborts = TRUE]
          /\ toServer' = <<[of |-> count, kind |-> "abort",
                            chunk |-> 0, last |-> TRUE]>>
          /\ UNCHANGED <<up, finishes>>
       \/ /\ ~up
          /\ FinishedCurrentRequest(c, "other", "None")
          /\ UNCHANGED toServer
    /\ UNCHANGED <<call, count, told, sender>>

\* The body in the reply to a Get is written.  That this has failed is not told to
\* anybody.
WriteBody ==
    \E fails \in BOOLEAN :
       /\ fails => call.kind = "get" /\ Reply.body
       /\ call' = [call EXCEPT !.lost = @ \/ fails]

\* The same when no abort is due: the next packet of a Put or Get.  A Delete has no
\* stream to read it from, which ends it with an error; other requests have none to send,
\* and go on waiting.
Continue ==
    /\ toClient # <<>> /\ Reply.of = c.current /\ Reply.code = "continue"
    /\ ~c.aborting
    /\ toClient' = <<>>
    /\ \/ /\ call.kind \in Bodies /\ up
          /\ \E last \in IF call.kind = "put" THEN LastChunk(call.at + 1) ELSE {TRUE} :
                SendPacket(call.at + 1, last)
          /\ IF call.kind = "get" THEN WriteBody
             ELSE call' = [call EXCEPT !.at = IF @ < call.size THEN @ + 1 ELSE @]
          /\ UNCHANGED <<c, up, finishes>>
       \/ /\ call.kind = "delete" \/ (call.kind \in Bodies /\ ~up)
          /\ FinishedCurrentRequest(c, "other", "None")
          /\ WriteBody
          /\ UNCHANGED toServer
       \/ /\ call.kind \notin Bodies \cup {"delete"}
          /\ UNCHANGED <<c, call, up, finishes, toServer>>
    /\ UNCHANGED <<count, told, sender>>

\* The file cannot be read: data is given the length -1, which raises an exception out
\* of handleSessionEvent:.  Nothing is sent, and the request is still there.
NextReadFails ==
    /\ toClient # <<>> /\ Reply.of = c.current /\ Reply.code = "continue"
    /\ ~c.aborting /\ call.kind = "put"
    /\ toClient' = <<>>
    /\ UNCHANGED <<clientvars, up, toServer>>

\* A final response.
FinalResponse ==
    /\ toClient # <<>> /\ Reply.of = c.current /\ Reply.code # "continue"
    /\ toClient' = <<>>
    /\ LET open == IF call.kind = "connect" THEN Reply.code = "ok"
                   ELSE c.open /\ call.kind # "disconnect"
       IN  FinishedCurrentRequest([c EXCEPT !.open = open], "success", Reply.code)
    /\ WriteBody
    /\ UNCHANGED <<count, told, sender, toServer>>

\* The delegate of an application makes its next request before its method returns.  It
\* is not refused, since the old one is finished, and takes its place; then the method
\* returns, the new request is released in place of the old one, and no event will find
\* it.  Since the rest of it is never sent, it has no body here.  As in Finish(), the
\* channel is given up by then if the old one was to disconnect or has not connected.
RequestInDelegate(kind) ==
    /\ sender = "other" /\ call.pc = "waiting" /\ ~c.busy /\ count < MaxRequests
    /\ up /\ c.open /\ call.kind # "disconnect" /\ kind # "connect"
    /\ count' = count + 1
    /\ told' = [told EXCEPT
                  ![count].outcome = IF c.error = "success" THEN c.response ELSE "raised",
                  ![count].lost = call.lost,
                  ![count'].kind = IF kind \in Bodies THEN kind ELSE "other"]
    /\ c' = Reset(c)
    /\ call' = [pc |-> "orphaned", kind |-> kind, size |-> 0, at |-> 0, lost |-> FALSE]
    /\ toServer' = <<[of |-> count', kind |-> kind, chunk |-> 0, last |-> TRUE]>>
    /\ UNCHANGED <<sender, finishes, up, toClient>>

\* A reply that nobody waits for.
IgnoreResponse ==
    /\ toClient # <<>> /\ Reply.of # c.current
    /\ toClient' = <<>>
    /\ UNCHANGED <<clientvars, up, toServer>>

\* An error event: the channel is gone, or the session has timed out.
SessionError(error) ==
    /\ c.current # 0
    /\ error = "transport" => ~up
    /\ FinishedCurrentRequest(c, error, "None")
    /\ toClient' = <<>>
    /\ UNCHANGED <<call, count, told, sender, toServer>>
=============================================================================
