---------------------------- MODULE MacObexServer ----------------------------
(***************************************************************************)
(* recvfile() on the Mac, once it has accepted a connection: the class     *)
(* BBOBEXObjectPushServer of src/src/mac/_obex.py, whose run() waits in    *)
(* the event loop, over BBBluetoothOBEXServer and the request handlers of  *)
(* LightAquaBlue, which answer the client's packets.                       *)
(*                                                                         *)
(* Each notification posted by interruptwait() ends one look at the        *)
(* condition of waituntil(); one that comes too early is used up.          *)
(* The events are handled only while run() waits.                          *)
(*                                                                         *)
(* Put packets without a body header, which a client of LightAquaBlue does *)
(* not send, are left out.                                                 *)
(***************************************************************************)
EXTENDS MacObexClient, SequencesExt

VARIABLES
    server,       \* fields of both server objects: see ServerTypeOK
    written, \* what is in the file: requests and numbers of chunks
    notify,  \* notifications in the event queue
    pc,      \* the wait of run() that is going on
    result   \* how recvfile() ended

servervars == <<server, written, notify, pc, result>>

ServerTypeOK ==
    /\ server \in [handler  : {"none"} \cup Kinds,        \* mCurrentRequestHandler
              definitely : BOOLEAN, aborted : BOOLEAN, \* of the Put handler
              session  : BOOLEAN,                    \* mSession is set
              error    : BOOLEAN, gotfile : BOOLEAN,
              gotdisconnect : BOOLEAN, disconnected : BOOLEAN]
    /\ written \in Seq(Requests \X (1 .. MaxChunks))
    /\ notify \in Nat
    /\ pc \in {"file", "parting", "closing", "returned"}
    /\ result \in {"none", "ok", "raised"}

ServerInit ==
    /\ server = [handler |-> "none", definitely |-> FALSE, aborted |-> FALSE,
            session |-> TRUE, error |-> FALSE, gotfile |-> FALSE,
            gotdisconnect |-> FALSE, disconnected |-> FALSE]
    /\ written = <<>> /\ notify = 0
    /\ pc = "file" /\ result = "none"

-----------------------------------------------------------------------------
(* run() *)

\* run() returns or raises.  recvfile() closes the connection only when it returns.
EndRun(ok) ==
    /\ pc' = "returned"
    /\ result' = IF ok THEN "ok" ELSE "raised"
    /\ up' = (up /\ ~ok)

\* waituntil() takes a notification and looks at its condition.
Wake ==
    /\ pc # "returned" /\ notify > 0
    /\ notify' = notify - 1
    /\ \/ /\ pc = "file" /\ (server.gotfile \/ server.error)
          /\ IF server.error THEN EndRun(server.gotfile)
             ELSE pc' = "parting" /\ UNCHANGED <<result, up>>
       \/ /\ pc = "parting" /\ server.gotdisconnect
          /\ pc' = "closing"
          /\ UNCHANGED <<result, up>>
       \/ /\ pc = "closing" /\ server.disconnected
          /\ EndRun(TRUE)
       \/ /\ ~ CASE pc = "file"    -> server.gotfile \/ server.error
                 [] pc = "parting" -> server.gotdisconnect
                 [] pc = "closing" -> server.disconnected
          /\ UNCHANGED <<pc, result, up>>
    /\ UNCHANGED <<clientvars, toServer, toClient, server, written>>

\* The wait for a Disconnect has lasted for three seconds.
TimeOut ==
    /\ pc = "parting"
    /\ EndRun(TRUE)
    /\ UNCHANGED <<clientvars, toServer, toClient, server, written, notify>>

-----------------------------------------------------------------------------
(* The request handlers, as functions of a state t of the server and of the *)
(* file.  "calls" counts the calls of interruptwait().                      *)

State == [server |-> server, calls |-> 0, code |-> "continue", written |-> written]

Packet == Head(toServer)

HandlerFor(kind) == IF kind = "delete" THEN "put" ELSE kind

\* server:errorOccurred:description:
ErrorOccurred(t) == [t EXCEPT !.server.error = TRUE, !.calls = @ + 1]

\* notifyRequestFinished, and the delegate's methods that it calls.
NotifyRequestFinished(t) ==
    CASE t.server.handler = "disconnect" ->
            [t EXCEPT !.server.disconnected = TRUE, !.calls = @ + 1]
      [] t.server.handler = "put" /\ t.server.definitely ->
            LET d == [t EXCEPT !.calls = @ + 1, !.server.definitely = FALSE,
                               !.server.aborted = FALSE]
            IN  IF t.server.aborted THEN [d EXCEPT !.server.error = TRUE]
                ELSE [d EXCEPT !.server.gotfile = TRUE]
      [] OTHER -> t

\* Mutant of PutResponse: a chunk is written before the stream is asked to.
PutResponseAnyway(t, writes) ==
    LET d == [t EXCEPT !.server.definitely = TRUE]
        code == IF Packet.last THEN "ok" ELSE "continue"
    IN  IF Packet.chunk = 0 \/ ~writes THEN [d EXCEPT !.code = code]
        ELSE [d EXCEPT !.code = code,
                       !.written = Append(@, <<Packet.of, Packet.chunk>>)]

\* preparePutResponseForRequestWithHeaders:; "writes" is whether write() succeeds.
PutResponse(t, writes) ==
    LET d == [t EXCEPT !.server.definitely = TRUE]
        code == IF Packet.last THEN "ok" ELSE "continue"
    IN  IF Packet.chunk = 0 THEN [d EXCEPT !.code = code]
        ELSE IF writes
        THEN [d EXCEPT !.code = code,
                       !.written = Append(@, <<Packet.of, Packet.chunk>>)]
        ELSE [ErrorOccurred(d) EXCEPT !.code = "failed"]

\* prepareResponseForRequestWithHeaders: of each handler.  A Put without a body is one to
\* delete, unless the handler is in the middle of a Put.
PrepareResponse(t, writes) ==
    CASE Packet.kind = "connect"    -> [t EXCEPT !.code = "ok"]
      [] Packet.kind = "disconnect" -> [t EXCEPT !.code = "ok", !.calls = @ + 1,
                                                 !.server.gotdisconnect = TRUE]
      [] \/ Packet.kind = "put"
         \/ Packet.kind = "delete" /\ t.server.definitely -> PutResponse(t, writes)
      [] OTHER                      -> [t EXCEPT !.code = "notimpl"]

\* The rest of handleRequestEvent:, when the response in t has been sent.
Finished(t) ==
    IF t.code = "continue" THEN t
    ELSE [NotifyRequestFinished(t) EXCEPT !.server.handler = "none"]

\* handleRequestEvent: up to the response.  A handler of another request may be there
\* still: that of a Put that was aborted.  "reads" is whether the headers can be read.
HandleRequestEvent(reads, writes) ==
    LET t == IF server.handler # "none" THEN State
             ELSE [State EXCEPT !.server.handler = HandlerFor(Packet.kind),
                                !.server.definitely = FALSE, !.server.aborted = FALSE]
    IN  IF t.server.handler # HandlerFor(Packet.kind) \/ ~reads
        THEN [ErrorOccurred(t) EXCEPT !.code = "failed"]
        ELSE PrepareResponse(t, writes)

Becomes(t) ==
    /\ server' = t.server
    /\ notify' = notify + t.calls
    /\ written' = t.written

Answer(code) ==
    /\ toServer' = <<>>
    /\ toClient' = IF up THEN <<[of |-> Packet.of, code |-> code, body |-> FALSE]>>
                   ELSE toClient

Handling == pc # "returned" /\ server.session /\ toServer # <<>>

\* A packet is handled, and answered.
HandleRequest ==
    /\ Handling /\ Packet.kind # "abort"
    /\ \E reads, writes \in BOOLEAN :
          LET t == HandleRequestEvent(reads, writes) IN
          Becomes(Finished(t)) /\ Answer(t.code)
    /\ UNCHANGED <<clientvars, up, pc, result>>

\* The response cannot be sent, which only ends the handler when the request was in
\* order.
ResponseFails ==
    /\ Handling /\ Packet.kind # "abort"
    /\ \E writes \in BOOLEAN :
          LET t == HandleRequestEvent(TRUE, writes) IN
          /\ server.handler \in {"none", HandlerFor(Packet.kind)}
          /\ Becomes([ErrorOccurred(t) EXCEPT !.server.handler = "none"])
    /\ toServer' = <<>>
    /\ UNCHANGED <<clientvars, up, toClient, pc, result>>

\* handleRequestAborted.  The handler stays where it is.  Without one, nobody answers.
HandleAbort ==
    /\ Handling /\ Packet.kind = "abort"
    /\ IF server.handler = "none" THEN toServer' = <<>> /\ UNCHANGED <<toClient, server, notify, written>>
       ELSE /\ LET t == [State EXCEPT !.server.aborted = TRUE, !.server.definitely = TRUE]
               IN  Becomes(NotifyRequestFinished(t))
            /\ Answer("ok")
    /\ UNCHANGED <<clientvars, up, pc, result>>

\* Mutant of ChannelClosed: run() is not woken.
ChannelClosedSilently ==
    /\ pc # "returned" /\ ~up /\ server.session
    /\ server' = [server EXCEPT !.session = FALSE, !.handler = "none", !.error = TRUE]
    /\ UNCHANGED <<clientvars, linkvars, notify, written, pc, result>>

\* channelClosed:channel:, and close.
ChannelClosed ==
    /\ pc # "returned" /\ ~up /\ server.session
    /\ LET t == ErrorOccurred(State)
       IN  Becomes([t EXCEPT !.server.session = FALSE, !.server.handler = "none"])
    /\ UNCHANGED <<clientvars, linkvars, pc, result>>

\* The session tells of an error of its own, at most one before others.
SessionFails ==
    /\ pc # "returned" /\ server.session /\ ~server.error
    /\ Becomes(ErrorOccurred(State))
    /\ UNCHANGED <<clientvars, linkvars, pc, result>>
=============================================================================
