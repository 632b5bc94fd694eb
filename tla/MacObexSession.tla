---------------------------- MODULE MacObexSession ---------------------------
(***************************************************************************)
(* OBEX on the Mac between two ends: the client, and either recvfile() of  *)
(* the same package or another server that answers as it likes.  A channel *)
(* that is closed stays closed.                                            *)
(***************************************************************************)
EXTENDS MacObexServer

VARIABLE foreign   \* the server is another one

vars == <<clientvars, linkvars, servervars, foreign>>

TypeOK == ClientTypeOK /\ ServerTypeOK /\ foreign \in BOOLEAN

Init ==
    /\ ClientInit
    /\ foreign \in BOOLEAN
    /\ ServerInit

\* The link breaks.  What is on the way may still arrive.
LoseLink ==
    /\ up
    /\ up' = FALSE
    /\ UNCHANGED <<clientvars, toServer, toClient, servervars, foreign>>

\* Another server answers a packet with anything.
ForeignAnswer ==
    /\ foreign /\ up /\ toServer # <<>>
    /\ \E code \in Codes \cup {"continue"}, body \in BOOLEAN :
          /\ body => Packet.kind = "get"
          /\ toClient' = <<[of |-> Packet.of, code |-> code, body |-> body]>>
    /\ toServer' = <<>>
    /\ UNCHANGED <<clientvars, up, servervars, foreign>>

ClientEvent ==
    \/ PerformAbort \/ Continue \/ FinalResponse \/ IgnoreResponse
    \/ SessionError("transport")

ClientStep ==
    \/ \E kind \in Kinds, size \in {0, MaxChunks} : Call(kind, size)
    \/ \E kind \in Kinds : RequestInDelegate(kind)
    \/ BadHeaders \/ Refuse \/ FirstReadFails \/ Begin
    \/ AbortCurrentRequest \/ NextReadFails \/ SessionError("other")
    \/ ClientEvent \/ Return
    \/ foreign /\ BadResponse  \* recvfile() sends no headers but its answer's

ServerEvent == HandleRequest \/ ResponseFails \/ HandleAbort \/ ChannelClosed \/ Wake \/ TimeOut

Next ==
    \/ ClientStep /\ UNCHANGED <<servervars, foreign>>
    \/ ~foreign /\ (ServerEvent \/ SessionFails) /\ UNCHANGED foreign
    \/ ForeignAnswer
    \/ LoseLink

Spec == Init /\ [][Next]_vars

\* The event loop of each side handles what is there.
FairSpec ==
    /\ Spec
    /\ WF_vars((ClientEvent \/ Return) /\ UNCHANGED <<servervars, foreign>>)
    /\ WF_vars(~foreign /\ ServerEvent /\ UNCHANGED foreign)

-----------------------------------------------------------------------------
(* What is checked. *)

\* One request has one end: the delegate is told of it once, of the request that was made
\* last, while the method waits to be told; never of one that was told of before, nor of
\* one whose method has returned or raised, whatever answers and errors come late.
FinishedOnce ==
    [][\A n \in Requests :
         finishes'[n] # finishes[n] =>
           /\ finishes[n] = 0 /\ finishes'[n] = 1
           /\ n = count /\ call.pc = "waiting" /\ c.busy /\ ~c'.busy]_vars

\* The chunks of request n in the file are 1 .. size, in order and in one piece.
IsInFile(n, size) ==
    \E k \in 0 .. Len(written) - size :
       /\ \A i \in 1 .. size : written[k + i] = <<n, i>>
       /\ \A j \in DOMAIN written : written[j][1] = n => j \in k + 1 .. k + size

\* A Put that the client was told is OK has all its chunks in the file, in order and
\* with nothing in between, and recvfile() does not raise.
PutIsReceived ==
    \A n \in Requests :
       ~foreign /\ told[n].outcome = "ok" /\ told[n].kind = "put"
         => IsInFile(n, told[n].size) /\ result # "raised"

\* A request ends as aborted only if that was asked of it and not of an earlier one,
\* and then recvfile() does not take its file for received.
AbortedAsAsked ==
    \A n \in Requests :
       told[n].outcome = "aborted"
         => /\ told[n].abort
            /\ result = "ok" => \E m \in Requests \ {n} : told[m].kind = "put"

\* When the link is gone, the method that waits for a response returns, whatever of
\* the request was on the way; but not if the request was made in a delegate.
CallEnds == ~up ~> call.pc \in {"idle", "begin", "orphaned"}

\* When the link is gone recvfile() ends, but for the case that it has seen a
\* Disconnect it could not answer.
RunEnds ==
    ~up /\ ~foreign ~> pc = "returned" \/ (server.gotdisconnect /\ ~server.disconnected)

-----------------------------------------------------------------------------
(* What the repository says and the code does not do. *)

\* Of run(): "only raise OBEXError if file was not received".  So when recvfile()
\* returns normally a Put has been received: one whose last packet was answered OK.
ReturnsWithFile ==
    result = "ok" => \E n \in Requests :
        told[n].kind = "put" /\ IsInFile(n, told[n].size)

\* Of get(): "a file-like object, to which the received data will be written".
GetIsWritten ==
    \A n \in Requests : told[n].kind = "get" /\ told[n].outcome = "ok" => ~told[n].lost
=============================================================================
