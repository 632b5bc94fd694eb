------------------------------ MODULE SocketSend ------------------------------
(***************************************************************************)
(* The sending half of the Mac OS X sockets: send(), sendall() and         *)
(* sendto() of one connected _BluetoothSocket                              *)
(* (src/src/mac/_bluetoothsockets.py), called by several threads, on the   *)
(* socket or on a dup() of it, which shares it.                            *)
(*                                                                         *)
(* The channel is external.  Assumed of it: writeSync waits until there is *)
(* room for all it is given and fails once the channel is closed; a frame  *)
(* of at most the MTU is written as a whole; transmission is paused while  *)
(* there is no room at all.  What the channel carries ("stream"), the      *)
(* threads and their calls are declared in CarriedCalls, with what is      *)
(* promised of them.                                                       *)
(***************************************************************************)
EXTENDS CarriedCalls, Sequences, SequencesExt

CONSTANTS
    Sizes,      \* lengths of what they send
    Mtus,       \* what getMTU() or getOutgoingMTU() returns
    Room,       \* bytes a channel holds until the remote device takes them
    Timeouts,   \* what the application sets the timeout to
    ShutModes,  \* what it calls shutdown() with
    MaxCalls    \* bound: calls

ASSUME SendAssumption ==
    /\ Sizes \subseteq Nat
    /\ Mtus \subseteq Nat \ {0}
    /\ Room \in Nat /\ \A m \in Mtus : m <= Room
    /\ Timeouts \subseteq {"zero", "some"}
    /\ ShutModes \subseteq {"RD", "WR", "RDWR"}
    /\ MaxCalls \in Nat

VARIABLES
    proto,      \* of the connection
    mtu,
    open,       \* isOpen() of the channel
    taken,      \* how many bytes the remote device has taken
    commstate,  \* __commstate
    timeout,    \* __timeout
    calls,      \* calls begun
    pc          \* pc[t]: the statement of send() that t is at

vars == <<proto, mtu, open, taken, stream, commstate, timeout, calls, pc, call>>
channel == <<proto, mtu, open, taken, stream>>
settings == <<commstate, timeout>>

Errors == {"pipe", "again", "timeout", "broken", "unbound"}

TypeOK ==
    /\ proto \in {"RFCOMM", "L2CAP"}
    /\ mtu \in Mtus
    /\ open \in BOOLEAN
    /\ taken \in 0 .. Len(stream)
    /\ stream \in Seq((1 .. MaxCalls) \X (Nat \ {0}))
    /\ commstate \in {"unset", "RD", "WR", "RDWR"}
    /\ timeout \in {"none", "zero", "some"}
    /\ calls \in 0 .. MaxCalls
    /\ pc \in [Senders -> {"idle", "start", "setup", "loop", "write"}]
    /\ call \in [Senders ->
                    [n : 0 .. MaxCalls,
                     size : Sizes \cup {0},
                     left : Nat,                  \* bytesleft
                     timed : BOOLEAN,             \* starttime has a value
                     outcome : {"none", "ok"} \cup Errors]]

Init ==
    /\ proto \in {"RFCOMM", "L2CAP"}
    /\ mtu \in Mtus
    /\ open = TRUE /\ taken = 0 /\ stream = <<>>
    /\ commstate = "unset" /\ timeout = "none"
    /\ calls = 0
    /\ pc = [t \in Senders |-> "idle"]
    /\ call = [t \in Senders |-> [n |-> 0, size |-> 0, left |-> 0,
                                  timed |-> FALSE, outcome |-> "none"]]

InFlight == Len(stream) - taken

\* isTransmissionPaused(), which only RFCOMM channels have
Paused == proto = "RFCOMM" /\ InFlight = Room

-----------------------------------------------------------------------------
(* The remote device and the rest of the application *)

Take ==
    /\ open /\ InFlight > 0
    /\ taken' = taken + 1
    /\ UNCHANGED <<proto, mtu, open, stream, settings, calls, pc, call>>

\* The remote device closes the channel, or it is lost.
PeerClose ==
    /\ open /\ open' = FALSE
    /\ UNCHANGED <<proto, mtu, taken, stream, settings, calls, pc, call>>

\* close() of the socket or of a dup() of it closes the channel, and leaves it with
\* the connection.
Close ==
    /\ open /\ open' = FALSE
    /\ UNCHANGED <<proto, mtu, taken, stream, settings, calls, pc, call>>

Shutdown(how) ==
    /\ commstate' = how
    /\ UNCHANGED <<channel, timeout, calls, pc, call>>

\* settimeout(None) raises an error of its own.
SetTimeout(value) ==
    /\ timeout' = value
    /\ UNCHANGED <<channel, commstate, calls, pc, call>>

SetBlocking(flag) ==
    /\ timeout' = IF flag THEN "none" ELSE "zero"
    /\ UNCHANGED <<channel, commstate, calls, pc, call>>

-----------------------------------------------------------------------------
(* The calls *)

At(t, label) == pc[t] = label
Goto(t, label) == pc' = [pc EXCEPT ![t] = label]
End(t, outcome) ==
    /\ Goto(t, "idle")
    /\ call' = [call EXCEPT ![t].outcome = outcome]

\* sendall() and sendto() call send(), which returns only when all is sent, so that
\* sendall() calls it once.
Call(t, size) ==
    /\ At(t, "idle") /\ calls < MaxCalls
    /\ calls' = calls + 1
    /\ call' = [call EXCEPT ![t] = [n |-> calls', size |-> size, left |-> size,
                                    timed |-> FALSE, outcome |-> "none"]]
    /\ Goto(t, "start")
    /\ UNCHANGED <<channel, settings>>

\* Writing may be shut down.  The socket has been connected, and stays so when the
\* channel closes.
Send(t) ==
    /\ At(t, "start")
    /\ IF commstate \in {"WR", "RDWR"} THEN End(t, "pipe")
       ELSE Goto(t, "setup") /\ UNCHANGED call
    /\ UNCHANGED <<channel, settings, calls>>

\* A socket in non-blocking mode does not begin if it would have to wait.
Setup(t) ==
    /\ At(t, "setup")
    /\ IF timeout = "zero" /\ Paused THEN End(t, "again")
       ELSE /\ Goto(t, "loop")
            /\ call' = [call EXCEPT ![t].timed = (timeout = "some")]
    /\ UNCHANGED <<channel, settings, calls>>

\* The next turn of the loop: the time may be up.  A timeout that was set after the
\* call began has no starttime to be measured from.
Check(t) ==
    /\ At(t, "loop") /\ call[t].left > 0
    /\ \/ /\ timeout = "some"
          /\ End(t, IF call[t].timed THEN "timeout" ELSE "unbound")
       \/ /\ timeout = "some" => call[t].timed
          /\ Goto(t, "write")
          /\ UNCHANGED call
    /\ UNCHANGED <<channel, settings, calls>>

\* Bytes k + 1 .. k + count of call n.
Chunk(n, k, count) == [i \in 1 .. count |-> <<n, k + i>>]

\* A frame is written to the open channel, once there is room for it.
ConnWrite(frame) ==
    /\ InFlight + Len(frame) <= Room
    /\ stream' = stream \o frame

\* Mutant of Write: the data that was written stays in front of the rest.
WriteSameAgain(t) ==
    LET c == call[t]  count == Min({c.left, mtu}) IN
    /\ At(t, "write")
    /\ IF open THEN /\ ConnWrite(Chunk(c.n, 0, count))
                    /\ Goto(t, "loop")
                    /\ call' = [call EXCEPT ![t].left = @ - count]
       ELSE End(t, "broken") /\ UNCHANGED stream
    /\ UNCHANGED <<proto, mtu, open, taken, settings, calls>>

\* Mutant of Write: after an error the loop goes on.
WriteAgainAfterError(t) ==
    LET c == call[t]  count == Min({c.left, mtu}) IN
    /\ At(t, "write")
    /\ Goto(t, "loop")
    /\ IF open THEN /\ ConnWrite(Chunk(c.n, c.size - c.left, count))
                    /\ call' = [call EXCEPT ![t].left = @ - count]
       ELSE UNCHANGED <<stream, call>>
    /\ UNCHANGED <<proto, mtu, open, taken, settings, calls>>

\* As much as the MTU allows is written, or the channel is closed.
Write(t) ==
    LET c == call[t]  count == Min({c.left, mtu}) IN
    /\ At(t, "write")
    /\ IF open THEN /\ ConnWrite(Chunk(c.n, c.size - c.left, count))
                    /\ Goto(t, "loop")
                    /\ call' = [call EXCEPT ![t].left = @ - count]
       ELSE End(t, "broken") /\ UNCHANGED stream
    /\ UNCHANGED <<proto, mtu, open, taken, settings, calls>>

Return(t) ==
    /\ At(t, "loop") /\ call[t].left = 0
    /\ End(t, "ok")
    /\ UNCHANGED <<channel, settings, calls>>

-----------------------------------------------------------------------------
Step(t) == Send(t) \/ Setup(t) \/ Check(t) \/ Write(t) \/ Return(t)

Next ==
    \/ Take \/ PeerClose \/ Close
    \/ \E how \in ShutModes : Shutdown(how)
    \/ \E value \in Timeouts : SetTimeout(value)
    \/ \E flag \in {f \in BOOLEAN : Timeouts # {}} : SetBlocking(flag)
    \/ \E t \in Senders :
          \/ \E size \in Sizes : Call(t, size)
          \/ Step(t)

Spec == Init /\ [][Next]_vars

\* Threads are scheduled, and the remote device goes on taking data.  The senders a
\* channel holds up are served in some order, as the number of calls is bounded.
FairSpec == Spec /\ WF_vars(Take) /\ \A t \in Senders : WF_vars(Step(t))

-----------------------------------------------------------------------------
(* What is checked. *)

\* Every call ends, as long as the remote device takes data or the channel closes.
SendEnds == \A t \in Senders : pc[t] # "idle" ~> pc[t] = "idle"
=============================================================================
