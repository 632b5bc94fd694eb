---------------------------- MODULE SocketStream -----------------------------
(***************************************************************************)
(* The receiving half of the Mac OS X sockets: recv() and the callbacks    *)
(* that feed it (class _BluetoothSocket and its channel listeners in       *)
(* src/src/mac/_bluetoothsockets.py), with the event loop they share       *)
(* (looponce, waituntil and interruptwait in src/src/mac/_macutil.py).     *)
(*                                                                         *)
(* The remote device of a socket sends the bytes 1, 2, 3, ... so that the  *)
(* order in which they come out tells whether any was lost, doubled or     *)
(* swapped.  Callbacks run on whatever thread processes the main event     *)
(* loop, so their statements interleave with those of recv().              *)
(***************************************************************************)
EXTENDS StringQueue

CONSTANTS Sockets,    \* connected sockets
          Readers,    \* callers of recv(): threads, or nested calls of one
          BufSizes,   \* the buffer sizes they ask for
          Timeouts,   \* what the application sets the timeout to
          ShutModes,  \* what it calls shutdown() with
          MaxSent     \* bound: bytes each remote device sends

ASSUME StreamAssumption ==
    /\ BufSizes \subseteq Nat \ {0}
    /\ Timeouts \subseteq {"none", "zero", "some"}
    /\ ShutModes \subseteq {"RD", "WR", "RDWR"}
    /\ MaxSent \in Nat

VARIABLES
    sent,        \* sent[s]: bytes the remote device has sent
    peerClosed,  \* peerClosed[s]: it has closed the channel, after those
    incoming,    \* incoming[s]: accept() returned it; connect() made the others
    arrived,     \* arrived[s]: bytes the run loop has handed to the delegate
    dropped,     \* dropped[s]: those that came before accept() and were ignored
    listening,   \* listening[s]: the channel's delegate is this socket's listener
    chanOpen,    \* chanOpen[s]: isOpen() of the channel
    callback,    \* callback[s]: what the running event callback does next
    notices,     \* notices[s]: close notices the listener is still to get
    queue,       \* queue[s]: __incomingdata
    closed,      \* closed[s]: __closed
    commstate,   \* commstate[s]: __commstate
    timeout,     \* timeout[s]: __timeout
    notify,      \* notify events waiting in the application's event queue
    pc,          \* pc[r]: the statement of recv() that r is at
    sock,        \* sock[r]: the socket it was called on
    want,        \* want[r]: its bufsize
    outcome,     \* outcome[r]: how the call ended
    received     \* received[s]: all that recv() calls on s have returned

remote   == <<sent, peerClosed>>
channel  == <<arrived, dropped, listening, chanOpen, callback, notices>>
settings == <<incoming, commstate, timeout>>
reader   == <<pc, sock, want, outcome, received>>
vars == <<remote, channel, queue, closed, settings, notify, reader>>

Segment(a, b) == [i \in 1 .. b - a |-> a + i]

TimeoutModes == {"none", "zero", "some"}  \* None, 0, a number of seconds
ReadShut == {"RD", "RDWR"}

TypeOK ==
    /\ sent \in [Sockets -> Nat]
    /\ peerClosed \in [Sockets -> BOOLEAN]
    /\ incoming \in [Sockets -> BOOLEAN]
    /\ arrived \in [Sockets -> Nat]
    /\ dropped \in [Sockets -> Nat]
    /\ listening \in [Sockets -> BOOLEAN]
    /\ chanOpen \in [Sockets -> BOOLEAN]
    /\ callback \in [Sockets -> {"idle", "mark", "post", "close"}]
    /\ notices \in [Sockets -> 0 .. 2]
    /\ queue \in [Sockets -> [l_buffer : Seq(Nat), s_buffer : Seq(Nat),
                              bufempty : BOOLEAN]]
    /\ closed \in [Sockets -> BOOLEAN]
    /\ commstate \in [Sockets -> {"unset", "RD", "WR", "RDWR"}]
    /\ timeout \in [Sockets -> TimeoutModes]
    /\ notify \in Nat
    /\ pc \in [Readers -> {"idle", "start", "drain", "poll", "test", "retest",
                           "waiting", "woken", "read"}]
    /\ sock \in [Readers -> Sockets]
    /\ want \in [Readers -> BufSizes]
    /\ outcome \in [Readers -> {"none", "data", "empty", "shut", "reset",
                                "again", "timeout"}]
    /\ received \in [Sockets -> Seq(Nat)]

Init ==
    /\ sent = [s \in Sockets |-> 0]
    /\ peerClosed = [s \in Sockets |-> FALSE]
    /\ incoming \in [Sockets -> BOOLEAN]
    /\ arrived = [s \in Sockets |-> 0]
    /\ dropped = [s \in Sockets |-> 0]
    /\ listening = [s \in Sockets |-> ~incoming[s]]
    /\ chanOpen = [s \in Sockets |-> TRUE]
    /\ callback = [s \in Sockets |-> "idle"]
    /\ notices = [s \in Sockets |-> 0]
    /\ queue = [s \in Sockets |-> NewQueue]
    /\ closed = [s \in Sockets |-> FALSE]
    /\ commstate = [s \in Sockets |-> "unset"]
    /\ timeout = [s \in Sockets |-> "none"]
    /\ notify = 0
    /\ pc = [r \in Readers |-> "idle"]
    /\ sock \in [Readers -> Sockets]
    /\ want \in [Readers -> BufSizes]
    /\ outcome = [r \in Readers |-> "none"]
    /\ received = [s \in Sockets |-> <<>>]

-----------------------------------------------------------------------------
(* The remote device. *)

PeerSend(s) ==
    /\ ~peerClosed[s]
    /\ sent[s] < MaxSent
    /\ sent' = [sent EXCEPT ![s] = @ + 1]
    /\ UNCHANGED <<peerClosed, channel, queue, closed, settings, notify, reader>>

PeerClose(s) ==
    /\ ~peerClosed[s]
    /\ peerClosed' = [peerClosed EXCEPT ![s] = TRUE]
    /\ UNCHANGED <<sent, channel, queue, closed, settings, notify, reader>>

-----------------------------------------------------------------------------
(* Run loop events of a channel.  A channel has one callback at a time. *)

\* k bytes arrive while the channel is still in the server socket's backlog:
\* its delegate is the server's listener, which implements no data callback.
DropData(s, k) ==
    /\ callback[s] = "idle" /\ chanOpen[s] /\ ~listening[s]
    /\ arrived[s] + k <= sent[s]
    /\ arrived' = [arrived EXCEPT ![s] = @ + k]
    /\ dropped' = [dropped EXCEPT ![s] = @ + k]
    /\ UNCHANGED <<remote, listening, chanOpen, callback, notices, queue, closed,
                   settings, notify, reader>>

\* accept() has taken the channel off the backlog and installs a listener.
Accept(s) ==
    /\ ~listening[s] /\ callback[s] = "idle"
    /\ listening' = [listening EXCEPT ![s] = TRUE]
    /\ UNCHANGED <<remote, arrived, dropped, chanOpen, callback, notices, queue,
                   closed, settings, notify, reader>>

\* channelData:data: -> _handle_channeldata -> write(), up to its first statement.
ChannelData(s, k) ==
    /\ callback[s] = "idle" /\ chanOpen[s] /\ listening[s]
    /\ arrived[s] + k <= sent[s]
    /\ queue' = [queue EXCEPT ![s] =
                    WriteAppend(@, Segment(arrived[s], arrived[s] + k))]
    /\ arrived' = [arrived EXCEPT ![s] = @ + k]
    /\ callback' = [callback EXCEPT ![s] = "mark"]
    /\ UNCHANGED <<remote, dropped, listening, chanOpen, notices, closed,
                   settings, notify, reader>>

\* Mutant of MarkData: the callback ends without interrupting the wait.
MarkDataSilently(s) ==
    /\ callback[s] = "mark"
    /\ queue' = [queue EXCEPT ![s] = WriteMark(@)]
    /\ callback' = [callback EXCEPT ![s] = "idle"]
    /\ UNCHANGED <<remote, arrived, dropped, listening, chanOpen, notices, closed,
                   settings, notify, reader>>

\* The rest of write(), after which the queue's lock is released.
MarkData(s) ==
    /\ callback[s] = "mark"
    /\ queue' = [queue EXCEPT ![s] = WriteMark(@)]
    /\ callback' = [callback EXCEPT ![s] = "post"]
    /\ UNCHANGED <<remote, arrived, dropped, listening, chanOpen, notices, closed,
                   settings, notify, reader>>

\* The channel closes, once all that was sent before has arrived.  The listener
\* hears of it from the channel delegate, from the close notification, or both.
ChannelClose(s) ==
    /\ callback[s] = "idle" /\ chanOpen[s]
    /\ peerClosed[s] /\ arrived[s] = sent[s]
    /\ chanOpen' = [chanOpen EXCEPT ![s] = FALSE]
    /\ \/ /\ listening[s]
          /\ \E n \in 1 .. 2 : notices' = [notices EXCEPT ![s] = n]
          /\ callback' = [callback EXCEPT ![s] = "close"]
       \/ /\ ~listening[s]
          /\ UNCHANGED <<notices, callback>>
    /\ UNCHANGED <<remote, arrived, dropped, listening, queue, closed, settings,
                   notify, reader>>

\* Mutant of HandleClosed: it forgets to interrupt the wait.
HandleClosedSilently(s) ==
    /\ callback[s] = "close"
    /\ closed' = [closed EXCEPT ![s] = TRUE]
    /\ notices' = [notices EXCEPT ![s] = 0]
    /\ callback' = [callback EXCEPT ![s] = "idle"]
    /\ UNCHANGED <<remote, arrived, dropped, listening, chanOpen, queue, settings,
                   notify, reader>>

\* _handle_channelclosed, up to its call of interruptwait().
HandleClosed(s) ==
    /\ callback[s] = "close"
    /\ closed' = [closed EXCEPT ![s] = TRUE]
    /\ notices' = [notices EXCEPT ![s] = @ - 1]
    /\ callback' = [callback EXCEPT ![s] = "post"]
    /\ UNCHANGED <<remote, arrived, dropped, listening, chanOpen, queue, settings,
                   notify, reader>>

\* Each callback ends by posting a notify event.
InterruptWait(s) ==
    /\ callback[s] = "post"
    /\ notify' = notify + 1
    /\ callback' = [callback EXCEPT ![s] = IF notices[s] > 0 THEN "close" ELSE "idle"]
    /\ UNCHANGED <<remote, arrived, dropped, listening, chanOpen, notices, queue,
                   closed, settings, reader>>

-----------------------------------------------------------------------------
(* The application sets the socket up between calls. *)

Idle(s) == \A r \in Readers : sock[r] = s => pc[r] = "idle"

Shutdown(s, how) ==
    /\ commstate' = [commstate EXCEPT ![s] = how]
    /\ UNCHANGED <<remote, channel, queue, closed, incoming, timeout, notify, reader>>

\* settimeout(value) compares its argument with 0 first, and formats it with %d
\* into an error when it is smaller.  Under Python 2 None is: this raises.
SetTimeout(s, value) ==
    /\ Idle(s)
    /\ value # "none"
    /\ timeout' = [timeout EXCEPT ![s] = value]
    /\ UNCHANGED <<remote, channel, queue, closed, incoming, commstate, notify,
                   reader>>

SetBlocking(s, flag) ==
    /\ Idle(s)
    /\ timeout' = [timeout EXCEPT ![s] = IF flag THEN "none" ELSE "zero"]
    /\ UNCHANGED <<remote, channel, queue, closed, incoming, commstate, notify,
                   reader>>

-----------------------------------------------------------------------------
(* recv(), one action per step that looks at or changes shared state. *)

IsClosed(s) == IF incoming[s] THEN closed[s] ELSE ~chanOpen[s]

GotData(s) == ~queue[s].bufempty \/ IsClosed(s)

Goto(r, from, to) == /\ pc[r] = from
                     /\ pc' = [pc EXCEPT ![r] = to]

Finish(r, from, how) == /\ Goto(r, from, "idle")
                        /\ outcome' = [outcome EXCEPT ![r] = how]

environment == <<remote, channel, closed, settings>>

\* The call: reading shut down ends it at once; looponce() comes next.
Recv(r, s, n) ==
    /\ listening[s]
    /\ pc[r] = "idle"
    /\ sock' = [sock EXCEPT ![r] = s]
    /\ want' = [want EXCEPT ![r] = n]
    /\ \/ /\ commstate[s] \in ReadShut
          /\ outcome' = [outcome EXCEPT ![r] = "shut"]
          /\ UNCHANGED pc
       \/ /\ commstate[s] \notin ReadShut
          /\ outcome' = [outcome EXCEPT ![r] = "none"]
          /\ pc' = [pc EXCEPT ![r] = "start"]
    /\ UNCHANGED <<environment, queue, notify, received>>

\* First test of _isclosed(): a closed socket is drained, an open one is polled.
TestClosed(r) ==
    /\ Goto(r, "start", IF IsClosed(sock[r]) THEN "drain" ELSE "poll")
    /\ UNCHANGED <<environment, queue, notify, sock, want, outcome, received>>

\* The length test after a positive _isclosed(): at line 454, and at 467.
TestEmpty(r, from) ==
    /\ \/ /\ QueueLen(queue[sock[r]]) = 0
          /\ Finish(r, from, "reset")
       \/ /\ QueueLen(queue[sock[r]]) # 0
          /\ Goto(r, from, "read")
          /\ UNCHANGED outcome
    /\ UNCHANGED <<environment, queue, notify, sock, want, received>>

Drain(r) == TestEmpty(r, "drain")

\* gotdata(), by recv() and then by __waituntil().
Poll(r) ==
    /\ Goto(r, "poll", IF GotData(sock[r]) THEN "woken" ELSE "test")
    /\ UNCHANGED <<environment, queue, notify, sock, want, outcome, received>>

Test(r) ==
    /\ Goto(r, "test", IF GotData(sock[r]) THEN "woken"
                       ELSE IF timeout[sock[r]] = "zero" THEN "retest" ELSE "waiting")
    /\ UNCHANGED <<environment, queue, notify, sock, want, outcome, received>>

\* Non-blocking mode: one more test after looponce(), then EAGAIN.
Retest(r) ==
    /\ \/ /\ GotData(sock[r])
          /\ Goto(r, "retest", "woken")
          /\ UNCHANGED outcome
       \/ /\ ~GotData(sock[r])
          /\ Finish(r, "retest", "again")
    /\ UNCHANGED <<environment, queue, notify, sock, want, received>>

\* Mutant of TakeNotify: it does not wait for an event.
TakeNotifyUnasked(r) ==
    /\ notify' = notify - 1
    /\ Goto(r, "waiting", IF GotData(sock[r]) THEN "woken" ELSE "waiting")
    /\ UNCHANGED <<environment, queue, sock, want, outcome, received>>

\* waituntil() dequeues a notify event and tests its condition.
TakeNotify(r) ==
    /\ notify > 0
    /\ notify' = notify - 1
    /\ Goto(r, "waiting", IF GotData(sock[r]) THEN "woken" ELSE "waiting")
    /\ UNCHANGED <<environment, queue, sock, want, outcome, received>>

\* The end time has passed: waituntil() returns without testing its condition.
TimeOut(r) ==
    /\ timeout[sock[r]] = "some"
    /\ Finish(r, "waiting", "timeout")
    /\ UNCHANGED <<environment, queue, notify, sock, want, received>>

\* Mutant of Woken: a socket that was closed meanwhile is given up undrained.
WokenUndrained(r) ==
    /\ \/ /\ IsClosed(sock[r])
          /\ Finish(r, "woken", "reset")
       \/ /\ ~IsClosed(sock[r])
          /\ Goto(r, "woken", "read")
          /\ UNCHANGED outcome
    /\ UNCHANGED <<environment, queue, notify, sock, want, received>>

\* Closed while waiting, and nothing left?  (_isclosed() and the length test.)
Woken(r) ==
    \/ /\ IsClosed(sock[r])
       /\ TestEmpty(r, "woken")
    \/ /\ ~IsClosed(sock[r])
       /\ Goto(r, "woken", "read")
       /\ UNCHANGED <<environment, queue, notify, sock, want, outcome, received>>

\* read(), which waits for the lock if write() holds it.
Read(r) ==
    LET s    == sock[r]
        data == ReadData(queue[s], want[r])
    IN  /\ callback[s] # "mark"
        /\ Finish(r, "read", IF data = <<>> THEN "empty" ELSE "data")
        /\ received' = [received EXCEPT ![s] = @ \o data]
        /\ queue' = [queue EXCEPT ![s] = ReadRest(@, want[r])]
        /\ UNCHANGED <<environment, notify, sock, want>>

-----------------------------------------------------------------------------
RecvStep(r) == \/ TestClosed(r) \/ Drain(r) \/ Poll(r) \/ Test(r) \/ Retest(r)
               \/ TakeNotify(r) \/ TimeOut(r) \/ Woken(r) \/ Read(r)

CallbackStep(s) == MarkData(s) \/ HandleClosed(s) \/ InterruptWait(s)

Next ==
    \/ \E s \in Sockets : PeerSend(s) \/ PeerClose(s)
    \/ \E s \in Sockets, k \in 1 .. MaxSent : DropData(s, k) \/ ChannelData(s, k)
    \/ \E s \in Sockets : Accept(s) \/ ChannelClose(s) \/ CallbackStep(s)
    \/ \E s \in Sockets, how \in ShutModes : Shutdown(s, how)
    \/ \E s \in Sockets, value \in Timeouts : SetTimeout(s, value)
    \/ \E s \in Sockets, flag \in {f \in BOOLEAN : Timeouts # {}} : SetBlocking(s, flag)
    \/ \E r \in Readers, s \in Sockets, n \in BufSizes : Recv(r, s, n)
    \/ \E r \in Readers : RecvStep(r)

Spec == Init /\ [][Next]_vars

\* The threads that run recv() and the event loop are not stopped for ever, and
\* the event loop hands over what has reached this side of the channel.  Nothing
\* is assumed of the remote device, of the application or of timeouts.
Fairness ==
    /\ \A s \in Sockets : WF_vars(CallbackStep(s))
    /\ \A s \in Sockets :
         WF_vars(ChannelClose(s) \/ \E k \in 1 .. MaxSent : ChannelData(s, k))
    /\ \A r \in Readers :
         WF_vars(TestClosed(r) \/ Drain(r) \/ Poll(r) \/ Test(r) \/ Retest(r)
                 \/ TakeNotify(r) \/ Woken(r) \/ Read(r))

FairSpec == Spec /\ Fairness

-----------------------------------------------------------------------------
(* What is checked. *)

\* What recv() returned so far, followed by what is buffered, is exactly what
\* arrived since the socket was accepted, in order: write() and read() neither
\* lose nor repeat nor swap a byte between them, whatever the sizes.
StreamInOrder ==
    \A s \in Sockets :
        received[s] \o Content(queue[s]) = Segment(dropped[s], arrived[s])

\* A caller that waits although its condition holds has a notify event coming:
\* one in the event queue, or one that a running callback is about to post.
NoLostWakeup ==
    \A r \in Readers :
        pc[r] = "waiting" /\ GotData(sock[r]) /\ callback[sock[r]] = "idle"
            => notify > 0

\* ECONNRESET is raised only when the remote device has closed the channel and
\* every byte it sent since the socket was accepted has been returned.
ResetMeansAllRead ==
    \A r \in Readers :
        outcome[r] = "reset" =>
            /\ peerClosed[sock[r]]
            /\ received[sock[r]] = Segment(dropped[sock[r]], sent[sock[r]])

\* After the remote device has closed, every recv() ends, a waiting one included:
\* the close is noticed and interrupts the wait.  This leaves out one case, a
\* channel that closed before accept() made this socket its listener.
CloseNoticed(s) == chanOpen[s] \/ callback[s] # "idle" \/ IsClosed(s)

CloseEndsRecv ==
    \A r \in Readers :
        pc[r] # "idle" /\ peerClosed[sock[r]] /\ CloseNoticed(sock[r])
            ~> pc[r] = "idle"

\* "When no data is available, block until at least one byte is available":
\* a recv() that waits while its socket holds data stops waiting.
DataEndsRecv ==
    \A r \in Readers :
        pc[r] = "waiting" /\ QueueLen(queue[sock[r]]) > 0 ~> pc[r] # "waiting"

\* The stream a caller of recv() sees: what was returned, then what is buffered.
Stream == INSTANCE ByteStream
            WITH stream <- [s \in Sockets |-> received[s] \o Content(queue[s])],
                 taken  <- [s \in Sockets |-> Len(received[s])],
                 open   <- chanOpen,
                 result <- outcome

\* recv() and the callbacks implement the byte stream that its doc describes.
ImplementsByteStream == Stream!Spec
=============================================================================
