-------------------------- MODULE BluetoothSockets ---------------------------
(***************************************************************************)
(* The life of the RFCOMM sockets of the Mac OS X implementation: creating *)
(* and duplicating them, bind(), listen(), accept(), connect() and close() *)
(* (class _BluetoothSocket in src/src/mac/_bluetoothsockets.py), and the   *)
(* services advertised on them (advertise() and stopadvertise() in         *)
(* src/src/mac/_lightblue.py).  What happens to the bytes of a connected   *)
(* socket is in SocketStream.                                              *)
(*                                                                         *)
(* A call that blocks, or that tests shared state before it changes it, is *)
(* split into one action per step; pc[t] is the step thread t is at.  The  *)
(* callbacks of the event loop run between the steps.  A call whose first  *)
(* tests refuse it raises and changes nothing: it is no step of the model. *)
(***************************************************************************)
EXTENDS Integers, Sequences, FiniteSets

CONSTANTS Threads,      \* callers of the API
          Ports,        \* RFCOMM channel numbers the system can assign
          Channels,     \* connections that are ever made, in or out
          MaxSockets,   \* bound: _BluetoothSocket objects ever created
          MaxWrappers,  \* bound: _SocketWrapper objects ever created
          Limits,       \* the timeouts in force when accept() is called
          Connects,     \* whether the application makes outgoing connections
          Dups          \* whether it calls dup()

Sockets  == 1 .. MaxSockets
Wrappers == 1 .. MaxWrappers

ASSUME SocketsAssumption ==
    /\ Ports \subseteq Nat \ {0}
    /\ 0 \notin Channels
    /\ MaxSockets \in Nat /\ MaxWrappers \in Nat
    /\ Limits \subseteq {"none", "zero", "some"}
    /\ Connects \in BOOLEAN /\ Dups \in BOOLEAN

VARIABLES
    made,            \* number of socket objects created; they are 1 .. made
    wrapped,         \* number of wrappers created; they are 1 .. wrapped
    sock,            \* sock[w]: the wrapper's _sock: an object, or 0 when closed
    port,            \* port[s]: __port, 0 if not bound
    eventlistener,   \* eventlistener[s]: "none", then "registered", then "off"
    channel,         \* channel[s]: __conn.channel, 0 if not connected
    queuedchannels,  \* queuedchannels[s]: __queuedchannels, the backlog
    boundports,      \* _boundports of RFCOMM
    advertised,      \* advertised[w]: the record noted for the wrapper, or 0
    published,       \* published[p]: who has published the record for port p
    dialled,         \* dialled[c]: the port connection c leads to, 0 if not made
    opening,         \* opening[c]: listeners still to be told that c has opened
    open,            \* connections that are open
    notify,          \* notify events waiting in the application's event queue
    pc,              \* pc[t]: the step of its call that thread t is at
    self,            \* self[t]: the socket object it runs a method of
    held,            \* held[t]: its local variable: a port (bind), the connection
                     \* popped (accept), the wrapper (close); 0 if none
    limit            \* limit[t]: the timeout in force for its accept()

api   == <<made, wrapped, sock>>
state == <<port, eventlistener, channel, queuedchannels, boundports>>
sdp   == <<advertised, published>>
links == <<dialled, opening, open>>
local == <<pc, self, held, limit>>
vars  == <<api, state, sdp, links, notify, local>>

\* Who a service record may belong to, besides the wrapper it was published for:
\* nobody, or bind() while it looks for a port.
Free  == 0
Probe == -1
Owners == {Free, Probe} \cup Wrappers

TypeOK ==
    /\ made \in 0 .. MaxSockets /\ wrapped \in 0 .. MaxWrappers
    /\ sock \in [Wrappers -> Sockets \cup {0}]
    /\ port \in [Sockets -> Ports \cup {0}]
    /\ eventlistener \in [Sockets -> {"none", "registered", "off"}]
    /\ channel \in [Sockets -> Channels \cup {0}]
    /\ queuedchannels \in [Sockets -> Seq(Channels)]
    /\ boundports \subseteq Ports
    /\ advertised \in [Wrappers -> Ports \cup {0}]
    /\ published \in [Ports -> Owners]
    /\ dialled \in [Channels -> Ports \cup {0}]
    /\ opening \in [Channels -> SUBSET Sockets]
    /\ open \subseteq Channels
    /\ notify \in Nat
    /\ pc \in [Threads -> {"idle", "probed", "assigned", "unused", "test",
                           "retest", "waiting", "pop", "popped", "sleeping",
                           "fired", "slept"}]
    /\ self \in [Threads -> Sockets \cup {0}]
    /\ held \in [Threads -> Ports \cup Channels \cup Wrappers \cup {0}]
    /\ limit \in [Threads -> {"none", "zero", "some"}]

Init ==
    /\ made = 0 /\ wrapped = 0
    /\ sock = [w \in Wrappers |-> 0]
    /\ port = [s \in Sockets |-> 0]
    /\ eventlistener = [s \in Sockets |-> "none"]
    /\ channel = [s \in Sockets |-> 0]
    /\ queuedchannels = [s \in Sockets |-> <<>>]
    /\ boundports = {}
    /\ advertised = [w \in Wrappers |-> 0]
    /\ published = [p \in Ports |-> Free]
    /\ dialled = [c \in Channels |-> 0]
    /\ opening = [c \in Channels |-> {}]
    /\ open = {}
    /\ notify = 0
    /\ pc = [t \in Threads |-> "idle"]
    /\ self = [t \in Threads |-> 0]
    /\ held = [t \in Threads |-> 0]
    /\ limit = [t \in Threads |-> "none"]

IsBound(s)     == port[s] # 0
IsListening(s) == eventlistener[s] # "none"
IsConnected(s) == channel[s] # 0

\* A listener for the events of a socket: of clients if the socket is bound, else of its
\* connection.
StartEvents(s) == eventlistener' = [eventlistener EXCEPT ![s] = "registered"]

\* The listener is unregistered; what it was about to be told of is not told.
StopEvents(s) ==
    /\ eventlistener' = [eventlistener EXCEPT ![s] = IF @ = "none" THEN @ ELSE "off"]
    /\ opening' = [c \in Channels |-> opening[c] \ {s}]

\* Wrapper w is not closed, and s is its socket; thread t is free to call it.
Calls(t, w, s) == pc[t] = "idle" /\ w <= wrapped /\ sock[w] = s /\ s # 0

Goto(t, from, to) == /\ pc[t] = from
                     /\ pc' = [pc EXCEPT ![t] = to]

\* A call begins, on socket s with local variable x; a call returns or raises.
Start(t, s, x, to) == /\ Goto(t, "idle", to)
                      /\ self' = [self EXCEPT ![t] = s]
                      /\ held' = [held EXCEPT ![t] = x]

Return(t, from) == /\ Goto(t, from, "idle")
                   /\ self' = [self EXCEPT ![t] = 0]
                   /\ held' = [held EXCEPT ![t] = 0]
                   /\ limit' = [limit EXCEPT ![t] = "none"]

-----------------------------------------------------------------------------
(* Creating and duplicating sockets. *)

\* socket(): a new object in a new wrapper.
NewSocket(t) ==
    /\ pc[t] = "idle"
    /\ made < MaxSockets /\ wrapped < MaxWrappers
    /\ made' = made + 1
    /\ wrapped' = wrapped + 1
    /\ sock' = [sock EXCEPT ![wrapped'] = made']
    /\ UNCHANGED <<state, sdp, links, notify, local>>

\* dup(): a new wrapper for the same object.
Dup(t, w) ==
    \E s \in Sockets :
        /\ Calls(t, w, s)
        /\ wrapped < MaxWrappers
        /\ wrapped' = wrapped + 1
        /\ sock' = [sock EXCEPT ![wrapped'] = s]
        /\ UNCHANGED <<made, state, sdp, links, notify, local>>

-----------------------------------------------------------------------------
(* bind() *)

\* _getavailableport() publishes a record to see what port the system assigns: any
\* that is free, since other programs of this computer may hold the others.
Bind(t, w) ==
    \E s \in Sockets :
        /\ Calls(t, w, s)
        /\ ~IsBound(s) /\ ~IsConnected(s)
        /\ \E p \in Ports :
              /\ published[p] = Free
              /\ published' = [published EXCEPT ![p] = Probe]
              /\ Start(t, s, p, "probed")
        /\ UNCHANGED <<api, state, advertised, links, notify, limit>>

\* It removes the record again; if that fails, bind() raises and the record stays.
BindRelease(t) ==
    /\ \/ /\ Goto(t, "probed", "assigned")
          /\ published' = [published EXCEPT ![held[t]] = Free]
          /\ UNCHANGED <<self, held, limit>>
       \/ Return(t, "probed") /\ UNCHANGED published
    /\ UNCHANGED <<api, state, advertised, links, notify>>

\* Mutant of BindTest: the ports in use are not looked at.
BindTestUnused(t) ==
    /\ \/ Return(t, "assigned")
       \/ /\ Goto(t, "assigned", "unused")
          /\ UNCHANGED <<self, held, limit>>
    /\ UNCHANGED <<api, state, sdp, links, notify>>

\* The host must be this one, and the port not be that of another socket.
BindTest(t) ==
    /\ \/ Return(t, "assigned")  \* not the local address
       \/ /\ held[t] \in boundports
          /\ Return(t, "assigned")
       \/ /\ held[t] \notin boundports
          /\ Goto(t, "assigned", "unused")
          /\ UNCHANGED <<self, held, limit>>
    /\ UNCHANGED <<api, state, sdp, links, notify>>

BindAdd(t) ==
    /\ Return(t, "unused")
    /\ boundports' = boundports \cup {held[t]}
    /\ port' = [port EXCEPT ![self[t]] = held[t]]
    /\ UNCHANGED <<api, eventlistener, channel, queuedchannels, sdp, links, notify>>

-----------------------------------------------------------------------------
(* listen(), and the clients that connect. *)

\* The backlog argument is stored and never looked at.
Listen(t, w) ==
    \E s \in Sockets :
        /\ Calls(t, w, s)
        /\ ~IsListening(s) /\ IsBound(s)
        /\ StartEvents(s)
        /\ UNCHANGED <<api, port, channel, queuedchannels, boundports, sdp, links,
                       notify, local>>

\* The listeners that are told of connections to port p.
ListenersOn(p) == {s \in Sockets : port[s] = p /\ eventlistener[s] = "registered"}

\* A remote device connects; everyone registered for the port is to be told.
ClientConnect(c, p) ==
    /\ dialled[c] = 0
    /\ ListenersOn(p) # {}
    /\ dialled' = [dialled EXCEPT ![c] = p]
    /\ opening' = [opening EXCEPT ![c] = ListenersOn(p)]
    /\ open' = open \cup {c}
    /\ UNCHANGED <<api, state, sdp, notify, local>>

\* Mutant of HandleOpened: it does not interrupt the wait.
HandleOpenedSilently(s, c) ==
    /\ s \in opening[c]
    /\ opening' = [opening EXCEPT ![c] = @ \ {s}]
    /\ queuedchannels' = [queuedchannels EXCEPT ![s] = Append(@, c)]
    /\ UNCHANGED <<api, port, eventlistener, channel, boundports, sdp, dialled, open,
                   notify, local>>

\* _handle_channelopened(), under the queue's lock.
QueueChannel(s, c) ==
    /\ queuedchannels' = [queuedchannels EXCEPT ![s] = Append(@, c)]
    /\ notify' = notify + 1

\* newChannelOpened:channel:
HandleOpened(s, c) ==
    /\ s \in opening[c]
    /\ opening' = [opening EXCEPT ![c] = @ \ {s}]
    /\ QueueChannel(s, c)
    /\ UNCHANGED <<api, port, eventlistener, channel, boundports, sdp, dialled, open,
                   local>>

-----------------------------------------------------------------------------
(* accept() *)

ClientConnected(s) == queuedchannels[s] # <<>>

Accept(t, w, timeout) ==
    \E s \in Sockets :
        /\ Calls(t, w, s)
        /\ IsBound(s) /\ IsListening(s)
        /\ Start(t, s, 0, IF ClientConnected(s) THEN "pop" ELSE "test")
        /\ limit' = [limit EXCEPT ![t] = timeout]
        /\ UNCHANGED <<api, state, sdp, links, notify>>

\* The first test of __waituntil.
AcceptTest(t) ==
    /\ Goto(t, "test", IF ClientConnected(self[t]) THEN "pop"
                       ELSE IF limit[t] = "zero" THEN "retest" ELSE "waiting")
    /\ UNCHANGED <<api, state, sdp, links, notify, self, held, limit>>

\* Its second one, in non-blocking mode: EAGAIN if there is still no client.
AcceptRetest(t) ==
    /\ \/ /\ Goto(t, "retest", "pop")
          /\ ClientConnected(self[t])
          /\ UNCHANGED <<self, held, limit>>
       \/ /\ Return(t, "retest")
          /\ ~ClientConnected(self[t])
    /\ UNCHANGED <<api, state, sdp, links, notify>>

\* Mutant of AcceptWake: any notify event is taken for a client.
AcceptWakeUntested(t) ==
    /\ notify > 0
    /\ notify' = notify - 1
    /\ Goto(t, "waiting", "pop")
    /\ UNCHANGED <<api, state, sdp, links, self, held, limit>>

\* waituntil() dequeues a notify event and tests its condition.
AcceptWake(t) ==
    /\ notify > 0
    /\ notify' = notify - 1
    /\ Goto(t, "waiting", IF ClientConnected(self[t]) THEN "pop" ELSE "waiting")
    /\ UNCHANGED <<api, state, sdp, links, self, held, limit>>

AcceptTimeOut(t) ==
    /\ limit[t] = "some"
    /\ Return(t, "waiting")
    /\ UNCHANGED <<api, state, sdp, links, notify>>

\* Mutant of AcceptPop: the connection stays in the list.
AcceptPeek(t) ==
    LET s == self[t]
    IN  /\ Goto(t, "pop", "popped")
        /\ ClientConnected(s)
        /\ held' = [held EXCEPT ![t] = Head(queuedchannels[s])]
        /\ UNCHANGED <<api, state, sdp, links, notify, self, limit>>

\* pop(0), under the lock that the test did not take: the list may be empty.
AcceptPop(t) ==
    LET s == self[t]
    IN  /\ \/ /\ Return(t, "pop")
              /\ ~ClientConnected(s)
              /\ UNCHANGED queuedchannels
           \/ /\ Goto(t, "pop", "popped")
              /\ ClientConnected(s)
              /\ held' = [held EXCEPT ![t] = Head(queuedchannels[s])]
              /\ queuedchannels' = [queuedchannels EXCEPT ![s] = Tail(@)]
              /\ UNCHANGED <<self, limit>>
        /\ UNCHANGED <<api, port, eventlistener, channel, boundports, sdp, links,
                       notify>>

\* The new socket, listening to the events of the connection.
AcceptReturn(t) ==
    /\ Return(t, "popped")
    /\ made < MaxSockets /\ wrapped < MaxWrappers
    /\ made' = made + 1
    /\ wrapped' = wrapped + 1
    /\ sock' = [sock EXCEPT ![wrapped'] = made']
    /\ channel' = [channel EXCEPT ![made'] = held[t]]
    /\ StartEvents(made')
    /\ UNCHANGED <<port, queuedchannels, boundports, sdp, links, notify>>

-----------------------------------------------------------------------------
(* connect() *)

\* The channel of a connection to port p, with the socket's listener as its delegate.
OpenChannel(s, c, p) ==
    /\ dialled[c] = 0
    /\ dialled' = [dialled EXCEPT ![c] = p]
    /\ open' = open \cup {c}
    /\ channel' = [channel EXCEPT ![s] = c]

\* The connection to the device and the channel; then the event loop runs for half
\* a second.  A connection that is refused leaves the socket as it was.
Connect(t, w) ==
    \E s \in Sockets :
        /\ Calls(t, w, s)
        /\ ~IsBound(s) /\ ~IsConnected(s)
        /\ \E c \in Channels, p \in Ports : OpenChannel(s, c, p)
        /\ StartEvents(s)
        /\ Start(t, s, 0, "sleeping")
        /\ UNCHANGED <<api, port, queuedchannels, boundports, sdp, opening, notify,
                       limit>>

ConnectReturn(t) ==
    /\ held[t] = 0
    /\ Return(t, "slept")
    /\ UNCHANGED <<api, state, sdp, links, notify>>

-----------------------------------------------------------------------------
(* advertise() and stopadvertise() *)

\* _getport(): of a connected socket, that of the connection.
PortOf(s) == IF IsConnected(s) THEN dialled[channel[s]] ELSE port[s]

\* Mutant of Advertise: the port that was assigned is not looked at.
AdvertiseAnywhere(t, w) ==
    \E s \in Sockets :
        /\ Calls(t, w, s)
        /\ PortOf(s) # 0
        /\ \E p \in Ports :
              /\ published[p] = Free
              /\ published' = [published EXCEPT ![p] = w]
              /\ advertised' = [advertised EXCEPT ![w] = p]
        /\ UNCHANGED <<api, state, links, notify, local>>

\* The record is published first and then the port it was given is looked at: if
\* that is not the socket's, BluetoothError is raised and the record stays.
Advertise(t, w) ==
    \E s \in Sockets :
        /\ Calls(t, w, s)
        /\ PortOf(s) # 0
        /\ \E p \in Ports :
              /\ published[p] = Free
              /\ published' = [published EXCEPT ![p] = w]
              /\ advertised' = [advertised EXCEPT ![w] = IF p = PortOf(s) THEN p ELSE @]
        /\ UNCHANGED <<api, state, links, notify, local>>

\* Remove the record noted for w, if it is there.  The note stays.
Unpublish(w) ==
    published' = [p \in Ports |-> IF p = advertised[w] /\ published[p] = w
                                  THEN Free ELSE published[p]]

Noted(w) == advertised[w] # 0 /\ published[advertised[w]] = w

StopAdvertise(t, w) ==
    \E s \in Sockets :
        /\ Calls(t, w, s)
        /\ Noted(w)
        /\ Unpublish(w)
        /\ UNCHANGED <<api, state, advertised, links, notify, local>>

-----------------------------------------------------------------------------
(* The half second of connect() and close(), and close(). *)

\* Mutant of SleepFired: the callback does not post an event.
SleepFiredSilently(t) ==
    /\ Goto(t, "sleeping", "fired")
    /\ UNCHANGED <<api, state, sdp, links, notify, self, held, limit>>

\* waitfor(): the timer's callback posts a notify event; waituntil() dequeues it.
SleepFired(t) ==
    /\ Goto(t, "sleeping", "fired")
    /\ notify' = notify + 1
    /\ UNCHANGED <<api, state, sdp, links, self, held, limit>>

SleepWake(t) ==
    /\ notify > 0
    /\ notify' = notify - 1
    /\ \/ Goto(t, "fired", "slept")
       \/ Goto(t, "sleeping", "sleeping")
    /\ UNCHANGED <<api, state, sdp, links, self, held, limit>>

\* Mutant of Close: the channel of a connected socket is not closed.
CloseLeavingChannel(t, w) ==
    \E s \in Sockets :
        /\ Calls(t, w, s)
        /\ StopEvents(s)
        /\ boundports' = boundports \ {port[s]}
        /\ Start(t, s, w, IF IsBound(s) \/ IsConnected(s) THEN "sleeping" ELSE "slept")
        /\ UNCHANGED <<api, port, channel, queuedchannels, sdp, dialled, open, notify,
                       limit>>

\* The object's close(): no more events, the port is given back or the connection
\* closed.  Then the event loop runs for half a second.
Close(t, w) ==
    \E s \in Sockets :
        /\ Calls(t, w, s)
        /\ StopEvents(s)
        /\ boundports' = boundports \ {port[s]}
        /\ open' = IF IsBound(s) THEN open ELSE open \ {channel[s]}
        /\ Start(t, s, w, IF IsBound(s) \/ IsConnected(s) THEN "sleeping" ELSE "slept")
        /\ UNCHANGED <<api, port, channel, queuedchannels, sdp, dialled, notify, limit>>

\* The wrapper's close() goes on: it forgets the object and its service.
CloseWrapper(t) ==
    /\ held[t] # 0
    /\ Return(t, "slept")
    /\ sock' = [sock EXCEPT ![held[t]] = 0]
    /\ Unpublish(held[t])
    /\ UNCHANGED <<made, wrapped, state, advertised, links, notify>>

-----------------------------------------------------------------------------
Call(t) ==
    \/ NewSocket(t)
    \/ \E w \in Wrappers :
         \/ Dups /\ Dup(t, w)
         \/ Connects /\ Connect(t, w)
         \/ Bind(t, w) \/ Listen(t, w) \/ Close(t, w)
         \/ Advertise(t, w) \/ StopAdvertise(t, w)
         \/ \E timeout \in Limits : Accept(t, w, timeout)

BindStep(t)   == BindRelease(t) \/ BindTest(t) \/ BindAdd(t)
AcceptStep(t) == AcceptTest(t) \/ AcceptRetest(t) \/ AcceptWake(t) \/ AcceptPop(t)
                   \/ AcceptReturn(t)
SleepStep(t)  == SleepFired(t) \/ SleepWake(t) \/ ConnectReturn(t) \/ CloseWrapper(t)

Next ==
    \/ \E t \in Threads : Call(t) \/ BindStep(t) \/ AcceptStep(t) \/ AcceptTimeOut(t)
                            \/ SleepStep(t)
    \/ \E c \in Channels, p \in Ports : ClientConnect(c, p)
    \/ \E s \in Sockets, c \in Channels : HandleOpened(s, c)

Spec == Init /\ [][Next]_vars

\* Threads are not stopped for ever and the event loop runs: the system tells the
\* listeners of a connection and timers fire.  Nobody has to call or connect.
Fairness ==
    /\ \A t \in Threads : WF_vars(BindStep(t) \/ AcceptStep(t) \/ SleepStep(t))
    /\ \A s \in Sockets, c \in Channels : WF_vars(HandleOpened(s, c))
    /\ \A t \in Threads : WF_vars(SleepFired(t))

FairSpec == Spec /\ Fairness

-----------------------------------------------------------------------------
(* What is checked. *)

Live(s) == \E w \in 1 .. wrapped : sock[w] = s

\* No two sockets that are not closed are bound to the same port.
PortExclusive ==
    \A s1, s2 \in Sockets :
        Live(s1) /\ Live(s2) /\ IsBound(s1) /\ port[s1] = port[s2] => s1 = s2

\* A connection is in one place: about to be queued, in one backlog, in the hands
\* of one accept(), or the channel of one socket.
Places(c) ==
      Cardinality(opening[c])
    + Cardinality({e \in Sockets \X (1 .. Cardinality(Channels)) :
                     e[2] <= Len(queuedchannels[e[1]]) /\ queuedchannels[e[1]][e[2]] = c})
    + Cardinality({t \in Threads : pc[t] = "popped" /\ held[t] = c})
    + Cardinality({s \in Sockets : channel[s] = c})

OneOwner == \A c \in Channels : Places(c) <= 1

\* The connection of a socket ends with the socket: it is open only while a wrapper
\* of the socket is not closed.
NoOrphans == \A s \in Sockets : channel[s] \in open => Live(s)

\* "It also uses the same exceptions, raising socket.error for general errors and
\* socket.timeout for timeout errors": accept() does not raise IndexError, it never
\* comes to pop from an empty list.
OnlySocketErrors == \A t \in Threads : pc[t] = "pop" => ClientConnected(self[t])

\* A service that advertise() has accepted leads to the socket it was given, for
\* as long as that socket listens: no other one is told of the clients.
ServiceLeadsHome ==
    \A w \in 1 .. wrapped :
        LET s == sock[w]
        IN  s # 0 /\ IsBound(s) /\ eventlistener[s] = "registered" /\ Noted(w)
              => ListenersOn(advertised[w]) = {s}

\* A waiting accept() whose socket has a client in its backlog stops waiting.
ClientEndsAccept ==
    \A t \in Threads :
        pc[t] = "waiting" /\ ClientConnected(self[t]) ~> pc[t] # "waiting"

\* With one thread, every close() and connect() comes back from its half second in the
\* event loop, whatever clients and their events the loop delivers meanwhile.  With two
\* it need not: waituntil() of one may dequeue the event of the other's timer.
SleepEnds ==
    \A t \in Threads : pc[t] \in {"sleeping", "fired"} ~> pc[t] = "idle"

-----------------------------------------------------------------------------
(* What the repository says and the code does not do. *)

\* "stopadvertising() is now automatically called for a socket when close() is called
\* on the socket" (CHANGELOG): once a wrapper is closed nothing published through it
\* remains.  It does after an advertise() that has raised.
ServiceGoneAfterClose ==
    \A w \in 1 .. wrapped : sock[w] = 0 => \A p \in Ports : published[p] # w
=============================================================================
