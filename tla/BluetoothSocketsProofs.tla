------------------------ MODULE BluetoothSocketsProofs ------------------------
(***************************************************************************)
(* Theorems about BluetoothSockets, for any ports, connections and number  *)
(* of sockets.  What they say of an application with one thread is false   *)
(* of one with more, and where they say that it does not call dup(), it    *)
(* is false if it does.                                                    *)
(***************************************************************************)
EXTENDS BluetoothSockets, FiniteSetTheorems, SequenceTheorems, TLAPS

USE SocketsAssumption DEF SocketsAssumption

OneThread == \A t, u \in Threads : t = u
Serial    == OneThread /\ ~Dups

Binding(t) == pc[t] \in {"probed", "assigned", "unused"}
Asleep(t)  == pc[t] \in {"sleeping", "fired", "slept"}
Closing(t) == Asleep(t) /\ held[t] # 0

Others(t)  == \E u \in Threads : u # t

\* What the local variables of a call are.  Another thread may have closed a wrapper
\* before the close() of this one does.
CallInv ==
    \A t \in Threads :
       /\ pc[t] = "idle" => self[t] = 0 /\ held[t] = 0
       /\ pc[t] # "idle" => self[t] \in 1 .. made
       /\ Binding(t) => held[t] \in Ports
       /\ pc[t] \in {"test", "retest", "waiting", "pop"} => held[t] = 0
       /\ pc[t] = "popped" => held[t] \in Channels
       /\ Asleep(t) => held[t] \in (1 .. wrapped) \cup {0}
       /\ Closing(t) => sock[held[t]] = self[t] \/ (sock[held[t]] = 0 /\ Others(t))

\* Nothing is known of objects that have not been created.
FreshInv ==
    /\ \A w \in Wrappers : /\ sock[w] <= made
                           /\ w > wrapped => sock[w] = 0 /\ advertised[w] = 0
    /\ \A s \in Sockets : s > made => /\ port[s] = 0 /\ channel[s] = 0
                                      /\ eventlistener[s] = "none"
                                      /\ queuedchannels[s] = <<>>

Queued(c)    == \E s \in Sockets : \E i \in DOMAIN queuedchannels[s] : queuedchannels[s][i] = c
Popped(c)    == \E t \in Threads : pc[t] = "popped" /\ held[t] = c
Connected(c) == \E s \in Sockets : channel[s] = c

\* A connection that has not been made is nowhere.
DialledInv ==
    \A c \in Channels :
       dialled[c] = 0 => /\ opening[c] = {} /\ c \notin open
                         /\ ~Queued(c) /\ ~Popped(c) /\ ~Connected(c)

\* Only a listening socket that is bound will be told of a connection.
OpeningInv ==
    \A c \in Channels : \A s \in opening[c] : eventlistener[s] = "registered" /\ port[s] # 0

\* A socket is bound or connected, and neither of them while bind() looks for a port.
BoundInv ==
    /\ \A s \in Sockets : IsBound(s) => ~IsConnected(s)
    /\ \A t \in Threads : Binding(t) => ~IsBound(self[t]) /\ ~IsConnected(self[t])

\* close() closes the connection before the wrapper forgets the socket.
OrphanInv ==
    /\ NoOrphans
    /\ \A t \in Threads : Closing(t) => channel[self[t]] \notin open

\* A service leads to the port of its socket.
ServiceInv ==
    \A w \in 1 .. wrapped :
       advertised[w] # 0 /\ sock[w] # 0
         => IF IsBound(sock[w]) THEN advertised[w] = port[sock[w]] ELSE IsConnected(sock[w])

\* The socket is being closed.
IsClosing(s) == \E t \in Threads : Closing(t) /\ self[t] = s

\* The ports of sockets that are not closed are in use, until close() gives them back.
PortsInv ==
    /\ PortExclusive
    /\ \A s \in Sockets : Live(s) /\ IsBound(s) => port[s] \in boundports \/ IsClosing(s)
    /\ \A s \in Sockets : eventlistener[s] = "registered" => Live(s) /\ ~IsClosing(s)
    /\ \A t \in Threads : pc[t] = "unused" => held[t] \notin boundports
    /\ \A t \in Threads : pc[t] # "idle" => Live(self[t])
    /\ \A w1, w2 \in 1 .. wrapped : sock[w1] # 0 /\ sock[w1] = sock[w2] => w1 = w2

\* A connection is in one place.
PlacesInv ==
    \A c \in Channels :
       /\ \A s1, s2 \in opening[c] : s1 = s2
       /\ \A s1, s2 \in Sockets :
             \A i1 \in DOMAIN queuedchannels[s1], i2 \in DOMAIN queuedchannels[s2] :
                queuedchannels[s1][i1] = c /\ queuedchannels[s2][i2] = c
                  => s1 = s2 /\ i1 = i2
       /\ \A s1, s2 \in Sockets : channel[s1] = c /\ channel[s2] = c => s1 = s2
       /\ opening[c] # {} => ~Queued(c) /\ ~Popped(c) /\ ~Connected(c)
       /\ Queued(c) => ~Popped(c) /\ ~Connected(c)
       /\ Popped(c) => ~Connected(c)

IInv ==
    /\ TypeOK
    /\ CallInv
    /\ FreshInv
    /\ DialledInv
    /\ OpeningInv
    /\ OneThread => BoundInv /\ OrphanInv /\ ServiceInv /\ OnlySocketErrors
    /\ Serial => PortsInv /\ PlacesInv

-----------------------------------------------------------------------------
(* The steps of the threads. *)

Steps == {"idle", "probed", "assigned", "unused", "test", "retest", "waiting", "pop",
          "popped", "sleeping", "fired", "slept"}
Helds == Ports \cup Channels \cup Wrappers \cup {0}
Waits(t) == pc[t] \in {"test", "retest", "waiting", "pop"}

\* The other threads stay where they are.
OthersStay(t) ==
    \A u \in Threads : u # t => pc'[u] = pc[u] /\ self'[u] = self[u] /\ held'[u] = held[u]

LocalTypes ==
    /\ pc' \in [Threads -> Steps]
    /\ self' \in [Threads -> Sockets \cup {0}]
    /\ held' \in [Threads -> Helds]
    /\ limit' \in [Threads -> {"none", "zero", "some"}]

LEMMA Types == TypeOK =>
    /\ pc \in [Threads -> Steps] /\ self \in [Threads -> Sockets \cup {0}]
    /\ held \in [Threads -> Helds] /\ limit \in [Threads -> {"none", "zero", "some"}]
BY DEF TypeOK, Steps, Helds

LEMMA Goes ==
    ASSUME TypeOK, NEW t \in Threads, NEW from, NEW to \in Steps, Goto(t, from, to),
           UNCHANGED <<self, held, limit>>
    PROVE  /\ LocalTypes /\ OthersStay(t)
           /\ pc[t] = from /\ pc'[t] = to /\ self'[t] = self[t] /\ held'[t] = held[t]
BY Types DEF Goto, LocalTypes, OthersStay

LEMMA Starts ==
    ASSUME TypeOK, NEW t \in Threads, NEW s \in Sockets, NEW x \in Helds, NEW to \in Steps,
           Start(t, s, x, to),
           limit' \in [Threads -> {"none", "zero", "some"}]
    PROVE  /\ LocalTypes /\ OthersStay(t)
           /\ pc[t] = "idle" /\ pc'[t] = to /\ self'[t] = s /\ held'[t] = x
BY Types DEF Start, Goto, LocalTypes, OthersStay

LEMMA Returns ==
    ASSUME TypeOK, NEW t \in Threads, NEW from, Return(t, from)
    PROVE  /\ LocalTypes /\ OthersStay(t)
           /\ pc[t] = from /\ pc'[t] = "idle" /\ self'[t] = 0 /\ held'[t] = 0
BY Types DEF Return, Goto, LocalTypes, OthersStay, Steps, Helds

\* A step that changes only where thread t is, and perhaps who has published a service.
Frozen ==
    /\ made' = made /\ wrapped' = wrapped /\ sock' = sock
    /\ port' = port /\ eventlistener' = eventlistener /\ channel' = channel
    /\ queuedchannels' = queuedchannels /\ boundports' = boundports
    /\ advertised' = advertised
    /\ dialled' = dialled /\ opening' = opening /\ open' = open

LEMMA FrozenTypes ==
    ASSUME TypeOK, Frozen, LocalTypes, published' \in [Ports -> Owners], notify' \in Nat
    PROVE  TypeOK'
BY DEF TypeOK, Frozen, LocalTypes, Steps, Helds

\* What is unchanged by any step that leaves the sockets and connections alone, and
\* takes no connection out of a backlog.
LEMMA FrozenKeeps ==
    ASSUME IInv, Frozen, NEW t \in Threads, OthersStay(t), pc[t] # "popped", pc'[t] # "popped"
    PROVE  /\ FreshInv' /\ DialledInv' /\ OpeningInv'
           /\ OneThread => ServiceInv' /\ NoOrphans' /\ \A s \in Sockets : IsBound(s)' => ~IsConnected(s)'
           /\ Serial => PlacesInv'
<1>1. \A c \in Channels : /\ Queued(c)' <=> Queued(c)
                          /\ Popped(c)' => Popped(c)
                          /\ Connected(c)' <=> Connected(c)
  <2> SUFFICES ASSUME NEW c \in Channels
               PROVE  /\ Queued(c)' <=> Queued(c)
                      /\ Popped(c)' => Popped(c)
                      /\ Connected(c)' <=> Connected(c)
    OBVIOUS
  <2>1. (Queued(c)' <=> Queued(c)) /\ (Connected(c)' <=> Connected(c))
    BY DEF Frozen, Queued, Connected
  <2>2. Popped(c)' => Popped(c)
    BY DEF Popped, OthersStay
  <2> QED BY <2>1, <2>2
<1>2. FreshInv'
  BY DEF IInv, FreshInv, Frozen
<1>3. DialledInv'
  BY <1>1 DEF IInv, DialledInv, Frozen
<1>4. OpeningInv'
  BY DEF IInv, OpeningInv, Frozen
<1>5. ASSUME OneThread PROVE ServiceInv' /\ NoOrphans'
  <2>1. ServiceInv /\ NoOrphans
    BY <1>5 DEF IInv, OrphanInv
  <2> QED BY <2>1 DEF ServiceInv, NoOrphans, Live, IsBound, IsConnected, Frozen
<1>6. ASSUME OneThread PROVE \A s \in Sockets : IsBound(s)' => ~IsConnected(s)'
  BY <1>6 DEF IInv, BoundInv, IsBound, IsConnected, Frozen
<1>7. ASSUME Serial PROVE PlacesInv'
  <2>1. PlacesInv
    BY <1>7 DEF IInv
  <2> QED BY <1>1, <2>1 DEF PlacesInv, Frozen
<1> QED BY <1>2, <1>3, <1>4, <1>5, <1>6, <1>7

\* The rest of the invariant, for such a step.
LEMMA FrozenRest ==
    ASSUME IInv, Frozen, TypeOK', CallInv', NEW t \in Threads, OthersStay(t),
           pc[t] # "popped", pc'[t] # "popped",
           OneThread /\ Binding(t)' => ~IsBound(self'[t]) /\ ~IsConnected(self'[t]),
           OneThread /\ pc'[t] = "pop" => ClientConnected(self'[t]),
           pc'[t] = "unused" => held'[t] \notin boundports,
           Serial /\ pc'[t] # "idle" => Live(self'[t]),
           OneThread => /\ Closing(t)' <=> Closing(t)
                        /\ Closing(t) => self'[t] = self[t]
    PROVE  IInv'
<1>1. /\ FreshInv' /\ DialledInv' /\ OpeningInv'
      /\ OneThread => ServiceInv' /\ NoOrphans' /\ \A s \in Sockets : IsBound(s)' => ~IsConnected(s)'
      /\ Serial => PlacesInv'
  BY FrozenKeeps
<1>2. ASSUME OneThread PROVE BoundInv' /\ OrphanInv' /\ OnlySocketErrors'
  <2>1. \A u \in Threads : u = t
    BY <1>2 DEF OneThread
  <2>2. BoundInv'
    <3>1. Binding(t)' => (~IsBound(self[t]) /\ ~IsConnected(self[t]))'
      BY <1>2 DEF IsBound, IsConnected, Frozen
    <3> QED BY <1>1, <1>2, <2>1, <3>1 DEF BoundInv
  <2>3. OrphanInv'
    <3>1. Closing(t)' => channel'[self'[t]] \notin open'
      BY <1>2 DEF IInv, OrphanInv, Frozen
    <3> QED BY <1>1, <1>2, <2>1, <3>1 DEF OrphanInv
  <2>4. OnlySocketErrors'
    <3>1. pc'[t] = "pop" => ClientConnected(self[t])'
      BY <1>2 DEF ClientConnected, Frozen
    <3> QED BY <2>1, <3>1 DEF OnlySocketErrors
  <2> QED BY <2>2, <2>3, <2>4
<1>3. ASSUME Serial PROVE PortsInv'
  <2>1. PortsInv /\ OneThread /\ \A u \in Threads : u = t
    BY <1>3 DEF IInv, Serial, OneThread
  <2>2. \A s \in Sockets : (Live(s)' <=> Live(s)) /\ (IsBound(s)' <=> IsBound(s))
    BY DEF Live, IsBound, Frozen
  <2>3. \A s \in Sockets : IsClosing(s)' <=> IsClosing(s)
    BY <2>1 DEF IsClosing
  <2>4. PortExclusive'
    BY <2>1, <2>2 DEF PortsInv, PortExclusive, Frozen
  <2>5. \A s \in Sockets : Live(s)' /\ IsBound(s)' => port'[s] \in boundports' \/ IsClosing(s)'
    BY <2>1, <2>2, <2>3 DEF PortsInv, Frozen
  <2>6. \A s \in Sockets : eventlistener'[s] = "registered" => Live(s)' /\ ~IsClosing(s)'
    BY <2>1, <2>2, <2>3 DEF PortsInv, Frozen
  <2>7. pc'[t] = "unused" => held'[t] \notin boundports'
    BY DEF Frozen
  <2>8. pc'[t] # "idle" => Live(self[t])'
    BY <1>3 DEF Live, Frozen
  <2>9. \A w1, w2 \in 1 .. wrapped' : sock'[w1] # 0 /\ sock'[w1] = sock'[w2] => w1 = w2
    BY <2>1 DEF PortsInv, Frozen
  <2> QED BY <2>1, <2>4, <2>5, <2>6, <2>7, <2>8, <2>9 DEF PortsInv
<1>4. OneThread' <=> OneThread /\ (Serial' <=> Serial)
  BY DEF OneThread, Serial
<1> QED BY <1>1, <1>2, <1>3, <1>4 DEF IInv, OneThread, Serial

\* A call goes on with what it has.
LEMMA GoesOnKeeps ==
    ASSUME IInv, Frozen, NEW t \in Threads, NEW from, NEW to \in Steps, Goto(t, from, to),
           UNCHANGED <<self, held, limit>>,
           published' \in [Ports -> Owners], notify' \in Nat,
           \/ from \in {"probed", "assigned"} /\ to \in {"assigned", "unused"}
           \/ from \in {"test", "retest", "waiting"} /\ to \in {"retest", "waiting", "pop"}
           \/ from \in {"sleeping", "fired"} /\ to \in {"sleeping", "fired", "slept"},
           to = "pop" => ClientConnected(self[t]),
           to = "unused" => held[t] \notin boundports
    PROVE  IInv'
<1>1. /\ LocalTypes /\ OthersStay(t)
      /\ pc[t] = from /\ pc'[t] = to /\ self'[t] = self[t] /\ held'[t] = held[t]
  BY Goes DEF IInv
<1>2. TypeOK'
  BY <1>1, FrozenTypes DEF IInv
<1>3. CallInv'
  BY <1>1 DEF IInv, CallInv, Binding, Asleep, Closing, Others, OthersStay, Frozen
<1>4. OneThread /\ Binding(t)' => ~IsBound(self'[t]) /\ ~IsConnected(self'[t])
  <2>1. Binding(t)' => Binding(t)
    BY <1>1 DEF Binding
  <2> QED BY <1>1, <2>1 DEF IInv, BoundInv
<1>5. OneThread /\ pc'[t] = "pop" => ClientConnected(self'[t])
  BY <1>1
<1>6. pc'[t] = "unused" => held'[t] \notin boundports
  BY <1>1
<1>7. Serial /\ pc'[t] # "idle" => Live(self'[t])
  BY <1>1 DEF IInv, PortsInv
<1>8. (Closing(t)' <=> Closing(t)) /\ pc[t] # "popped" /\ pc'[t] # "popped"
  BY <1>1 DEF Closing, Asleep
<1> QED BY <1>1, <1>2, <1>3, <1>4, <1>5, <1>6, <1>7, <1>8, FrozenRest

\* A call ends, but for that of close(), or accept() with a client.
LEMMA ReturnsKeeps ==
    ASSUME IInv, Frozen, NEW t \in Threads, NEW from, Return(t, from),
           published' \in [Ports -> Owners], notify' \in Nat,
           from # "popped", ~Closing(t)
    PROVE  IInv'
<1>1. /\ LocalTypes /\ OthersStay(t)
      /\ pc[t] = from /\ pc'[t] = "idle" /\ self'[t] = 0 /\ held'[t] = 0
  BY Returns DEF IInv
<1>2. TypeOK'
  BY <1>1, FrozenTypes DEF IInv
<1>3. CallInv'
  BY <1>1 DEF IInv, CallInv, Binding, Asleep, Closing, Others, OthersStay, Frozen
<1>4. ~Binding(t)' /\ ~Closing(t)'
  BY <1>1 DEF Binding, Closing, Asleep
<1> QED BY <1>1, <1>2, <1>3, <1>4, FrozenRest

\* A call begins, but for that of close().
LEMMA StartsKeeps ==
    ASSUME IInv, Frozen, NEW t \in Threads, NEW w \in Wrappers, NEW s \in Sockets,
           Calls(t, w, s), NEW x \in Helds, NEW to \in Steps, Start(t, s, x, to),
           limit' \in [Threads -> {"none", "zero", "some"}],
           published' \in [Ports -> Owners], notify' \in Nat,
           \/ to = "probed" /\ x \in Ports /\ ~IsBound(s) /\ ~IsConnected(s)
           \/ to \in {"test", "pop"} /\ x = 0,
           to = "pop" => ClientConnected(s)
    PROVE  IInv'
<1>1. /\ LocalTypes /\ OthersStay(t)
      /\ pc[t] = "idle" /\ pc'[t] = to /\ self'[t] = s /\ held'[t] = x
  BY Starts DEF IInv
<1>2. w \in 1 .. wrapped /\ sock[w] = s /\ s \in 1 .. made
  BY DEF Calls, IInv, TypeOK, FreshInv, Wrappers, Sockets
<1>3. Live(s)
  BY <1>2 DEF Live
<1>4. TypeOK'
  BY <1>1, FrozenTypes DEF IInv
<1>5. CallInv'
  BY <1>1, <1>2 DEF IInv, CallInv, Binding, Asleep, Closing, Others, OthersStay, Frozen
<1>6. ~Closing(t) /\ ~Closing(t)'
  BY <1>1 DEF Closing, Asleep
<1>7. Binding(t)' => ~IsBound(s) /\ ~IsConnected(s)
  BY <1>1 DEF Binding
<1> QED BY <1>1, <1>3, <1>4, <1>5, <1>6, <1>7, FrozenRest

LEMMA BindKeeps ==
    ASSUME IInv, NEW t \in Threads, NEW w \in Wrappers, Bind(t, w)
    PROVE  IInv'
<1>1. PICK s \in Sockets :
        /\ Calls(t, w, s)
        /\ ~IsBound(s) /\ ~IsConnected(s)
        /\ \E p \in Ports :
              /\ published[p] = Free
              /\ published' = [published EXCEPT ![p] = Probe]
              /\ Start(t, s, p, "probed")
        /\ UNCHANGED <<api, state, advertised, links, notify, limit>>
  BY DEF Bind
<1>2. PICK p \in Ports : /\ published' = [published EXCEPT ![p] = Probe]
                         /\ Start(t, s, p, "probed")
  BY <1>1
<1>3. /\ Frozen /\ notify' \in Nat /\ limit' \in [Threads -> {"none", "zero", "some"}]
      /\ published' \in [Ports -> Owners] /\ p \in Helds /\ "probed" \in Steps
  BY <1>1, <1>2 DEF Frozen, api, state, links, IInv, TypeOK, Helds, Steps, Owners
<1> QED BY <1>1, <1>2, <1>3, StartsKeeps

LEMMA AcceptKeeps ==
    ASSUME IInv, NEW t \in Threads, NEW w \in Wrappers, NEW timeout \in Limits,
           Accept(t, w, timeout)
    PROVE  IInv'
<1>1. PICK s \in Sockets :
        /\ Calls(t, w, s)
        /\ Start(t, s, 0, IF ClientConnected(s) THEN "pop" ELSE "test")
        /\ limit' = [limit EXCEPT ![t] = timeout]
        /\ UNCHANGED <<api, state, sdp, links, notify>>
  BY DEF Accept
<1>2. /\ Frozen /\ notify' \in Nat /\ limit' \in [Threads -> {"none", "zero", "some"}]
      /\ published' \in [Ports -> Owners] /\ 0 \in Helds /\ "pop" \in Steps /\ "test" \in Steps
  BY <1>1 DEF Frozen, api, state, sdp, links, IInv, TypeOK, Helds, Steps, Owners
<1>3. CASE ClientConnected(s)
  <2>1. Start(t, s, 0, "pop")
    BY <1>1, <1>3
  <2> QED BY <1>1, <1>2, <1>3, <2>1, StartsKeeps
<1>4. CASE ~ClientConnected(s)
  <2>1. Start(t, s, 0, "test")
    BY <1>1, <1>4
  <2> QED BY <1>1, <1>2, <2>1, StartsKeeps
<1> QED BY <1>3, <1>4

\* The steps of bind(), accept(), connect() and close() that change no socket.
LEMMA BindStepsKeep ==
    ASSUME IInv, NEW t \in Threads, BindRelease(t) \/ BindTest(t)
    PROVE  IInv'
<1>1. TypeOK /\ {"probed", "assigned", "unused"} \subseteq Steps
  BY DEF IInv, Steps
<1>2. Frozen /\ notify' \in Nat /\ published' \in [Ports -> Owners]
  <2>1. /\ Frozen /\ notify' = notify
        /\ published' = published \/ published' = [published EXCEPT ![held[t]] = Free]
    BY DEF BindRelease, BindTest, Frozen, api, state, sdp, links
  <2> QED BY <1>1, <2>1 DEF TypeOK, Owners
<1>3. CASE Return(t, "probed")
  <2>1. ~Closing(t)
    BY <1>3 DEF Return, Goto, Closing, Asleep
  <2> QED BY <1>2, <1>3, <2>1, ReturnsKeeps
<1>4. CASE Return(t, "assigned")
  <2>1. ~Closing(t)
    BY <1>4 DEF Return, Goto, Closing, Asleep
  <2> QED BY <1>2, <1>4, <2>1, ReturnsKeeps
<1>5. CASE Goto(t, "probed", "assigned") /\ UNCHANGED <<self, held, limit>>
  BY <1>1, <1>2, <1>5, GoesOnKeeps
<1>6. CASE held[t] \notin boundports /\ Goto(t, "assigned", "unused")
           /\ UNCHANGED <<self, held, limit>>
  BY <1>1, <1>2, <1>6, GoesOnKeeps
<1> QED BY <1>3, <1>4, <1>5, <1>6 DEF BindRelease, BindTest

LEMMA AcceptStepsKeep ==
    ASSUME IInv, NEW t \in Threads,
           AcceptTest(t) \/ AcceptRetest(t) \/ AcceptWake(t) \/ AcceptTimeOut(t)
    PROVE  IInv'
<1>1. TypeOK /\ {"test", "retest", "waiting", "pop"} \subseteq Steps
  BY DEF IInv, Steps
<1>2. Frozen /\ notify' \in Nat /\ published' \in [Ports -> Owners]
  BY <1>1 DEF AcceptTest, AcceptRetest, AcceptWake, AcceptTimeOut, Frozen, api, state, sdp,
              links, TypeOK
<1>3. CASE Return(t, "retest")
  <2>1. ~Closing(t)
    BY <1>3 DEF Return, Goto, Closing, Asleep
  <2> QED BY <1>2, <1>3, <2>1, ReturnsKeeps
<1>4. CASE Return(t, "waiting")
  <2>1. ~Closing(t)
    BY <1>4 DEF Return, Goto, Closing, Asleep
  <2> QED BY <1>2, <1>4, <2>1, ReturnsKeeps
<1>5. CASE AcceptTest(t)
  <2>1. UNCHANGED <<self, held, limit>>
    BY <1>5 DEF AcceptTest
  <2>2. CASE ClientConnected(self[t]) /\ Goto(t, "test", "pop")
    BY <1>1, <1>2, <2>1, <2>2, GoesOnKeeps
  <2>3. CASE Goto(t, "test", "retest")
    BY <1>1, <1>2, <2>1, <2>3, GoesOnKeeps
  <2>4. CASE Goto(t, "test", "waiting")
    BY <1>1, <1>2, <2>1, <2>4, GoesOnKeeps
  <2> QED BY <1>5, <2>2, <2>3, <2>4 DEF AcceptTest
<1>6. CASE Goto(t, "retest", "pop") /\ ClientConnected(self[t]) /\ UNCHANGED <<self, held, limit>>
  BY <1>1, <1>2, <1>6, GoesOnKeeps
<1>7. CASE AcceptWake(t)
  <2>1. UNCHANGED <<self, held, limit>>
    BY <1>7 DEF AcceptWake
  <2>2. CASE ClientConnected(self[t]) /\ Goto(t, "waiting", "pop")
    BY <1>1, <1>2, <2>1, <2>2, GoesOnKeeps
  <2>3. CASE Goto(t, "waiting", "waiting")
    BY <1>1, <1>2, <2>1, <2>3, GoesOnKeeps
  <2> QED BY <1>7, <2>2, <2>3 DEF AcceptWake
<1> QED BY <1>3, <1>4, <1>5, <1>6, <1>7 DEF AcceptRetest, AcceptTimeOut

LEMMA SleepStepsKeep ==
    ASSUME IInv, NEW t \in Threads, SleepFired(t) \/ SleepWake(t) \/ ConnectReturn(t)
    PROVE  IInv'
<1>1. TypeOK /\ {"sleeping", "fired", "slept"} \subseteq Steps
  BY DEF IInv, Steps
<1>2. Frozen /\ notify' \in Nat /\ published' \in [Ports -> Owners]
  BY <1>1 DEF SleepFired, SleepWake, ConnectReturn, Frozen, api, state, sdp, links, TypeOK
<1>3. CASE ConnectReturn(t)
  <2>1. Return(t, "slept") /\ ~Closing(t)
    BY <1>3 DEF ConnectReturn, Closing
  <2> QED BY <1>2, <2>1, ReturnsKeeps
<1>4. CASE SleepFired(t) \/ SleepWake(t)
  <2>1. PICK from \in {"sleeping", "fired"}, to \in {"sleeping", "fired", "slept"} :
          Goto(t, from, to)
    BY <1>4 DEF SleepFired, SleepWake
  <2>2. UNCHANGED <<self, held, limit>>
    BY <1>4 DEF SleepFired, SleepWake
  <2> QED BY <1>1, <1>2, <2>1, <2>2, GoesOnKeeps
<1> QED BY <1>3, <1>4

-----------------------------------------------------------------------------
(* Sockets are created, and given up. *)

\* The old sockets stay as they are when new ones are created.
LEMMA StillLive ==
    ASSUME IInv, wrapped' \in {wrapped, wrapped + 1}, wrapped' \in 0 .. MaxWrappers,
           \A w \in 1 .. wrapped : sock'[w] = sock[w]
    PROVE  \A s \in Sockets : Live(s) => Live(s)'
<1>1. \A w \in 1 .. wrapped : w \in 1 .. wrapped'
  BY DEF IInv, TypeOK
<1> QED BY <1>1 DEF Live

LEMMA NewSocketKeeps ==
    ASSUME IInv, NEW t \in Threads, NewSocket(t)
    PROVE  IInv'
<1>1. /\ made < MaxSockets /\ wrapped < MaxWrappers
      /\ made' = made + 1 /\ wrapped' = wrapped + 1
      /\ sock' = [sock EXCEPT ![wrapped'] = made']
      /\ port' = port /\ eventlistener' = eventlistener /\ channel' = channel
      /\ queuedchannels' = queuedchannels /\ boundports' = boundports
      /\ advertised' = advertised /\ published' = published
      /\ dialled' = dialled /\ opening' = opening /\ open' = open /\ notify' = notify
      /\ pc' = pc /\ self' = self /\ held' = held /\ limit' = limit
  BY DEF NewSocket, state, sdp, links, local
<1>2. /\ made \in Nat /\ wrapped \in Nat /\ made' \in Sockets /\ wrapped' \in Wrappers
      /\ sock \in [Wrappers -> Sockets \cup {0}]
  BY <1>1 DEF IInv, TypeOK, Sockets, Wrappers
<1>3. /\ sock'[wrapped'] = made' /\ \A w \in Wrappers : w # wrapped' => sock'[w] = sock[w]
      /\ sock' \in [Wrappers -> Sockets \cup {0}]
      /\ \A w \in 1 .. wrapped : sock'[w] = sock[w]
  BY <1>1, <1>2 DEF Wrappers
<1>4. TypeOK'
  BY <1>1, <1>2, <1>3 DEF IInv, TypeOK, Sockets, Wrappers
<1>5. CallInv'
  <2>1. \A x \in 1 .. wrapped : sock'[x] = sock[x] /\ x \in 1 .. wrapped'
    BY <1>1, <1>2, <1>3
  <2>2. \A x \in 1 .. made : x \in 1 .. made'
    BY <1>1, <1>2
  <2> QED BY <1>1, <2>1, <2>2 DEF IInv, CallInv, Binding, Asleep, Closing, Others
<1>6. FreshInv'
  BY <1>1, <1>2, <1>3 DEF IInv, FreshInv, Sockets, Wrappers
<1>7. DialledInv' /\ OpeningInv'
  BY <1>1 DEF IInv, DialledInv, Queued, Popped, Connected, OpeningInv
<1>8. \A s \in Sockets : Live(s) => Live(s)'
  BY <1>1, <1>2, <1>3, StillLive DEF Wrappers
<1>9. ~(made' \in 1 .. made) /\ port[made'] = 0 /\ channel[made'] = 0
  BY <1>1, <1>2 DEF IInv, FreshInv
<1>10. ASSUME OneThread PROVE BoundInv' /\ OrphanInv' /\ ServiceInv' /\ OnlySocketErrors'
  <2>1. BoundInv'
    BY <1>1, <1>10 DEF IInv, BoundInv, Binding, IsBound, IsConnected
  <2>2. OrphanInv'
    BY <1>1, <1>8, <1>10 DEF IInv, OrphanInv, NoOrphans, Closing, Asleep
  <2>3. ServiceInv'
    <3> SUFFICES ASSUME NEW w \in 1 .. wrapped', advertised[w] # 0, sock'[w] # 0
                 PROVE  IF port[sock'[w]] # 0 THEN advertised[w] = port[sock'[w]]
                        ELSE channel[sock'[w]] # 0
      BY <1>1 DEF ServiceInv, IsBound, IsConnected
    <3>1. w # wrapped'
      BY <1>1, <1>2 DEF IInv, FreshInv, Wrappers
    <3>2. w \in 1 .. wrapped /\ sock'[w] = sock[w]
      BY <1>1, <1>2, <1>3, <3>1
    <3> QED BY <1>10, <3>2 DEF IInv, ServiceInv, IsBound, IsConnected
  <2>4. OnlySocketErrors'
    BY <1>1, <1>10 DEF IInv, OnlySocketErrors, ClientConnected
  <2> QED BY <2>1, <2>2, <2>3, <2>4
<1>11. ASSUME Serial PROVE PortsInv' /\ PlacesInv'
  <2>1. PortsInv /\ PlacesInv
    BY <1>11 DEF IInv
  <2>2. \A s \in Sockets : Live(s)' /\ s # made' => Live(s)
    BY <1>1, <1>2, <1>3 DEF Live
  <2>3. \A s \in Sockets : IsClosing(s)' <=> IsClosing(s)
    BY <1>1 DEF IsClosing, Closing, Asleep
  <2>4. \A s \in Sockets : IsBound(s)' <=> IsBound(s)
    BY <1>1 DEF IsBound
  <2>5. ~IsBound(made')
    BY <1>9 DEF IsBound
  <2>6. PortExclusive'
    BY <1>1, <1>9, <2>1, <2>2, <2>4 DEF PortsInv, PortExclusive, IsBound
  <2>7. \A s \in Sockets : Live(s)' /\ IsBound(s)' => port'[s] \in boundports' \/ IsClosing(s)'
    BY <1>1, <2>1, <2>2, <2>3, <2>4, <2>5 DEF PortsInv
  <2>8. \A s \in Sockets : eventlistener'[s] = "registered" => Live(s)' /\ ~IsClosing(s)'
    BY <1>1, <1>8, <2>1, <2>3 DEF PortsInv
  <2>9. \A x \in Threads : pc[x] # "idle" => Live(self[x])'
    <3> SUFFICES ASSUME NEW x \in Threads, pc[x] # "idle"
                 PROVE  Live(self[x])'
      OBVIOUS
    <3>1. self[x] \in Sockets /\ Live(self[x])
      BY <1>2, <2>1 DEF IInv, CallInv, PortsInv, Sockets, TypeOK
    <3> QED BY <1>1, <1>8, <3>1
  <2>10. \A w1, w2 \in 1 .. wrapped' : sock'[w1] # 0 /\ sock'[w1] = sock'[w2] => w1 = w2
    <3>1. \A w \in 1 .. wrapped : sock[w] # made'
      BY <1>1, <1>2 DEF IInv, FreshInv, Wrappers
    <3>2. \A w \in 1 .. wrapped' : w = wrapped' \/ w \in 1 .. wrapped
      BY <1>1, <1>2
    <3> QED BY <1>3, <2>1, <3>1, <3>2 DEF PortsInv
  <2>11. PortsInv'
    <3>1. \A x \in Threads : pc'[x] = "unused" => held'[x] \notin boundports'
      BY <1>1, <2>1 DEF PortsInv
    <3> QED BY <1>1, <2>6, <2>7, <2>8, <2>9, <2>10, <3>1 DEF PortsInv
  <2>12. PlacesInv'
    BY <1>1, <2>1 DEF PlacesInv, Queued, Popped, Connected
  <2> QED BY <2>11, <2>12
<1> QED BY <1>4, <1>5, <1>6, <1>7, <1>10, <1>11 DEF IInv, OneThread, Serial

LEMMA DupKeeps ==
    ASSUME IInv, NEW t \in Threads, NEW w \in Wrappers, Dups, Dup(t, w)
    PROVE  IInv'
<1>1. PICK s \in Sockets :
        /\ Calls(t, w, s) /\ wrapped < MaxWrappers /\ wrapped' = wrapped + 1
        /\ sock' = [sock EXCEPT ![wrapped'] = s]
        /\ UNCHANGED <<made, state, sdp, links, notify, local>>
  BY DEF Dup
<1>2. /\ made' = made
      /\ port' = port /\ eventlistener' = eventlistener /\ channel' = channel
      /\ queuedchannels' = queuedchannels /\ boundports' = boundports
      /\ advertised' = advertised /\ published' = published
      /\ dialled' = dialled /\ opening' = opening /\ open' = open /\ notify' = notify
      /\ pc' = pc /\ self' = self /\ held' = held /\ limit' = limit
  BY <1>1 DEF state, sdp, links, local
<1>3. /\ made \in Nat /\ wrapped \in Nat /\ wrapped' \in Wrappers /\ w \in Wrappers
      /\ sock \in [Wrappers -> Sockets \cup {0}] /\ sock[w] = s /\ s <= made
      /\ wrapped' \in 0 .. MaxWrappers
  BY <1>1 DEF IInv, TypeOK, FreshInv, Sockets, Wrappers, Calls
<1>4. /\ sock'[wrapped'] = s /\ \A x \in Wrappers : x # wrapped' => sock'[x] = sock[x]
      /\ sock' \in [Wrappers -> Sockets \cup {0}]
      /\ \A x \in 1 .. wrapped : sock'[x] = sock[x]
  BY <1>1, <1>3 DEF Wrappers
<1>5. TypeOK'
  BY <1>2, <1>3, <1>4 DEF IInv, TypeOK
<1>6. CallInv'
  <2>1. \A x \in 1 .. wrapped : sock'[x] = sock[x] /\ x \in 1 .. wrapped'
    BY <1>1, <1>3, <1>4
  <2> QED BY <1>2, <2>1 DEF IInv, CallInv, Binding, Asleep, Closing, Others
<1>7. FreshInv'
  BY <1>1, <1>2, <1>3, <1>4 DEF IInv, FreshInv, Wrappers
<1>8. DialledInv' /\ OpeningInv'
  BY <1>2 DEF IInv, DialledInv, Queued, Popped, Connected, OpeningInv
<1>9. \A x \in Sockets : Live(x) => Live(x)'
  BY <1>1, <1>3, <1>4, StillLive
<1>10. ASSUME OneThread PROVE BoundInv' /\ OrphanInv' /\ ServiceInv' /\ OnlySocketErrors'
  <2>1. BoundInv'
    BY <1>2, <1>10 DEF IInv, BoundInv, Binding, IsBound, IsConnected
  <2>2. OrphanInv'
    BY <1>2, <1>9, <1>10 DEF IInv, OrphanInv, NoOrphans, Closing, Asleep
  <2>3. ServiceInv'
    <3> SUFFICES ASSUME NEW x \in 1 .. wrapped', advertised[x] # 0, sock'[x] # 0
                 PROVE  IF port[sock'[x]] # 0 THEN advertised[x] = port[sock'[x]]
                        ELSE channel[sock'[x]] # 0
      BY <1>2 DEF ServiceInv, IsBound, IsConnected
    <3>1. x # wrapped'
      BY <1>1, <1>3 DEF IInv, FreshInv, Wrappers
    <3>2. x \in 1 .. wrapped /\ sock'[x] = sock[x]
      BY <1>1, <1>3, <1>4, <3>1
    <3> QED BY <1>10, <3>2 DEF IInv, ServiceInv, IsBound, IsConnected
  <2>4. OnlySocketErrors'
    BY <1>2, <1>10 DEF IInv, OnlySocketErrors, ClientConnected
  <2> QED BY <2>1, <2>2, <2>3, <2>4
<1> QED BY <1>5, <1>6, <1>7, <1>8, <1>10 DEF IInv, OneThread, Serial

-----------------------------------------------------------------------------
(* Ports and services. *)

\* Where a connection is depends on these only.
LEMMA PlacesKept ==
    ASSUME IInv, opening' = opening, queuedchannels' = queuedchannels, channel' = channel,
           dialled' = dialled, open' = open,
           \A t \in Threads : pc'[t] = "popped" => pc[t] = "popped" /\ held'[t] = held[t]
    PROVE  DialledInv' /\ (Serial => PlacesInv')
<1>1. \A c \in Channels : /\ Queued(c)' <=> Queued(c)
                          /\ Popped(c)' => Popped(c)
                          /\ Connected(c)' <=> Connected(c)
  BY DEF Queued, Popped, Connected
<1>2. DialledInv'
  BY <1>1 DEF IInv, DialledInv
<1>3. Serial => PlacesInv'
  BY <1>1 DEF IInv, PlacesInv
<1> QED BY <1>2, <1>3

LEMMA BindAddKeeps ==
    ASSUME IInv, NEW t \in Threads, BindAdd(t)
    PROVE  IInv'
<1> DEFINE s == self[t]
           p == held[t]
<1>1. /\ Return(t, "unused")
      /\ boundports' = boundports \cup {p} /\ port' = [port EXCEPT ![s] = p]
      /\ made' = made /\ wrapped' = wrapped /\ sock' = sock
      /\ eventlistener' = eventlistener /\ channel' = channel
      /\ queuedchannels' = queuedchannels
      /\ advertised' = advertised /\ published' = published
      /\ dialled' = dialled /\ opening' = opening /\ open' = open /\ notify' = notify
  BY DEF BindAdd, api, sdp, links
<1>2. /\ LocalTypes /\ OthersStay(t)
      /\ pc[t] = "unused" /\ pc'[t] = "idle" /\ self'[t] = 0 /\ held'[t] = 0
  BY <1>1, Returns DEF IInv
<1>3. p \in Ports /\ p # 0 /\ s \in 1 .. made /\ s \in Sockets
  <2>1. Binding(t)
    BY <1>2 DEF Binding
  <2>2. p \in Ports /\ s \in 1 .. made
    BY <1>2, <2>1 DEF IInv, CallInv
  <2> QED BY <2>2 DEF IInv, TypeOK, Sockets
<1>4. /\ port \in [Sockets -> Ports \cup {0}] /\ port'[s] = p
      /\ \A x \in Sockets : x # s => port'[x] = port[x]
      /\ port' \in [Sockets -> Ports \cup {0}]
  BY <1>1, <1>3 DEF IInv, TypeOK
<1> HIDE DEF s, p
<1>5. TypeOK'
  BY <1>1, <1>2, <1>3, <1>4 DEF IInv, TypeOK, LocalTypes, Steps, Helds
<1>6. CallInv'
  BY <1>1, <1>2 DEF IInv, CallInv, Binding, Asleep, Closing, Others, OthersStay
<1>7. FreshInv'
  BY <1>1, <1>3, <1>4 DEF IInv, FreshInv, TypeOK
<1>8. DialledInv' /\ (Serial => PlacesInv')
  BY <1>1, <1>2, PlacesKept DEF OthersStay
<1>9. OpeningInv'
  BY <1>1, <1>3, <1>4 DEF IInv, OpeningInv, TypeOK
<1>10. ASSUME OneThread PROVE BoundInv' /\ OrphanInv' /\ ServiceInv' /\ OnlySocketErrors'
  <2>1. \A u \in Threads : u = t
    BY <1>10 DEF OneThread
  <2>2. BoundInv /\ OrphanInv /\ ServiceInv
    BY <1>10 DEF IInv
  <2>3. port[s] = 0 /\ channel[s] = 0
    BY <1>2, <2>2 DEF BoundInv, Binding, IsBound, IsConnected, s
  <2>4. BoundInv'
    BY <1>1, <1>2, <1>4, <2>1, <2>2, <2>3 DEF BoundInv, Binding, IsBound, IsConnected
  <2>5. OrphanInv'
    BY <1>1, <1>2, <2>1, <2>2 DEF OrphanInv, NoOrphans, Live, Closing, Asleep
  <2>6. ServiceInv'
    <3> SUFFICES ASSUME NEW w \in 1 .. wrapped, advertised[w] # 0, sock[w] # 0
                 PROVE  IF port'[sock[w]] # 0 THEN advertised[w] = port'[sock[w]]
                        ELSE channel[sock[w]] # 0
      BY <1>1 DEF ServiceInv, IsBound, IsConnected
    <3>1. sock[w] \in Sockets /\ sock[w] # s
      BY <2>2, <2>3 DEF ServiceInv, IsBound, IsConnected, IInv, TypeOK, Wrappers
    <3> QED BY <1>4, <2>2, <3>1 DEF ServiceInv, IsBound, IsConnected
  <2>7. OnlySocketErrors'
    BY <1>2, <2>1 DEF OnlySocketErrors
  <2> QED BY <2>4, <2>5, <2>6, <2>7
<1>11. ASSUME Serial PROVE PortsInv'
  <2>1. PortsInv /\ \A u \in Threads : u = t
    BY <1>11 DEF IInv, Serial, OneThread
  <2>2. \A x \in Sockets : /\ Live(x)' <=> Live(x)
                           /\ ~IsClosing(x) /\ ~IsClosing(x)'
    BY <1>1, <1>2, <2>1 DEF Live, IsClosing, Closing, Asleep
  <2>3. p \notin boundports
    BY <1>2, <2>1 DEF PortsInv, p
  <2>4. \A x \in Sockets : Live(x) /\ port[x] # 0 => port[x] \in boundports
    BY <2>1, <2>2 DEF PortsInv, IsBound
  <2>5. PortExclusive'
    <3> SUFFICES ASSUME NEW s1 \in Sockets, NEW s2 \in Sockets, Live(s1), Live(s2),
                        port'[s1] # 0, port'[s1] = port'[s2]
                 PROVE  s1 = s2
      BY <2>2 DEF PortExclusive, IsBound
    <3> QED BY <1>3, <1>4, <2>1, <2>3, <2>4 DEF PortsInv, PortExclusive, IsBound
  <2>6. \A x \in Sockets : Live(x)' /\ IsBound(x)' => port'[x] \in boundports'
    BY <1>1, <1>4, <2>2, <2>4 DEF IsBound
  <2>7. \A x \in Sockets : eventlistener'[x] = "registered" => Live(x)' /\ ~IsClosing(x)'
    BY <1>1, <2>1, <2>2 DEF PortsInv
  <2>8. \A w1, w2 \in 1 .. wrapped' : sock'[w1] # 0 /\ sock'[w1] = sock'[w2] => w1 = w2
    BY <1>1, <2>1 DEF PortsInv
  <2> QED BY <1>2, <2>1, <2>5, <2>6, <2>7, <2>8 DEF PortsInv
<1> QED BY <1>5, <1>6, <1>7, <1>8, <1>9, <1>10, <1>11 DEF IInv, OneThread, Serial

LEMMA ListenKeeps ==
    ASSUME IInv, NEW t \in Threads, NEW w \in Wrappers, Listen(t, w)
    PROVE  IInv'
<1>1. PICK s \in Sockets :
        /\ Calls(t, w, s) /\ IsBound(s) /\ StartEvents(s)
        /\ UNCHANGED <<api, port, channel, queuedchannels, boundports, sdp, links,
                       notify, local>>
  BY DEF Listen
<1>2. /\ made' = made /\ wrapped' = wrapped /\ sock' = sock
      /\ port' = port /\ channel' = channel
      /\ queuedchannels' = queuedchannels /\ boundports' = boundports
      /\ advertised' = advertised /\ published' = published
      /\ dialled' = dialled /\ opening' = opening /\ open' = open /\ notify' = notify
      /\ pc' = pc /\ self' = self /\ held' = held /\ limit' = limit
  BY <1>1 DEF api, sdp, links, local
<1>3. /\ w \in 1 .. wrapped /\ sock[w] = s /\ s <= made /\ pc[t] = "idle" /\ port[s] # 0
  BY <1>1 DEF Calls, IInv, TypeOK, FreshInv, Wrappers, Sockets, IsBound
<1>4. /\ eventlistener' = [eventlistener EXCEPT ![s] = "registered"]
      /\ eventlistener' \in [Sockets -> {"none", "registered", "off"}]
      /\ \A x \in Sockets : x # s => eventlistener'[x] = eventlistener[x]
  BY <1>1 DEF StartEvents, IInv, TypeOK
<1>5. TypeOK' /\ CallInv'
  BY <1>2, <1>4 DEF IInv, TypeOK, CallInv, Binding, Asleep, Closing, Others
<1>6. FreshInv'
  BY <1>2, <1>3, <1>4 DEF IInv, FreshInv, TypeOK
<1>7. DialledInv' /\ (Serial => PlacesInv')
  BY <1>2, PlacesKept
<1>8. OpeningInv'
  BY <1>2, <1>3, <1>4 DEF IInv, OpeningInv, TypeOK
<1>9. ASSUME OneThread PROVE BoundInv' /\ OrphanInv' /\ ServiceInv' /\ OnlySocketErrors'
  <2>1. BoundInv /\ OrphanInv /\ ServiceInv /\ OnlySocketErrors
    BY <1>9 DEF IInv
  <2>2. BoundInv' /\ OrphanInv'
    BY <1>2, <2>1 DEF BoundInv, Binding, IsBound, IsConnected, OrphanInv, NoOrphans, Live,
                      Closing, Asleep
  <2>3. ServiceInv' /\ OnlySocketErrors'
    BY <1>2, <2>1 DEF ServiceInv, IsBound, IsConnected, OnlySocketErrors, ClientConnected
  <2> QED BY <2>2, <2>3
<1>10. ASSUME Serial PROVE PortsInv'
  <2>1. PortsInv /\ \A u \in Threads : u = t
    BY <1>10 DEF IInv, Serial, OneThread
  <2>2. \A x \in Sockets : /\ Live(x)' <=> Live(x)
                           /\ IsClosing(x)' <=> IsClosing(x)
                           /\ IsBound(x)' <=> IsBound(x)
    BY <1>2 DEF Live, IsClosing, Closing, Asleep, IsBound
  <2>3. Live(s) /\ ~IsClosing(s)
    BY <1>3, <2>1 DEF Live, IsClosing, Closing, Asleep
  <2>4. PortExclusive'
    BY <1>2, <2>1, <2>2 DEF PortsInv, PortExclusive
  <2>5. \A x \in Sockets : eventlistener'[x] = "registered" => Live(x)' /\ ~IsClosing(x)'
    BY <1>4, <2>1, <2>2, <2>3 DEF PortsInv
  <2>6. \A x \in Sockets : Live(x)' /\ IsBound(x)' => port'[x] \in boundports' \/ IsClosing(x)'
    BY <1>2, <2>1, <2>2 DEF PortsInv
  <2>7. pc[t] = "idle"
    BY <1>3
  <2> QED BY <1>2, <2>1, <2>4, <2>5, <2>6, <2>7 DEF PortsInv
<1> QED BY <1>5, <1>6, <1>7, <1>8, <1>9, <1>10 DEF IInv, OneThread, Serial

\* A step that only changes what is noted and published of services.
LEMMA ServicesKeep ==
    ASSUME IInv, UNCHANGED <<api, state, links, notify, local>>,
           published' \in [Ports -> Owners],
           advertised' \in [Wrappers -> Ports \cup {0}],
           \A w \in Wrappers : w > wrapped => advertised'[w] = advertised[w],
           OneThread => ServiceInv'
    PROVE  IInv'
<1>1. /\ made' = made /\ wrapped' = wrapped /\ sock' = sock
      /\ port' = port /\ channel' = channel /\ eventlistener' = eventlistener
      /\ queuedchannels' = queuedchannels /\ boundports' = boundports
      /\ dialled' = dialled /\ opening' = opening /\ open' = open /\ notify' = notify
      /\ pc' = pc /\ self' = self /\ held' = held /\ limit' = limit
  BY DEF api, state, links, local
<1>2. TypeOK' /\ CallInv'
  BY <1>1 DEF IInv, TypeOK, CallInv, Binding, Asleep, Closing, Others
<1>3. FreshInv' /\ OpeningInv'
  BY <1>1 DEF IInv, FreshInv, OpeningInv
<1>4. DialledInv' /\ (Serial => PlacesInv')
  BY <1>1, PlacesKept
<1>5. ASSUME OneThread PROVE BoundInv' /\ OrphanInv' /\ OnlySocketErrors'
  BY <1>1, <1>5 DEF IInv, BoundInv, Binding, IsBound, IsConnected, OrphanInv, NoOrphans, Live,
                    Closing, Asleep, OnlySocketErrors, ClientConnected
<1>6. ASSUME Serial PROVE PortsInv'
  <2>1. PortsInv
    BY <1>6 DEF IInv
  <2>2. \A x \in Sockets : /\ Live(x)' <=> Live(x)
                           /\ IsClosing(x)' <=> IsClosing(x)
                           /\ IsBound(x)' <=> IsBound(x)
    BY <1>1 DEF Live, IsClosing, Closing, Asleep, IsBound
  <2>3. PortExclusive'
    BY <1>1, <2>1, <2>2 DEF PortsInv, PortExclusive
  <2>4. \A x \in Threads : pc[x] # "idle" => Live(self[x])'
    BY <1>1, <2>1 DEF PortsInv, Live
  <2> QED BY <1>1, <2>1, <2>2, <2>3, <2>4 DEF PortsInv
<1> QED BY <1>2, <1>3, <1>4, <1>5, <1>6 DEF IInv, OneThread, Serial

LEMMA AdvertiseKeeps ==
    ASSUME IInv, NEW t \in Threads, NEW w \in Wrappers, Advertise(t, w)
    PROVE  IInv'
<1>1. PICK s \in Sockets, p \in Ports :
        /\ Calls(t, w, s) /\ PortOf(s) # 0
        /\ published' = [published EXCEPT ![p] = w]
        /\ advertised' = [advertised EXCEPT ![w] = IF p = PortOf(s) THEN p ELSE @]
        /\ UNCHANGED <<api, state, links, notify, local>>
  BY DEF Advertise
<1>2. /\ published' \in [Ports -> Owners] /\ advertised' \in [Wrappers -> Ports \cup {0}]
      /\ w <= wrapped /\ sock[w] = s
  BY <1>1 DEF IInv, TypeOK, Owners, Calls
<1>3. /\ sock' = sock /\ port' = port /\ channel' = channel /\ wrapped' = wrapped
  BY <1>1 DEF api, state
<1>4. ASSUME OneThread PROVE ServiceInv'
  <2> SUFFICES ASSUME NEW x \in 1 .. wrapped, advertised'[x] # 0, sock[x] # 0
               PROVE  IF port[sock[x]] # 0 THEN advertised'[x] = port[sock[x]]
                      ELSE channel[sock[x]] # 0
    BY <1>3 DEF ServiceInv, IsBound, IsConnected
  <2>1. x \in Wrappers /\ advertised \in [Wrappers -> Ports \cup {0}]
    BY DEF IInv, TypeOK, Wrappers
  <2>2. CASE advertised'[x] = advertised[x]
    BY <1>4, <2>2 DEF IInv, ServiceInv, IsBound, IsConnected
  <2>3. CASE advertised'[x] # advertised[x]
    <3>1. x = w /\ advertised'[x] = PortOf(s)
      BY <1>1, <2>1, <2>3
    <3>2. port[s] # 0 => channel[s] = 0
      BY <1>4 DEF IInv, BoundInv, IsBound, IsConnected
    <3> QED BY <1>1, <1>2, <3>1, <3>2 DEF PortOf, IsConnected
  <2> QED BY <2>2, <2>3
<1>5. \A x \in Wrappers : x > wrapped => advertised'[x] = advertised[x]
  BY <1>1, <1>2 DEF IInv, TypeOK, Wrappers
<1> QED BY <1>1, <1>2, <1>4, <1>5, ServicesKeep

LEMMA StopAdvertiseKeeps ==
    ASSUME IInv, NEW t \in Threads, NEW w \in Wrappers, StopAdvertise(t, w)
    PROVE  IInv'
<1>1. Unpublish(w) /\ UNCHANGED <<api, state, advertised, links, notify, local>>
  BY DEF StopAdvertise
<1>2. published' \in [Ports -> Owners]
  BY <1>1 DEF Unpublish, IInv, TypeOK, Owners
<1>3. OneThread => ServiceInv'
  BY <1>1 DEF IInv, ServiceInv, IsBound, IsConnected, api, state
<1> QED BY <1>1, <1>2, <1>3, ServicesKeep DEF IInv, TypeOK

-----------------------------------------------------------------------------
(* Connections. *)

\* A step that changes no socket, call or service, but for the backlogs.
Quiet ==
    /\ made' = made /\ wrapped' = wrapped /\ sock' = sock
    /\ port' = port /\ eventlistener' = eventlistener /\ channel' = channel
    /\ boundports' = boundports /\ advertised' = advertised /\ published' = published
    /\ pc' = pc /\ self' = self /\ held' = held /\ limit' = limit

LEMMA QuietKeeps ==
    ASSUME IInv, Quiet
    PROVE  /\ CallInv' /\ (OneThread => BoundInv' /\ ServiceInv') /\ (Serial => PortsInv')
           /\ \A s \in Sockets : Live(s)' <=> Live(s)
           /\ \A t \in Threads : Closing(t)' <=> Closing(t)
<1>1. CallInv'
  BY DEF IInv, CallInv, Binding, Asleep, Closing, Others, Quiet
<1>2. OneThread => BoundInv' /\ ServiceInv'
  BY DEF IInv, BoundInv, ServiceInv, Binding, IsBound, IsConnected, Quiet
<1>3. \A s \in Sockets : /\ Live(s)' <=> Live(s)
                         /\ IsClosing(s)' <=> IsClosing(s)
                         /\ IsBound(s)' <=> IsBound(s)
  BY DEF Live, IsClosing, Closing, Asleep, IsBound, Quiet
<1>4. ASSUME Serial PROVE PortsInv'
  <2>1. PortsInv
    BY <1>4 DEF IInv
  <2>2. PortExclusive'
    BY <1>3, <2>1 DEF PortsInv, PortExclusive, Quiet
  <2>3. \A x \in Threads : pc[x] # "idle" => Live(self[x])'
    BY <2>1 DEF PortsInv, Live, Quiet
  <2> QED BY <1>3, <2>1, <2>2, <2>3 DEF PortsInv, Quiet
<1>5. \A t \in Threads : Closing(t)' <=> Closing(t)
  BY DEF Closing, Asleep, Quiet
<1> QED BY <1>1, <1>2, <1>3, <1>4, <1>5

LEMMA ClientConnectKeeps ==
    ASSUME IInv, NEW c \in Channels, NEW p \in Ports, ClientConnect(c, p)
    PROVE  IInv'
<1> DEFINE L == ListenersOn(p)
<1>1. /\ dialled[c] = 0 /\ dialled' = [dialled EXCEPT ![c] = p]
      /\ opening' = [opening EXCEPT ![c] = L] /\ open' = open \cup {c}
      /\ queuedchannels' = queuedchannels /\ notify' = notify
      /\ Quiet
  BY DEF ClientConnect, Quiet, api, state, sdp, local
<1>2. /\ L \subseteq Sockets /\ \A s \in L : port[s] = p /\ eventlistener[s] = "registered"
      /\ p # 0
  BY DEF ListenersOn
<1>3. \A s1, s2 \in L : Serial => s1 = s2
  <2> SUFFICES ASSUME NEW s1 \in L, NEW s2 \in L, Serial PROVE s1 = s2
    OBVIOUS
  <2>1. PortsInv
    BY DEF IInv
  <2> QED BY <1>2, <2>1 DEF PortsInv, PortExclusive, IsBound
<1> HIDE DEF L
<1>4. /\ dialled'[c] = p /\ opening'[c] = L
      /\ \A d \in Channels : d # c => dialled'[d] = dialled[d] /\ opening'[d] = opening[d]
      /\ dialled' \in [Channels -> Ports \cup {0}]
      /\ opening' \in [Channels -> SUBSET Sockets]
      /\ open' \subseteq Channels
  BY <1>1, <1>2 DEF IInv, TypeOK
<1>5. TypeOK'
  BY <1>1, <1>4 DEF IInv, TypeOK, Quiet
<1>6. /\ CallInv' /\ (OneThread => BoundInv' /\ ServiceInv') /\ (Serial => PortsInv')
      /\ \A s \in Sockets : Live(s)' <=> Live(s)
      /\ \A t \in Threads : Closing(t)' <=> Closing(t)
  BY <1>1, QuietKeeps
<1>7. FreshInv'
  BY <1>1 DEF IInv, FreshInv, Quiet
<1>8. \A d \in Channels : /\ Queued(d)' <=> Queued(d)
                          /\ Popped(d)' <=> Popped(d)
                          /\ Connected(d)' <=> Connected(d)
  BY <1>1 DEF Queued, Popped, Connected, Quiet
<1>9. ~Queued(c) /\ ~Popped(c) /\ ~Connected(c)
  BY <1>1 DEF IInv, DialledInv
<1>10. DialledInv'
  BY <1>1, <1>2, <1>4, <1>8 DEF IInv, DialledInv
<1>11. OpeningInv'
  BY <1>1, <1>2, <1>4 DEF IInv, OpeningInv, Quiet
<1>12. ASSUME OneThread PROVE OrphanInv' /\ OnlySocketErrors'
  <2>1. OrphanInv /\ OnlySocketErrors
    BY <1>12 DEF IInv
  <2>2. \A s \in Sockets : channel[s] # c
    BY <1>9 DEF Connected
  <2>3. NoOrphans'
    BY <1>1, <1>6, <2>1, <2>2 DEF OrphanInv, NoOrphans, Quiet
  <2>4. \A t \in Threads : Closing(t)' => channel'[self'[t]] \notin open'
    <3> SUFFICES ASSUME NEW t \in Threads, Closing(t)
                 PROVE  channel[self[t]] \notin open'
      BY <1>1, <1>6 DEF Quiet
    <3>1. self[t] \in Sockets
      BY DEF IInv, CallInv, Closing, Asleep, TypeOK, Sockets
    <3> QED BY <1>1, <2>1, <2>2, <3>1 DEF OrphanInv
  <2> QED BY <1>1, <2>1, <2>3, <2>4 DEF OrphanInv, OnlySocketErrors, ClientConnected, Quiet
<1>13. ASSUME Serial PROVE PlacesInv'
  <2>1. PlacesInv
    BY <1>13 DEF IInv
  <2>2. \A d \in Channels : \A s1, s2 \in opening'[d] : s1 = s2
    BY <1>3, <1>4, <1>13, <2>1 DEF PlacesInv
  <2>3. \A d \in Channels : opening'[d] # {} => ~Queued(d) /\ ~Popped(d) /\ ~Connected(d)
    BY <1>4, <1>9, <2>1 DEF PlacesInv
  <2> QED BY <1>1, <1>8, <2>1, <2>2, <2>3 DEF PlacesInv, Quiet
<1> QED BY <1>5, <1>6, <1>7, <1>10, <1>11, <1>12, <1>13 DEF IInv, OneThread, Serial

LEMMA HandleOpenedKeeps ==
    ASSUME IInv, NEW s \in Sockets, NEW c \in Channels, HandleOpened(s, c)
    PROVE  IInv'
<1> DEFINE q == queuedchannels[s]
<1>1. /\ s \in opening[c] /\ opening' = [opening EXCEPT ![c] = @ \ {s}]
      /\ queuedchannels' = [queuedchannels EXCEPT ![s] = Append(@, c)]
      /\ notify' = notify + 1 /\ dialled' = dialled /\ open' = open
      /\ Quiet
  BY DEF HandleOpened, QueueChannel, Quiet, api, sdp, local
<1>2. q \in Seq(Channels) /\ queuedchannels \in [Sockets -> Seq(Channels)]
  BY DEF IInv, TypeOK
<1>3. /\ queuedchannels'[s] = Append(q, c)
      /\ \A x \in Sockets : x # s => queuedchannels'[x] = queuedchannels[x]
      /\ queuedchannels' \in [Sockets -> Seq(Channels)]
  <2>1. queuedchannels'[s] = Append(q, c)
    BY <1>1, <1>2
  <2>2. \A x \in Sockets : x # s => queuedchannels'[x] = queuedchannels[x]
    BY <1>1, <1>2
  <2>3. Append(q, c) \in Seq(Channels)
    BY <1>2, AppendProperties
  <2>4. queuedchannels' = [queuedchannels EXCEPT ![s] = Append(q, c)]
    BY <1>1
  <2> QED BY <1>2, <2>1, <2>2, <2>3, <2>4, Zenon
<1>4. /\ Append(q, c) # <<>> /\ Len(q) \in Nat
      /\ DOMAIN q = 1 .. Len(q) /\ DOMAIN Append(q, c) = 1 .. Len(q) + 1
      /\ Append(q, c)[Len(q) + 1] = c
      /\ \A i \in 1 .. Len(q) : Append(q, c)[i] = q[i]
  <2>1. /\ Append(q, c) # <<>> /\ Len(Append(q, c)) = Len(q) + 1
        /\ Append(q, c) \in Seq(Channels)
        /\ Append(q, c)[Len(q) + 1] = c
        /\ \A i \in 1 .. Len(q) : Append(q, c)[i] = q[i]
    BY <1>2, AppendProperties
  <2>2. Len(q) \in Nat /\ DOMAIN q = 1 .. Len(q) /\ DOMAIN Append(q, c) = 1 .. Len(q) + 1
    BY <1>2, <2>1, LenProperties
  <2> QED BY <2>1, <2>2
<1> HIDE DEF q
<1>5. /\ opening'[c] = opening[c] \ {s}
      /\ \A d \in Channels : d # c => opening'[d] = opening[d]
      /\ \A d \in Channels : opening'[d] \subseteq opening[d]
      /\ opening' \in [Channels -> SUBSET Sockets]
  BY <1>1 DEF IInv, TypeOK
<1>6. /\ eventlistener[s] = "registered" /\ ~(s > made) /\ dialled[c] # 0
  <2>1. eventlistener[s] = "registered"
    BY <1>1 DEF IInv, OpeningInv
  <2>2. ~(s > made)
    BY <2>1 DEF IInv, FreshInv
  <2>3. dialled[c] # 0
    BY <1>1 DEF IInv, DialledInv
  <2> QED BY <2>1, <2>2, <2>3
<1>7. TypeOK'
  BY <1>1, <1>3, <1>5 DEF IInv, TypeOK, Quiet
<1>8. /\ CallInv' /\ (OneThread => BoundInv' /\ ServiceInv') /\ (Serial => PortsInv')
      /\ \A x \in Sockets : Live(x)' <=> Live(x)
      /\ \A t \in Threads : Closing(t)' <=> Closing(t)
  BY <1>1, QuietKeeps
<1>9. FreshInv'
  BY <1>1, <1>3, <1>6 DEF IInv, FreshInv, Quiet
<1>10. \A d \in Channels : /\ d # c => (Queued(d)' => Queued(d))
                           /\ Popped(d)' <=> Popped(d)
                           /\ Connected(d)' <=> Connected(d)
  <2> SUFFICES ASSUME NEW d \in Channels
               PROVE  /\ d # c => (Queued(d)' => Queued(d))
                      /\ Popped(d)' <=> Popped(d)
                      /\ Connected(d)' <=> Connected(d)
    OBVIOUS
  <2>1. (Popped(d)' <=> Popped(d)) /\ (Connected(d)' <=> Connected(d))
    BY <1>1 DEF Popped, Connected, Quiet
  <2>2. ASSUME d # c, Queued(d)' PROVE Queued(d)
    <3>1. PICK x \in Sockets : \E i \in DOMAIN queuedchannels'[x] : queuedchannels'[x][i] = d
      BY <2>2 DEF Queued
    <3>2. PICK i \in DOMAIN queuedchannels'[x] : queuedchannels'[x][i] = d
      BY <3>1
    <3>3. CASE x # s
      BY <1>3, <3>2, <3>3 DEF Queued
    <3>4. CASE x = s
      <4>1. i \in 1 .. Len(q) /\ q[i] = d
        BY <1>3, <1>4, <2>2, <3>2, <3>4
      <4> QED BY <1>4, <4>1 DEF Queued, q
    <3> QED BY <3>3, <3>4
  <2> QED BY <2>1, <2>2
<1>11. DialledInv'
  <2> SUFFICES ASSUME NEW d \in Channels, dialled[d] = 0
               PROVE  /\ opening'[d] = {} /\ d \notin open
                      /\ ~Queued(d)' /\ ~Popped(d)' /\ ~Connected(d)'
    BY <1>1 DEF DialledInv
  <2>1. d # c
    BY <1>6
  <2> QED BY <1>5, <1>10, <2>1 DEF IInv, DialledInv
<1>12. OpeningInv'
  BY <1>1, <1>5 DEF IInv, OpeningInv, Quiet
<1>13. ASSUME OneThread PROVE OrphanInv' /\ OnlySocketErrors'
  <2>1. OrphanInv /\ OnlySocketErrors
    BY <1>13 DEF IInv
  <2>2. OrphanInv'
    BY <1>1, <1>8, <2>1 DEF OrphanInv, NoOrphans, Quiet
  <2>3. \A x \in Sockets : queuedchannels[x] # <<>> => queuedchannels'[x] # <<>>
    BY <1>3, <1>4
  <2>4. \A t \in Threads : pc[t] = "pop" => self[t] \in Sockets
    BY DEF IInv, CallInv, TypeOK, Sockets
  <2> QED BY <1>1, <2>1, <2>2, <2>3, <2>4 DEF OnlySocketErrors, ClientConnected, Quiet
<1>14. ASSUME Serial PROVE PlacesInv'
  <2>1. PlacesInv
    BY <1>14 DEF IInv
  <2>2. opening'[c] = {} /\ ~Queued(c) /\ ~Popped(c) /\ ~Connected(c)
    BY <1>1, <1>5, <2>1 DEF PlacesInv
  <2>3. \A d \in Channels : \A s1, s2 \in opening'[d] : s1 = s2
    BY <1>5, <2>1 DEF PlacesInv
  <2>4. ASSUME NEW x \in Sockets, NEW i \in DOMAIN queuedchannels'[x],
               queuedchannels'[x][i] = c
        PROVE  x = s /\ i = Len(q) + 1
    <3>1. ~(\E j \in DOMAIN queuedchannels[x] : queuedchannels[x][j] = c)
      BY <2>2 DEF Queued
    <3>2. x = s
      BY <1>3, <2>4, <3>1
    <3>3. ~(\E j \in 1 .. Len(q) : q[j] = c)
      BY <1>4, <3>1, <3>2 DEF q
    <3> QED BY <1>3, <1>4, <2>4, <3>2, <3>3
  <2>5. ASSUME NEW d \in Channels, d # c, NEW x \in Sockets,
               NEW i \in DOMAIN queuedchannels'[x], queuedchannels'[x][i] = d
        PROVE  i \in DOMAIN queuedchannels[x] /\ queuedchannels[x][i] = d
    <3>1. CASE x # s
      BY <1>3, <2>5, <3>1
    <3>2. CASE x = s
      BY <1>3, <1>4, <2>5, <3>2 DEF q
    <3> QED BY <3>1, <3>2
  <2>6. \A d \in Channels : \A s1, s2 \in Sockets :
             \A i1 \in DOMAIN queuedchannels'[s1], i2 \in DOMAIN queuedchannels'[s2] :
                queuedchannels'[s1][i1] = d /\ queuedchannels'[s2][i2] = d
                  => s1 = s2 /\ i1 = i2
    <3> SUFFICES ASSUME NEW d \in Channels, NEW s1 \in Sockets, NEW s2 \in Sockets,
                        NEW i1 \in DOMAIN queuedchannels'[s1],
                        NEW i2 \in DOMAIN queuedchannels'[s2],
                        queuedchannels'[s1][i1] = d, queuedchannels'[s2][i2] = d
                 PROVE  s1 = s2 /\ i1 = i2
      OBVIOUS
    <3>1. CASE d = c
      BY <2>4, <3>1
    <3>2. CASE d # c
      <4>1. /\ i1 \in DOMAIN queuedchannels[s1] /\ queuedchannels[s1][i1] = d
            /\ i2 \in DOMAIN queuedchannels[s2] /\ queuedchannels[s2][i2] = d
        BY <2>5, <3>2
      <4> QED BY <2>1, <4>1 DEF PlacesInv
    <3> QED BY <3>1, <3>2
  <2>7. \A d \in Channels : \A s1, s2 \in Sockets :
             channel'[s1] = d /\ channel'[s2] = d => s1 = s2
    BY <1>1, <2>1 DEF PlacesInv, Quiet
  <2>8. \A d \in Channels :
             /\ opening'[d] # {} => ~Queued(d)' /\ ~Popped(d)' /\ ~Connected(d)'
             /\ Queued(d)' => ~Popped(d)' /\ ~Connected(d)'
             /\ Popped(d)' => ~Connected(d)'
    BY <1>5, <1>10, <2>1, <2>2 DEF PlacesInv
  <2> QED BY <2>3, <2>6, <2>7, <2>8 DEF PlacesInv
<1> QED BY <1>7, <1>8, <1>9, <1>11, <1>12, <1>13, <1>14 DEF IInv, OneThread, Serial

LEMMA AcceptPopKeeps ==
    ASSUME IInv, NEW t \in Threads, AcceptPop(t)
    PROVE  IInv'
<1> DEFINE s == self[t]
           q == queuedchannels[s]
<1>1. CASE Return(t, "pop") /\ UNCHANGED queuedchannels
  <2>1. Frozen /\ notify' \in Nat /\ published' \in [Ports -> Owners]
    BY <1>1 DEF AcceptPop, Frozen, api, sdp, links, IInv, TypeOK
  <2>2. ~Closing(t)
    BY <1>1 DEF Return, Goto, Closing, Asleep
  <2> QED BY <1>1, <2>1, <2>2, ReturnsKeeps
<1>2. CASE /\ Goto(t, "pop", "popped") /\ q # <<>> /\ held' = [held EXCEPT ![t] = Head(q)]
           /\ queuedchannels' = [queuedchannels EXCEPT ![s] = Tail(@)]
           /\ UNCHANGED <<self, limit>>
  <2>1. /\ made' = made /\ wrapped' = wrapped /\ sock' = sock
        /\ port' = port /\ eventlistener' = eventlistener /\ channel' = channel
        /\ boundports' = boundports /\ advertised' = advertised /\ published' = published
        /\ dialled' = dialled /\ opening' = opening /\ open' = open /\ notify' = notify
    BY DEF AcceptPop, api, sdp, links
  <2>2. pc[t] = "pop" /\ s \in 1 .. made /\ s \in Sockets
    BY <1>2 DEF Goto, IInv, TypeOK, CallInv, Sockets
  <2>3. q \in Seq(Channels) /\ queuedchannels \in [Sockets -> Seq(Channels)]
    BY <2>2 DEF IInv, TypeOK
  <2>4. PICK c \in Channels : c = Head(q)
    BY <1>2, <2>3, HeadTailProperties
  <2>5. /\ Tail(q) \in Seq(Channels) /\ 1 \in DOMAIN q /\ q[1] = c
        /\ \A i \in DOMAIN Tail(q) : i + 1 \in DOMAIN q /\ i + 1 # 1 /\ Tail(q)[i] = q[i + 1]
    <3>1. /\ Tail(q) \in Seq(Channels) /\ Len(Tail(q)) = Len(q) - 1
          /\ \A i \in 1 .. Len(Tail(q)) : Tail(q)[i] = q[i + 1]
      BY <1>2, <2>3, HeadTailProperties
    <3>2. /\ Len(q) \in Nat /\ DOMAIN q = 1 .. Len(q) /\ Len(Tail(q)) \in Nat
          /\ DOMAIN Tail(q) = 1 .. Len(Tail(q))
      BY <2>3, <3>1, LenProperties
    <3>3. q[1] = c
      BY <1>2, <2>3, <2>4
    <3> QED BY <3>1, <3>2, <3>3
  <2>6. /\ queuedchannels'[s] = Tail(q)
        /\ \A x \in Sockets : x # s => queuedchannels'[x] = queuedchannels[x]
        /\ queuedchannels' \in [Sockets -> Seq(Channels)]
    <3>1. queuedchannels' = [queuedchannels EXCEPT ![s] = Tail(q)]
      BY <1>2
    <3> QED BY <2>2, <2>3, <2>5, <3>1, Zenon
  <2>7. /\ LocalTypes /\ OthersStay(t)
        /\ pc'[t] = "popped" /\ self'[t] = s /\ held'[t] = c /\ self' = self
    BY <1>2, <2>4, Types DEF Goto, LocalTypes, OthersStay, Steps, Helds, IInv
  <2> HIDE DEF q, s
  <2>8. TypeOK'
    BY <2>1, <2>6, <2>7 DEF IInv, TypeOK, LocalTypes, Steps, Helds
  <2>9. CallInv'
    BY <2>1, <2>2, <2>5, <2>7 DEF IInv, CallInv, Binding, Asleep, Closing, Others, OthersStay
  <2>10. FreshInv'
    BY <2>1, <2>2, <2>6 DEF IInv, FreshInv, TypeOK
  <2>11. ASSUME NEW x \in Sockets, NEW i \in DOMAIN queuedchannels'[x]
         PROVE  \/ /\ i \in DOMAIN queuedchannels[x] /\ x # s
                   /\ queuedchannels'[x][i] = queuedchannels[x][i]
                \/ /\ i + 1 \in DOMAIN queuedchannels[x] /\ x = s /\ i + 1 # 1
                   /\ queuedchannels'[x][i] = queuedchannels[x][i + 1]
    <3>1. CASE x = s
      BY <2>5, <2>6, <2>11, <3>1 DEF q
    <3>2. CASE x # s
      BY <2>6, <2>11, <3>2
    <3> QED BY <3>1, <3>2
  <2>12. Queued(c) /\ ~(\E u \in Threads : pc[u] = "popped" /\ u = t)
    BY <2>2, <2>5 DEF Queued, q
  <2>13. \A d \in Channels : /\ Queued(d)' => Queued(d)
                             /\ Popped(d)' => Popped(d) \/ d = c
                             /\ Connected(d)' <=> Connected(d)
    <3> SUFFICES ASSUME NEW d \in Channels
                 PROVE  /\ Queued(d)' => Queued(d)
                        /\ Popped(d)' => Popped(d) \/ d = c
                        /\ Connected(d)' <=> Connected(d)
      OBVIOUS
    <3>1. Queued(d)' => Queued(d)
      BY <2>11 DEF Queued
    <3>2. Popped(d)' => Popped(d) \/ d = c
      BY <2>7 DEF Popped, OthersStay
    <3>3. Connected(d)' <=> Connected(d)
      BY <2>1 DEF Connected
    <3> QED BY <3>1, <3>2, <3>3
  <2>14. DialledInv'
    BY <2>1, <2>5, <2>12, <2>13 DEF IInv, DialledInv
  <2>15. OpeningInv'
    BY <2>1 DEF IInv, OpeningInv
  <2>16. ASSUME OneThread PROVE BoundInv' /\ OrphanInv' /\ ServiceInv' /\ OnlySocketErrors'
    <3>1. BoundInv /\ OrphanInv /\ ServiceInv /\ \A u \in Threads : u = t
      BY <2>16 DEF IInv, OneThread
    <3>2. BoundInv'
      BY <2>1, <2>7, <3>1 DEF BoundInv, Binding, IsBound, IsConnected
    <3>3. OrphanInv'
      BY <2>1, <2>7, <3>1 DEF OrphanInv, NoOrphans, Live, Closing, Asleep
    <3>4. ServiceInv' /\ OnlySocketErrors'
      BY <2>1, <2>7, <3>1 DEF ServiceInv, IsBound, IsConnected, OnlySocketErrors
    <3> QED BY <3>2, <3>3, <3>4
  <2>17. ASSUME Serial PROVE PortsInv'
    <3>1. PortsInv /\ \A u \in Threads : u = t
      BY <2>17 DEF IInv, Serial, OneThread
    <3>2. \A x \in Sockets : /\ Live(x)' <=> Live(x)
                             /\ ~IsClosing(x)' /\ ~IsClosing(x)
                             /\ IsBound(x)' <=> IsBound(x)
      BY <2>1, <2>2, <2>7, <3>1 DEF Live, IsClosing, Closing, Asleep, IsBound
    <3>3. PortExclusive'
      BY <2>1, <3>1, <3>2 DEF PortsInv, PortExclusive
    <3>4. \A u \in Threads : pc'[u] # "idle" => Live(self[u])'
      BY <2>1, <2>2, <2>7, <3>1 DEF PortsInv, Live
    <3> QED BY <2>1, <2>7, <3>1, <3>2, <3>3, <3>4 DEF PortsInv
  <2>18. ASSUME Serial PROVE PlacesInv'
    <3>1. PlacesInv
      BY <2>18 DEF IInv
    <3>2. ~Queued(c)'
      <4> SUFFICES ASSUME NEW x \in Sockets, NEW i \in DOMAIN queuedchannels'[x],
                          queuedchannels'[x][i] = c
                   PROVE  FALSE
        BY DEF Queued
      <4>1. PICK j \in DOMAIN queuedchannels[x] :
              queuedchannels[x][j] = c /\ (x # s \/ j # 1)
        BY <2>11
      <4>2. 1 \in DOMAIN queuedchannels[s] /\ queuedchannels[s][1] = c
        BY <2>5 DEF q
      <4>3. \A s1, s2 \in Sockets :
               \A i1 \in DOMAIN queuedchannels[s1], i2 \in DOMAIN queuedchannels[s2] :
                  queuedchannels[s1][i1] = c /\ queuedchannels[s2][i2] = c
                    => s1 = s2 /\ i1 = i2
        BY <2>5, <3>1 DEF PlacesInv
      <4> QED BY <2>2, <4>1, <4>2, <4>3
    <3>3. opening[c] = {} /\ ~Connected(c)
      BY <2>5, <2>12, <3>1 DEF PlacesInv
    <3>4. \A d \in Channels : \A s1, s2 \in Sockets :
               \A i1 \in DOMAIN queuedchannels'[s1], i2 \in DOMAIN queuedchannels'[s2] :
                  queuedchannels'[s1][i1] = d /\ queuedchannels'[s2][i2] = d
                    => s1 = s2 /\ i1 = i2
      <4> SUFFICES ASSUME NEW d \in Channels, NEW s1 \in Sockets, NEW s2 \in Sockets,
                          NEW i1 \in DOMAIN queuedchannels'[s1],
                          NEW i2 \in DOMAIN queuedchannels'[s2],
                          queuedchannels'[s1][i1] = d, queuedchannels'[s2][i2] = d
                   PROVE  s1 = s2 /\ i1 = i2
        OBVIOUS
      <4>1. i1 \in Int /\ i2 \in Int
        BY <2>6, LenProperties
      <4>2. PICK j1 \in DOMAIN queuedchannels[s1] :
              /\ queuedchannels[s1][j1] = d
              /\ j1 = IF s1 = s THEN i1 + 1 ELSE i1
        BY <2>11
      <4>3. PICK j2 \in DOMAIN queuedchannels[s2] :
              /\ queuedchannels[s2][j2] = d
              /\ j2 = IF s2 = s THEN i2 + 1 ELSE i2
        BY <2>11
      <4>4. s1 = s2 /\ j1 = j2
        BY <3>1, <4>2, <4>3 DEF PlacesInv
      <4> QED BY <4>1, <4>2, <4>3, <4>4
    <3>5. \A d \in Channels : \A s1, s2 \in Sockets :
               channel'[s1] = d /\ channel'[s2] = d => s1 = s2
      BY <2>1, <3>1 DEF PlacesInv
    <3>6. \A d \in Channels :
               /\ opening'[d] # {} => ~Queued(d)' /\ ~Popped(d)' /\ ~Connected(d)'
               /\ Queued(d)' => ~Popped(d)' /\ ~Connected(d)'
               /\ Popped(d)' => ~Connected(d)'
      <4> SUFFICES ASSUME NEW d \in Channels
                   PROVE  /\ opening[d] # {} => ~Queued(d)' /\ ~Popped(d)' /\ ~Connected(d)'
                          /\ Queued(d)' => ~Popped(d)' /\ ~Connected(d)'
                          /\ Popped(d)' => ~Connected(d)'
        BY <2>1
      <4>1. CASE d = c
        BY <2>13, <3>2, <3>3, <4>1
      <4>2. CASE d # c
        BY <2>13, <3>1, <4>2 DEF PlacesInv
      <4> QED BY <4>1, <4>2
    <3>7. \A d \in Channels : \A s1, s2 \in opening'[d] : s1 = s2
      BY <2>1, <3>1 DEF PlacesInv
    <3> QED BY <3>4, <3>5, <3>6, <3>7 DEF PlacesInv
  <2> QED BY <2>8, <2>9, <2>10, <2>14, <2>15, <2>16, <2>17, <2>18 DEF IInv, OneThread, Serial
<1> QED BY <1>1, <1>2 DEF AcceptPop, ClientConnected

LEMMA AcceptReturnKeeps ==
    ASSUME IInv, NEW t \in Threads, AcceptReturn(t)
    PROVE  IInv'
<1>1. /\ made < MaxSockets /\ wrapped < MaxWrappers
      /\ made' = made + 1 /\ wrapped' = wrapped + 1
      /\ sock' = [sock EXCEPT ![wrapped + 1] = made + 1]
      /\ Return(t, "popped")
      /\ channel' = [channel EXCEPT ![made + 1] = held[t]]
      /\ eventlistener' = [eventlistener EXCEPT ![made + 1] = "registered"]
      /\ port' = port /\ queuedchannels' = queuedchannels /\ boundports' = boundports
      /\ advertised' = advertised /\ published' = published
      /\ dialled' = dialled /\ opening' = opening /\ open' = open /\ notify' = notify
  <2>1. made \in Nat /\ wrapped \in Nat
    BY DEF IInv, TypeOK
  <2>2. /\ made' = made + 1 /\ wrapped' = wrapped + 1
        /\ sock' = [sock EXCEPT ![wrapped'] = made']
    BY DEF AcceptReturn
  <2>3. sock' = [sock EXCEPT ![wrapped + 1] = made + 1]
    BY <2>1, <2>2
  <2> QED BY <2>2, <2>3 DEF AcceptReturn, StartEvents, sdp, links
<1>2. PICK m \in Sockets, k \in Wrappers, c \in Channels :
        /\ m = made + 1 /\ k = wrapped + 1 /\ c = held[t]
  <2>1. made + 1 \in Sockets /\ wrapped + 1 \in Wrappers
    BY <1>1 DEF IInv, TypeOK, Sockets, Wrappers
  <2>2. held[t] \in Channels
    BY <1>1 DEF Return, Goto, IInv, CallInv
  <2> QED BY <2>1, <2>2
<1>3. /\ made \in Nat /\ wrapped \in Nat /\ m = made' /\ k = wrapped'
      /\ made' \in 0 .. MaxSockets /\ wrapped' \in 0 .. MaxWrappers
  BY <1>1, <1>2 DEF IInv, TypeOK
<1>4. /\ sock'[k] = m /\ \A w \in Wrappers : w # k => sock'[w] = sock[w]
      /\ sock' \in [Wrappers -> Sockets \cup {0}]
  <2>1. sock' = [sock EXCEPT ![k] = m]
    BY <1>1, <1>2, <1>3
  <2> QED BY <2>1 DEF IInv, TypeOK
<1>5. /\ channel'[m] = c /\ \A s \in Sockets : s # m => channel'[s] = channel[s]
      /\ channel' \in [Sockets -> Channels \cup {0}]
  <2>1. channel' = [channel EXCEPT ![m] = c]
    BY <1>1, <1>2
  <2> QED BY <2>1 DEF IInv, TypeOK
<1>6. /\ eventlistener'[m] = "registered"
      /\ \A s \in Sockets : s # m => eventlistener'[s] = eventlistener[s]
      /\ eventlistener' \in [Sockets -> {"none", "registered", "off"}]
  <2>1. eventlistener' = [eventlistener EXCEPT ![m] = "registered"]
    BY <1>1, <1>2
  <2> QED BY <2>1 DEF IInv, TypeOK
<1>7. /\ LocalTypes /\ OthersStay(t)
      /\ pc[t] = "popped" /\ pc'[t] = "idle" /\ self'[t] = 0 /\ held'[t] = 0
  BY <1>1, Returns DEF IInv
<1>8. TypeOK'
  BY <1>1, <1>3, <1>4, <1>5, <1>6, <1>7 DEF IInv, TypeOK, LocalTypes, Steps, Helds
<1>9. \A w \in 1 .. wrapped : w \in Wrappers /\ w # k /\ sock'[w] = sock[w] /\ w \in 1 .. wrapped'
  BY <1>1, <1>2, <1>3, <1>4 DEF Wrappers
<1>10. CallInv'
  <2> SUFFICES ASSUME NEW u \in Threads, u # t
               PROVE  /\ pc[u] = "idle" => self[u] = 0 /\ held[u] = 0
                      /\ pc[u] # "idle" => self[u] \in 1 .. made'
                      /\ Binding(u) => held[u] \in Ports
                      /\ pc[u] \in {"test", "retest", "waiting", "pop"} => held[u] = 0
                      /\ pc[u] = "popped" => held[u] \in Channels
                      /\ Asleep(u) => held[u] \in (1 .. wrapped') \cup {0}
                      /\ Closing(u) => sock'[held[u]] = self[u] \/ (sock'[held[u]] = 0 /\ Others(u))
    BY <1>7 DEF CallInv, Binding, Asleep, Closing, OthersStay, Others
  <2>1. \A x \in 1 .. made : x \in 1 .. made'
    BY <1>2, <1>3
  <2> QED BY <1>9, <2>1 DEF IInv, CallInv, Closing
<1>11. FreshInv'
  <2>1. \A s \in Sockets : s > made' => s > made /\ s # m
    BY <1>2, <1>3 DEF Sockets
  <2>2. \A w \in Wrappers : w > wrapped' => w > wrapped /\ w # k
    BY <1>2, <1>3 DEF Wrappers
  <2>3. \A w \in Wrappers : sock'[w] <= made'
    <3> SUFFICES ASSUME NEW w \in Wrappers PROVE sock'[w] <= made'
      OBVIOUS
    <3>1. sock[w] \in Nat /\ sock[w] <= made
      BY DEF IInv, FreshInv, TypeOK, Sockets
    <3>2. made' = made + 1 /\ (w = k => sock'[w] = made') /\ (w # k => sock'[w] = sock[w])
      BY <1>1, <1>3, <1>4
    <3> QED BY <1>3, <3>1, <3>2
  <2> QED BY <1>1, <1>4, <1>5, <1>6, <2>1, <2>2, <2>3 DEF IInv, FreshInv
<1>12. Popped(c)
  BY <1>2, <1>7 DEF Popped
<1>13. \A d \in Channels : /\ Queued(d)' <=> Queued(d)
                           /\ Popped(d)' => Popped(d)
                           /\ Connected(d)' => Connected(d) \/ d = c
  <2> SUFFICES ASSUME NEW d \in Channels
               PROVE  /\ Queued(d)' <=> Queued(d)
                      /\ Popped(d)' => Popped(d)
                      /\ Connected(d)' => Connected(d) \/ d = c
    OBVIOUS
  <2>1. Queued(d)' <=> Queued(d)
    BY <1>1 DEF Queued
  <2>2. Popped(d)' => Popped(d)
    BY <1>7 DEF Popped, OthersStay
  <2>3. Connected(d)' => Connected(d) \/ d = c
    BY <1>5 DEF Connected
  <2> QED BY <2>1, <2>2, <2>3
<1>14. DialledInv'
  BY <1>1, <1>12, <1>13 DEF IInv, DialledInv
<1>15. OpeningInv'
  BY <1>1, <1>6 DEF IInv, OpeningInv, TypeOK
<1>16. \A s \in Sockets : Live(s) => Live(s)'
  BY <1>1, <1>3, <1>9, StillLive
<1>17. Live(m)'
  BY <1>3, <1>4 DEF Live, Wrappers
<1>18. ~(m \in 1 .. made) /\ port[m] = 0
  BY <1>2, <1>3 DEF IInv, FreshInv
<1>19. ASSUME OneThread PROVE BoundInv' /\ OrphanInv' /\ ServiceInv' /\ OnlySocketErrors'
  <2>1. BoundInv /\ OrphanInv /\ ServiceInv /\ \A u \in Threads : u = t
    BY <1>19 DEF IInv, OneThread
  <2>2. BoundInv'
    BY <1>1, <1>5, <1>7, <1>18, <2>1 DEF BoundInv, Binding, IsBound, IsConnected
  <2>3. NoOrphans'
    BY <1>1, <1>5, <1>16, <1>17, <2>1 DEF OrphanInv, NoOrphans
  <2>4. OrphanInv'
    BY <1>7, <2>1, <2>3 DEF OrphanInv, Closing, Asleep
  <2>5. ServiceInv'
    <3> SUFFICES ASSUME NEW w \in 1 .. wrapped', advertised[w] # 0, sock'[w] # 0
                 PROVE  IF port[sock'[w]] # 0 THEN advertised[w] = port[sock'[w]]
                        ELSE channel'[sock'[w]] # 0
      BY <1>1 DEF ServiceInv, IsBound, IsConnected
    <3>1. w # k
      BY <1>2, <1>3 DEF IInv, FreshInv
    <3>2. w \in 1 .. wrapped
      BY <1>2, <1>3, <3>1
    <3>3. sock[w] \in Sockets /\ sock[w] # m /\ sock'[w] = sock[w]
      BY <1>2, <1>3, <1>9, <3>2 DEF IInv, FreshInv, TypeOK
    <3> QED BY <1>5, <2>1, <3>2, <3>3 DEF ServiceInv, IsBound, IsConnected
  <2>6. OnlySocketErrors'
    BY <1>7, <2>1 DEF OnlySocketErrors
  <2> QED BY <2>2, <2>4, <2>5, <2>6
<1>20. ASSUME Serial PROVE PortsInv' /\ PlacesInv'
  <2>1. PortsInv /\ PlacesInv /\ \A u \in Threads : u = t
    BY <1>20 DEF IInv, Serial, OneThread
  <2>2. \A s \in Sockets : Live(s)' /\ s # m => Live(s)
    <3> SUFFICES ASSUME NEW s \in Sockets, s # m, NEW w \in 1 .. wrapped', sock'[w] = s
                 PROVE  Live(s)
      BY DEF Live
    <3>1. w \in 1 .. wrapped
      BY <1>2, <1>3, <1>4
    <3> QED BY <1>9, <3>1 DEF Live
  <2>3. \A s \in Sockets : ~IsClosing(s)' /\ ~IsClosing(s)
    BY <1>7, <2>1 DEF IsClosing, Closing, Asleep
  <2>4. \A s \in Sockets : (IsBound(s)' <=> IsBound(s)) /\ (IsBound(s) => s # m)
    BY <1>1, <1>18 DEF IsBound
  <2>5. PortExclusive'
    BY <1>1, <1>18, <2>1, <2>2, <2>4 DEF PortsInv, PortExclusive, IsBound
  <2>6. \A s \in Sockets : Live(s)' /\ IsBound(s)' => port'[s] \in boundports' \/ IsClosing(s)'
    BY <1>1, <2>1, <2>2, <2>3, <2>4 DEF PortsInv
  <2>7. \A s \in Sockets : eventlistener'[s] = "registered" => Live(s)' /\ ~IsClosing(s)'
    BY <1>6, <1>16, <1>17, <2>1, <2>3 DEF PortsInv
  <2>8. \A w1, w2 \in 1 .. wrapped' : sock'[w1] # 0 /\ sock'[w1] = sock'[w2] => w1 = w2
    <3>1. \A w \in 1 .. wrapped : sock[w] # m
      BY <1>2, <1>3, <1>9 DEF IInv, FreshInv, TypeOK, Sockets
    <3>2. \A w \in 1 .. wrapped' : w = k \/ w \in 1 .. wrapped
      BY <1>2, <1>3
    <3> QED BY <1>4, <1>9, <2>1, <3>1, <3>2 DEF PortsInv
  <2>9. PortsInv'
    BY <1>7, <2>1, <2>5, <2>6, <2>7, <2>8 DEF PortsInv
  <2>10. opening[c] = {} /\ ~Queued(c) /\ ~Connected(c)
    BY <1>12, <2>1 DEF PlacesInv
  <2>11. \A d \in Channels : ~Popped(d)'
    BY <1>7, <2>1 DEF Popped
  <2>12. \A d \in Channels : \A s1, s2 \in Sockets :
              channel'[s1] = d /\ channel'[s2] = d => s1 = s2
    <3> SUFFICES ASSUME NEW d \in Channels, NEW s1 \in Sockets, NEW s2 \in Sockets,
                        channel'[s1] = d, channel'[s2] = d
                 PROVE  s1 = s2
      OBVIOUS
    <3>1. \A s \in Sockets : channel[s] # c
      BY <2>10 DEF Connected
    <3>2. CASE d = c
      BY <1>5, <3>1, <3>2
    <3>3. CASE d # c
      BY <1>5, <2>1, <3>3 DEF PlacesInv
    <3> QED BY <3>2, <3>3
  <2>13. \A d \in Channels :
            /\ opening'[d] # {} => ~Queued(d)' /\ ~Popped(d)' /\ ~Connected(d)'
            /\ Queued(d)' => ~Popped(d)' /\ ~Connected(d)'
            /\ Popped(d)' => ~Connected(d)'
    <3> SUFFICES ASSUME NEW d \in Channels
                 PROVE  /\ opening[d] # {} => ~Queued(d)' /\ ~Connected(d)'
                        /\ Queued(d)' => ~Connected(d)'
      BY <1>1, <2>11
    <3>1. CASE d = c
      BY <1>13, <2>10, <3>1
    <3>2. CASE d # c
      BY <1>13, <2>1, <3>2 DEF PlacesInv
    <3> QED BY <3>1, <3>2
  <2>14. \A d \in Channels : \A s1, s2 \in opening'[d] : s1 = s2
    BY <1>1, <2>1 DEF PlacesInv
  <2>15. \A d \in Channels : \A s1, s2 \in Sockets :
            \A i1 \in DOMAIN queuedchannels'[s1], i2 \in DOMAIN queuedchannels'[s2] :
               queuedchannels'[s1][i1] = d /\ queuedchannels'[s2][i2] = d
                 => s1 = s2 /\ i1 = i2
    BY <1>1, <2>1 DEF PlacesInv
  <2>16. PlacesInv'
    BY <2>12, <2>13, <2>14, <2>15 DEF PlacesInv
  <2> QED BY <2>9, <2>16
<1> QED BY <1>8, <1>10, <1>11, <1>14, <1>15, <1>19, <1>20 DEF IInv, OneThread, Serial

LEMMA ConnectKeeps ==
    ASSUME IInv, NEW t \in Threads, NEW w \in Wrappers, Connect(t, w)
    PROVE  IInv'
<1>1. PICK s \in Sockets :
        /\ Calls(t, w, s) /\ ~IsBound(s) /\ ~IsConnected(s)
        /\ \E c \in Channels, p \in Ports : OpenChannel(s, c, p)
        /\ StartEvents(s) /\ Start(t, s, 0, "sleeping")
        /\ UNCHANGED <<api, port, queuedchannels, boundports, sdp, opening, notify, limit>>
  BY DEF Connect
<1>2. PICK c \in Channels, p \in Ports :
        /\ dialled[c] = 0 /\ dialled' = [dialled EXCEPT ![c] = p]
        /\ open' = open \cup {c} /\ channel' = [channel EXCEPT ![s] = c]
  BY <1>1 DEF OpenChannel
<1>3. /\ made' = made /\ wrapped' = wrapped /\ sock' = sock
      /\ port' = port /\ queuedchannels' = queuedchannels /\ boundports' = boundports
      /\ advertised' = advertised /\ published' = published
      /\ opening' = opening /\ notify' = notify /\ limit' = limit
      /\ port[s] = 0 /\ channel[s] = 0
  BY <1>1 DEF api, sdp, IsBound, IsConnected
<1>4. w \in 1 .. wrapped /\ sock[w] = s /\ s \in 1 .. made /\ Live(s)
  <2>1. w \in 1 .. wrapped /\ sock[w] = s /\ s \in 1 .. made
    BY <1>1 DEF Calls, IInv, TypeOK, FreshInv, Wrappers, Sockets
  <2> QED BY <2>1 DEF Live
<1>5. /\ LocalTypes /\ OthersStay(t)
      /\ pc[t] = "idle" /\ pc'[t] = "sleeping" /\ self'[t] = s /\ held'[t] = 0
  <2>1. /\ TypeOK /\ 0 \in Helds /\ "sleeping" \in Steps
        /\ limit' \in [Threads -> {"none", "zero", "some"}]
    BY <1>3 DEF IInv, TypeOK, Helds, Steps
  <2> QED BY <1>1, <2>1, Starts
<1>6. /\ dialled'[c] # 0 /\ \A d \in Channels : d # c => dialled'[d] = dialled[d]
      /\ dialled' \in [Channels -> Ports \cup {0}]
      /\ open' \subseteq Channels
  BY <1>2 DEF IInv, TypeOK
<1>7. /\ channel'[s] = c /\ \A x \in Sockets : x # s => channel'[x] = channel[x]
      /\ channel' \in [Sockets -> Channels \cup {0}]
  BY <1>2 DEF IInv, TypeOK
<1>8. /\ eventlistener'[s] = "registered"
      /\ \A x \in Sockets : x # s => eventlistener'[x] = eventlistener[x]
      /\ eventlistener' \in [Sockets -> {"none", "registered", "off"}]
  BY <1>1 DEF StartEvents, IInv, TypeOK
<1>9. TypeOK'
  BY <1>3, <1>5, <1>6, <1>7, <1>8 DEF IInv, TypeOK, LocalTypes, Steps, Helds
<1>10. CallInv'
  BY <1>3, <1>4, <1>5 DEF IInv, CallInv, Binding, Asleep, Closing, Others, OthersStay
<1>11. FreshInv'
  BY <1>3, <1>4, <1>7, <1>8 DEF IInv, FreshInv, TypeOK
<1>12. /\ opening[c] = {} /\ c \notin open /\ ~Queued(c) /\ ~Popped(c) /\ ~Connected(c)
  BY <1>2 DEF IInv, DialledInv
<1>13. \A d \in Channels : /\ Queued(d)' <=> Queued(d)
                           /\ Popped(d)' => Popped(d)
                           /\ Connected(d)' => Connected(d) \/ d = c
  <2> SUFFICES ASSUME NEW d \in Channels
               PROVE  /\ Queued(d)' <=> Queued(d)
                      /\ Popped(d)' => Popped(d)
                      /\ Connected(d)' => Connected(d) \/ d = c
    OBVIOUS
  <2>1. Queued(d)' <=> Queued(d)
    BY <1>3 DEF Queued
  <2>2. Popped(d)' => Popped(d)
    BY <1>5 DEF Popped, OthersStay
  <2>3. Connected(d)' => Connected(d) \/ d = c
    BY <1>7 DEF Connected
  <2> QED BY <2>1, <2>2, <2>3
<1>14. DialledInv'
  BY <1>2, <1>3, <1>6, <1>13 DEF IInv, DialledInv
<1>15. OpeningInv'
  BY <1>3, <1>8 DEF IInv, OpeningInv, TypeOK
<1>16. \A x \in Sockets : Live(x)' <=> Live(x)
  BY <1>3 DEF Live
<1>17. \A x \in Sockets : channel[x] # c
  BY <1>12 DEF Connected
<1>18. ASSUME OneThread PROVE BoundInv' /\ OrphanInv' /\ ServiceInv' /\ OnlySocketErrors'
  <2>1. BoundInv /\ OrphanInv /\ ServiceInv /\ \A u \in Threads : u = t
    BY <1>18 DEF IInv, OneThread
  <2>2. BoundInv'
    BY <1>3, <1>5, <1>7, <2>1 DEF BoundInv, Binding, IsBound, IsConnected
  <2>3. NoOrphans'
    BY <1>2, <1>4, <1>7, <1>16, <1>17, <2>1 DEF OrphanInv, NoOrphans
  <2>4. OrphanInv'
    BY <1>5, <2>1, <2>3 DEF OrphanInv, Closing, Asleep
  <2>5. ServiceInv'
    <3> SUFFICES ASSUME NEW x \in 1 .. wrapped, advertised[x] # 0, sock[x] # 0
                 PROVE  IF port[sock[x]] # 0 THEN advertised[x] = port[sock[x]]
                        ELSE channel'[sock[x]] # 0
      BY <1>3 DEF ServiceInv, IsBound, IsConnected
    <3>1. sock[x] \in Sockets /\ c # 0
      BY DEF IInv, TypeOK, Wrappers
    <3> QED BY <1>7, <2>1, <3>1 DEF ServiceInv, IsBound, IsConnected
  <2>6. OnlySocketErrors'
    BY <1>5, <2>1 DEF OnlySocketErrors
  <2> QED BY <2>2, <2>4, <2>5, <2>6
<1>19. ASSUME Serial PROVE PortsInv' /\ PlacesInv'
  <2>1. PortsInv /\ PlacesInv /\ \A u \in Threads : u = t
    BY <1>19 DEF IInv, Serial, OneThread
  <2>2. \A x \in Sockets : /\ ~IsClosing(x)' /\ ~IsClosing(x)
                           /\ IsBound(x)' <=> IsBound(x)
    BY <1>3, <1>5, <2>1 DEF IsClosing, Closing, Asleep, IsBound
  <2>3. PortExclusive'
    BY <1>3, <1>16, <2>1, <2>2 DEF PortsInv, PortExclusive
  <2>4. \A x \in Sockets : Live(x)' /\ IsBound(x)' => port'[x] \in boundports' \/ IsClosing(x)'
    BY <1>3, <1>16, <2>1, <2>2 DEF PortsInv
  <2>5. \A x \in Sockets : eventlistener'[x] = "registered" => Live(x)' /\ ~IsClosing(x)'
    BY <1>4, <1>8, <1>16, <2>1, <2>2 DEF PortsInv
  <2>6. \A u \in Threads : pc'[u] # "idle" => Live(self[u])'
    <3>1. Live(s)'
      BY <1>4, <1>16
    <3>2. Live(self[t])' <=> \E x \in 1 .. wrapped' : sock'[x] = self'[t]
      BY DEF Live
    <3>3. Live(s)' <=> \E x \in 1 .. wrapped' : sock'[x] = s
      BY DEF Live
    <3> QED BY <1>5, <2>1, <3>1, <3>2, <3>3
  <2>7. \A w1, w2 \in 1 .. wrapped' : sock'[w1] # 0 /\ sock'[w1] = sock'[w2] => w1 = w2
    BY <1>3, <2>1 DEF PortsInv
  <2>8. PortsInv'
    BY <1>5, <2>1, <2>3, <2>4, <2>5, <2>6, <2>7 DEF PortsInv
  <2>9. \A d \in Channels : \A s1, s2 \in Sockets :
             channel'[s1] = d /\ channel'[s2] = d => s1 = s2
    <3> SUFFICES ASSUME NEW d \in Channels, NEW s1 \in Sockets, NEW s2 \in Sockets,
                        channel'[s1] = d, channel'[s2] = d
                 PROVE  s1 = s2
      OBVIOUS
    <3>1. CASE d = c
      BY <1>7, <1>17, <3>1
    <3>2. CASE d # c
      BY <1>7, <2>1, <3>2 DEF PlacesInv
    <3> QED BY <3>1, <3>2
  <2>10. \A d \in Channels :
            /\ opening'[d] # {} => ~Queued(d)' /\ ~Popped(d)' /\ ~Connected(d)'
            /\ Queued(d)' => ~Popped(d)' /\ ~Connected(d)'
            /\ Popped(d)' => ~Connected(d)'
    <3> SUFFICES ASSUME NEW d \in Channels
                 PROVE  /\ opening[d] # {} => ~Queued(d)' /\ ~Popped(d)' /\ ~Connected(d)'
                        /\ Queued(d)' => ~Popped(d)' /\ ~Connected(d)'
                        /\ Popped(d)' => ~Connected(d)'
      BY <1>3
    <3>1. CASE d = c
      BY <1>12, <1>13, <3>1
    <3>2. CASE d # c
      BY <1>13, <2>1, <3>2 DEF PlacesInv
    <3> QED BY <3>1, <3>2
  <2>11. \A d \in Channels : \A s1, s2 \in opening'[d] : s1 = s2
    BY <1>3, <2>1 DEF PlacesInv
  <2>12. \A d \in Channels : \A s1, s2 \in Sockets :
            \A i1 \in DOMAIN queuedchannels'[s1], i2 \in DOMAIN queuedchannels'[s2] :
               queuedchannels'[s1][i1] = d /\ queuedchannels'[s2][i2] = d
                 => s1 = s2 /\ i1 = i2
    BY <1>3, <2>1 DEF PlacesInv
  <2>13. PlacesInv'
    BY <2>9, <2>10, <2>11, <2>12 DEF PlacesInv
  <2> QED BY <2>8, <2>13
<1> QED BY <1>9, <1>10, <1>11, <1>14, <1>15, <1>18, <1>19 DEF IInv, OneThread, Serial

LEMMA CloseKeeps ==
    ASSUME IInv, NEW t \in Threads, NEW w \in Wrappers, Close(t, w)
    PROVE  IInv'
<1>1. PICK s \in Sockets :
        /\ Calls(t, w, s) /\ StopEvents(s)
        /\ boundports' = boundports \ {port[s]}
        /\ open' = IF IsBound(s) THEN open ELSE open \ {channel[s]}
        /\ Start(t, s, w, IF IsBound(s) \/ IsConnected(s) THEN "sleeping" ELSE "slept")
        /\ UNCHANGED <<api, port, channel, queuedchannels, sdp, dialled, notify, limit>>
  BY DEF Close
<1>2. /\ made' = made /\ wrapped' = wrapped /\ sock' = sock
      /\ port' = port /\ channel' = channel /\ queuedchannels' = queuedchannels
      /\ advertised' = advertised /\ published' = published
      /\ dialled' = dialled /\ notify' = notify /\ limit' = limit
  BY <1>1 DEF api, sdp
<1>3. w \in 1 .. wrapped /\ w # 0 /\ sock[w] = s /\ s \in 1 .. made /\ Live(s)
  <2>1. w \in 1 .. wrapped /\ w # 0 /\ sock[w] = s /\ s \in 1 .. made
    BY <1>1 DEF Calls, IInv, TypeOK, FreshInv, Wrappers, Sockets
  <2> QED BY <2>1 DEF Live
<1>4. PICK to \in {"sleeping", "slept"} : Start(t, s, w, to)
  BY <1>1
<1>5. /\ LocalTypes /\ OthersStay(t)
      /\ pc[t] = "idle" /\ pc'[t] = to /\ self'[t] = s /\ held'[t] = w
  <2>1. /\ TypeOK /\ w \in Helds /\ to \in Steps
        /\ limit' \in [Threads -> {"none", "zero", "some"}]
    BY <1>2 DEF IInv, TypeOK, Helds, Steps
  <2> QED BY <1>4, <2>1, Starts
<1>6. /\ eventlistener' \in [Sockets -> {"none", "registered", "off"}]
      /\ eventlistener'[s] # "registered"
      /\ eventlistener'[s] = "none" \/ eventlistener[s] # "none"
      /\ \A x \in Sockets : x # s => eventlistener'[x] = eventlistener[x]
      /\ opening' \in [Channels -> SUBSET Sockets]
      /\ \A c \in Channels : opening'[c] = opening[c] \ {s}
  BY <1>1 DEF StopEvents, IInv, TypeOK
<1>7. open' \subseteq open /\ boundports' = boundports \ {port[s]}
  BY <1>1
<1>8. TypeOK'
  BY <1>2, <1>5, <1>6, <1>7 DEF IInv, TypeOK, LocalTypes, Steps, Helds
<1>9. CallInv'
  BY <1>2, <1>3, <1>5 DEF IInv, CallInv, Binding, Asleep, Closing, OthersStay, Others
<1>10. FreshInv'
  BY <1>2, <1>3, <1>6 DEF IInv, FreshInv, TypeOK
<1>11. \A d \in Channels : /\ Queued(d)' <=> Queued(d)
                           /\ Popped(d)' => Popped(d)
                           /\ Connected(d)' <=> Connected(d)
  <2> SUFFICES ASSUME NEW d \in Channels
               PROVE  /\ Queued(d)' <=> Queued(d)
                      /\ Popped(d)' => Popped(d)
                      /\ Connected(d)' <=> Connected(d)
    OBVIOUS
  <2>1. (Queued(d)' <=> Queued(d)) /\ (Connected(d)' <=> Connected(d))
    BY <1>2 DEF Queued, Connected
  <2>2. Popped(d)' => Popped(d)
    BY <1>5 DEF Popped, OthersStay
  <2> QED BY <2>1, <2>2
<1>12. DialledInv'
  BY <1>2, <1>6, <1>7, <1>11 DEF IInv, DialledInv
<1>13. OpeningInv'
  BY <1>2, <1>6 DEF IInv, OpeningInv, TypeOK
<1>14. \A x \in Sockets : Live(x)' <=> Live(x)
  BY <1>2 DEF Live
<1>15. ASSUME OneThread PROVE BoundInv' /\ OrphanInv' /\ ServiceInv' /\ OnlySocketErrors'
  <2>1. BoundInv /\ OrphanInv /\ ServiceInv /\ \A u \in Threads : u = t
    BY <1>15 DEF IInv, OneThread
  <2>2. BoundInv'
    BY <1>2, <1>5, <2>1 DEF BoundInv, Binding, IsBound, IsConnected
  <2>3. NoOrphans'
    BY <1>2, <1>7, <1>14, <2>1 DEF OrphanInv, NoOrphans
  <2>4. channel[s] \notin open'
    <3>1. CASE IsBound(s)
      <4>1. channel[s] = 0
        BY <2>1, <3>1 DEF BoundInv, IsConnected
      <4> QED BY <1>7, <4>1 DEF IInv, TypeOK
    <3>2. CASE ~IsBound(s)
      BY <1>1, <3>2
    <3> QED BY <3>1, <3>2
  <2>5. OrphanInv'
    BY <1>2, <1>5, <2>1, <2>3, <2>4 DEF OrphanInv
  <2>6. ServiceInv'
    BY <1>2, <2>1 DEF ServiceInv, IsBound, IsConnected
  <2>7. OnlySocketErrors'
    BY <1>5, <2>1 DEF OnlySocketErrors
  <2> QED BY <2>2, <2>5, <2>6, <2>7
<1>16. ASSUME Serial PROVE PortsInv' /\ PlacesInv'
  <2>1. PortsInv /\ PlacesInv /\ \A u \in Threads : u = t
    BY <1>16 DEF IInv, Serial, OneThread
  <2>2. \A x \in Sockets : /\ ~IsClosing(x)
                           /\ IsClosing(x)' <=> x = s
                           /\ IsBound(x)' <=> IsBound(x)
    BY <1>2, <1>3, <1>5, <2>1 DEF IsClosing, Closing, Asleep, IsBound
  <2>3. PortExclusive'
    BY <1>2, <1>14, <2>1, <2>2 DEF PortsInv, PortExclusive
  <2>4. \A x \in Sockets : Live(x)' /\ IsBound(x)' => port'[x] \in boundports' \/ IsClosing(x)'
    BY <1>2, <1>3, <1>7, <1>14, <2>1, <2>2 DEF PortsInv, PortExclusive
  <2>5. \A x \in Sockets : eventlistener'[x] = "registered" => Live(x)' /\ ~IsClosing(x)'
    BY <1>6, <1>14, <2>1, <2>2 DEF PortsInv
  <2>6. \A u \in Threads : pc'[u] # "idle" => Live(self[u])'
    <3>1. Live(s)'
      BY <1>3, <1>14
    <3>2. Live(self[t])' <=> \E x \in 1 .. wrapped' : sock'[x] = self'[t]
      BY DEF Live
    <3>3. Live(s)' <=> \E x \in 1 .. wrapped' : sock'[x] = s
      BY DEF Live
    <3> QED BY <1>5, <2>1, <3>1, <3>2, <3>3
  <2>7. \A w1, w2 \in 1 .. wrapped' : sock'[w1] # 0 /\ sock'[w1] = sock'[w2] => w1 = w2
    BY <1>2, <2>1 DEF PortsInv
  <2>8. PortsInv'
    BY <1>5, <2>1, <2>3, <2>4, <2>5, <2>6, <2>7 DEF PortsInv
  <2>9. \A d \in Channels : \A s1, s2 \in opening'[d] : s1 = s2
    BY <1>6, <2>1 DEF PlacesInv
  <2>10. \A d \in Channels :
            /\ opening'[d] # {} => ~Queued(d)' /\ ~Popped(d)' /\ ~Connected(d)'
            /\ Queued(d)' => ~Popped(d)' /\ ~Connected(d)'
            /\ Popped(d)' => ~Connected(d)'
    BY <1>6, <1>11, <2>1 DEF PlacesInv
  <2>11. PlacesInv'
    BY <1>2, <2>1, <2>9, <2>10 DEF PlacesInv
  <2> QED BY <2>8, <2>11
<1> QED BY <1>8, <1>9, <1>10, <1>12, <1>13, <1>15, <1>16 DEF IInv, OneThread, Serial

LEMMA CloseWrapperKeeps ==
    ASSUME IInv, NEW t \in Threads, CloseWrapper(t)
    PROVE  IInv'
<1>1. /\ held[t] # 0 /\ Return(t, "slept") /\ sock' = [sock EXCEPT ![held[t]] = 0]
      /\ Unpublish(held[t])
      /\ made' = made /\ wrapped' = wrapped
      /\ port' = port /\ eventlistener' = eventlistener /\ channel' = channel
      /\ queuedchannels' = queuedchannels /\ boundports' = boundports
      /\ advertised' = advertised
      /\ dialled' = dialled /\ opening' = opening /\ open' = open /\ notify' = notify
  BY DEF CloseWrapper, state, links
<1>2. /\ LocalTypes /\ OthersStay(t)
      /\ pc[t] = "slept" /\ pc'[t] = "idle" /\ self'[t] = 0 /\ held'[t] = 0
  BY <1>1, Returns DEF IInv
<1>3. PICK w \in 1 .. wrapped, s \in Sockets :
        /\ w \in Wrappers /\ w = held[t] /\ s = self[t]
        /\ sock[w] = s \/ (sock[w] = 0 /\ Others(t))
        /\ Closing(t)
  <2>1. Closing(t)
    BY <1>1, <1>2 DEF Closing, Asleep
  <2>2. /\ held[t] \in 1 .. wrapped /\ self[t] \in 1 .. made
        /\ sock[held[t]] = self[t] \/ (sock[held[t]] = 0 /\ Others(t))
    BY <2>1 DEF IInv, CallInv, Closing, Asleep
  <2> QED BY <2>1, <2>2 DEF IInv, TypeOK, Sockets, Wrappers
<1>4. /\ sock'[w] = 0 /\ \A x \in Wrappers : x # w => sock'[x] = sock[x]
      /\ sock' \in [Wrappers -> Sockets \cup {0}]
      /\ \A x \in 1 .. wrapped : x \in Wrappers
  BY <1>1, <1>3 DEF IInv, TypeOK, Wrappers
<1>5. published' \in [Ports -> Owners]
  BY <1>1 DEF Unpublish, IInv, TypeOK, Owners
<1>6. TypeOK'
  BY <1>1, <1>2, <1>4, <1>5 DEF IInv, TypeOK, LocalTypes, Steps, Helds
<1>7. CallInv'
  <2> SUFFICES ASSUME NEW u \in Threads, u # t
               PROVE  /\ pc[u] = "idle" => self[u] = 0 /\ held[u] = 0
                      /\ pc[u] # "idle" => self[u] \in 1 .. made
                      /\ Binding(u) => held[u] \in Ports
                      /\ pc[u] \in {"test", "retest", "waiting", "pop"} => held[u] = 0
                      /\ pc[u] = "popped" => held[u] \in Channels
                      /\ Asleep(u) => held[u] \in (1 .. wrapped) \cup {0}
                      /\ Closing(u) => sock'[held[u]] = self[u] \/ (sock'[held[u]] = 0 /\ Others(u))
    BY <1>1, <1>2 DEF CallInv, Binding, Asleep, Closing, OthersStay, Others
  <2>1. Others(u)
    BY DEF Others
  <2>2. ASSUME Closing(u)
        PROVE  sock'[held[u]] = self[u] \/ (sock'[held[u]] = 0 /\ Others(u))
    <3>1. held[u] \in 1 .. wrapped
      BY <2>2 DEF IInv, CallInv, Closing
    <3>2. sock[held[u]] = self[u] \/ sock[held[u]] = 0
      BY <2>2 DEF IInv, CallInv
    <3> QED BY <1>4, <2>1, <3>1, <3>2
  <2> QED BY <2>2 DEF IInv, CallInv
<1>8. FreshInv'
  BY <1>1, <1>4 DEF IInv, FreshInv, TypeOK
<1>9. DialledInv' /\ (Serial => PlacesInv')
  BY <1>1, <1>2, PlacesKept DEF OthersStay
<1>10. OpeningInv'
  BY <1>1 DEF IInv, OpeningInv
<1>11. \A x \in Sockets : (Live(x) /\ x # sock[w] => Live(x)') /\ (Live(x)' => Live(x))
  <2> SUFFICES ASSUME NEW x \in Sockets
               PROVE  (Live(x) /\ x # sock[w] => Live(x)') /\ (Live(x)' => Live(x))
    OBVIOUS
  <2>1. Live(x)' <=> \E y \in 1 .. wrapped : sock'[y] = x
    BY <1>1 DEF Live
  <2>2. \A y \in 1 .. wrapped : y # w => sock'[y] = sock[y]
    BY <1>4
  <2>3. x # 0
    BY DEF Sockets
  <2>4. ASSUME Live(x), x # sock[w] PROVE \E y \in 1 .. wrapped : sock'[y] = x
    BY <2>2, <2>4 DEF Live
  <2>5. ASSUME \E y \in 1 .. wrapped : sock'[y] = x PROVE Live(x)
    BY <1>4, <2>2, <2>3, <2>5 DEF Live
  <2> QED BY <2>1, <2>4, <2>5
<1>12. ASSUME OneThread PROVE BoundInv' /\ OrphanInv' /\ ServiceInv' /\ OnlySocketErrors'
  <2>1. BoundInv /\ OrphanInv /\ ServiceInv /\ \A u \in Threads : u = t
    BY <1>12 DEF IInv, OneThread
  <2>2. BoundInv'
    BY <1>1, <1>2, <2>1 DEF BoundInv, Binding, IsBound, IsConnected
  <2>3. sock[w] = s /\ channel[s] \notin open
    BY <1>3, <2>1 DEF Others, OrphanInv
  <2>4. OrphanInv'
    BY <1>1, <1>2, <1>11, <2>1, <2>3 DEF OrphanInv, NoOrphans, Closing, Asleep
  <2>5. ServiceInv'
    BY <1>1, <1>4, <2>1 DEF ServiceInv, IsBound, IsConnected
  <2>6. OnlySocketErrors'
    BY <1>2, <2>1 DEF OnlySocketErrors
  <2> QED BY <2>2, <2>4, <2>5, <2>6
<1>13. ASSUME Serial PROVE PortsInv'
  <2>1. PortsInv /\ \A u \in Threads : u = t
    BY <1>13 DEF IInv, Serial, OneThread
  <2>2. sock[w] = s /\ ~Live(s)'
    <3>1. sock[w] = s
      BY <1>3, <2>1 DEF Others
    <3>2. \A x \in 1 .. wrapped : x # w => sock[x] # s
      BY <1>3, <2>1, <3>1 DEF PortsInv, Sockets
    <3>3. s # 0
      BY DEF Sockets
    <3>4. \A x \in 1 .. wrapped : sock'[x] # s
      BY <1>4, <3>2, <3>3
    <3> QED BY <1>1, <3>1, <3>4 DEF Live
  <2>3. \A x \in Sockets : /\ IsClosing(x) <=> x = s
                           /\ ~IsClosing(x)'
                           /\ IsBound(x)' <=> IsBound(x)
    BY <1>1, <1>2, <1>3, <2>1 DEF IsClosing, Closing, Asleep, IsBound
  <2>4. PortExclusive'
    BY <1>1, <1>11, <2>1, <2>3 DEF PortsInv, PortExclusive
  <2>5. \A x \in Sockets : Live(x)' /\ IsBound(x)' => port'[x] \in boundports' \/ IsClosing(x)'
    BY <1>1, <1>11, <2>1, <2>2, <2>3 DEF PortsInv
  <2>6. \A x \in Sockets : eventlistener'[x] = "registered" => Live(x)' /\ ~IsClosing(x)'
    BY <1>1, <1>11, <2>1, <2>2, <2>3 DEF PortsInv
  <2>7. \A w1, w2 \in 1 .. wrapped' : sock'[w1] # 0 /\ sock'[w1] = sock'[w2] => w1 = w2
    BY <1>1, <1>4, <2>1 DEF PortsInv
  <2> QED BY <1>2, <2>1, <2>4, <2>5, <2>6, <2>7 DEF PortsInv
<1> QED BY <1>6, <1>7, <1>8, <1>9, <1>10, <1>12, <1>13 DEF IInv, OneThread, Serial

-----------------------------------------------------------------------------
(* The theorems. *)

LEMMA Initially == Init => IInv
<1> SUFFICES ASSUME Init PROVE IInv
  OBVIOUS
<1>1. TypeOK
  <2>1. <<>> \in Seq(Channels)
    BY EmptySeq
  <2> QED BY <2>1 DEF Init, TypeOK, Owners, Free
<1>2. CallInv /\ FreshInv
  BY DEF Init, CallInv, Binding, Asleep, Closing, FreshInv
<1>3. \A s \in Sockets : DOMAIN queuedchannels[s] = {}
  <2>1. DOMAIN <<>> = {}
    OBVIOUS
  <2> QED BY <2>1 DEF Init
<1>4. \A c \in Channels : ~Queued(c) /\ ~Popped(c) /\ ~Connected(c) /\ opening[c] = {}
  <2> SUFFICES ASSUME NEW c \in Channels
               PROVE  ~Queued(c) /\ ~Popped(c) /\ ~Connected(c) /\ opening[c] = {}
    OBVIOUS
  <2>1. ~Queued(c)
    BY <1>3 DEF Queued
  <2> QED BY <2>1 DEF Init, Popped, Connected
<1>5. DialledInv /\ OpeningInv
  BY <1>4 DEF Init, DialledInv, OpeningInv
<1>6. BoundInv /\ OrphanInv /\ ServiceInv /\ OnlySocketErrors
  BY DEF Init, BoundInv, Binding, IsBound, IsConnected, OrphanInv, NoOrphans, Closing, Asleep,
         ServiceInv, OnlySocketErrors, Wrappers
<1>7. PortsInv
  BY DEF Init, PortsInv, PortExclusive, IsBound
<1>8. PlacesInv
  BY <1>3, <1>4 DEF Init, PlacesInv
<1> QED BY <1>1, <1>2, <1>5, <1>6, <1>7, <1>8 DEF IInv

LEMMA Stutters ==
    ASSUME IInv, UNCHANGED vars
    PROVE  IInv'
<1>1. Frozen /\ UNCHANGED <<api, state, links, notify, local, sdp>>
  BY DEF vars, Frozen, api, state, sdp, links, local
<1>2. published' = published /\ advertised' = advertised
  BY <1>1 DEF sdp
<1>3. OneThread => ServiceInv'
  BY <1>1 DEF IInv, ServiceInv, IsBound, IsConnected, Frozen
<1>4. published' \in [Ports -> Owners] /\ advertised' \in [Wrappers -> Ports \cup {0}]
  BY <1>2 DEF IInv, TypeOK
<1> QED BY <1>1, <1>2, <1>3, <1>4, ServicesKeep

\* The invariant of every reachable state.
THEOREM Inductive == Spec => []IInv
<1>1. ASSUME IInv, [Next]_vars PROVE IInv'
  <2>1. CASE UNCHANGED vars
    BY <1>1, <2>1, Stutters
  <2>2. ASSUME NEW t \in Threads, Call(t) PROVE IInv'
    <3>1. CASE NewSocket(t)
      BY <1>1, <3>1, NewSocketKeeps
    <3>2. ASSUME NEW w \in Wrappers, Dups, Dup(t, w) PROVE IInv'
      BY <1>1, <3>2, DupKeeps
    <3>3. ASSUME NEW w \in Wrappers, Connect(t, w) PROVE IInv'
      BY <1>1, <3>3, ConnectKeeps
    <3>4. ASSUME NEW w \in Wrappers, Bind(t, w) PROVE IInv'
      BY <1>1, <3>4, BindKeeps
    <3>5. ASSUME NEW w \in Wrappers, Listen(t, w) PROVE IInv'
      BY <1>1, <3>5, ListenKeeps
    <3>6. ASSUME NEW w \in Wrappers, Close(t, w) PROVE IInv'
      BY <1>1, <3>6, CloseKeeps
    <3>7. ASSUME NEW w \in Wrappers, Advertise(t, w) PROVE IInv'
      BY <1>1, <3>7, AdvertiseKeeps
    <3>8. ASSUME NEW w \in Wrappers, StopAdvertise(t, w) PROVE IInv'
      BY <1>1, <3>8, StopAdvertiseKeeps
    <3>9. ASSUME NEW w \in Wrappers, NEW timeout \in Limits, Accept(t, w, timeout) PROVE IInv'
      BY <1>1, <3>9, AcceptKeeps
    <3> QED BY <2>2, <3>1, <3>2, <3>3, <3>4, <3>5, <3>6, <3>7, <3>8, <3>9 DEF Call
  <2>3. ASSUME NEW t \in Threads, BindStep(t) PROVE IInv'
    BY <1>1, <2>3, BindStepsKeep, BindAddKeeps DEF BindStep
  <2>4. ASSUME NEW t \in Threads, AcceptStep(t) \/ AcceptTimeOut(t) PROVE IInv'
    BY <1>1, <2>4, AcceptStepsKeep, AcceptPopKeeps, AcceptReturnKeeps DEF AcceptStep
  <2>5. ASSUME NEW t \in Threads, SleepStep(t) PROVE IInv'
    BY <1>1, <2>5, SleepStepsKeep, CloseWrapperKeeps DEF SleepStep
  <2>6. ASSUME NEW c \in Channels, NEW p \in Ports, ClientConnect(c, p) PROVE IInv'
    BY <1>1, <2>6, ClientConnectKeeps
  <2>7. ASSUME NEW s \in Sockets, NEW c \in Channels, HandleOpened(s, c) PROVE IInv'
    BY <1>1, <2>7, HandleOpenedKeeps
  <2> QED BY <1>1, <2>1, <2>2, <2>3, <2>4, <2>5, <2>6, <2>7 DEF Next
<1> QED BY <1>1, Initially, PTL DEF Spec

\* The state of the module keeps its types, with any number of threads and with dup().
THEOREM TypeCorrect == Spec => []TypeOK
<1>1. IInv => TypeOK
  BY DEF IInv
<1> QED BY <1>1, Inductive, PTL

\* With one thread, a connection that is open is that of a socket some wrapper can still
\* close: close() closes it before it lets go of the object, whatever dup() has made.
THEOREM ConnectionsEndWithSockets ==
    ASSUME OneThread
    PROVE  Spec => []NoOrphans
<1>1. IInv => NoOrphans
  BY DEF IInv, OrphanInv
<1> QED BY <1>1, Inductive, PTL

\* With one thread, accept() never pops an empty backlog, so it raises only the errors of
\* sockets: what __waituntil has seen is still there when the lock is taken.
THEOREM AcceptRaisesSocketErrors ==
    ASSUME OneThread
    PROVE  Spec => []OnlySocketErrors
<1>1. IInv => OnlySocketErrors
  BY DEF IInv
<1> QED BY <1>1, Inductive, PTL

\* With one thread and no dup(), no two sockets that are not closed are bound to one port:
\* what bind() tests is still so when it adds the port, and close() gives a port back only
\* when the wrapper is about to forget the socket.
THEOREM PortsAreExclusive ==
    ASSUME Serial
    PROVE  Spec => []PortExclusive
<1>1. IInv => PortExclusive
  BY DEF IInv, PortsInv
<1> QED BY <1>1, Inductive, PTL

\* With one thread and no dup(), a connection is handed on and never copied: to one listener,
\* one backlog, one accept() and one socket.
THEOREM ConnectionsHaveOneOwner ==
    ASSUME Serial
    PROVE  Spec => []OneOwner
<1>1. IInv => OneOwner
  <2> SUFFICES ASSUME IInv, NEW c \in Channels PROVE Places(c) <= 1
    BY DEF OneOwner
  <2> DEFINE O == opening[c]
             Q == {e \in Sockets \X (1 .. Cardinality(Channels)) :
                     e[2] <= Len(queuedchannels[e[1]]) /\ queuedchannels[e[1]][e[2]] = c}
             P == {t \in Threads : pc[t] = "popped" /\ held[t] = c}
             C == {s \in Sockets : channel[s] = c}
  <2>1. PlacesInv /\ TypeOK /\ \A t, u \in Threads : t = u
    BY DEF IInv, Serial, OneThread
  <2>2. \A a, b \in O : a = b
    BY <2>1 DEF PlacesInv
  <2>3. /\ \A a, b \in Q : a = b
        /\ Q # {} => Queued(c)
    <3>1. ASSUME NEW a \in Q
          PROVE  /\ a = <<a[1], a[2]>> /\ a[1] \in Sockets
                 /\ a[2] \in DOMAIN queuedchannels[a[1]] /\ queuedchannels[a[1]][a[2]] = c
      <4>1. /\ a = <<a[1], a[2]>> /\ a[1] \in Sockets /\ a[2] \in 1 .. Cardinality(Channels)
            /\ a[2] <= Len(queuedchannels[a[1]]) /\ queuedchannels[a[1]][a[2]] = c
        OBVIOUS
      <4>2. queuedchannels[a[1]] \in Seq(Channels)
        BY <2>1, <4>1 DEF TypeOK
      <4>3. /\ DOMAIN queuedchannels[a[1]] = 1 .. Len(queuedchannels[a[1]])
            /\ Len(queuedchannels[a[1]]) \in Nat
        BY <4>2, LenProperties
      <4> QED BY <4>1, <4>3
    <3>2. ASSUME NEW a \in Q, NEW b \in Q PROVE a = b
      <4>1. a[1] = b[1] /\ a[2] = b[2]
        BY <2>1, <3>1 DEF PlacesInv
      <4> QED BY <3>1, <4>1
    <3>3. Q # {} => Queued(c)
      BY <3>1 DEF Queued
    <3> QED BY <3>2, <3>3
  <2>4. \A a, b \in P : a = b
    BY <2>1
  <2>5. \A a, b \in C : a = b
    BY <2>1 DEF PlacesInv
  <2>6. (P # {} => Popped(c)) /\ (C # {} => Connected(c))
    BY DEF Popped, Connected
  <2> HIDE DEF O, Q, P, C
  <2>7. ASSUME NEW S, \A a, b \in S : a = b
        PROVE  IF S = {} THEN Cardinality(S) = 0 ELSE Cardinality(S) = 1
    <3>1. CASE S = {}
      BY <3>1, FS_EmptySet
    <3>2. CASE S # {}
      <4>1. PICK a \in S : TRUE
        BY <3>2
      <4>2. S = {a}
        BY <2>7, <4>1
      <4> QED BY <3>2, <4>2, FS_Singleton
    <3> QED BY <3>1, <3>2
  <2>8. /\ IF O = {} THEN Cardinality(O) = 0 ELSE Cardinality(O) = 1
        /\ IF Q = {} THEN Cardinality(Q) = 0 ELSE Cardinality(Q) = 1
        /\ IF P = {} THEN Cardinality(P) = 0 ELSE Cardinality(P) = 1
        /\ IF C = {} THEN Cardinality(C) = 0 ELSE Cardinality(C) = 1
    BY <2>2, <2>3, <2>4, <2>5, <2>7
  <2>9. /\ O # {} => Q = {} /\ P = {} /\ C = {}
        /\ Q # {} => P = {} /\ C = {}
        /\ P # {} => C = {}
    BY <2>1, <2>3, <2>6 DEF PlacesInv, O
  <2>10. Cardinality(O) + Cardinality(Q) + Cardinality(P) + Cardinality(C) <= 1
    BY <2>8, <2>9
  <2> QED BY <2>10 DEF Places, O, Q, P, C
<1> QED BY <1>1, Inductive, PTL

\* With one thread and no dup(), a service that is accepted leads to its socket alone.
THEOREM ServicesLeadHome ==
    ASSUME Serial
    PROVE  Spec => []ServiceLeadsHome
<1>1. IInv => ServiceLeadsHome
  <2> SUFFICES ASSUME IInv, NEW w \in 1 .. wrapped, sock[w] # 0, port[sock[w]] # 0,
                      eventlistener[sock[w]] = "registered", Noted(w)
               PROVE  ListenersOn(advertised[w]) = {sock[w]}
    BY DEF ServiceLeadsHome, IsBound
  <2>1. PortsInv /\ ServiceInv
    BY DEF IInv, Serial
  <2>2. sock[w] \in Sockets
    BY DEF IInv, TypeOK, Wrappers
  <2>3. advertised[w] = port[sock[w]]
    BY <2>1 DEF ServiceInv, Noted, IsBound
  <2>4. \A s \in ListenersOn(advertised[w]) : s = sock[w]
    <3> SUFFICES ASSUME NEW s \in Sockets, port[s] = port[sock[w]],
                        eventlistener[s] = "registered"
                 PROVE  s = sock[w]
      BY <2>3 DEF ListenersOn
    <3> QED BY <2>1, <2>2 DEF PortsInv, PortExclusive, IsBound
  <2>5. sock[w] \in ListenersOn(advertised[w])
    BY <2>2, <2>3 DEF ListenersOn
  <2> QED BY <2>4, <2>5
<1> QED BY <1>1, Inductive, PTL
=============================================================================
