------------------------- MODULE WrappedSocketsProofs -------------------------
(***************************************************************************)
(* Theorems about WrappedSockets, for any number of sockets and wrappers:  *)
(* a service can be stopped with the object it was advertised with last,   *)
(* and what a wrapper notes of its socket is true.                         *)
(***************************************************************************)
EXTENDS WrappedSockets, TLAPS

USE WrappedAssumption DEF WrappedAssumption

Addrs == (Peers \cup {"local"}) \X Ports

\* The state of sockets, and who wraps them.
SocketsInv ==
    /\ made \in 0 .. MaxSockets /\ wrapped \in 0 .. MaxWrappers
    /\ open \subseteq 1 .. made /\ listening \subseteq open
    /\ port \in [Sockets -> {0} \cup Ports]
    /\ remote \in [Sockets -> {None} \cup (Peers \X Ports)]
    /\ sock \in [Wrappers -> 0 .. made]
    /\ state \in [Wrappers -> {"open", "closed", "freed"}]
    /\ \A w \in Wrappers : w > wrapped => state[w] = "freed" /\ sock[w] = 0
    /\ \A s \in Sockets : s > made => Free(s)
    \* A socket is bound or connected, not both; only a bound one listens.
    /\ \A s \in Sockets : port[s] # 0 => remote[s] = None
    /\ \A s \in listening : port[s] # 0

\* The notes of services.
ServicesInv ==
    /\ platform \in {"linux", "series60"}
    /\ published \subseteq Wrappers \X Types
    /\ id \in [Wrappers -> Ids]
    /\ advertised \subseteq Wrappers
    /\ table \in [Ids -> Types \cup {"none"}]
    /\ last \in [Wrappers -> Types \cup {"none"}]
    /\ \A w \in Wrappers : w > wrapped => last[w] = "none"
    \* Objects that have not been freed have different ids.
    /\ \A v, w \in Wrappers : state[v] # "freed" /\ state[w] # "freed" /\ id[v] = id[w] => v = w
    /\ platform = "linux" => \A r \in published : r[1] \in advertised
    /\ platform = "series60" =>
          \A w \in Wrappers : state[w] = "open" /\ last[w] # "none" => table[id[w]] = last[w]

\* The other notes.
NotesInv ==
    /\ listened \subseteq 1 .. wrapped
    /\ connaddr \in [Wrappers -> {None} \cup Addrs]
    /\ \A w \in listened : sock[w] \in open => sock[w] \in listening
    /\ platform = "linux" => \A w \in Wrappers : connaddr[w] = None
    /\ \A w \in Wrappers : Usable(w) /\ connaddr[w] # None =>
          IF remote[sock[w]] # None THEN connaddr[w] = remote[sock[w]]
          ELSE connaddr[w][2] = port[sock[w]]

IInv == SocketsInv /\ ServicesInv /\ NotesInv

-----------------------------------------------------------------------------
LEMMA Initially == Init => IInv
<1> SUFFICES ASSUME Init PROVE IInv
  OBVIOUS
<1>1. SocketsInv
  BY DEF Init, SocketsInv, Sockets, Wrappers, Free
<1>2. ServicesInv
  <2>1. id \in [Wrappers -> Ids]
    BY DEF Init
  <2> QED BY <2>1 DEF Init, ServicesInv
<1>3. NotesInv
  BY DEF Init, NotesInv, Usable
<1> QED BY <1>1, <1>2, <1>3 DEF IInv

-----------------------------------------------------------------------------
(* Services *)

\* A new object has an id of its own, and no service yet.
LEMMA WrapServices ==
    ASSUME IInv, NEW s, NEW addr, Wrap(s, addr)
    PROVE  ServicesInv'
<1>0. /\ wrapped \in 0 .. MaxWrappers /\ state \in [Wrappers -> {"open", "closed", "freed"}]
      /\ id \in [Wrappers -> Ids] /\ last \in [Wrappers -> Types \cup {"none"}]
  BY DEF IInv, SocketsInv, ServicesInv
<1>1. /\ wrapped' = wrapped + 1 /\ wrapped' \in Wrappers
      /\ state' = [state EXCEPT ![wrapped'] = "open"]
      /\ platform' = platform /\ published' = published /\ advertised' = advertised
      /\ table' = table /\ last' = last
  BY <1>0 DEF Wrap, Wrappers, services
<1>2. PICK i \in Ids \ {id[w] : w \in {v \in Wrappers : state[v] # "freed"}} :
         id' = [id EXCEPT ![wrapped'] = i]
  BY DEF Wrap
<1>3. id' \in [Wrappers -> Ids]
  BY <1>0, <1>2
<1>4. \A v, w \in Wrappers :
         state'[v] # "freed" /\ state'[w] # "freed" /\ id'[v] = id'[w] => v = w
  BY <1>0, <1>1, <1>2 DEF IInv, ServicesInv
<1>5. last[wrapped'] = "none"
  BY <1>0, <1>1 DEF IInv, ServicesInv
<1>6. platform = "series60" =>
         \A w \in Wrappers : state'[w] = "open" /\ last'[w] # "none" => table'[id'[w]] = last'[w]
  BY <1>0, <1>1, <1>2, <1>5 DEF IInv, ServicesInv
<1>7. \A w \in Wrappers : w > wrapped' => last'[w] = "none"
  BY <1>0, <1>1 DEF IInv, ServicesInv, Wrappers
<1> QED BY <1>1, <1>3, <1>4, <1>6, <1>7 DEF IInv, ServicesInv

LEMMA CloseServices ==
    ASSUME IInv, NEW w \in Wrappers, NEW to \in {"closed", "freed"}, Close(w, to)
    PROVE  ServicesInv'
<1>1. /\ platform' = platform /\ wrapped' = wrapped /\ id' = id /\ table' = table
      /\ last' = last /\ advertised' = advertised
      /\ published' \subseteq published
      /\ state \in [Wrappers -> {"open", "closed", "freed"}]
      /\ state' = [state EXCEPT ![w] = to] /\ state[w] # "freed"
  BY DEF Close, IInv, SocketsInv
<1> QED BY <1>1 DEF IInv, ServicesInv

LEMMA PublishedLast ==
    ASSUME IInv, NEW w \in Wrappers, w <= wrapped, NEW type \in Types, Publish(w, type)
    PROVE  /\ published' \subseteq Wrappers \X Types
           /\ last' \in [Wrappers -> Types \cup {"none"}]
           /\ last'[w] = type /\ \A v \in Wrappers \ {w} : last'[v] = last[v]
           /\ \A v \in Wrappers : v > wrapped => last'[v] = "none"
<1>1. /\ published' \subseteq Wrappers \X Types
      /\ last' \in [Wrappers -> Types \cup {"none"}]
      /\ last'[w] = type /\ \A v \in Wrappers \ {w} : last'[v] = last[v]
  BY DEF Publish, IInv, ServicesInv
<1>2. ASSUME NEW v \in Wrappers, v > wrapped PROVE v # w
  BY <1>2 DEF IInv, SocketsInv, Wrappers
<1> QED BY <1>1, <1>2 DEF IInv, ServicesInv

LEMMA AdvertiseServices ==
    ASSUME IInv, NEW w \in Wrappers, NEW type \in Types,
           AdvertiseOnLinux(w, type) \/ AdvertiseOnSeries60(w, type)
    PROVE  ServicesInv'
<1>0. /\ w <= wrapped /\ state[w] = "open" /\ wrapped \in 0 .. MaxWrappers
      /\ platform' = platform /\ wrapped' = wrapped /\ id' = id /\ state' = state
  BY DEF AdvertiseOnLinux, AdvertiseOnSeries60, Usable, IInv, SocketsInv, objects, Wrappers
<1>1. CASE AdvertiseOnLinux(w, type)
  <2>1. platform = "linux" /\ table' = table
    BY <1>1 DEF AdvertiseOnLinux
  <2>2. CASE UNCHANGED <<published, advertised, last>>
    BY <1>0, <2>1, <2>2 DEF IInv, ServicesInv
  <2>3. CASE Publish(w, type) /\ advertised' = advertised \cup {w}
    <3>1. \A r \in published' : r[1] \in advertised'
      BY <2>1, <2>3 DEF Publish, IInv, ServicesInv
    <3>2. advertised' \subseteq Wrappers
      BY <2>3 DEF IInv, ServicesInv
    <3> QED BY <1>0, <2>1, <2>3, <3>1, <3>2, PublishedLast DEF IInv, ServicesInv
  <2> QED BY <1>1, <2>2, <2>3 DEF AdvertiseOnLinux, Publish
<1>2. CASE AdvertiseOnSeries60(w, type)
  <2>1. /\ platform = "series60" /\ advertised' = advertised /\ Publish(w, type)
        /\ table' = [table EXCEPT ![id[w]] = type]
    BY <1>2 DEF AdvertiseOnSeries60
  <2>2. table' \in [Ids -> Types \cup {"none"}]
    BY <2>1 DEF IInv, ServicesInv
  <2>3. ASSUME NEW v \in Wrappers, state[v] = "open", last'[v] # "none"
        PROVE  table'[id[v]] = last'[v]
    BY <1>0, <2>1, <2>3, PublishedLast DEF IInv, ServicesInv
  <2> QED BY <1>0, <2>1, <2>2, <2>3, PublishedLast DEF IInv, ServicesInv
<1> QED BY <1>1, <1>2

LEMMA StopServices ==
    ASSUME IInv, NEW w \in Wrappers, StopOnLinux(w) \/ StopOnSeries60(w)
    PROVE  ServicesInv'
<1>0. /\ platform' = platform /\ wrapped' = wrapped /\ id' = id /\ state' = state
      /\ table' = table
  BY DEF StopOnLinux, StopOnSeries60, objects
<1>1. \A v \in Wrappers : last'[v] \in {last[v], "none"}
  BY DEF StopOnLinux, StopOnSeries60, Unpublish
<1>2. /\ DOMAIN last' = Wrappers /\ last' \in [Wrappers -> Types \cup {"none"}]
      /\ published' \subseteq published
  BY DEF StopOnLinux, StopOnSeries60, Unpublish, IInv, ServicesInv
<1>3. CASE StopOnLinux(w)
  <2>1. advertised' = advertised \ {w} /\ platform = "linux"
    BY <1>3 DEF StopOnLinux
  <2>2. \A r \in published' : r[1] # w
    BY <1>3, <1>2 DEF StopOnLinux, Unpublish, IInv, ServicesInv
  <2> QED BY <1>0, <1>1, <1>2, <2>1, <2>2 DEF IInv, ServicesInv
<1>4. CASE StopOnSeries60(w)
  <2>1. advertised' = advertised /\ platform = "series60"
    BY <1>4 DEF StopOnSeries60
  <2> QED BY <1>0, <1>1, <1>2, <2>1 DEF IInv, ServicesInv
<1> QED BY <1>3, <1>4

-----------------------------------------------------------------------------
(* Sockets *)

LEMMA WrapSockets ==
    ASSUME IInv, made' \in {made, made + 1}, NEW s \in 0 .. made', NEW addr, Wrap(s, addr)
    PROVE  /\ wrapped' = wrapped + 1 /\ wrapped' \in Wrappers
           /\ wrapped' \in 0 .. MaxWrappers
           /\ sock' \in [Wrappers -> 0 .. made'] /\ sock'[wrapped'] = s
           /\ \A w \in Wrappers \ {wrapped'} : sock'[w] = sock[w]
           /\ state' \in [Wrappers -> {"open", "closed", "freed"}]
           /\ \A w \in Wrappers \ {wrapped'} : state'[w] = state[w]
           /\ \A w \in Wrappers : w > wrapped' => state'[w] = "freed" /\ sock'[w] = 0
<1>1. /\ wrapped' = wrapped + 1 /\ wrapped' \in 0 .. MaxWrappers
      /\ wrapped' \in Wrappers /\ wrapped \in Nat
  BY DEF Wrap, IInv, SocketsInv, Wrappers
<1>2. made \in Nat /\ 0 .. made \subseteq 0 .. made'
  BY DEF IInv, SocketsInv
<1>3. sock' = [sock EXCEPT ![wrapped'] = s] /\ state' = [state EXCEPT ![wrapped'] = "open"]
  BY DEF Wrap
<1>4. sock' \in [Wrappers -> 0 .. made']
  BY <1>2, <1>3 DEF IInv, SocketsInv
<1>5. state' \in [Wrappers -> {"open", "closed", "freed"}]
  BY <1>3 DEF IInv, SocketsInv
<1>6. /\ sock'[wrapped'] = s
      /\ \A w \in Wrappers \ {wrapped'} : sock'[w] = sock[w] /\ state'[w] = state[w]
  BY <1>1, <1>3 DEF IInv, SocketsInv
<1>7. ASSUME NEW w \in Wrappers, w > wrapped' PROVE state'[w] = "freed" /\ sock'[w] = 0
  <2>1. w > wrapped /\ w # wrapped'
    BY <1>1, <1>7 DEF Wrappers
  <2> QED BY <1>6, <2>1 DEF IInv, SocketsInv
<1> QED BY <1>1, <1>4, <1>5, <1>6, <1>7

\* A socket that there was not yet is neither bound nor connected.
LEMMA NewIsFree ==
    ASSUME IInv, made < MaxSockets, made' = made + 1
    PROVE  /\ made' \in Sockets /\ made' \in 0 .. MaxSockets /\ made' \in 0 .. made'
           /\ made' \notin open /\ port[made'] = 0 /\ remote[made'] = None
           /\ open \cup {made'} \subseteq 1 .. made'
           /\ \A s \in Sockets : s > made' => s > made /\ s # made'
<1>1. made \in 0 .. MaxSockets /\ open \subseteq 1 .. made
  BY DEF IInv, SocketsInv
<1>2. made' \in Sockets /\ made' > made
  BY <1>1 DEF Sockets
<1>3. Free(made')
  BY <1>2 DEF IInv, SocketsInv
<1> QED BY <1>1, <1>2, <1>3 DEF Free, Sockets

LEMMA NewSocketSockets == ASSUME IInv, NewSocket PROVE SocketsInv'
<1>1. made < MaxSockets /\ made' = made + 1 /\ open' = open \cup {made'} /\ Wrap(made', None)
      /\ port' = port /\ listening' = listening /\ remote' = remote
  BY DEF NewSocket
<1>2. /\ made' \in 0 .. MaxSockets /\ made' \in 0 .. made' /\ open' \subseteq 1 .. made'
      /\ \A s \in Sockets : s > made' => s > made
  BY <1>1, NewIsFree
<1> QED BY <1>1, <1>2, WrapSockets DEF IInv, SocketsInv, Free

LEMMA DupSockets == ASSUME IInv, NEW w \in Wrappers, Dup(w) PROVE SocketsInv'
<1>1. Wrap(sock[w], None) /\ made' = made /\ open' = open /\ port' = port
      /\ listening' = listening /\ remote' = remote /\ sock[w] \in 0 .. made'
  BY DEF Dup, system, IInv, SocketsInv
<1> QED BY <1>1, WrapSockets DEF IInv, SocketsInv, Free

LEMMA AcceptSockets ==
    ASSUME IInv, NEW w \in Wrappers, NEW peer \in Peers, Accept(w, peer)
    PROVE  SocketsInv'
<1>1. /\ made < MaxSockets /\ made' = made + 1 /\ open' = open \cup {made'}
      /\ remote' = [remote EXCEPT ![made'] = <<peer, port[sock[w]]>>]
      /\ Wrap(made', AcceptAddr(w, peer)) /\ port' = port /\ listening' = listening
      /\ sock[w] \in listening
  BY DEF Accept
<1>2. /\ made' \in 0 .. MaxSockets /\ made' \in 0 .. made' /\ open' \subseteq 1 .. made'
      /\ \A s \in Sockets : s > made' => s > made /\ s # made'
      /\ made' \in Sockets /\ port[made'] = 0
  BY <1>1, NewIsFree
<1>3. port[sock[w]] \in Ports
  <2>1. sock[w] \in Sockets /\ port[sock[w]] # 0
    BY <1>1 DEF IInv, SocketsInv, Sockets
  <2> QED BY <2>1 DEF IInv, SocketsInv
<1>4. remote' \in [Sockets -> {None} \cup (Peers \X Ports)]
  BY <1>1, <1>3 DEF IInv, SocketsInv
<1>5. \A s \in Sockets \ {made'} : remote'[s] = remote[s]
  BY <1>1 DEF IInv, SocketsInv
<1>6. \A s \in Sockets : s > made' => Free(s)'
  BY <1>1, <1>2, <1>5 DEF IInv, SocketsInv, Free
<1>7. \A s \in Sockets : port'[s] # 0 => remote'[s] = None
  BY <1>1, <1>2, <1>5 DEF IInv, SocketsInv
<1> QED BY <1>1, <1>2, <1>4, <1>6, <1>7, WrapSockets DEF IInv, SocketsInv

LEMMA BindSockets == ASSUME IInv, NEW w \in Wrappers, Bind(w) PROVE SocketsInv'
<1>1. PICK p \in Ports : port' = [port EXCEPT ![sock[w]] = p]
  BY DEF Bind
<1>2. /\ made' = made /\ wrapped' = wrapped /\ open' = open /\ listening' = listening
      /\ remote' = remote /\ sock' = sock /\ state' = state /\ Free(sock[w])
      /\ sock[w] \in 1 .. made /\ made \in 0 .. MaxSockets
  BY DEF Bind, objects, Usable, IInv, SocketsInv
<1>3. sock[w] \in Sockets /\ ~(sock[w] > made)
  BY <1>2 DEF Sockets
<1>4. /\ port' \in [Sockets -> {0} \cup Ports] /\ port'[sock[w]] = p
      /\ \A s \in Sockets \ {sock[w]} : port'[s] = port[s]
  BY <1>1, <1>3 DEF IInv, SocketsInv
<1>5. \A s \in Sockets : s > made => Free(s)'
  BY <1>2, <1>3, <1>4 DEF IInv, SocketsInv, Free
<1>6. listening \subseteq Sockets
  BY DEF IInv, SocketsInv, Sockets
<1>7. \A s \in listening : port'[s] # 0
  BY <1>4, <1>6 DEF IInv, SocketsInv
<1> QED BY <1>2, <1>4, <1>5, <1>7 DEF IInv, SocketsInv, Free

LEMMA ConnectSockets == ASSUME IInv, NEW w \in Wrappers, Connect(w) PROVE SocketsInv'
<1>1. PICK addr \in Peers \X Ports : remote' = [remote EXCEPT ![sock[w]] = addr]
  BY DEF Connect
<1>2. /\ made' = made /\ wrapped' = wrapped /\ open' = open /\ listening' = listening
      /\ port' = port /\ sock' = sock /\ state' = state /\ Free(sock[w])
      /\ sock[w] \in 1 .. made /\ made \in 0 .. MaxSockets
  BY DEF Connect, objects, Usable, IInv, SocketsInv
<1>3. sock[w] \in Sockets /\ ~(sock[w] > made)
  BY <1>2 DEF Sockets
<1>4. /\ remote' \in [Sockets -> {None} \cup (Peers \X Ports)]
      /\ \A s \in Sockets \ {sock[w]} : remote'[s] = remote[s]
  BY <1>1, <1>3 DEF IInv, SocketsInv
<1>5. \A s \in Sockets : s > made => Free(s)'
  BY <1>2, <1>3, <1>4 DEF IInv, SocketsInv, Free
<1> QED BY <1>2, <1>4, <1>5 DEF IInv, SocketsInv, Free

\* listen(), by itself or for a service, is on a socket that is open and bound.
LEMMA ListenSockets ==
    ASSUME IInv, NEW w \in Wrappers, Usable(w), port[sock[w]] # 0,
           listening' \subseteq listening \cup {sock[w]},
           UNCHANGED objects, UNCHANGED <<open, port, remote>>
    PROVE  SocketsInv'
BY DEF IInv, SocketsInv, objects, Usable, Free

LEMMA CloseSockets ==
    ASSUME IInv, NEW w \in Wrappers, NEW to \in {"closed", "freed"}, Close(w, to)
    PROVE  SocketsInv'
<1>1. /\ made' = made /\ wrapped' = wrapped /\ sock' = sock
      /\ state' = [state EXCEPT ![w] = to] /\ state[w] # "freed"
  BY DEF Close
<1>2. /\ state' \in [Wrappers -> {"open", "closed", "freed"}]
      /\ \A v \in Wrappers : v > wrapped => state'[v] = "freed"
  BY <1>1 DEF IInv, SocketsInv
<1>3. CASE UNCHANGED <<open, port, listening, remote, published>>
  BY <1>1, <1>2, <1>3 DEF IInv, SocketsInv, Free
<1>4. CASE /\ sock[w] \in open
           /\ open' = open \ {sock[w]} /\ listening' = listening \ {sock[w]}
           /\ port' = [port EXCEPT ![sock[w]] = 0]
           /\ remote' = [remote EXCEPT ![sock[w]] = None]
  <2>1. sock[w] \in Sockets
    BY <1>4 DEF IInv, SocketsInv, Sockets
  <2>2. /\ port' \in [Sockets -> {0} \cup Ports]
        /\ remote' \in [Sockets -> {None} \cup (Peers \X Ports)]
        /\ port'[sock[w]] = 0 /\ remote'[sock[w]] = None
        /\ \A s \in Sockets \ {sock[w]} : port'[s] = port[s] /\ remote'[s] = remote[s]
    BY <1>4, <2>1 DEF IInv, SocketsInv
  <2>3. listening \subseteq Sockets
    BY DEF IInv, SocketsInv, Sockets
  <2> QED BY <1>1, <1>2, <1>4, <2>2, <2>3 DEF IInv, SocketsInv, Free
<1> QED BY <1>3, <1>4 DEF Close

-----------------------------------------------------------------------------
(* Notes *)

\* A new wrapper has noted nothing but perhaps an address, and that is true.
LEMMA WrapNotes ==
    ASSUME IInv, made' \in {made, made + 1}, NEW s \in 0 .. made', Wrap(s, None) \/
           (\E addr \in Addrs : /\ Wrap(s, addr) /\ remote'[s] = addr
                                /\ platform = "series60"),
           open' \in {open, open \cup {made'}}, made' = made => open' = open,
           listening' = listening, port' = port,
           \A t \in 1 .. made : remote'[t] = remote[t]
    PROVE  NotesInv'
<1>0. PICK addr \in {None} \cup Addrs :
         /\ Wrap(s, addr)
         /\ addr # None => remote'[s] = addr /\ platform = "series60"
  OBVIOUS
<1>1. /\ wrapped' = wrapped + 1 /\ wrapped' \in Wrappers /\ wrapped \in Nat
      /\ sock'[wrapped'] = s
      /\ \A w \in Wrappers \ {wrapped'} : sock'[w] = sock[w] /\ state'[w] = state[w]
  BY <1>0, WrapSockets DEF IInv, SocketsInv
<1>2. platform' = platform /\ listened' = listened
  BY <1>0 DEF Wrap
<1>3. /\ connaddr' \in [Wrappers -> {None} \cup Addrs]
      /\ connaddr'[wrapped'] = None \/ connaddr'[wrapped'] = addr
      /\ \A w \in Wrappers \ {wrapped'} : connaddr'[w] = connaddr[w]
      /\ platform = "linux" => connaddr' = connaddr
  <2>1. connaddr \in [Wrappers -> {None} \cup Addrs]
    BY DEF IInv, NotesInv
  <2>2. connaddr' = IF platform = "series60" THEN [connaddr EXCEPT ![wrapped'] = addr]
                    ELSE connaddr
    BY <1>0 DEF Wrap, NoteAddr
  <2>3. platform # "series60" => connaddr[wrapped'] = None
    BY <1>1 DEF IInv, NotesInv, ServicesInv
  <2> QED BY <1>1, <2>1, <2>2, <2>3
<1>4. \A w \in Wrappers \ {wrapped'} : sock[w] \in open' <=> sock[w] \in open
  BY DEF IInv, SocketsInv
<1>5. listened \subseteq Wrappers /\ wrapped' \notin listened
  BY <1>1 DEF IInv, NotesInv, SocketsInv, Wrappers
<1>6. \A w \in listened' : sock'[w] \in open' => sock'[w] \in listening'
  BY <1>1, <1>2, <1>4, <1>5 DEF IInv, NotesInv
<1>7. listened' \subseteq 1 .. wrapped'
  BY <1>1, <1>2 DEF IInv, NotesInv
<1>8. ASSUME NEW w \in Wrappers, Usable(w)', connaddr'[w] # None
      PROVE  IF remote'[sock'[w]] # None THEN connaddr'[w] = remote'[sock'[w]]
             ELSE connaddr'[w][2] = port'[sock'[w]]
  <2>1. CASE w = wrapped'
    BY <1>0, <1>1, <1>3, <1>8, <2>1 DEF Addrs
  <2>2. CASE w # wrapped'
    <3>1. Usable(w) /\ connaddr[w] # None
      BY <1>1, <1>3, <1>4, <1>8, <2>2 DEF Usable
    <3>2. sock[w] \in 1 .. made
      BY <3>1 DEF IInv, SocketsInv, Usable
    <3> QED BY <1>1, <1>3, <2>2, <3>1, <3>2 DEF IInv, NotesInv
  <2> QED BY <2>1, <2>2
<1>9. platform' = "linux" => \A w \in Wrappers : connaddr'[w] = None
  BY <1>2, <1>3 DEF IInv, NotesInv
<1> QED BY <1>3, <1>6, <1>7, <1>8, <1>9 DEF NotesInv

LEMMA NewSocketNotes == ASSUME IInv, NewSocket PROVE NotesInv'
<1>1. made' = made + 1 /\ open' = open \cup {made'} /\ Wrap(made', None)
      /\ port' = port /\ listening' = listening /\ remote' = remote
      /\ made' # made /\ made' \in 0 .. made'
  BY DEF NewSocket, IInv, SocketsInv
<1> QED BY <1>1, WrapNotes

LEMMA DupNotes == ASSUME IInv, NEW w \in Wrappers, Dup(w) PROVE NotesInv'
<1>1. Wrap(sock[w], None) /\ made' = made /\ open' = open /\ port' = port
      /\ listening' = listening /\ remote' = remote /\ sock[w] \in 0 .. made'
  BY DEF Dup, system, IInv, SocketsInv
<1> QED BY <1>1, WrapNotes

\* On Series 60 the accepted socket takes the port from what the listening wrapper has
\* noted, which is the port of the connection.
LEMMA AcceptNotes ==
    ASSUME IInv, NEW w \in Wrappers, NEW peer \in Peers, Accept(w, peer)
    PROVE  NotesInv'
<1>1. /\ made < MaxSockets /\ made' = made + 1 /\ open' = open \cup {made'}
      /\ remote' = [remote EXCEPT ![made'] = <<peer, port[sock[w]]>>]
      /\ Wrap(made', AcceptAddr(w, peer)) /\ port' = port /\ listening' = listening
      /\ sock[w] \in listening /\ Usable(w)
      /\ platform = "series60" => connaddr[w] # None
  BY DEF Accept
<1>2. made' \in Sockets /\ made' \in 0 .. made' /\ made' # made
  BY <1>1, NewIsFree DEF IInv, SocketsInv
<1>3. \A t \in 1 .. made : remote'[t] = remote[t]
  BY <1>1 DEF IInv, SocketsInv
<1>4. CASE platform = "linux"
  BY <1>1, <1>2, <1>3, <1>4, WrapNotes DEF AcceptAddr
<1>5. CASE platform = "series60"
  <2>1. sock[w] \in Sockets /\ port[sock[w]] # 0 /\ remote[sock[w]] = None
    BY <1>1 DEF IInv, SocketsInv, Sockets
  <2>2. connaddr[w][2] = port[sock[w]]
    BY <1>1, <1>5, <2>1 DEF IInv, NotesInv
  <2>3. AcceptAddr(w, peer) = <<peer, port[sock[w]]>>
    BY <1>5, <2>2 DEF AcceptAddr
  <2>4. AcceptAddr(w, peer) \in Addrs
    BY <2>1, <2>3 DEF IInv, SocketsInv, Addrs
  <2>5. remote'[made'] = AcceptAddr(w, peer)
    BY <1>1, <1>2, <2>3 DEF IInv, SocketsInv
  <2> QED BY <1>1, <1>2, <1>3, <1>5, <2>4, <2>5, WrapNotes
<1> QED BY <1>4, <1>5 DEF IInv, ServicesInv

\* No other wrapper of a socket that is neither bound nor connected has an address.
LEMMA FreeIsNotNoted ==
    ASSUME IInv, NEW v \in Wrappers, Usable(v), Free(sock[v])
    PROVE  connaddr[v] = None
<1> SUFFICES ASSUME connaddr[v] # None PROVE FALSE
  OBVIOUS
<1>1. connaddr[v][2] = 0
  BY DEF IInv, NotesInv, Free
<1>2. connaddr[v] \in Addrs
  BY DEF IInv, NotesInv
<1>3. connaddr[v][2] \in Ports
  BY <1>2 DEF Addrs
<1> QED BY <1>1, <1>3

LEMMA BindNotes == ASSUME IInv, NEW w \in Wrappers, Bind(w) PROVE NotesInv'
<1>1. PICK p \in Ports : port' = [port EXCEPT ![sock[w]] = p] /\ NoteAddr(w, <<"local", p>>)
  BY DEF Bind
<1>2. /\ wrapped' = wrapped /\ open' = open /\ listening' = listening
      /\ remote' = remote /\ sock' = sock /\ state' = state /\ Free(sock[w]) /\ Usable(w)
      /\ listened' = listened /\ platform' = platform
      /\ sock[w] \in Sockets /\ DOMAIN port = Sockets
  BY DEF Bind, objects, Usable, IInv, SocketsInv, Sockets
<1>3. connaddr' \in [Wrappers -> {None} \cup Addrs]
  BY <1>1 DEF NoteAddr, IInv, NotesInv, Addrs
<1>4. ASSUME NEW v \in Wrappers, Usable(v), connaddr'[v] # None
      PROVE  IF remote[sock[v]] # None THEN connaddr'[v] = remote[sock[v]]
             ELSE connaddr'[v][2] = port'[sock[v]]
  <2>1. CASE connaddr'[v] = connaddr[v]
    <3>1. sock[v] # sock[w]
      BY <1>2, <1>4, <2>1, FreeIsNotNoted
    <3>2. port'[sock[v]] = port[sock[v]]
      BY <1>1, <1>4, <3>1 DEF IInv, SocketsInv, Usable, Sockets
    <3> QED BY <1>4, <2>1, <3>2 DEF IInv, NotesInv
  <2>2. CASE connaddr'[v] # connaddr[v]
    <3>1. v = w /\ connaddr'[v] = <<"local", p>>
      BY <1>1, <2>2 DEF NoteAddr, IInv, NotesInv
    <3> QED BY <1>1, <1>2, <3>1 DEF Free
  <2> QED BY <2>1, <2>2
<1>5. platform = "linux" => connaddr' = connaddr
  BY <1>1 DEF NoteAddr
<1> QED BY <1>2, <1>3, <1>4, <1>5 DEF IInv, NotesInv, Usable

LEMMA ConnectNotes == ASSUME IInv, NEW w \in Wrappers, Connect(w) PROVE NotesInv'
<1>1. PICK addr \in Peers \X Ports :
         remote' = [remote EXCEPT ![sock[w]] = addr] /\ NoteAddr(w, addr)
  BY DEF Connect
<1>2. /\ wrapped' = wrapped /\ open' = open /\ listening' = listening
      /\ port' = port /\ sock' = sock /\ state' = state /\ Free(sock[w]) /\ Usable(w)
      /\ listened' = listened /\ platform' = platform
      /\ sock[w] \in Sockets /\ DOMAIN remote = Sockets
  BY DEF Connect, objects, Usable, IInv, SocketsInv, Sockets
<1>3. connaddr' \in [Wrappers -> {None} \cup Addrs] /\ addr # None
  <2>1. addr \in Addrs /\ addr # None
    BY DEF Addrs, None
  <2> QED BY <1>1, <2>1 DEF NoteAddr, IInv, NotesInv
<1>4. ASSUME NEW v \in Wrappers, Usable(v), connaddr'[v] # None
      PROVE  IF remote'[sock[v]] # None THEN connaddr'[v] = remote'[sock[v]]
             ELSE connaddr'[v][2] = port[sock[v]]
  <2>1. CASE connaddr'[v] = connaddr[v]
    <3>1. sock[v] # sock[w]
      BY <1>2, <1>4, <2>1, FreeIsNotNoted
    <3>2. remote'[sock[v]] = remote[sock[v]]
      BY <1>1, <1>4, <3>1 DEF IInv, SocketsInv, Usable, Sockets
    <3> QED BY <1>4, <2>1, <3>2 DEF IInv, NotesInv
  <2>2. CASE connaddr'[v] # connaddr[v]
    <3>1. v = w /\ connaddr'[v] = addr
      BY <1>1, <2>2 DEF NoteAddr, IInv, NotesInv
    <3> QED BY <1>1, <1>2, <1>3, <3>1
  <2> QED BY <2>1, <2>2
<1>5. platform = "linux" => connaddr' = connaddr
  BY <1>1 DEF NoteAddr
<1> QED BY <1>2, <1>3, <1>4, <1>5 DEF IInv, NotesInv, Usable

\* A wrapper notes a listen() only once its socket listens.
LEMMA ListenNotes ==
    ASSUME IInv, NEW w \in Wrappers, Usable(w), UNCHANGED objects,
           UNCHANGED <<open, port, remote>>, connaddr' = connaddr,
           listening \subseteq listening', listened' \subseteq listened \cup {w},
           w \in listened' => w \in listened \/ sock[w] \in listening'
    PROVE  NotesInv'
<1>1. w \in 1 .. wrapped
  BY DEF Usable, IInv, SocketsInv, Wrappers
<1> QED BY <1>1 DEF IInv, NotesInv, objects, Usable

LEMMA CloseNotes ==
    ASSUME IInv, NEW w \in Wrappers, NEW to \in {"closed", "freed"}, Close(w, to)
    PROVE  NotesInv'
<1>1. /\ wrapped' = wrapped /\ sock' = sock /\ platform' = platform
      /\ listened' = listened /\ connaddr' = connaddr
      /\ \A v \in Wrappers : state'[v] = "open" => state[v] = "open"
  BY DEF Close, IInv, SocketsInv
<1>2. CASE UNCHANGED <<open, port, listening, remote, published>>
  BY <1>1, <1>2 DEF IInv, NotesInv, Usable
<1>3. CASE /\ sock[w] \in open
           /\ open' = open \ {sock[w]} /\ listening' = listening \ {sock[w]}
           /\ port' = [port EXCEPT ![sock[w]] = 0]
           /\ remote' = [remote EXCEPT ![sock[w]] = None]
  <2>1. \A s \in Sockets \ {sock[w]} : port'[s] = port[s] /\ remote'[s] = remote[s]
    BY <1>3 DEF IInv, SocketsInv
  <2>2. open \subseteq Sockets
    BY DEF IInv, SocketsInv, Sockets
  <2> QED BY <1>1, <1>3, <2>1, <2>2 DEF IInv, NotesInv, Usable
<1> QED BY <1>2, <1>3 DEF Close

-----------------------------------------------------------------------------
\* The invariant is kept by every step, and so is always true.
THEOREM Inductive == Spec => []IInv
<1>1. Init => IInv
  BY Initially
<1>2. IInv /\ [Next]_vars => IInv'
  <2> SUFFICES ASSUME IInv, [Next]_vars PROVE IInv'
    OBVIOUS
  <2>1. CASE NewSocket
    <3>1. ServicesInv'
      BY <2>1, WrapServices DEF NewSocket
    <3> QED BY <2>1, <3>1, NewSocketSockets, NewSocketNotes DEF IInv
  <2>2. ASSUME NEW w \in Wrappers, Dup(w) PROVE IInv'
    <3>1. ServicesInv'
      BY <2>2, WrapServices DEF Dup
    <3> QED BY <2>2, <3>1, DupSockets, DupNotes DEF IInv
  <2>3. ASSUME NEW w \in Wrappers, Bind(w) \/ Connect(w) PROVE IInv'
    <3>1. ServicesInv'
      BY <2>3 DEF Bind, Connect, objects, services, IInv, ServicesInv
    <3> QED BY <2>3, <3>1, BindSockets, ConnectSockets, BindNotes, ConnectNotes DEF IInv
  <2>4. ASSUME NEW w \in Wrappers, Listen(w) PROVE IInv'
    <3>1. ServicesInv'
      BY <2>4 DEF Listen, objects, services, IInv, ServicesInv
    <3>2. /\ Usable(w) /\ port[sock[w]] # 0 /\ listening' = listening \cup {sock[w]}
          /\ listened' = IF platform = "linux" THEN listened \cup {w} ELSE listened
          /\ UNCHANGED objects /\ UNCHANGED <<open, port, remote>> /\ connaddr' = connaddr
      BY <2>4 DEF Listen
    <3> QED BY <3>1, <3>2, ListenSockets, ListenNotes DEF IInv
  <2>5. ASSUME NEW w \in Wrappers, NEW peer \in Peers, Accept(w, peer) PROVE IInv'
    <3>1. ServicesInv'
      BY <2>5, WrapServices DEF Accept
    <3> QED BY <2>5, <3>1, AcceptSockets, AcceptNotes DEF IInv
  <2>6. ASSUME NEW w \in Wrappers, NEW to \in {"closed", "freed"}, Close(w, to) PROVE IInv'
    BY <2>6, CloseServices, CloseSockets, CloseNotes DEF IInv
  <2>7. ASSUME NEW w \in Wrappers, NEW type \in Types, AdvertiseOnLinux(w, type) PROVE IInv'
    <3>1. /\ Usable(w) /\ port[sock[w]] # 0
          /\ listening' = listening \/ listening' = listening \cup {sock[w]}
          /\ listening \subseteq listening'
          /\ listened' = listened \/ (listened' = listened \cup {w} /\ sock[w] \in listening')
          /\ UNCHANGED objects /\ UNCHANGED <<open, port, remote>> /\ connaddr' = connaddr
      BY <2>7 DEF AdvertiseOnLinux
    <3> QED BY <2>7, <3>1, AdvertiseServices, ListenSockets, ListenNotes DEF IInv
  <2>8. ASSUME NEW w \in Wrappers, NEW type \in Types, AdvertiseOnSeries60(w, type)
        PROVE  IInv'
    <3>1. SocketsInv' /\ NotesInv'
      BY <2>8 DEF AdvertiseOnSeries60, objects, system, IInv, SocketsInv, NotesInv, Free, Usable
    <3> QED BY <2>8, <3>1, AdvertiseServices DEF IInv
  <2>9. ASSUME NEW w \in Wrappers, StopOnLinux(w) \/ StopOnSeries60(w) PROVE IInv'
    <3>1. UNCHANGED objects /\ listened' = listened /\ connaddr' = connaddr
      BY <2>9 DEF StopOnLinux, StopOnSeries60
    <3>2. /\ open' = open /\ listening' = listening /\ port' = port /\ remote' = remote
          /\ made' = made
      BY <2>9, <3>1 DEF StopOnLinux, StopOnSeries60, objects, system
    <3>3. SocketsInv'
      BY <3>1, <3>2 DEF objects, IInv, SocketsInv, Free
    <3>4. NotesInv'
      BY <3>1, <3>2 DEF objects, IInv, NotesInv, Usable
    <3> QED BY <2>9, <3>3, <3>4, StopServices DEF IInv
  <2>10. CASE UNCHANGED vars
    BY <2>10 DEF vars, objects, system, services, IInv, SocketsInv, ServicesInv, NotesInv,
                 Free, Usable
  <2> QED BY <2>1, <2>2, <2>3, <2>4, <2>5, <2>6, <2>7, <2>8, <2>9, <2>10 DEF Next
<1> QED BY <1>1, <1>2, PTL DEF Spec

\* Every variable keeps its type.
THEOREM TypeCorrect == Spec => []TypeOK
<1>1. IInv => TypeOK
  <2> SUFFICES ASSUME IInv PROVE TypeOK
    OBVIOUS
  <2>1. listened \subseteq Wrappers
    BY DEF IInv, SocketsInv, NotesInv, Wrappers
  <2> QED BY <2>1 DEF IInv, SocketsInv, ServicesInv, NotesInv, TypeOK, Addrs
<1> QED BY <1>1, Inductive, PTL

\* The service that was last advertised with a socket object can be stopped with it for
\* as long as it is there: what stopadvertise() looks at, a flag on Linux and a table by
\* id() on Series 60, is still set and is of this service.
THEOREM ServiceCanBeStopped == Spec => []StopReachesService
<1>1. IInv => StopReachesService
  BY DEF IInv, ServicesInv, StopReachesService, Usable
<1> QED BY <1>1, Inductive, PTL

\* A wrapper notes a listen() only of a socket that listens, and an address only if the
\* socket is bound or connected to it.
THEOREM NotesTrue == Spec => []NotesAreTrue
<1>1. IInv => NotesAreTrue
  BY DEF IInv, NotesInv, NotesAreTrue, Usable, GetPeerName, GetSockName
<1> QED BY <1>1, Inductive, PTL
=============================================================================
