---------------------------- MODULE WrappedSockets ----------------------------
(***************************************************************************)
(* The sockets of Linux and of Series 60, and the services advertised on   *)
(* them: the classes _SocketWrapper, advertise() and stopadvertise() of    *)
(* src/src/linux/_lightblue.py and src/src/series60/_lightblue.py.  A      *)
(* wrapper passes most calls on to a socket of the system and notes a few  *)
(* things about it: on Linux whether it has listened and advertised, on    *)
(* Series 60 an address and, in a table of the module, its service.  A     *)
(* call that raises and changes nothing is no step of the model.           *)
(*                                                                         *)
(* The systems (PyBluez, PyS60) are external.  Assumed of them: any call   *)
(* may fail; listen() needs a bound socket, and so does advertising, which *)
(* on Linux needs a listening one; dup() gives another handle of the same  *)
(* socket; whether closing one handle closes the socket, and whether a     *)
(* service outlives its socket, is left open.                              *)
(***************************************************************************)
EXTENDS Integers

CONSTANTS
    MaxSockets,    \* bound: sockets of the system
    MaxWrappers,   \* bound: wrappers
    Ids,           \* what id() returns: addresses of objects
    Ports,
    Peers          \* remote devices

Sockets == 1 .. MaxSockets
Wrappers == 1 .. MaxWrappers
Types == {"RFCOMM", "OBEX"}

ASSUME WrappedAssumption ==
    /\ MaxSockets \in Nat /\ MaxWrappers \in Nat
    /\ Ports \subseteq Nat \ {0}
    /\ Ids # {}
    /\ "local" \notin Peers

None == <<>>

VARIABLES
    platform,
    made, wrapped,   \* how many sockets and wrappers there are
    open,            \* the sockets that are open
    port,            \* port[s]: what s is bound to, 0 if it is not
    listening,       \* the sockets that listen
    remote,          \* remote[s]: <<peer, port>> that s is connected to, or None
    published,       \* the services there are: <<wrapper, type>>
    sock,            \* sock[w]: _sock
    state,           \* state[w]: "open", "closed", or "freed"
    id,              \* id[w]
    listened,        \* the wrappers whose _listening is set (Linux)
    advertised,      \* those whose _advertised is set (Linux)
    connaddr,        \* connaddr[w]: _connaddr (Series 60)
    table,           \* table[i]: the type __advertised has under id i (Series 60)
    last             \* history: last[w]: the type w has advertised last, "none" once it
                     \* is stopped

objects == <<platform, made, wrapped, sock, state, id>>
system == <<open, port, listening, remote>>
services == <<published, advertised, table, last>>
vars == <<objects, system, services, listened, connaddr>>

TypeOK ==
    /\ platform \in {"linux", "series60"}
    /\ made \in 0 .. MaxSockets /\ wrapped \in 0 .. MaxWrappers
    /\ open \subseteq 1 .. made /\ listening \subseteq 1 .. made
    /\ port \in [Sockets -> {0} \cup Ports]
    /\ remote \in [Sockets -> {None} \cup (Peers \X Ports)]
    /\ published \subseteq Wrappers \X Types
    /\ sock \in [Wrappers -> 0 .. made]
    /\ state \in [Wrappers -> {"open", "closed", "freed"}]
    /\ id \in [Wrappers -> Ids]
    /\ listened \subseteq Wrappers /\ advertised \subseteq Wrappers
    /\ connaddr \in [Wrappers -> {None} \cup ((Peers \cup {"local"}) \X Ports)]
    /\ table \in [Ids -> Types \cup {"none"}]
    /\ last \in [Wrappers -> Types \cup {"none"}]

Init ==
    /\ platform \in {"linux", "series60"}
    /\ made = 0 /\ wrapped = 0
    /\ open = {} /\ listening = {} /\ published = {}
    /\ port = [s \in Sockets |-> 0] /\ remote = [s \in Sockets |-> None]
    /\ sock = [w \in Wrappers |-> 0] /\ state = [w \in Wrappers |-> "freed"]
    /\ id = [w \in Wrappers |-> CHOOSE i \in Ids : TRUE]
    /\ listened = {} /\ advertised = {}
    /\ connaddr = [w \in Wrappers |-> None]
    /\ table = [i \in Ids |-> "none"]
    /\ last = [w \in Wrappers |-> "none"]

Usable(w) == state[w] = "open" /\ sock[w] \in open
Free(s) == port[s] = 0 /\ remote[s] = None
ServicesOf(s) == {r \in published : sock[r[1]] = s}

\* getpeername() of Series 60: what the wrapper has noted, None if it raises.
GetPeerName(w) == connaddr[w]

\* The port that getsockname() of Series 60 returns.
GetSockName(w) == IF connaddr[w] = None THEN 0 ELSE connaddr[w][2]

\* Series 60 notes the address a wrapper is bound or connected to.
NoteAddr(w, addr) ==
    connaddr' = IF platform = "series60" THEN [connaddr EXCEPT ![w] = addr] ELSE connaddr

\* A new wrapper of socket s, at an address where no object is.
Wrap(s, addr) ==
    /\ wrapped < MaxWrappers
    /\ wrapped' = wrapped + 1
    /\ sock' = [sock EXCEPT ![wrapped'] = s]
    /\ state' = [state EXCEPT ![wrapped'] = "open"]
    /\ \E i \in Ids \ {id[w] : w \in {v \in Wrappers : state[v] # "freed"}} :
          id' = [id EXCEPT ![wrapped'] = i]
    /\ NoteAddr(wrapped', addr)
    /\ UNCHANGED <<platform, services, listened>>

-----------------------------------------------------------------------------
(* Sockets *)

NewSocket ==
    /\ made < MaxSockets
    /\ made' = made + 1
    /\ open' = open \cup {made'}
    /\ Wrap(made', None)
    /\ UNCHANGED <<port, listening, remote>>

\* dup() wraps anew, and takes over nothing of what this wrapper has noted.
Dup(w) ==
    /\ Usable(w)
    /\ Wrap(sock[w], None)
    /\ UNCHANGED <<made, system>>

\* bind(), to a port or to one that is available.
Bind(w) ==
    /\ Usable(w) /\ Free(sock[w])
    /\ \E p \in Ports :
          /\ \A s \in open : port[s] # p
          /\ port' = [port EXCEPT ![sock[w]] = p]
          /\ NoteAddr(w, <<"local", p>>)
    /\ UNCHANGED <<objects, open, listening, remote, services, listened>>

Connect(w) ==
    /\ Usable(w) /\ Free(sock[w])
    /\ \E addr \in Peers \X Ports :
          /\ remote' = [remote EXCEPT ![sock[w]] = addr]
          /\ NoteAddr(w, addr)
    /\ UNCHANGED <<objects, open, port, listening, services, listened>>

\* Mutant of Listen: the note is made before the system is asked.
ListenNotedFirst(w) ==
    LET s == sock[w] IN
    /\ Usable(w) /\ w \notin listened
    /\ listening' \in {listening} \cup (IF port[s] = 0 THEN {} ELSE {listening \cup {s}})
    /\ listened' = IF platform = "linux" THEN listened \cup {w} ELSE listened
    /\ UNCHANGED <<objects, open, port, remote, services, connaddr>>

\* Linux does not pass on a listen() after the first one.
Listen(w) ==
    LET s == sock[w] IN
    /\ Usable(w) /\ port[s] # 0 /\ w \notin listened
    /\ listening' = listening \cup {s}
    /\ listened' = IF platform = "linux" THEN listened \cup {w} ELSE listened
    /\ UNCHANGED <<objects, open, port, remote, services, connaddr>>

\* What the wrapper of an accepted connection notes: Series 60 takes the port from what
\* the listening wrapper has noted.
AcceptAddr(w, peer) == IF platform = "series60" THEN <<peer, connaddr[w][2]>> ELSE None

\* On Series 60 accept() of a dup() raises IndexError, and the connection is dropped.
Accept(w, peer) ==
    LET s == sock[w] IN
    /\ Usable(w) /\ s \in listening /\ made < MaxSockets
    /\ platform = "series60" => connaddr[w] # None
    /\ made' = made + 1
    /\ open' = open \cup {made'}
    /\ remote' = [remote EXCEPT ![made'] = <<peer, port[s]>>]
    /\ Wrap(made', AcceptAddr(w, peer))
    /\ UNCHANGED <<port, listening>>

\* close(), or the program forgets the wrapper.  (The stopadvertise() in the close() of
\* Series 60 is for a socket that is closed already.)
Close(w, to) ==
    LET s == sock[w] IN
    /\ state[w] = "open" \/ (state[w] = "closed" /\ to = "freed")
    /\ state' = [state EXCEPT ![w] = to]
    /\ \/ /\ \/ state[w] = "closed"
             \/ s \notin open
             \/ \E v \in Wrappers \ {w} : sock[v] = s /\ state[v] = "open"
          /\ UNCHANGED <<open, port, listening, remote, published>>
       \/ /\ state[w] = "open" /\ s \in open
          /\ open' = open \ {s} /\ listening' = listening \ {s}
          /\ port' = [port EXCEPT ![s] = 0] /\ remote' = [remote EXCEPT ![s] = None]
          /\ published' \in {published, published \ ServicesOf(s)}
    /\ UNCHANGED <<platform, made, wrapped, sock, id, listened, advertised, connaddr, table,
                   last>>

-----------------------------------------------------------------------------
(* Services *)

Publish(w, type) ==
    /\ published' = published \cup {<<w, type>>}
    /\ last' = [last EXCEPT ![w] = type]

\* For an OBEX service Linux listens first; if advertising fails then, the socket goes
\* on listening.
AdvertiseOnLinux(w, type) ==
    LET s == sock[w]
        listens == type = "OBEX" /\ w \notin listened
    IN  /\ platform = "linux" /\ Usable(w) /\ port[s] # 0
        /\ listening' = IF listens THEN listening \cup {s} ELSE listening
        /\ listened' = IF listens THEN listened \cup {w} ELSE listened
        /\ \/ /\ s \in listening'
              /\ Publish(w, type)
              /\ advertised' = advertised \cup {w}
           \/ UNCHANGED <<published, advertised, last>>
        /\ UNCHANGED <<objects, open, port, remote, connaddr, table>>

AdvertiseOnSeries60(w, type) ==
    /\ platform = "series60" /\ Usable(w) /\ port[sock[w]] # 0
    /\ Publish(w, type)
    /\ table' = [table EXCEPT ![id[w]] = type]
    /\ UNCHANGED <<objects, system, advertised, listened, connaddr>>

Unpublish(s, types) ==
    /\ \E r \in ServicesOf(s) : r[2] \in types
    /\ published' = {r \in published : sock[r[1]] = s => r[2] \notin types}
    /\ last' = [v \in Wrappers |-> IF sock[v] = s /\ last[v] \in types THEN "none" ELSE last[v]]

\* Mutant of StopOnLinux: the note is removed before the system is asked.
StopOnLinuxForgetting(w) ==
    /\ platform = "linux" /\ Usable(w) /\ w \in advertised
    /\ Unpublish(sock[w], Types) \/ UNCHANGED <<published, last>>
    /\ advertised' = advertised \ {w}
    /\ UNCHANGED <<objects, system, listened, connaddr, table>>

\* All that is advertised on the socket is stopped.
StopOnLinux(w) ==
    /\ platform = "linux" /\ Usable(w) /\ w \in advertised
    /\ Unpublish(sock[w], Types)
    /\ advertised' = advertised \ {w}
    /\ UNCHANGED <<objects, system, listened, connaddr, table>>

\* What the table has under the id of the wrapper is stopped, and stays in the table.
StopOnSeries60(w) ==
    /\ platform = "series60" /\ Usable(w) /\ table[id[w]] # "none"
    /\ Unpublish(sock[w], {table[id[w]]})
    /\ UNCHANGED <<objects, system, advertised, listened, connaddr, table>>

-----------------------------------------------------------------------------
Next ==
    \/ NewSocket
    \/ \E w \in Wrappers :
          \/ Dup(w) \/ Bind(w) \/ Connect(w) \/ Listen(w)
          \/ \E peer \in Peers : Accept(w, peer)
          \/ \E to \in {"closed", "freed"} : Close(w, to)
          \/ \E type \in Types : AdvertiseOnLinux(w, type) \/ AdvertiseOnSeries60(w, type)
          \/ StopOnLinux(w) \/ StopOnSeries60(w)

Spec == Init /\ [][Next]_vars

-----------------------------------------------------------------------------
(* What is checked. *)

\* The service that was last advertised with a socket object can be stopped with it, for
\* as long as it is there: stopadvertise() finds its note, and on Series 60 the note is
\* of this service, whatever failed, was repeated or was done with a dup().
StopReachesService ==
    \A w \in Wrappers :
        Usable(w) /\ last[w] # "none" /\ <<w, last[w]>> \in published
          => IF platform = "linux" THEN w \in advertised ELSE table[id[w]] = last[w]

\* What a wrapper has noted of its socket is true: advertising an OBEX service never
\* leaves out a listen() that is needed, and on Series 60 getpeername() of a connected
\* and getsockname() of a bound socket, where they return anything, return the truth.
NotesAreTrue ==
    \A w \in Wrappers :
        Usable(w) =>
            /\ w \in listened => sock[w] \in listening
            /\ connaddr[w] # None =>
                  IF remote[sock[w]] # None THEN GetPeerName(w) = remote[sock[w]]
                  ELSE GetSockName(w) = port[sock[w]]
=============================================================================
