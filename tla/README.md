# LightBlue in TLA+

Models, model-checking runs and proofs of LightBlue 0.4, a Python 2 library that
gives one Bluetooth API (sockets, device and service discovery, service
advertising, OBEX) on Mac OS X, Linux and Series 60 phones. Paths below are
relative to the repository's root (`src/src/mac/...` is the `mac` package). Line
numbers are in `PROJECT.json`, which maps every definition to the code it models.

## The system

| Part | State it keeps | Operations | What makes it hard | Module |
| --- | --- | --- | --- | --- |
| Receive buffer of a Mac socket (`_StringQueue` in `mac/_bluetoothsockets.py`) | a list of chunks, a string, a flag "empty" | `write`, `read`, `empty`, `__len__` | the last two take no lock; the flag is kept apart from what it describes | `StringQueue` |
| Mac socket, receiving (`recv`, channel callbacks) | buffer, `__closed`, `__commstate`, `__timeout` | `recv`, `_handle_channeldata`, `_handle_channelclosed`, `shutdown`, `settimeout`, `setblocking` | callbacks run in the event loop between the tests of a waiting call; early data; two close notices or none | `SocketStream` |
| Mac event loop (`mac/_macutil.py`) | one event queue for the application | `waituntil`, `interruptwait`, `looponce`, `waitfor` | every wait takes any notify event, tests only its own condition, and never tests it again without an event | `SocketStream`, `BluetoothSockets` |
| Mac socket, sending | `__commstate`, `__timeout`, channel | `send`, `sendall`, `sendto` | several threads; time-outs and errors after part of the data was written | `SocketSend` |
| Mac socket, life cycle | the bound ports (shared by all sockets), a listener, a backlog of channels, a channel | `socket`, `dup`, `bind`, `listen`, `accept`, `connect`, `close` | tests and changes of shared state are not atomic; `dup` shares the object that `close` takes apart | `BluetoothSockets` |
| Mac service advertising (`mac/_lightblue.py`, `BBServiceAdvertiser.m`) | published records; handles noted by `id(sock)` | `advertise`, `stopadvertise` | fails after the record was published | `BluetoothSockets` |
| Linux and Series 60 sockets, with their services (`_SocketWrapper`) | what a wrapper has noted of its socket; a table by `id(sock)` | all socket calls, `advertise`, `stopadvertise` | notes kept apart from what they describe; failing calls, `dup`, reused ids | `WrappedSockets` |
| Inquiry, SDP queries, names (`_lightblue.py` of each platform) | flags that callbacks set; caches of the system | `finddevices`, `findservices`, `finddevicename`, `selectdevice`, `selectservice` | the operation is started before its flags are initialised; answers and inquiries outlive the call; caches | `Discovery` |
| Selection windows of Linux (`linux/_discoveryui.py`) | lists, selection, alarms, two buttons | search, pick, choose, cancel | handlers nest inside `update()` | `LinuxDiscoveryUI` |
| Mac OBEX client (`mac/_obex.py`, `BBBluetoothOBEXClient.m`, `BBOBEXRequest.m`) | current request, abort flag, connection id; `__busy` | Connect, Disconnect, Put, Get, SetPath, Abort | responses, errors and a closed channel may all end one request; abort waits its turn | `MacObexClient` |
| Mac OBEX server (`BBBluetoothOBEXServer.m`, `BBOBEXRequestHandler.m`, `recvfile`) | current handler, collected headers, flags of `run` | one handler per request type | aborts, and errors while answering, leave handlers behind | `MacObexServer` |
| Linux OBEX client (`linux/_obex.py`, `lightblueobex_client.c`) | `busy`, sticky `error`, file object | `request` and its events | `busy` and `error` survive a failure | `LinuxObexClient` |
| Linux OBEX server (`linux/_obex.py`, `lightblueobex_server.c`) | notified, has body, file object; `__gotfile`, `__busy`, `__error` | OpenOBEX events, `run` | events out of order, errors while writing | `LinuxObexServer` |
| Series 60 OBEX (`series60/_obex.py`) | the files it moves | `sendfile`, `recvfile` | failure or the end of the program after a rename | `Series60Obex` |
| OBEX header sets (`BBMutableOBEXHeaderSet.m`, `BBOBEXHeaderSet.m`, `lightblueobex_main.c`) | header id to value | encode, decode | length arithmetic | none |
| Package front ends, packaging, examples | | | nothing of their own | none |

How they interact: an application thread calls the API; IOBluetooth delivers
channel data, closes and new channels as callbacks of the run loop; a callback
changes the socket and posts a notify event (`interruptwait`), which the call that
runs the loop (`waituntil`) dequeues before it tests its condition. Binding and
advertising share the system's SDP records: a port is found by publishing a record
and withdrawing it. OBEX on the Mac sits on the same loop, through delegates of the
LightAquaBlue framework; its client and its server meet on a channel. On Linux the OBEX
classes wrap OpenOBEX through a C extension whose events call back into Python. The
selection windows run an inquiry and service queries inside their own event loop.

What must hold of each part:
- buffer and `recv`: a byte stream; nothing lost, doubled, swapped or withheld; an
  end of stream only at the end; whoever can go on is woken.
- `send`: each call's data in order and once; what is refused was not sent.
- life cycle: a port belongs to one socket; a client reaches the socket it dialled,
  once; a blocked call ends when what it waits for has happened.
- advertising: a service leads to its socket, can be stopped, and ends with it.
- OBEX: one request at a time, each with one outcome; a failed request leaves the
  session usable or closed; a file is reported received only when it was; files that
  were there before are not lost.
- discovery: an inquiry ends and reports what is there at the time or an error; a
  window answers its user whatever handlers were nested.

The hazards behind these are listed in `PROJECT.json`, each at its line, with the
properties about them. Others that were met and have no property:
- `shutdown` overwrites the state, so that SHUT_RD followed by SHUT_WR opens reading
  again (`mac/_bluetoothsockets.py`, 597);
- `close` of a listening Mac socket leaves the channels of its backlog open, with no
  object that could close them (330);
- `connect` of the Linux client that raises because of its headers leaves the C client
  in place (`linux/_obex.py`, 61);
- after an abort the handler of the Mac server stays, and the next request of another
  kind is answered as an error (`BBBluetoothOBEXServer.m`, 201); the model has this;
- length arithmetic of headers (`BBMutableOBEXHeaderSet.m`, 274).

## Modules

| Module | Models |
| --- | --- |
| `StringQueue` | `_StringQueue` as operators on a record of its three fields |
| `ByteStream` | what `recv` promises, abstractly: bytes are added at the end and taken from the front, the end is reported at the end |
| `SocketStream` | `recv`, the callbacks that feed it and the event loop, for a set of sockets and callers |
| `SocketSend` | `send`, `sendall` and `sendto` of one connected Mac socket, for a set of threads |
| `CarriedCalls` | what `send` promises: where the channel has the data of each call; `SocketSend` extends it |
| `BluetoothSockets` | creating, duplicating, binding, listening, accepting, connecting, closing and advertising on the Mac, for a set of threads |
| `WrappedSockets` | the socket wrappers of Linux and Series 60 and the services advertised on them |
| `Discovery` | finding devices, services and names, and choosing them, on the three platforms |
| `LinuxDiscoveryUI` | the windows of `selectdevice` and `selectservice` on Linux |
| `SelectionWindow` | what those windows promise, over the variables it concerns; `LinuxDiscoveryUI` extends it |
| `LinuxObexClient` | the OBEX client of Linux: the Python class, the C client below it, and as much of OpenOBEX and the server as they see |
| `LinuxObexServer` | `recvfile` on Linux: the push server in Python and C, against any client |
| `MacObexClient`, `MacObexServer` | the two ends of an OBEX session on the Mac |
| `MacObexSession` | their composition over a link that may break; the server may be another one |
| `Series60Obex` | what `sendfile` and `recvfile` of Series 60 do to the phone's files |
| `SocketStreamProofs`, `BluetoothSocketsProofs`, `WrappedSocketsProofs`, `DiscoveryProofs`, `LinuxObexClientProofs`, `LinuxObexServerProofs`, `MacObexSessionProofs`, `Series60ObexProofs` | theorems about the modules of those names; `SocketStreamProofs` also about `StringQueue` and `SocketSend`, `DiscoveryProofs` also about `LinuxDiscoveryUI` |
| `MCSocketStream`, `MCBluetoothSockets` | instances with sets of model values; the other modules are instantiated by their `.cfg` alone |

Every module begins with what it assumes of the external system beneath it (IOBluetooth,
PyBluez, OpenOBEX, PyS60, Tk).

### StringQueue and SocketStream

`queue[s]` is `__incomingdata`, `closed`, `commstate`, `timeout` the fields of those
names; `arrived`, `dropped`, `listening`, `chanOpen`, `notices` describe the channel
and its delegate, `notify` counts the notify events in the event queue. The chunks of
the list are kept joined, since nothing depends on where one ends. Every byte is its
position in what the remote device sends, so order and loss can be seen.

Each statement of `recv` that looks at or changes shared state is an action:
`Recv` (line 438 on), `TestClosed`, `Drain`, `Poll`, `Test`, `Retest`, `TakeNotify`,
`TimeOut`, `Woken`, `Read`; `pc[r]` says which is next. The data callback is three
actions, because `empty()` and `len()` may run between the two statements of `write`,
and `interruptwait` comes after both: `ChannelData`, `MarkData`, `InterruptWait`. A
channel closes after its data has arrived and gives one or two notices
(`ChannelClose`, `HandleClosed`). `DropData` is data that comes before `accept`:
the delegate then is the server's listener and has no method for it. A caller is a
thread, or a nested call in one thread.

`looponce` does not appear as an action: it lets callbacks run, and they may run
between any two actions. Time is left out: a `settimeout` in force lets a wait time
out at any moment (`TimeOut`), as `waituntil` returns then without testing its
condition.

### SocketSend

`stream` is what has been written to the channel, each byte as its call and its position
in what that call was given; `taken` is how much of it the remote device has taken. A
call goes from "start" (`Send`: the test of `__commstate`) to "setup" (`Setup`: the mode
is looked at, and a socket that does not block is refused if the transmission is paused),
then round the loop of `Check` (the time-out) and `Write` (one chunk of at most the MTU)
until nothing is left (`Return`). The other threads, `settimeout`, `shutdown` and a close
come between any two of these. `writeSync` waits for room: `Write` is enabled when there
is room or the channel is closed (`ConnWrite`).

### BluetoothSockets

A wrapper (`_SocketWrapper`) has its object in `sock[w]`, 0 once closed; `port`,
`eventlistener`, `channel`, `queuedchannels` are fields of the object `s`, and
`boundports` is `_boundports`. A listener is "off" when `close` has unregistered it:
the object still counts as listening, as in the code. `published[p]` is the owner of
the SDP record for port `p`, `advertised[w]` the record noted in `__advertised`.
`dialled`, `opening` and `open` describe connections; `opening[c]` are the listeners
that are still to be told of `c`.

`bind` is four actions (publish a record, withdraw it, test the port, reserve it).
`accept` is a test without the lock, a wait, a pop and the making of the new socket.
`close` is the object's part, half a second in the event loop, and the wrapper's part.
`connect` opens the channel and registers for its events, spends half a second in the
event loop and returns; the half second is in three actions that both share. Ports are
assigned by the system: any that no record holds, so a port another program has taken is
one that is not assigned. Calls that raise before they change anything are no step.

### WrappedSockets

`open`, `port`, `listening`, `remote` and `published` are the system's; `sock[w]`,
`listened`, `advertised` and `connaddr[w]` the fields of a wrapper (`_sock`, `_listening`,
`_advertised`, `_connaddr`), `table` the dictionary `__advertised` of Series 60, which
has the id of an object as its key: `id[w]`, free again once the object is "freed".
A call that fails in the system changes nothing, but where the code has changed something
before it: on Linux `advertise` of an OBEX service listens first. Neither wrapper hands on
what it has noted to a `dup` or to an accepted socket (on Linux). On Series 60 `accept`
of a `dup` raises IndexError (141), `close` closes the socket before it stops its
services (157), and of two services on one socket the first cannot be stopped any more.

### Discovery

One call at a time (`call`), on a `platform`; `offered` and `name` are what the devices
have at this moment, `cache`, `updated` and `known` what the system believes. A call of
the Mac starts an inquiry or a query (`Started`) and waits; `DeviceFound`, `InquiryComplete`
and `QueryComplete` are the callbacks, which may belong to an inquiry or query of an
earlier call that was interrupted or timed out. `LookUp`, `LookAtCache`, `Queried`,
`AllLookedAt` are the loop of `findservices` over devices; a failed query is a warning on
the Mac, skips the device on Series 60 and raises on Linux. `CallName` and what follows
is `finddevicename`, `CallSelect` with `MacDialog`, `Series60Dialog` and `Choose` are the
dialogs. The history variables `since` and `names` hold what was true since the call
began. On Linux the class of a printing service is not one of those taken for OBEX: with
"print" among `Services` the module's `ServicesCurrent` fails there, since the filter and the
protocols disagree. A malformed address raises TypeError on the Mac and ValueError
elsewhere, before anything changes.

### LinuxDiscoveryUI

`stack` holds the handlers that are in the middle of something, the innermost last: a
search (from "disabled" to "retracking") or the pick of a device. While one calls
`update()`, `ClickItem`, `Alarm`, `ClickSelect`, `Cancel`, `Destroy`, `DoubleClickDevice`
and `ClickSearch` may run. `alarms` are the chains of `after` calls that track the selection; the
window notes only one of each list. Things the model shows that no property excludes:
Select is enabled with nothing selected (381, 439); closing the window at 227 starts an
inquiry for a window that is gone; a search that raises leaves Search disabled and tracking
off (383, 294); a nested pick may show the services of the device picked before (443); a
nested search lists devices twice.

### LinuxObexClient

`client` and `connectionid` are fields of the Python object, `busy`, `error`, `fileobj`
and `resp` those of the C client; instead of true or NULL they hold the number of the
request that has set them, so that what belongs to another request can be told. `size`,
`taken` and `moved` count the chunks of a body: all of it, what its source has supplied,
what was handed on.

`Call` is the Python method up to its request, with `SetUp` if a connection is needed;
`BadHeaders`, `Refuse`, `SendFails` and `Send` are the ways the request begins or does not;
the loop around `OBEX_HandleInput` is one action per event and result. A "more" leads to
a call of the file object, in which Python code runs, so this is a state of its own
("callback"), where `NestedRequest` and `NestedDisconnect` may happen. `Return` is the end
of `request` with the code of the Python method that follows it. There is one
calling thread; `OBEX_HandleInput` is called with the interpreter lock held, so that other
Python code runs only in the file object. Left out: a new connection made
from inside a file object, and events of the library that the code ignores.

### LinuxObexServer

`server` is a record of the fields of `OBEXObjectPushServer` and of the C object,
`server.written` the file, `server.refs` the references to the file object taken less
those dropped. OpenOBEX reads a packet and raises its events in one call of `process`, in
which nothing else runs; so a packet is one action (`HandlePacket`, `HandleAbort`,
`ParseError`, `LinkError`, `AnswerFails`, `TimeOut`) and the event handlers are operators
on the record. A Put whose body OpenOBEX cannot stream is refused at its first packet
(`IncomingRequest`), without an error that `run` would see. The client is `sendfile` of the
package or one that does as it likes. `undone` notes that a request has ended without its
last event, by an abort, by garbage, by a broken link or because the answer could not be
sent: from then on references may be dropped twice, at the start of the next request but one
(see the findings).

### MacObexClient, MacObexServer and MacObexSession

The client: `c` has the fields of `BBBluetoothOBEXClient` and of the Python `OBEXClient`,
`call` is the method that runs, `told[n]` what was said of request `n`. `Begin` sends the first packet;
`Continue`, `PerformAbort`, `FinalResponse`, `BadResponse`, `IgnoreResponse` handle a
response; `SessionError` is an error of the transport or of the session; `Return` is the
method going on when the loop finds `__busy` false. The server: `server` has the fields of
`BBBluetoothOBEXServer`, its current handler and the flags of `run`; operators on a record
of server, file and notify events (`State`) are the methods in the order they call
each other; `HandleRequest`, `ResponseFails`, `HandleAbort`, `ChannelClosed`,
`SessionFails` are the events of the session and `Wake`, `TimeOut` the waits of `run`.
The session is both over one packet and one response, and a link that `LoseLink` breaks.
Another server (`foreign`) answers any packet with any code, Continue among them, also with
bad headers. Continue to a Delete ends it with an error, to a Connect, SetPath or Disconnect
it changes nothing and the request goes on waiting, to an Abort it makes the client send
another.

`FinishedCurrentRequest` tells the delegate and releases the request in one step. The delegate
of the Python class does nothing that could be seen between the two (it sets three fields and
posts an event). What another delegate may do there is `RequestInDelegate`: it makes its next
request, which is released in place of the old one, so that no event finds it; its method is
"orphaned". No request of the Python class becomes one.

Met on the way: a second `connect` closes the working channel (165); when reading fails in
the middle of a Put the client says nothing more, and both sides wait until the link
breaks; the third wait of `run` (487) has no end when the response to a Disconnect cannot
be sent, or when a Put follows the Disconnect on the same channel, which `RunEnds` leaves out.

### Series60Obex

`files` maps the names the code may use to what is in them: 0 the user's file, `n` what call
`n` has received, `-n` a part of it. `Look`, `Move`, `Receive`, `PutBack`, `Received` are
`_recvfile`, `Copy`, `Clean` and `Send` the rest; after each the program may end
(`Crash`). Nothing else touches these files: that another program takes a name between the
test and the use of it (124) is left out. `PutBack` is the `except` of `_recvfile`: moving the
original back may fail, because something is in its place or for another reason; it then stays
under its temporary name (`call.stranded`), and OBEXError is raised by the `finally` (115).
`excused` says that a failure happened which the code does not clean up after: an exception
other than `_socket.error` leaves the original moved (106), a part of a file that was received
stays at the path (111), a file cannot be removed (57, 83, 119), or the
program ended. A failing `PutBack` is not among them: `LeavesAsFound` says where the file is
then. `NothingLost` has no excuse.

## Runs

| Run | Result | Question |
| --- | --- | --- |
| `stream` | passes, 279,000 states | does the receive path implement a byte stream, with no lost wakeup and no false end |
| `stream_data_wait` | violated | does a waiting `recv` return when bytes are buffered |
| `send` | passes, 1.0 million states | does each call's data go out in order, once, and all of it; do calls end |
| `sockets` | passes, 3.2 million states | are ports, listeners, clients and services consistent for one thread without `dup` |
| `sockets_waits` | passes, 810,000 states | do `accept` with a client, `close` and `connect` end, for one thread, with `dup` |
| `wrapped` | passes, 1.5 million states | do the notes of the Linux and Series 60 wrappers stay true, can services be stopped |
| `discovery` | passes, 1.6 million states | are devices, services and names those of the time of the call, do calls end |
| `linux_ui` | passes, 480,000 states | do nested handlers leave a window that works, does a closed window let go |
| `linux_client` | passes, 170,000 states | do replies, files and connection ids stay with their request, is OK said of whole bodies only, do calls end |
| `linux_server` | passes, 180,000 states | is OK said of received bodies only, are references balanced, does `recvfile` end |
| `mac_obex` | passes, 1.0 million states | has each request one end, told to the method that waits for it, is OK said of received bodies only, do abort and both ends finish |
| `series60_obex` | passes, 6,900 states | is no file lost, whatever fails and wherever the program ends |

Properties of `stream`: `StreamInOrder` (what was returned and what is buffered is
what arrived, in order), `NoLostWakeup` (a caller that waits although its condition
holds has a notify event coming), `ResetMeansAllRead` (ECONNRESET only when the
remote device has closed and everything was returned), `CloseEndsRecv` (after a
close that is noticed every `recv` ends), `ImplementsByteStream` (refinement of
`ByteStream`).

Of `send`: `EachCallInOrder` (of every call the channel carries a part from the start, its
positions in order and once each, whatever the other threads write; all of it when it returns, nothing when
it is refused), `SendEnds`.

Of `sockets`: `PortExclusive`, `OneOwner` (a connection is in one place only),
`OnlySocketErrors` (no pop from an empty backlog), `ServiceLeadsHome` (an accepted service
is served by its socket alone), `NoOrphans` (no connection stays open after its socket is
closed). These are about one thread without `dup`, so that they say nothing of two threads in
`accept` or `bind`, nor of `close` of a duplicate: there the code fails (below). Of
`sockets_waits`, where `connect` is among the calls: `ClientEndsAccept` and `SleepEnds`
(`close` and `connect` return from the half second in which they run the event loop, whatever
comes meanwhile; of one thread, since with two the event of the timer may be taken by the wait
of the other).

Of `wrapped`: `StopReachesService` (the service last advertised with an object can be
stopped with it), `NotesAreTrue` (`advertise` never leaves out a `listen` that is
needed; on Series 60 `getpeername` of a connected and `getsockname` of a bound socket
return the truth, if they return).

Of `discovery`: `ServicesCurrent` (what `findservices` returns of a device is what it offered at
one moment of the call, as far as it matches, or what the Mac had asked for within two
seconds before), `NameCurrent`, `InquiryOver` (no call returns normally before its own
inquiry is over), `FindEnds`.

Of `linux_ui`: `OneSearch` (of nested searches one at most adds devices), `Usable` (when all
handlers are done, and none has raised, Search is enabled and every list is tracked),
`WindowCloses`.

Of `linux_client`: `OwnReply` (a response answers the request it is returned
for, though earlier requests were given up while their reply was due), `NoFileLeft` (a
`delete`, which is a `put` without a file, never finds one), `ConnectionIdCurrent` (an id
does not outlive its connection), `OkMeansWhole` (OK is returned only for a body moved to
its end), `CallEnds`. Of `linux_server`: `PutIsReceived` (a Put the client was told is OK is
in the file, whole and in one piece, and `sendfile` that returns normally meets a `recvfile`
that does), `ReferencesBalance`, `RunEnds`.

Of `mac_obex`: `FinishedOnce` (an action property: whenever the delegate is told of an end, it
is the first of that request, which is the one made last, its method waits, and it waits no
longer; so a late answer or error, after the method has returned or raised, tells nothing),
`PutIsReceived`, `AbortedAsAsked` (an abort ends the request it was asked for, and its file is
not taken for received), `CallEnds` (when the link is gone a method that waits returns, unless
its request was made in a delegate), `RunEnds`.

Of `series60_obex`: `NothingLost` (what the user had at the path, or was told is received
there, is in some file at any moment), `LeavesAsFound` (a call that returns leaves no other
trace than the file it has received, and if the original could not be put back, that file
whole under its temporary name, nothing in its place, and OBEXError).

Every module's `TypeOK` was model-checked on these instances too; `stream` and
`linux_client` keep it as the base of proofs.

### Bounds

Three bytes with sizes 1 and 2 reach every combination of list and string of the receive
buffer (joined, partly read, unread), including a read that empties the string while the
list is full; time-outs and shutdowns of every kind are included. `send`: two threads, a
size that fits one chunk and one that needs two or three, a channel that holds two bytes, so
that a chunk waits for room.

Three sockets are a server, an accepted socket and one more that binds or connects; two
ports are needed for an assigned port to differ from the socket's; `sockets` has one
connection and `sockets_waits` two, so that a backlog can hold more than one. `wrapped`: two
sockets and three wrappers are a listening and an accepted or connected socket and a `dup`;
two ids make a third wrapper meet the id of one that was freed.

Two calls of `discovery` are a first one and one that meets what the first has left:
a cache, a name, an inquiry, a query; two devices let one answer while the other is looked
at; one change is before, during or after either call. In `linux_ui` three nested handlers
are a search, a pick in it and a search in that; one device with one service is listed
several times by then.

Four requests on two connections of `linux_client` are enough for a request to be given
up, another to be made while its reply is due, and the connection to be closed and opened
again between them; three requests of a server are a Connect, a Put and what follows, or
two that meet what an aborted one has left; two chunks have a first, a last and an end after
them. Three calls of `series60_obex` let a call meet the files of two that crashed.

`MaxSent`, `MaxSockets`, `MaxWrappers`, `MaxRequests`, `MaxClients`, `MaxChunks`, `MaxCalls`,
`MaxChanges`, `MaxServices`, `MaxFrames`, `MaxItems`, `MaxSearches`, `Room` and the sets of
channels, ports, ids and devices are the only bounds and stand in guards. `CHECK_DEADLOCK
FALSE` stands where the program may stop: when the bounds are used up all sockets may be
closed and all calls made.

### Fairness

Of a thread that is inside a call: weak fairness of its steps, since the
operating system runs it. Of the Mac's event loop: it delivers what has reached this side,
finishes the callbacks it has begun and fires timers; `waituntil` and `looponce` run it
for as long as anyone waits. Nothing is assumed of the remote device, of time-outs or of
the application, but for `send`: the remote device goes on taking data, or the channel
closes. `linux_client`: the thread runs, files return from `read` and `write`, and
`OBEX_HandleInput` returns when there is a reply or the time is up. `linux_server`: `process`
returns, with a packet or when its time is up. `mac_obex`: each side's event loop handles
what is there. Nothing is assumed of the peer in any of the three; a body is finite.
`discovery`: the call goes on when it can, and an inquiry ends (`Complete`), as the systems
promise; a query need not be answered, since the Mac waits ten seconds at most, and a user
need not answer. `linux_ui`: a handler that is in the middle of something goes on, and an
inquiry ends.

### Where code and documentation disagree

All are quoted in `PROJECT.json`. `stream_data_wait`: the flag of the buffer says empty while
the list holds data (`read`, line 155), and `recv` waits with bytes to return. The others have no run of their own; an instance that shows
them is that of the run they are listed under with one change:

| Change | Violated | Why |
| --- | --- | --- |
| `SocketStream.cfg` with `Sockets <- TwoSockets`, `Readers <- TwoReaders` | `NoLostWakeup` | a wait takes the notify event of another (`waituntil`) |
| `BluetoothSockets.cfg` with `Dups = TRUE` | `PortExclusive` | `close` of a duplicate frees the port |
| `BluetoothSockets.cfg` with `Threads <- TwoThreads` | `OnlySocketErrors` | two acceptors race for one client |
| `BluetoothSocketsWaits.cfg` with `Threads <- TwoThreads`; to see it soon also `Channels <- OneChannel`, `MaxSockets = 2`, `MaxWrappers = 2`, `Dups = FALSE` | `SleepEnds` | a wait takes the event of the timer for which another thread's `close` or `connect` sleeps |
| `BluetoothSockets.cfg` with `INVARIANT ServiceGoneAfterClose` | that | a record of a failed `advertise` stays |
| `LinuxObexClient.cfg` with `INVARIANT FailureIsOwn` | that | the error is never reset (`seterror`, line 62): after one failure a client fails until `disconnect` |
| `MacObexSession.cfg` with `INVARIANT ReturnsWithFile` | that | a Put whose data could not be written counts as received |
| `MacObexSession.cfg` with `INVARIANT GetIsWritten` | that | a failed write of a Get is only logged |
| `MacObexSession.cfg` with `ShortReads = TRUE` | `PutIsReceived` | a short read of a file object is taken for its end; `read(n)` of a pipe or a socket file may be one |
| `MacObexSession.cfg` with `"orphaned"` left out of `CallEnds` | that | a request made by a delegate that is told of an end is released in place of the old one |
| `Discovery.cfg` with `EarlyCallbacks = TRUE` | `FindEnds` | a callback that comes before the flags are set is overwritten |

The rest is plain from the model's actions: `recv` raises at the end of the stream where
its doc says it returns the empty string; `settimeout(None)` raises under Python 2; a
time-out set during a `send` makes it raise UnboundLocalError; an inquiry that fails on
Series 60 never ends; the stopped service of Series 60 stays noted; and so on. `connect` on
a connected Linux client sends a second Connect, where its doc
(`linux/_obexcommon.py`) says it raises. A call made by a file object drops the file of
the running request, against the comment in `obexclient_feedstream`; the request then
fails, which `OkMeansWhole` includes.

## Proofs

All theorems are for arbitrary constants, under the assumption the modules name
(`StreamAssumption`: sizes are positive, modes are of the three kinds; `SocketsAssumption`:
ports are positive and 0 is no channel, as it stands for none; `ClientAssumption`,
`ObexClientAssumption`, `PushAssumption`, `DiscoveryAssumption`, `WrappedAssumption`, `FilesAssumption`: bounds are
numbers, ports are positive, services are of the four kinds; `SendAssumption`: an MTU is
positive and no more than the channel has room for; `UIAssumption`: bounds are numbers).
The last two are hypotheses of the theorems they serve, which are about an instance of
their module and share the variables that `CarriedCalls` and `SelectionWindow` declare, so
that what they prove is what the runs check. A theorem that needs more says so in its
statement: that there is one caller or thread, that `dup` is not called, that no device
offers printing, or that `read(n)` of a file returns less than `n` bytes only at its end.
Each of these is needed; what happens without it is below.

- `SocketStreamProofs`: of the buffer, `ReadSplits` (what `read` returns followed by what it
  leaves is what was there) and `ReadSize`, from facts about concatenation and slices.
  Of the sockets, `Inductive` proves `IInv`, the conjunction of `TypeOK`,
  `ChannelInv`, `ReaderInv` and `StreamInOrder`. The properties are not inductive by
  themselves. `ChannelInv` says how far data has come when a channel is closed, and what
  a running callback may find; `ReaderInv` says what each step of `recv` may rely on: a
  caller at "drain" or with outcome "reset" has a closed channel with nothing still to
  arrive. From it `TypeCorrect`, `BytesInOrder`
  (`StreamInOrder`) and `ResetOnlyAtEnd` (`ResetMeansAllRead`) follow.
  `NoWakeupLost` proves `NoLostWakeup` assuming one caller (`OneCaller`), without which it
  is false.
  `RecvImplementsByteStream` proves the refinement `ImplementsByteStream` for one caller,
  with all bytes a socket was given, returned or buffered, as the abstract stream. A second
  caller can take what the first was woken for, whose `recv` then returns nothing: no step
  of a byte stream. Two more invariants carry it: `BufferInv` (the flag of a buffer says
  that there is data only if there is, once `write` is done) and `CallerInv` (what a caller
  has seen, data or a closed channel, is still so at its next step, so that one at "read"
  finds a byte). `StepImplements` maps each step: `ChannelData` adds at the end
  (`DataDelivers`), `Read` takes the next bytes (`ReadGets`, from `ReadSplits` and
  `ReadSize`), the errors take nothing (`ResetEnds`, `GivesUp`), and the rest are stutters,
  the second half of `write` among them.
  Of `SocketSend`, `SendInductive` proves `SendInv`, from which `CallsAreCarriedInOrder`
  (`EachCallInOrder`) and `SendTypeCorrect` follow, for any senders, sizes and MTU. `Facts`
  says of a call that the channel carries exactly what is not left of it, and that nothing
  was written before its loop or if it was refused: `EachCallInOrder` alone says only that
  some start of the data is there, not that the next chunk follows it. `SendInv` adds that
  no two threads are in one call and that the channel has nothing of a call to come, so that
  what one thread writes changes nothing of what is carried of another's call. A chunk
  behind the stream (`Behind`) is the one step that needs an argument about positions.
- `BluetoothSocketsProofs`: `Inductive` proves `IInv` in three layers. The first holds with
  any number of threads and with `dup`: types, what the local variables of a call are
  (`CallInv`), that objects not made yet are blank, that an unmade connection is nowhere,
  and that only a listening, bound socket is told of one. The second is under `OneThread`:
  a socket is bound or connected, not both (`BoundInv`), `close` closes the connection
  before the wrapper lets go of the object (`OrphanInv`), a service has the port of its
  socket. From it `ConnectionsEndWithSockets` (`NoOrphans`) and `AcceptRaisesSocketErrors`
  (`OnlySocketErrors`). The third is under `Serial`, one thread and no `dup`: bound ports
  are in the table until `close` gives them back, and then its wrapper is the only one left
  (`PortsInv`); a connection is in one of `opening`, a backlog, `accept`, a socket
  (`PlacesInv`). From it `PortsAreExclusive` (`PortExclusive`), `ConnectionsHaveOneOwner`
  (`OneOwner`) and `ServicesLeadHome` (`ServiceLeadsHome`). With two threads TLC finds all
  five violated; with one thread and `dup` it finds the last three violated, and the first
  two hold.
- `DiscoveryProofs`: `Inductive` proves `IInv`: where each call may be (`PcInv`), that a call
  has at most one inquiry, and none when it goes on (`InquiryInv`), that what a query can
  answer or the cache holds was so since the call began (`SinceInv`), that each device that
  was found and is not still to do has failed or has exactly the services wanted of one such
  moment (`FoundInv`), and the same of names (`NameInv`). From it `TypeCorrect`,
  `InquiriesAreOver` (`InquiryOver`), `NameIsCurrent` (`NameCurrent`) and
  `CurrentWhereTold`, of which `ServicesAreCurrent` (`ServicesCurrent`) is the case that no
  device offers printing: Linux takes such a service for one of RFCOMM.
  Of `LinuxDiscoveryUI`, `WindowInductive` proves `UIInv`, for any depth of nested handlers;
  from it `SearchesDoNotMix` (`OneSearch`), `WindowsStayUsable` (`Usable`) and
  `WindowTypeCorrect` follow. `OneNoted`: at most one search in progress is the one the
  window notes, and none of the others goes on; without it a new search, which stops only the
  one that is noted, could leave another one going. `Restored`: as long as the window is there and
  no handler has raised, a list without an alarm has a handler in progress that will set one
  (`Rearms`: a search that has not yet done so, the pick an alarm has made), and the search
  button is enabled when nothing is in progress or a search is at its end. `Usable` speaks of
  the moment when all handlers are done, and says nothing of who sees to it.
- `LinuxObexServerProofs`: `Inductive` proves `IInv`. `ClientInv`: of the request in progress
  a packet or an answer is on its way, not both. `FileInv` says for each of these how the
  file ends: with the chunks of the request so far (`EndsWith`), and has no others of it;
  and that what was answered OK is there in one piece. `ReferencesInv`: unless a request has
  ended without `OBEX_EV_REQDONE`, the server holds one reference while it has a file
  object, which is only in the middle of a request, and none otherwise. `RunInv` ties what
  `run` does to whether there is a file. From it `TypeCorrect`, `ReferencesAreDropped`
  (`ReferencesBalance`) and `PutsAreReceived` (`PutIsReceived`).
- `LinuxObexClientProofs`: `Inductive` proves `IInv`, from which follow `TypeCorrect`,
  `RepliesAreOwn` (`OwnReply`), `FilesAreDropped` (`NoFileLeft`), `ConnectionIdIsCurrent`
  and `OkIsWhole` (`OkMeansWhole`). Its core is that `busy` keeps requests apart: a
  request that waits has exactly one packet or reply on its way, its own (`Waiting`), and
  while `busy` is not set there is none (`Apart`). `GoodPacket` and `GoodReply` say what
  the one on its way tells of the body, up to an error. Assumed is, as in the model, a
  server that answers each packet once.
- `MacObexSessionProofs`: `Inductive` proves `IInv`. `CallInv`: a request is in progress only
  while a method waits for it with `__busy` set, which is also set for an "orphaned" one; `TimesInv`: of a request in progress or to come the delegate has been told no end, of
  any other one at most. `LinkInv`: of the request in progress a packet or a
  reply is on its way, not both, and what else is on its way belongs to requests that have
  had an error, of which the server still handles what arrives. `ServerInv`: the handler that
  stays after an abort is that of a Put, with its flags reset. `GotInv`: when the handler is
  in the middle of a Put, or `run` has its file, there is a Put that has not been aborted and
  cannot be any more: an abort waits for a reply that says Continue, and that is gone.
  `FileInv`, where files are read in full, says how the file ends for what is on its way, and
  that what was answered OK is there in one piece. From it `TypeCorrect`,
  `RequestsFinishOnce` (`FinishedOnce`, an action property: every step that tells of an end has
  a request in progress, by `TellsInTurn`, and `CallInv` and `TimesInv` say the rest of it),
  `AbortsAreAsked` (`AbortedAsAsked`) and
  `PutsAreReceived` (`PutIsReceived`). The server's handlers are functions on a record of
  its state; what each does to the fields that matter is a lemma (`ErrorFields`,
  `NotifyFields`, `PutFields`, `ResponseFields`), and `Handled` sums up one packet.
- `WrappedSocketsProofs`: `Inductive` proves `IInv`, the conjunction of `SocketsInv` (a
  socket is bound or connected, not both; only an open, bound one listens; what is not yet
  made is free), `ServicesInv` (objects that have not been freed have different ids; on
  Linux the wrapper of every published service has its flag; on Series 60 the table has,
  under the id of an open wrapper, the type it last advertised) and `NotesInv` (what a
  wrapper notes of listening and of its address). The disjointness of ids is what
  `StopReachesService` needs: as long as an object is there, no other writes its entry in
  the table, and a later one at the same address writes it anew when it advertises. From
  `IInv` follow `TypeCorrect`, `ServiceCanBeStopped` (`StopReachesService`) and `NotesTrue`
  (`NotesAreTrue`).
- `Series60ObexProofs`: `Inductive` proves `IInv`, the conjunction of the types, `WorkInv`
  (what may be at the path the call works on, and where a file that was there has gone) and
  `NothingLost`; `NoFileLost` and `TypeCorrect` follow. `Trace` adds what is left to undo
  at each point of a call, and of a call that could not put the original back that it is under
  its temporary name; with it `FilesAreAsFound` proves `LeavesAsFound`, with that case in it.

The proofs cite one lemma per action or group of actions. Each invariant was model-checked
before it was proved.

Only model-checked: all liveness (`CloseEndsRecv`, `SendEnds`, `ClientEndsAccept`,
`SleepEnds`, `FindEnds`, `WindowCloses`, `CallEnds`, `RunEnds`), since `ENABLED` and fairness
are out of the prover's reach. Every safety property of the runs that pass is the statement
of a theorem.

## Not modelled

- Header sets: their encoding keeps no state. The OBEX modules have whether the headers of a
  request can be written or read.
- `gethostaddr`, `gethostclass` and `BBLocalDevice`: they read the local device.
- `send` and `recv` of Linux and Series 60: those of PyBluez and PyS60.
- The C++ extensions of Series 60, the Objective-C adapters that forward a call to one
  method, layout and wording of windows, packaging, examples.
- L2CAP servers: the code has none.

## Plan

Done: the modules above; the proofs about receiving and sending, the life cycle of sockets,
the wrapped sockets, discovery and its windows, OBEX on Linux and the Mac, and the files of
Series 60. Left: a module of header encoding as functions on short byte strings.
