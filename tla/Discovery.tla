------------------------------ MODULE Discovery ------------------------------
(***************************************************************************)
(* finddevices(), findservices() and finddevicename() on the three         *)
(* platforms, and selectdevice() and selectservice() on two of them: the   *)
(* modules _lightblue of src/src/mac, src/src/linux and src/src/series60.  *)
(* They block, over inquiries, queries and name requests that the system   *)
(* carries out on its own, and over its dialogs; inquiries and queries may *)
(* outlive the call that has started them.                                 *)
(*                                                                         *)
(* The system (IOBluetooth, PyBluez, PyS60) is external.  Assumed of it:   *)
(* on the Mac it calls back only while waituntil() runs the event loop,    *)
(* unless EarlyCallbacks; a query that succeeds leaves in the Mac's cache  *)
(* what the device offers at that moment; an inquiry ends by itself, and   *)
(* so does a name request, which alone fills the cache of names.           *)
(***************************************************************************)
EXTENDS Integers, Sequences, FiniteSets

CONSTANTS
    Devices,
    Services,        \* the services there are; a service has one name
    Names,           \* the names findservices() is asked for
    MaxCalls,        \* bound: calls made
    MaxChanges,      \* bound: how often a device changes what it offers, or its name
    EarlyCallbacks   \* the system may call back before the call waits

ASSUME DiscoveryAssumption ==
    /\ Services \subseteq {"serial", "push", "print", "audio"}
    /\ Names \subseteq Services \cup {"None"}
    /\ MaxCalls \in Nat /\ MaxChanges \in Nat /\ EarlyCallbacks \in BOOLEAN

Types  == {"None", "RFCOMM", "OBEX"}
Errors == {"none", "nodevices", "other"}

\* The protocols of a service.  Printing is over OBEX, but its class is none of the
\* three that Linux takes for OBEX.
Protocols(s) == {"L2CAP"} \cup (IF s = "audio" THEN {} ELSE {"RFCOMM"})
                          \cup (IF s \in {"push", "print"} THEN {"OBEX"} ELSE {})

VARIABLES
    platform,
    offered,    \* offered[d]: the services of device d
    name,       \* name[d]: which name device d has, counted from 0
    changes,
    known,      \* known[d]: the name of d that Linux, the Mac or Series 60 knows
    cache,      \* cache[d]: the services of d that the Mac knows
    updated,    \* updated[d]: when it has asked for them
    inquiries,  \* running inquiries: those of earlier calls as well
    queries,    \* running SDP queries (Mac)
    call,       \* the call in progress, or the last one: see TypeOK
    since,      \* history: since[d] is what d has offered since the call began, or
                \* what the Mac knew then and had asked for within two seconds
    names       \* history: the names the device has had since finddevicename() was
                \* called, and with usecache the one that was known then

world == <<platform, offered, name, changes>>
naming == <<known, names>>
vars == <<world, naming, cache, updated, inquiries, queries, call, since>>

Host == "host"    \* the local device
NoName == -1

Calls == 1 .. MaxCalls

TypeOK ==
    /\ platform \in {"mac", "linux", "series60"}
    /\ offered \in [Devices -> SUBSET Services]
    /\ changes \in 0 .. MaxChanges
    /\ name \in [Devices -> 0 .. MaxChanges]
    /\ known \in [Devices -> {NoName} \cup 0 .. MaxChanges]
    /\ names \subseteq 0 .. MaxChanges
    /\ cache \in [Devices -> SUBSET Services]
    /\ updated \in [Devices -> {"never", "recently", "earlier"}]
    /\ inquiries \subseteq [of : Calls, found : SUBSET Devices]
    /\ queries \subseteq Calls \X Devices
    /\ call \in [n : 0 .. MaxCalls,
                 pc : {"idle", "starting", "inquiring", "looking", "querying", "asking",
                       "naming", "hostname", "known", "nameasked", "dialog", "choosing"},
                 op : {"finddevices", "findservices", "finddevicename",
                       "selectdevice", "selectservice"},
                 type : Types, name : Names \cup {"None"},
                 usecache : BOOLEAN,
                 named : {NoName} \cup 0 .. MaxChanges,   \* what finddevicename() returns
                 inquiring : BOOLEAN, inquiryerr : Errors,   \* of _SyncDeviceInquiry
                 todo : SUBSET Devices,                      \* devices to look at
                 device : Devices \cup {Host},               \* the one being looked at
                 queryresult : {"None", "ok", "failed"},     \* of _SDPQueryRunner
                 found : SUBSET Devices,
                 services : SUBSET (Devices \X Services),
                 failed : SUBSET Devices,                    \* errors that did not raise
                 outcome : {"none", "ok", "raised"}]
    /\ since \in [Devices -> SUBSET SUBSET Services]

Init ==
    /\ platform \in {"mac", "linux", "series60"}
    /\ offered \in [Devices -> {{}, Services}]
    /\ changes = 0
    /\ name = [d \in Devices |-> 0]
    /\ known = [d \in Devices |-> NoName] /\ names = {}
    /\ cache = [d \in Devices |-> {}]
    /\ updated = [d \in Devices |-> "never"]
    /\ inquiries = {} /\ queries = {}
    /\ call = [n |-> 0, pc |-> "idle", op |-> "finddevices", type |-> "None",
               name |-> "None", usecache |-> FALSE, named |-> NoName,
               inquiring |-> FALSE, inquiryerr |-> "none", todo |-> {},
               device |-> Host, queryresult |-> "None",
               found |-> {}, services |-> {}, failed |-> {}, outcome |-> "none"]
    /\ since = [d \in Devices |-> {}]

-----------------------------------------------------------------------------
(* What a search returns of the services a device has *)

\* Mutant of MacFilter: OBEX services are not taken out.
MacFilterKeepingObex(S, wanted, type) ==
    {s \in S : /\ type = "None" \/ type \in Protocols(s)
               /\ wanted \in {"None", s}}

\* _searchservices()
MacFilter(S, wanted, type) ==
    {s \in S : /\ type = "None" \/ type \in Protocols(s)
               /\ ~(type = "RFCOMM" /\ "OBEX" \in Protocols(s))
               /\ wanted \in {"None", s}}

\* PyBluez looks for "0100", "0003" or "0008"; _isobexservice() looks at the classes.
LinuxFilter(S, wanted, type) ==
    {s \in S : /\ type = "None" \/ type \in Protocols(s)
               /\ ~(type = "RFCOMM" /\ s = "push")
               /\ wanted \in {"None", s}}

\* bt_discover() and bt_obex_discover(), of which "failing" fail.
Series60Filter(S, wanted, type, failing) ==
    LET funcs == (IF type = "None" THEN {"RFCOMM", "OBEX"} ELSE {type}) \ failing
    IN  {s \in S : /\ (IF "OBEX" \in Protocols(s) THEN "OBEX" ELSE "RFCOMM") \in funcs
                   /\ "RFCOMM" \in Protocols(s)
                   /\ wanted \in {"None", s}}

-----------------------------------------------------------------------------
(* The calls *)

Now == [d \in Devices |-> {offered[d]} \cup
                             (IF updated[d] = "recently" THEN {cache[d]} ELSE {})]

NewInquiry(n) == [of |-> n, found |-> {}]

\* finddevices(), or findservices() of one device or of all that are found.  PyBluez
\* finds the devices itself, in any number.
Call(op, type, wanted, addr) ==
    /\ call.pc = "idle" /\ call.n < MaxCalls
    /\ op = "finddevices" => type = "None" /\ wanted = "None" /\ addr = {}
    /\ LET inquires == op = "finddevices" \/ (addr = {} /\ platform # "linux") IN
       \E devices \in IF addr = {} /\ ~inquires THEN SUBSET Devices ELSE {addr} :
          call' = [call EXCEPT !.n = @ + 1, !.op = op, !.type = type, !.name = wanted,
                               !.pc = IF inquires THEN "starting" ELSE "looking",
                               !.usecache = FALSE, !.named = NoName, !.device = Host,
                               !.inquiring = FALSE, !.inquiryerr = "none",
                               !.todo = devices, !.found = devices, !.services = {},
                               !.failed = {}, !.outcome = "none"]
    /\ since' = Now
    /\ inquiries' = IF call'.pc = "starting" THEN inquiries \cup {NewInquiry(call'.n)}
                    ELSE inquiries
    /\ UNCHANGED <<world, naming, cache, updated, queries>>

EndCall(c, outcome) ==
    call' = [c EXCEPT !.pc = "idle", !.outcome = outcome]

\* The inquiry cannot be started.
StartFails ==
    /\ call.pc = "starting"
    /\ EndCall(call, "raised")
    /\ inquiries' = {i \in inquiries : i.of # call.n}
    /\ UNCHANGED <<world, naming, cache, updated, queries, since>>

\* What run() does once the inquiry is started.
Started ==
    /\ call.pc = "starting"
    /\ call' = [call EXCEPT !.pc = "inquiring", !.inquiryerr = "none", !.inquiring = TRUE]
    /\ UNCHANGED <<world, naming, cache, updated, inquiries, queries, since>>

\* An inquiry finds a device.
DeviceFound(i, d) ==
    /\ d \notin i.found
    /\ inquiries' = (inquiries \ {i}) \cup {[i EXCEPT !.found = @ \cup {d}]}
    /\ UNCHANGED <<world, naming, cache, updated, queries, call, since>>

Waiting == call.pc \in {"inquiring", "asking"}

\* When the system may call back.
CallsBack == Waiting \/ (platform = "mac" /\ EarlyCallbacks)

\* Mutant of InquiryComplete: the inquiry of an earlier call ends the wait as well.
InquiryOfAnyComplete(i, err) ==
    /\ CallsBack
    /\ inquiries' = inquiries \ {i}
    /\ call' = IF ~(platform = "series60" /\ err = "other") /\ call.pc # "idle"
               THEN [call EXCEPT !.inquiryerr = IF err = "other" THEN err ELSE @,
                                 !.inquiring = FALSE, !.found = i.found]
               ELSE call
    /\ UNCHANGED <<world, naming, cache, updated, queries, since>>

\* Mutant of InquiryComplete: after an error nobody is told.
InquiryCompleteIfFound(i, err) ==
    /\ CallsBack
    /\ inquiries' = inquiries \ {i}
    /\ call' = IF i.of = call.n /\ call.pc # "idle" /\ err = "none"
               THEN [call EXCEPT !.inquiring = FALSE, !.found = i.found]
               ELSE call
    /\ UNCHANGED <<world, naming, cache, updated, queries, since>>

\* An inquiry ends, and the object that has started it is told.  That no device was
\* found is not an error on the Mac.  On Series 60 an error is only printed.
InquiryComplete(i, err) ==
    /\ CallsBack
    /\ inquiries' = inquiries \ {i}
    /\ call' = IF i.of = call.n /\ call.pc # "idle"
                  /\ ~(platform = "series60" /\ err = "other")
               THEN [call EXCEPT !.inquiryerr = IF err = "other" THEN err ELSE @,
                                 !.inquiring = FALSE, !.found = i.found]
               ELSE call
    /\ UNCHANGED <<world, naming, cache, updated, queries, since>>

\* The wait for the inquiry is over.
Inquired ==
    /\ call.pc = "inquiring" /\ ~call.inquiring
    /\ IF call.inquiryerr # "none" THEN EndCall(call, "raised")
       ELSE IF call.op = "finddevices" THEN EndCall(call, "ok")
       ELSE call' = [call EXCEPT !.pc = "looking", !.todo = call.found]
    /\ UNCHANGED <<world, naming, cache, updated, inquiries, queries, since>>

StopInquiry == inquiries' = {i \in inquiries : i.of # call.n}

\* A user interrupts a call that waits.  Only Series 60 stops the inquiry.
Interrupt ==
    /\ Waiting
    /\ EndCall(call, "raised")
    /\ IF platform = "series60" THEN StopInquiry ELSE UNCHANGED inquiries
    /\ UNCHANGED <<world, naming, cache, updated, queries, since>>

-----------------------------------------------------------------------------
(* findservices(), device by device *)

Add(c, d, services) ==
    [c EXCEPT !.services = @ \cup ({d} \X services), !.todo = @ \ {d}]

AllLookedAt ==
    /\ call.pc = "looking" /\ call.todo = {}
    /\ IF call.op = "findservices" THEN EndCall(call, "ok")
       ELSE call' = [call EXCEPT !.pc = "choosing"]
    /\ UNCHANGED <<world, naming, cache, updated, inquiries, queries, since>>

\* Linux and Series 60 ask the device, and Linux gives up at the first error.
LookUp(d) ==
    /\ platform # "mac" /\ call.pc = "looking" /\ d \in call.todo
    /\ \/ /\ platform = "linux"
          /\ \/ call' = Add(call, d, LinuxFilter(offered[d], call.name, call.type))
             \/ EndCall(call, "raised")
       \/ /\ platform = "series60"
          /\ \E failing \in SUBSET {"RFCOMM", "OBEX"} :
                call' = [Add(call, d, Series60Filter(offered[d], call.name, call.type, failing))
                           EXCEPT !.failed = @ \cup IF failing = {} THEN {} ELSE {d}]
    /\ UNCHANGED <<world, naming, cache, updated, inquiries, queries, since>>

WithKnown(c, d) == [Add(c, d, MacFilter(cache[d], c.name, c.type)) EXCEPT !.pc = "looking"]

\* The Mac looks at what it knows of the device, or asks for it first.
LookAtCache(d) ==
    /\ platform = "mac" /\ call.pc = "looking" /\ d \in call.todo
    /\ IF updated[d] = "recently" THEN call' = WithKnown(call, d) /\ UNCHANGED queries
       ELSE \/ /\ call' = [call EXCEPT !.pc = "querying", !.device = d, !.queryresult = "None"]
               /\ queries' = queries \cup {<<call.n, d>>}
            \/ /\ call' = WithKnown([call EXCEPT !.failed = @ \cup {d}], d)
               /\ UNCHANGED queries
    /\ UNCHANGED <<world, naming, cache, updated, inquiries, since>>

\* query() clears the result once the query is on its way.
Queried ==
    /\ call.pc = "querying"
    /\ call' = [call EXCEPT !.pc = "asking", !.queryresult = "None"]
    /\ UNCHANGED <<world, naming, cache, updated, inquiries, queries, since>>

\* A query is answered, and the object that has sent it is told.
QueryComplete(q, ok) ==
    /\ CallsBack
    /\ queries' = queries \ {q}
    /\ IF ok THEN /\ cache' = [cache EXCEPT ![q[2]] = offered[q[2]]]
                  /\ updated' = [updated EXCEPT ![q[2]] = "recently"]
       ELSE UNCHANGED <<cache, updated>>
    /\ call' = IF call.pc \in {"querying", "asking"} /\ q = <<call.n, call.device>>
               THEN [call EXCEPT !.queryresult = IF ok THEN "ok" ELSE "failed"]
               ELSE call
    /\ UNCHANGED <<world, naming, inquiries, since>>

\* The wait for the answer ends: it is there, or ten seconds have passed.  After an
\* error there is a warning, and what the Mac knows is returned all the same.
Asked ==
    /\ call.pc = "asking"
    /\ LET c == IF call.queryresult = "ok" THEN call
                ELSE [call EXCEPT !.failed = @ \cup {call.device}]
       IN  call' = WithKnown(c, call.device)
    /\ UNCHANGED <<world, naming, cache, updated, inquiries, queries, since>>

-----------------------------------------------------------------------------
(* finddevicename() *)

CallName(d, usecache) ==
    /\ call.pc = "idle" /\ call.n < MaxCalls
    /\ call' = [call EXCEPT !.n = @ + 1, !.op = "finddevicename", !.pc = "naming",
                            !.device = d, !.usecache = usecache, !.named = NoName,
                            !.type = "None", !.name = "None", !.inquiring = FALSE,
                            !.inquiryerr = "none", !.todo = {}, !.queryresult = "None",
                            !.found = {}, !.services = {}, !.failed = {}, !.outcome = "none"]
    /\ names' = IF d = Host THEN {}
                ELSE {name[d]} \cup (IF usecache THEN {known[d]} \ {NoName} ELSE {})
    /\ UNCHANGED <<world, known, cache, updated, inquiries, queries, since>>

\* gethostaddr() tells whether the address is that of the local device, or fails.
HostAddress ==
    /\ call.pc = "naming"
    /\ \/ EndCall(call, "raised")
       \/ call' = [call EXCEPT !.pc = IF call.device = Host THEN "hostname" ELSE "known"]
    /\ UNCHANGED <<world, naming, cache, updated, inquiries, queries, since>>

\* _gethostname() returns the name of the local device, or fails.
HostName ==
    /\ call.pc = "hostname"
    /\ \E outcome \in {"ok", "raised"} : EndCall(call, outcome)
    /\ UNCHANGED <<world, naming, cache, updated, inquiries, queries, since>>

\* Mutant of LookAtName: a name that is known is taken in any case.
LookAtNameAlways ==
    /\ call.pc = "known"
    /\ IF known[call.device] # NoName
       THEN EndCall([call EXCEPT !.named = known[call.device]], "ok")
       ELSE call' = [call EXCEPT !.pc = "nameasked"]
    /\ UNCHANGED <<world, naming, cache, updated, inquiries, queries, since>>

\* A name that is known is returned if the caller allows that; else the device is asked.
LookAtName ==
    /\ call.pc = "known"
    /\ IF call.usecache /\ known[call.device] # NoName
       THEN EndCall([call EXCEPT !.named = known[call.device]], "ok")
       ELSE call' = [call EXCEPT !.pc = "nameasked"]
    /\ UNCHANGED <<world, naming, cache, updated, inquiries, queries, since>>

\* The name request is answered, or fails.
NameAnswered ==
    /\ call.pc = "nameasked"
    /\ \/ /\ known' = [known EXCEPT ![call.device] = name[call.device]]
          /\ EndCall([call EXCEPT !.named = name[call.device]], "ok")
       \/ EndCall(call, "raised") /\ UNCHANGED known
    /\ UNCHANGED <<world, names, cache, updated, inquiries, queries, since>>

-----------------------------------------------------------------------------
(* selectdevice() and selectservice(), but those of Linux: see LinuxDiscoveryUI *)

CallSelect(op) ==
    /\ platform # "linux" /\ call.pc = "idle" /\ call.n < MaxCalls
    /\ call' = [call EXCEPT !.n = @ + 1, !.op = op, !.pc = "dialog", !.device = Host,
                            !.usecache = FALSE, !.named = NoName, !.type = "None",
                            !.name = "None", !.inquiring = FALSE, !.inquiryerr = "none",
                            !.todo = {}, !.queryresult = "None", !.found = {},
                            !.services = {}, !.failed = {}, !.outcome = "none"]
    /\ since' = Now
    /\ UNCHANGED <<world, naming, cache, updated, inquiries, queries>>

\* The Mac has dialogs for both, and returns None if the user cancels.
MacDialog ==
    /\ platform = "mac" /\ call.pc = "dialog"
    /\ \/ EndCall(call, "ok")
       \/ /\ call.op = "selectdevice"
          /\ \E d \in Devices : EndCall([call EXCEPT !.found = {d}], "ok")
       \/ /\ call.op = "selectservice"
          /\ \E d \in Devices : \E s \in offered[d] :
                EndCall([call EXCEPT !.found = {d}, !.services = {<<d, s>>}], "ok")
    /\ UNCHANGED <<world, naming, cache, updated, inquiries, queries, since>>

\* Series 60 has one for devices, and raises TypeError if the user cancels.  It looks up
\* the services of the device itself and lists them.
Series60Dialog ==
    /\ platform = "series60" /\ call.pc = "dialog"
    /\ \/ EndCall(call, "raised")
       \/ \E d \in Devices :
             LET c == [call EXCEPT !.found = {d}] IN
             IF call.op = "selectdevice" THEN EndCall(c, "ok")
             ELSE call' = [c EXCEPT !.pc = "looking", !.todo = {d}]
    /\ UNCHANGED <<world, naming, cache, updated, inquiries, queries, since>>

\* The user chooses one, or none.
Choose ==
    /\ call.pc = "choosing"
    /\ \E chosen \in {{}} \cup {{r} : r \in call.services} :
          EndCall([call EXCEPT !.services = chosen], "ok")
    /\ UNCHANGED <<world, naming, cache, updated, inquiries, queries, since>>

-----------------------------------------------------------------------------
\* A device starts or stops to offer its services.
Change(d) ==
    /\ changes < MaxChanges
    /\ changes' = changes + 1
    /\ offered' = [offered EXCEPT ![d] = Services \ @]
    /\ since' = [since EXCEPT ![d] = @ \cup {offered'[d]}]
    /\ UNCHANGED <<platform, name, naming, cache, updated, inquiries, queries, call>>

\* A device gets another name.
Rename(d) ==
    /\ changes < MaxChanges
    /\ changes' = changes + 1
    /\ name' = [name EXCEPT ![d] = @ + 1]
    /\ names' = IF call.device = d THEN names \cup {name'[d]} ELSE names
    /\ UNCHANGED <<platform, offered, known, cache, updated, inquiries, queries, call, since>>

\* Two seconds pass.
Age(d) ==
    /\ updated[d] = "recently"
    /\ updated' = [updated EXCEPT ![d] = "earlier"]
    /\ UNCHANGED <<world, naming, cache, inquiries, queries, call, since>>

Step ==
    \/ Started \/ Inquired \/ AllLookedAt \/ Queried \/ Asked
    \/ \E d \in Devices : LookUp(d) \/ LookAtCache(d)
    \/ HostAddress \/ HostName \/ LookAtName \/ NameAnswered

Complete == \E i \in inquiries, err \in Errors : InquiryComplete(i, err)

Next ==
    \/ \E op \in {"finddevices", "findservices"}, type \in Types,
          n \in Names \cup {"None"}, addr \in {{}} \cup {{d} : d \in Devices} :
          Call(op, type, n, addr)
    \/ \E d \in Devices \cup {Host}, usecache \in BOOLEAN : CallName(d, usecache)
    \/ \E op \in {"selectdevice", "selectservice"} : CallSelect(op)
    \/ MacDialog \/ Series60Dialog \/ Choose
    \/ Step \/ Complete
    \/ StartFails \/ Interrupt
    \/ \E i \in inquiries, d \in Devices : DeviceFound(i, d)
    \/ \E q \in queries, ok \in BOOLEAN : QueryComplete(q, ok)
    \/ \E d \in Devices : Change(d) \/ Rename(d) \/ Age(d)

Spec == Init /\ [][Next]_vars

\* The call goes on when it can, and an inquiry ends; a user need not answer.
FairSpec == Spec /\ WF_vars(Step) /\ WF_vars(Complete)

-----------------------------------------------------------------------------
(* What is checked. *)

Wanted(S) ==
    {s \in S : /\ call.type = "RFCOMM" => "RFCOMM" \in Protocols(s) /\ "OBEX" \notin Protocols(s)
               /\ call.type = "OBEX" => "OBEX" \in Protocols(s)
               /\ platform = "series60" => "RFCOMM" \in Protocols(s)
               /\ call.name \in {"None", s}}

\* What findservices() returns of a device, if nothing failed with it, is what the
\* device offered at one moment of the call, as far as it matches all criteria, or what
\* the Mac had asked for within two seconds before; and nothing of other devices.  The
\* one that selectservice() returns was offered at one moment as well.
ServicesCurrent ==
    call.pc = "idle" /\ call.outcome = "ok"
      => /\ call.op = "findservices" =>
               \A d \in Devices :
                  LET of == {s \in Services : <<d, s>> \in call.services} IN
                  \/ d \in call.failed
                  \/ d \in call.found /\ \E S \in since[d] : of = Wanted(S)
                  \/ d \notin call.found /\ of = {}
         /\ call.op = "selectservice" =>
               /\ Cardinality(call.services) <= 1
               /\ \A r \in call.services :
                     r[1] \in call.found /\ \E S \in since[r[1]] : r[2] \in Wanted(S)

\* finddevicename() returns a name the device has had during the call, or, if the caller
\* allows it, the last one that was asked for before.
NameCurrent ==
    call.pc = "idle" /\ call.outcome = "ok" /\ call.op = "finddevicename"
      => call.device = Host \/ call.named \in names

\* finddevices() returns only when its own inquiry is over.
InquiryOver ==
    call.pc = "idle" /\ call.outcome = "ok" => \A i \in inquiries : i.of # call.n

\* A call ends, unless it asks the user, but for one on Series 60 whose inquiry has had
\* an error.
FindEnds ==
    call.pc # "idle" ~> \/ call.pc \in {"idle", "dialog", "choosing"}
                        \/ /\ platform = "series60" /\ call.inquiring
                           /\ \A i \in inquiries : i.of # call.n
=============================================================================
