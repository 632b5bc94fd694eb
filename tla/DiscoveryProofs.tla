---------------------------- MODULE DiscoveryProofs ----------------------------
(***************************************************************************)
(* Theorems about Discovery, for any devices and number of calls: what     *)
(* findservices(), selectservice() and finddevicename() return is current, *)
(* and finddevices() leaves no inquiry of its own.  At the end, theorems   *)
(* about the windows in which Linux lets the user choose.                  *)
(***************************************************************************)
EXTENDS Discovery, SelectionWindow, FiniteSetTheorems, TLAPS

USE DiscoveryAssumption DEF DiscoveryAssumption

Pcs == {"idle", "starting", "inquiring", "looking", "querying", "asking",
        "naming", "hostname", "known", "nameasked", "dialog", "choosing"}

Ops == {"finddevices", "findservices", "finddevicename", "selectdevice", "selectservice"}

CallRecords ==
    [n : 0 .. MaxCalls, pc : Pcs, op : Ops, type : Types, name : Names \cup {"None"},
     usecache : BOOLEAN, named : {NoName} \cup 0 .. MaxChanges,
     inquiring : BOOLEAN, inquiryerr : Errors, todo : SUBSET Devices,
     device : Devices \cup {Host}, queryresult : {"None", "ok", "failed"},
     found : SUBSET Devices, services : SUBSET (Devices \X Services),
     failed : SUBSET Devices, outcome : {"none", "ok", "raised"}]

\* Linux takes a service for printing for RFCOMM only.
Told == platform = "linux" => "print" \notin Services

\* Where each of the calls may be.
PcInv ==
    /\ call.op = "finddevices" => call.pc \in {"idle", "starting", "inquiring"}
    /\ call.op = "findservices"
         => call.pc \in {"idle", "starting", "inquiring", "looking", "querying", "asking"}
    /\ call.op = "finddevicename"
         => call.pc \in {"idle", "naming", "hostname", "known", "nameasked"}
    /\ call.op = "selectdevice" => call.pc \in {"idle", "dialog"}
    /\ call.op = "selectservice" => call.pc \in {"idle", "dialog", "looking", "choosing"}
    /\ call.pc \in {"querying", "asking"} => platform = "mac" /\ call.device \in call.todo
    /\ call.op = "selectservice" /\ call.pc \in {"looking", "choosing"}
         => platform = "series60"
    /\ call.pc \in {"known", "nameasked"} => call.device # Host
    /\ call.pc = "hostname" => call.device = Host
    /\ call.pc = "dialog" => call.type = "None" /\ call.name = "None"
    /\ call.pc # "idle" => call.n > 0

\* A call has one inquiry at most, and none any more when it goes on.
InquiryInv ==
    /\ \A i \in inquiries : i.of <= call.n
    /\ \A i, j \in inquiries : i.of = j.of => i = j
    /\ \A i \in inquiries : i.of = call.n
         => \/ call.pc = "starting"
            \/ call.pc = "inquiring" /\ call.inquiring
            \/ call.pc = "idle" /\ call.outcome = "raised"

Searches == call.pc # "idle" /\ call.op \in {"findservices", "selectservice"}

\* What can be found is current.
SinceInv ==
    Searches =>
      /\ \A d \in Devices : /\ offered[d] \in since[d]
                            /\ updated[d] = "recently" => cache[d] \in since[d]
      /\ call.pc \in {"querying", "asking"} /\ call.queryresult = "ok"
           => cache[call.device] \in since[call.device]

ServicesOf(d) == {s \in Services : <<d, s>> \in call.services}

\* What has been found is current: see ServicesCurrent.
FoundInv ==
    Searches =>
      /\ call.todo \subseteq call.found
      /\ call.pc \in {"starting", "inquiring", "dialog"} => call.todo = {} /\ call.services = {}
      /\ \A d \in Devices : d \in call.todo \/ d \notin call.found => ServicesOf(d) = {}
      /\ Told /\ call.op = "findservices" /\ call.pc \notin {"starting", "inquiring"} =>
           \A d \in call.found \ call.todo :
              d \in call.failed \/ \E S \in since[d] : ServicesOf(d) = Wanted(S)
      /\ call.op = "selectservice" =>
           \A r \in call.services :
              r[1] \in call.found /\ \E S \in since[r[1]] : r[2] \in Wanted(S)

\* The names finddevicename() may return.
NameInv ==
    /\ \A d \in Devices : name[d] <= changes
    /\ call.op = "finddevicename" /\ call.pc # "idle" /\ call.device # Host =>
         /\ name[call.device] \in names
         /\ call.pc \in {"naming", "known"} /\ call.usecache /\ known[call.device] # NoName
              => known[call.device] \in names
    /\ NameCurrent

IInv ==
    /\ TypeOK
    /\ PcInv
    /\ InquiryInv
    /\ SinceInv
    /\ FoundInv
    /\ Told => ServicesCurrent
    /\ NameInv

-----------------------------------------------------------------------------
(* Types, and the filters. *)

LEMMA CallTyped == TypeOK <=>
    /\ platform \in {"mac", "linux", "series60"}
    /\ offered \in [Devices -> SUBSET Services]
    /\ changes \in 0 .. MaxChanges
    /\ name \in [Devices -> 0 .. MaxChanges]
    /\ known \in [Devices -> {NoName} \cup 0 .. MaxChanges]
    /\ names \subseteq 0 .. MaxChanges
    /\ cache \in [Devices -> SUBSET Services]
    /\ updated \in [Devices -> {"never", "recently", "earlier"}]
    /\ inquiries \subseteq [of : Calls, found : SUBSET Devices]
    /\ queries \subseteq Calls \X Devices
    /\ call \in CallRecords
    /\ since \in [Devices -> SUBSET SUBSET Services]
BY DEF TypeOK, CallRecords, Pcs, Ops

\* A step of a call that leaves the rest alone, but may stop inquiries.
LEMMA TypesKept ==
    ASSUME TypeOK, call' \in CallRecords, inquiries' \subseteq inquiries,
           UNCHANGED <<world, naming, cache, updated, queries, since>>
    PROVE  TypeOK'
<1>1. /\ platform' = platform /\ offered' = offered /\ name' = name /\ changes' = changes
      /\ known' = known /\ names' = names /\ cache' = cache /\ updated' = updated
      /\ queries' = queries /\ since' = since
  BY DEF world, naming
<1>2. inquiries' \subseteq [of : Calls, found : SUBSET Devices]
  BY DEF TypeOK
<1> QED BY <1>1, <1>2 DEF TypeOK, CallRecords, Pcs, Ops

LEMMA FilterIsWanted ==
    ASSUME TypeOK, NEW S \in SUBSET Services
    PROVE  /\ platform = "mac" => MacFilter(S, call.name, call.type) = Wanted(S)
           /\ platform = "linux" /\ Told
                => LinuxFilter(S, call.name, call.type) = Wanted(S)
           /\ platform = "series60"
                => /\ Series60Filter(S, call.name, call.type, {}) = Wanted(S)
                   /\ \A failing \in SUBSET {"RFCOMM", "OBEX"} :
                        Series60Filter(S, call.name, call.type, failing) \subseteq Wanted(S)
<1>1. call.type \in Types
  BY CallTyped DEF CallRecords
<1>2. \A s \in S : s \in {"serial", "push", "print", "audio"}
  OBVIOUS
<1>3. \A s \in S : /\ "RFCOMM" \in Protocols(s) <=> s # "audio"
                   /\ "OBEX" \in Protocols(s) <=> s \in {"push", "print"}
                   /\ "None" \notin Protocols(s)
  BY <1>2 DEF Protocols
<1>4. ASSUME platform = "mac" PROVE MacFilter(S, call.name, call.type) = Wanted(S)
  <2>1. \A s \in S : s \in MacFilter(S, call.name, call.type) <=> s \in Wanted(S)
    BY <1>1, <1>3, <1>4 DEF MacFilter, Wanted, Types
  <2> QED BY <2>1 DEF MacFilter, Wanted
<1>5. ASSUME platform = "linux", Told PROVE LinuxFilter(S, call.name, call.type) = Wanted(S)
  <2>1. \A s \in S : s # "print"
    BY <1>5 DEF Told
  <2>2. \A s \in S : s \in LinuxFilter(S, call.name, call.type) <=> s \in Wanted(S)
    BY <1>1, <1>2, <1>3, <1>5, <2>1 DEF LinuxFilter, Wanted, Types
  <2> QED BY <2>2 DEF LinuxFilter, Wanted
<1>6. ASSUME platform = "series60"
      PROVE  /\ Series60Filter(S, call.name, call.type, {}) = Wanted(S)
             /\ \A failing \in SUBSET {"RFCOMM", "OBEX"} :
                  Series60Filter(S, call.name, call.type, failing) \subseteq Wanted(S)
  <2>1. \A s \in S :
           s \in Series60Filter(S, call.name, call.type, {}) <=> s \in Wanted(S)
    BY <1>1, <1>2, <1>3, <1>6 DEF Series60Filter, Wanted, Types
  <2>2. ASSUME NEW failing \in SUBSET {"RFCOMM", "OBEX"}
        PROVE  Series60Filter(S, call.name, call.type, failing) \subseteq Wanted(S)
    BY <1>1, <1>2, <1>3, <1>6 DEF Series60Filter, Wanted, Types
  <2> QED BY <2>1, <2>2 DEF Series60Filter, Wanted
<1> QED BY <1>4, <1>5, <1>6

-----------------------------------------------------------------------------
(* A call that raises. *)

LEMMA RaisedKeeps ==
    ASSUME IInv, EndCall(call, "raised"), inquiries' \subseteq inquiries,
           UNCHANGED <<world, naming, cache, updated, queries, since>>
    PROVE  IInv'
<1>1. /\ call' = [call EXCEPT !.pc = "idle", !.outcome = "raised"]
      /\ call \in CallRecords
  BY CallTyped DEF IInv, EndCall
<1>2. /\ call' \in CallRecords /\ call'.pc = "idle" /\ call'.outcome = "raised"
      /\ call'.n = call.n
  BY <1>1 DEF CallRecords, Pcs
<1>3. /\ platform' = platform /\ offered' = offered /\ name' = name /\ changes' = changes
      /\ known' = known /\ names' = names /\ cache' = cache /\ updated' = updated
      /\ queries' = queries /\ since' = since
  BY DEF world, naming
<1>4. TypeOK'
  BY <1>2, TypesKept DEF IInv
<1>5. PcInv'
  BY <1>2 DEF PcInv
<1>6. InquiryInv'
  BY <1>2 DEF IInv, InquiryInv
<1>7. SinceInv' /\ FoundInv' /\ (Told => ServicesCurrent)'
  BY <1>2 DEF SinceInv, FoundInv, Searches, ServicesCurrent
<1>8. NameInv'
  BY <1>2, <1>3 DEF IInv, NameInv, NameCurrent
<1> QED BY <1>4, <1>5, <1>6, <1>7, <1>8 DEF IInv
LEMMA StartFailsKeeps == ASSUME IInv, StartFails PROVE IInv'
BY RaisedKeeps DEF StartFails

LEMMA InterruptKeeps == ASSUME IInv, Interrupt PROVE IInv'
BY RaisedKeeps DEF Interrupt, StopInquiry

-----------------------------------------------------------------------------
(* Inquiries. *)

\* A step that is about inquiries only: what the calls have found is not touched.
LEMMA StartedKeeps == ASSUME IInv, Started PROVE IInv'
<1>1. /\ call.pc = "starting" /\ call \in CallRecords
      /\ call' = [call EXCEPT !.pc = "inquiring", !.inquiryerr = "none", !.inquiring = TRUE]
      /\ platform' = platform /\ offered' = offered /\ name' = name /\ changes' = changes
      /\ known' = known /\ names' = names /\ cache' = cache /\ updated' = updated
      /\ inquiries' = inquiries /\ queries' = queries /\ since' = since
  BY CallTyped DEF IInv, Started, world, naming
<1>2. /\ call' \in CallRecords /\ call'.pc = "inquiring" /\ call'.inquiring = TRUE
      /\ call'.n = call.n /\ call'.op = call.op /\ call'.todo = call.todo
      /\ call'.services = call.services /\ call'.found = call.found
  BY <1>1 DEF CallRecords, Pcs, Errors
<1>3. call.op \in {"finddevices", "findservices"}
  BY <1>1 DEF IInv, PcInv, CallRecords, Ops
<1>4. TypeOK'
  BY <1>1, <1>2, TypesKept DEF IInv, Started
<1>5. PcInv' /\ InquiryInv'
  BY <1>1, <1>2, <1>3 DEF IInv, PcInv, InquiryInv
<1>6. SinceInv'
  BY <1>1, <1>2 DEF IInv, SinceInv, Searches
<1>7. FoundInv'
  BY <1>1, <1>2, <1>3 DEF IInv, FoundInv, Searches, ServicesOf
<1>8. (Told => ServicesCurrent)' /\ NameInv'
  BY <1>1, <1>2, <1>3 DEF IInv, ServicesCurrent, NameInv, NameCurrent
<1> QED BY <1>4, <1>5, <1>6, <1>7, <1>8 DEF IInv

LEMMA DeviceFoundKeeps ==
    ASSUME IInv, NEW i \in inquiries, NEW d \in Devices, DeviceFound(i, d)
    PROVE  IInv'
<1> DEFINE r == [i EXCEPT !.found = @ \cup {d}]
<1>1. /\ inquiries' = (inquiries \ {i}) \cup {r}
      /\ platform' = platform /\ offered' = offered /\ name' = name /\ changes' = changes
      /\ known' = known /\ names' = names /\ cache' = cache /\ updated' = updated
      /\ queries' = queries /\ since' = since /\ call' = call
  BY DEF DeviceFound, world, naming
<1>2. inquiries \subseteq [of : Calls, found : SUBSET Devices]
  BY DEF IInv, TypeOK
<1>3. r \in [of : Calls, found : SUBSET Devices] /\ r.of = i.of
  BY <1>2
<1> HIDE DEF r
<1>4. TypeOK'
  <2>1. inquiries' \subseteq [of : Calls, found : SUBSET Devices]
    BY <1>1, <1>2, <1>3
  <2> QED BY <1>1, <2>1 DEF IInv, TypeOK
<1>5. InquiryInv'
  BY <1>1, <1>3 DEF IInv, InquiryInv
<1>6. PcInv' /\ SinceInv' /\ NameInv'
  BY <1>1 DEF IInv, PcInv, SinceInv, Searches, NameInv, NameCurrent
<1>7. FoundInv'
  BY <1>1 DEF IInv, FoundInv, Searches, ServicesOf, Wanted, Told
<1>8. (Told => ServicesCurrent)'
  BY <1>1 DEF IInv, ServicesCurrent, Wanted, Told
<1> QED BY <1>4, <1>5, <1>6, <1>7, <1>8 DEF IInv

LEMMA InquiryCompleteKeeps ==
    ASSUME IInv, NEW i \in inquiries, NEW err \in Errors, InquiryComplete(i, err)
    PROVE  IInv'
<1>1. /\ inquiries' = inquiries \ {i} /\ call \in CallRecords
      /\ platform' = platform /\ offered' = offered /\ name' = name /\ changes' = changes
      /\ known' = known /\ names' = names /\ cache' = cache /\ updated' = updated
      /\ queries' = queries /\ since' = since
  BY CallTyped DEF IInv, InquiryComplete, world, naming
<1>2. CASE call' = call
  <2>1. TypeOK'
    BY <1>1, <1>2, TypesKept DEF IInv, InquiryComplete
  <2>2. InquiryInv'
    BY <1>1, <1>2 DEF IInv, InquiryInv
  <2>3. PcInv' /\ SinceInv' /\ NameInv'
    BY <1>1, <1>2 DEF IInv, PcInv, SinceInv, Searches, NameInv, NameCurrent
  <2>4. FoundInv'
    BY <1>1, <1>2 DEF IInv, FoundInv, Searches, ServicesOf, Wanted, Told
  <2>5. (Told => ServicesCurrent)'
    BY <1>1, <1>2 DEF IInv, ServicesCurrent, Wanted, Told
  <2> QED BY <2>1, <2>2, <2>3, <2>4, <2>5 DEF IInv
<1>3. CASE call' # call
  <2>1. /\ i.of = call.n /\ call.pc # "idle"
        /\ call' = [call EXCEPT !.inquiryerr = IF err = "other" THEN err ELSE @,
                                !.inquiring = FALSE, !.found = i.found]
    BY <1>3 DEF InquiryComplete
  <2>2. call.pc \in {"starting", "inquiring"}
    BY <2>1 DEF IInv, InquiryInv
  <2>3. i.found \subseteq Devices
    BY DEF IInv, TypeOK
  <2>4. /\ call' \in CallRecords /\ call'.n = call.n /\ call'.pc = call.pc
        /\ call'.op = call.op /\ call'.todo = call.todo /\ call'.services = call.services
        /\ call'.device = call.device
    BY <1>1, <2>1, <2>3 DEF CallRecords, Errors
  <2>5. call.op \in {"finddevices", "findservices"}
    BY <1>1, <2>2 DEF IInv, PcInv, CallRecords, Ops
  <2>6. TypeOK'
    BY <1>1, <2>4, TypesKept DEF IInv, InquiryComplete
  <2>7. PcInv'
    BY <1>1, <2>2, <2>4, <2>5 DEF IInv, PcInv
  <2>8. InquiryInv'
    BY <1>1, <2>1, <2>4 DEF IInv, InquiryInv
  <2>9. SinceInv'
    BY <1>1, <2>2, <2>4 DEF IInv, SinceInv, Searches
  <2>10. FoundInv'
    <3>1. Searches => call.todo = {} /\ call.services = {}
      BY <2>2 DEF IInv, FoundInv
    <3> QED BY <1>1, <2>2, <2>4, <2>5, <3>1 DEF FoundInv, Searches, ServicesOf
  <2>11. (Told => ServicesCurrent)' /\ NameInv'
    BY <1>1, <2>2, <2>4, <2>5 DEF IInv, ServicesCurrent, NameInv, NameCurrent
  <2> QED BY <2>6, <2>7, <2>8, <2>9, <2>10, <2>11 DEF IInv
<1> QED BY <1>2, <1>3

LEMMA InquiredKeeps == ASSUME IInv, Inquired PROVE IInv'
<1>1. /\ call.pc = "inquiring" /\ ~call.inquiring /\ call \in CallRecords
      /\ platform' = platform /\ offered' = offered /\ name' = name /\ changes' = changes
      /\ known' = known /\ names' = names /\ cache' = cache /\ updated' = updated
      /\ inquiries' = inquiries /\ queries' = queries /\ since' = since
  BY CallTyped DEF IInv, Inquired, world, naming
<1>2. call.op \in {"finddevices", "findservices"}
  BY <1>1 DEF IInv, PcInv, CallRecords, Ops
<1>3. \A i \in inquiries : i.of # call.n
  BY <1>1 DEF IInv, InquiryInv
<1>4. CASE call.inquiryerr # "none"
  BY <1>1, <1>4, RaisedKeeps DEF Inquired
<1>5. CASE call.inquiryerr = "none" /\ call.op = "finddevices"
  <2>1. call' = [call EXCEPT !.pc = "idle", !.outcome = "ok"]
    BY <1>5 DEF Inquired, EndCall
  <2>2. /\ call' \in CallRecords /\ call'.pc = "idle" /\ call'.op = "finddevices"
        /\ call'.n = call.n
    BY <1>1, <1>5, <2>1 DEF CallRecords, Pcs
  <2>3. TypeOK'
    BY <2>2, TypesKept DEF IInv, Inquired
  <2>4. PcInv' /\ InquiryInv'
    BY <1>1, <1>3, <2>2 DEF IInv, PcInv, InquiryInv
  <2>5. SinceInv' /\ FoundInv' /\ (Told => ServicesCurrent)'
    BY <2>2 DEF SinceInv, FoundInv, Searches, ServicesCurrent
  <2>6. NameInv'
    BY <1>1, <2>2 DEF IInv, NameInv, NameCurrent
  <2> QED BY <2>3, <2>4, <2>5, <2>6 DEF IInv
<1>6. CASE call.inquiryerr = "none" /\ call.op = "findservices"
  <2>1. call' = [call EXCEPT !.pc = "looking", !.todo = call.found]
    BY <1>6 DEF Inquired
  <2>2. /\ call' \in CallRecords /\ call'.pc = "looking" /\ call'.op = "findservices"
        /\ call'.n = call.n /\ call'.todo = call.found /\ call'.found = call.found
        /\ call'.services = call.services
    BY <1>1, <1>6, <2>1 DEF CallRecords, Pcs
  <2>3. TypeOK'
    BY <2>2, TypesKept DEF IInv, Inquired
  <2>4. PcInv' /\ InquiryInv'
    BY <1>1, <1>3, <2>2 DEF IInv, PcInv, InquiryInv
  <2>5. SinceInv'
    BY <1>1, <1>6, <2>2 DEF IInv, SinceInv, Searches
  <2>6. FoundInv'
    <3>1. call.services = {}
      BY <1>1, <1>6 DEF IInv, FoundInv, Searches
    <3> QED BY <1>1, <2>2, <3>1 DEF FoundInv, ServicesOf
  <2>7. (Told => ServicesCurrent)' /\ NameInv'
    BY <1>1, <2>2 DEF IInv, ServicesCurrent, NameInv, NameCurrent
  <2> QED BY <2>3, <2>4, <2>5, <2>6, <2>7 DEF IInv
<1> QED BY <1>2, <1>4, <1>5, <1>6
-----------------------------------------------------------------------------
(* Device by device. *)

LEMMA AllLookedAtKeeps == ASSUME IInv, AllLookedAt PROVE IInv'
<1>1. /\ call.pc = "looking" /\ call.todo = {} /\ call \in CallRecords
      /\ platform' = platform /\ offered' = offered /\ name' = name /\ changes' = changes
      /\ known' = known /\ names' = names /\ cache' = cache /\ updated' = updated
      /\ inquiries' = inquiries /\ queries' = queries /\ since' = since
  BY CallTyped DEF IInv, AllLookedAt, world, naming
<1>2. call.op \in {"findservices", "selectservice"}
  BY <1>1 DEF IInv, PcInv, CallRecords, Ops
<1>3. \A i \in inquiries : i.of # call.n
  BY <1>1 DEF IInv, InquiryInv
<1>4. CASE call.op = "findservices"
  <2>1. call' = [call EXCEPT !.pc = "idle", !.outcome = "ok"]
    BY <1>4 DEF AllLookedAt, EndCall
  <2>2. /\ call' \in CallRecords /\ call'.pc = "idle" /\ call'.op = "findservices"
        /\ call'.n = call.n /\ call'.found = call.found /\ call'.services = call.services
        /\ call'.failed = call.failed /\ call'.type = call.type /\ call'.name = call.name
    BY <1>1, <1>4, <2>1 DEF CallRecords, Pcs
  <2>3. TypeOK'
    BY <2>2, TypesKept DEF IInv, AllLookedAt
  <2>4. PcInv' /\ InquiryInv'
    BY <1>1, <1>3, <2>2 DEF IInv, PcInv, InquiryInv
  <2>5. SinceInv' /\ FoundInv'
    BY <2>2 DEF SinceInv, FoundInv, Searches
  <2>6. ASSUME Told' PROVE ServicesCurrent'
    <3>1. ASSUME NEW d \in Devices
          PROVE  \/ d \in call.failed
                 \/ d \in call.found /\ \E S \in since[d] : ServicesOf(d) = Wanted(S)
                 \/ d \notin call.found /\ ServicesOf(d) = {}
      BY <1>1, <1>4, <2>6 DEF IInv, FoundInv, Searches, Told
    <3> QED BY <1>1, <2>2, <3>1 DEF ServicesCurrent, ServicesOf, Wanted
  <2>7. NameInv'
    BY <1>1, <2>2 DEF IInv, NameInv, NameCurrent
  <2> QED BY <2>3, <2>4, <2>5, <2>6, <2>7 DEF IInv
<1>5. CASE call.op = "selectservice"
  <2>1. call' = [call EXCEPT !.pc = "choosing"]
    BY <1>5 DEF AllLookedAt
  <2>2. /\ call' \in CallRecords /\ call'.pc = "choosing" /\ call'.op = "selectservice"
        /\ call'.n = call.n /\ call'.found = call.found /\ call'.services = call.services
        /\ call'.type = call.type /\ call'.name = call.name /\ call'.todo = call.todo
    BY <1>1, <1>5, <2>1 DEF CallRecords, Pcs
  <2>3. TypeOK'
    BY <2>2, TypesKept DEF IInv, AllLookedAt
  <2>4. PcInv' /\ InquiryInv'
    BY <1>1, <1>3, <1>5, <2>2 DEF IInv, PcInv, InquiryInv
  <2>5. SinceInv'
    BY <1>1, <1>5, <2>2 DEF IInv, SinceInv, Searches
  <2>6. FoundInv'
    BY <1>1, <1>5, <2>2 DEF IInv, FoundInv, Searches, ServicesOf, Wanted
  <2>7. (Told => ServicesCurrent)' /\ NameInv'
    BY <1>1, <2>2 DEF IInv, ServicesCurrent, NameInv, NameCurrent
  <2> QED BY <2>3, <2>4, <2>5, <2>6, <2>7 DEF IInv
<1> QED BY <1>2, <1>4, <1>5

LEMMA RecordTyped ==
    ASSUME NEW c \in CallRecords, NEW services \in SUBSET (Devices \X Services),
           NEW todo \in SUBSET Devices, NEW fail \in SUBSET Devices
    PROVE  [c EXCEPT !.services = services, !.todo = todo, !.failed = fail,
                     !.pc = "looking"] \in CallRecords
BY DEF CallRecords, Pcs

\* What is found of a device is added to the result of the call; if it is current, all
\* that the call has found is.
LEMMA LookedKeeps ==
    ASSUME IInv, call.pc \in {"looking", "asking"}, NEW d \in call.todo,
           NEW F \in SUBSET Services, NEW fail \in SUBSET Devices, call.failed \subseteq fail,
           Told => d \in fail \/ \E S \in since[d] : F = Wanted(S),
           call.op = "selectservice" =>
             \A s \in F : \E S \in since[d] : s \in Wanted(S),
           call' = [call EXCEPT !.services = @ \cup ({d} \X F), !.todo = @ \ {d},
                                !.failed = fail, !.pc = "looking"],
           UNCHANGED <<world, naming, cache, updated, inquiries, queries, since>>
    PROVE  IInv'
<1>1. /\ call \in CallRecords /\ d \in Devices
      /\ platform' = platform /\ offered' = offered /\ name' = name /\ changes' = changes
      /\ known' = known /\ names' = names /\ cache' = cache /\ updated' = updated
      /\ inquiries' = inquiries /\ queries' = queries /\ since' = since
  BY CallTyped DEF IInv, world, naming, CallRecords
<1>2. call.op \in {"findservices", "selectservice"}
  BY <1>1 DEF IInv, PcInv, CallRecords, Ops
<1>3. \A i \in inquiries : i.of # call.n
  BY <1>1 DEF IInv, InquiryInv
<1>4. /\ call' \in CallRecords /\ call'.pc = "looking" /\ call'.op = call.op
      /\ call'.n = call.n /\ call'.found = call.found
      /\ call'.services = call.services \cup ({d} \X F)
      /\ call'.type = call.type /\ call'.name = call.name /\ call'.todo = call.todo \ {d}
      /\ call'.failed = fail /\ call'.device = call.device
  <2> DEFINE services == call.services \cup ({d} \X F)
             todo == call.todo \ {d}
  <2>1. /\ services \in SUBSET (Devices \X Services) /\ todo \in SUBSET Devices
        /\ fail \in SUBSET Devices
    BY <1>1 DEF CallRecords
  <2>2. call' = [call EXCEPT !.services = services, !.todo = todo, !.failed = fail,
                            !.pc = "looking"]
    OBVIOUS
  <2> HIDE DEF services, todo
  <2>3. /\ call'.pc = "looking" /\ call'.op = call.op
        /\ call'.n = call.n /\ call'.found = call.found /\ call'.services = services
        /\ call'.type = call.type /\ call'.name = call.name /\ call'.todo = todo
        /\ call'.failed = fail /\ call'.device = call.device
    BY <1>1, <2>2 DEF CallRecords
  <2>4. call' \in CallRecords
    <3>1. [call EXCEPT !.services = services, !.todo = todo, !.failed = fail,
                       !.pc = "looking"] \in CallRecords
      BY <1>1, <2>1, RecordTyped, Zenon
    <3> QED BY <2>2, <3>1, Zenon
  <2> QED BY <2>3, <2>4 DEF services, todo
<1>5. TypeOK'
  BY <1>1, <1>4, TypesKept DEF IInv
<1>6. PcInv'
  BY <1>1, <1>2, <1>4 DEF IInv, PcInv
<1>7. InquiryInv'
  BY <1>1, <1>3, <1>4 DEF IInv, InquiryInv
<1>8. SinceInv'
  BY <1>1, <1>2, <1>4 DEF IInv, SinceInv, Searches
<1>9. Searches /\ d \in call.found /\ call.todo \subseteq call.found
  BY <1>2 DEF IInv, FoundInv, Searches
<1>10. ServicesOf(d) = {}
  BY <1>1, <1>9 DEF IInv, FoundInv
<1>11. ServicesOf(d)' = F
  BY <1>4, <1>10 DEF ServicesOf
<1>12. \A x \in Devices : x # d => ServicesOf(x)' = ServicesOf(x)
  BY <1>4 DEF ServicesOf
<1>13. \A S \in SUBSET Services : Wanted(S)' = Wanted(S)
  BY <1>1, <1>4 DEF Wanted
<1>14. \A x \in Devices : since[x] \subseteq SUBSET Services
  BY DEF IInv, TypeOK
<1>15. FoundInv'
  <2>1. call'.todo \subseteq call'.found
    BY <1>4, <1>9
  <2>2. \A x \in Devices : x \in call'.todo \/ x \notin call'.found => ServicesOf(x)' = {}
    BY <1>4, <1>9, <1>12 DEF IInv, FoundInv
  <2>3. ASSUME Told, call.op = "findservices", NEW x \in call'.found \ call'.todo
        PROVE  x \in call'.failed \/ \E S \in since[x] : ServicesOf(x)' = Wanted(S)'
    <3>1. CASE x = d
      BY <1>1, <1>4, <1>11, <1>13, <1>14, <2>3, <3>1
    <3>2. CASE x # d
      <4>1. x \in call.found \ call.todo /\ x \in Devices
        BY <1>1, <1>4, <2>3, <3>2 DEF CallRecords
      <4>2. x \in call.failed \/ \E S \in since[x] : ServicesOf(x) = Wanted(S)
        BY <1>9, <2>3, <4>1 DEF IInv, FoundInv
      <4> QED BY <1>4, <1>12, <1>13, <1>14, <3>2, <4>1, <4>2
    <3> QED BY <3>1, <3>2
  <2>4. ASSUME call.op = "selectservice", NEW r \in call'.services
        PROVE  r[1] \in call'.found /\ \E S \in since[r[1]] : r[2] \in Wanted(S)'
    <3>1. CASE r \in call.services
      <4>1. r[1] \in Devices
        BY <1>1, <3>1 DEF CallRecords
      <4>2. r[1] \in call.found /\ \E S \in since[r[1]] : r[2] \in Wanted(S)
        BY <1>9, <2>4, <3>1 DEF IInv, FoundInv
      <4> QED BY <1>4, <1>13, <1>14, <4>1, <4>2
    <3>2. CASE r \in {d} \X F
      <4>1. r[1] = d /\ r[2] \in F
        BY <3>2
      <4>2. \E S \in since[d] : r[2] \in Wanted(S)
        BY <2>4, <4>1
      <4> QED BY <1>1, <1>4, <1>9, <1>13, <1>14, <4>1, <4>2
    <3> QED BY <1>4, <2>4, <3>1, <3>2
  <2>5. Told' => Told
    BY <1>1 DEF Told
  <2> QED BY <1>1, <1>4, <2>1, <2>2, <2>3, <2>4, <2>5 DEF FoundInv
<1>16. (Told => ServicesCurrent)' /\ NameInv'
  BY <1>1, <1>2, <1>4 DEF IInv, ServicesCurrent, NameInv, NameCurrent
<1> QED BY <1>5, <1>6, <1>7, <1>8, <1>15, <1>16 DEF IInv
LEMMA FilterFinds ==
    ASSUME IInv, NEW d \in Devices, NEW S \in since[d]
    PROVE  S \in SUBSET Services
BY DEF IInv, TypeOK

LEMMA LookUpKeeps ==
    ASSUME IInv, NEW d \in Devices, LookUp(d)
    PROVE  IInv'
<1>1. /\ call.pc = "looking" /\ d \in call.todo /\ call \in CallRecords /\ TypeOK
      /\ UNCHANGED <<world, naming, cache, updated, inquiries, queries, since>>
  BY CallTyped DEF IInv, LookUp
<1>2. /\ call.op \in {"findservices", "selectservice"}
      /\ call.op = "selectservice" => platform = "series60"
      /\ offered[d] \in since[d] /\ offered[d] \in SUBSET Services
  BY <1>1 DEF IInv, PcInv, CallRecords, Ops, SinceInv, Searches, TypeOK
<1>3. ASSUME platform = "linux",
             call' = Add(call, d, LinuxFilter(offered[d], call.name, call.type))
      PROVE  IInv'
  <2> DEFINE F == LinuxFilter(offered[d], call.name, call.type)
  <2>1. F \in SUBSET Services /\ call.failed \in SUBSET Devices
    BY <1>1, <1>2 DEF LinuxFilter, CallRecords
  <2>2. Told => F = Wanted(offered[d])
    BY <1>1, <1>2, <1>3, FilterIsWanted
  <2>3. call' = [call EXCEPT !.services = @ \cup ({d} \X F), !.todo = @ \ {d}]
    BY <1>3 DEF Add
  <2> HIDE DEF F
  <2>4. call' = [call EXCEPT !.services = @ \cup ({d} \X F), !.todo = @ \ {d},
                            !.failed = call.failed, !.pc = "looking"]
    BY <1>1, <2>3 DEF CallRecords
  <2>5. Told => d \in call.failed \/ \E S \in since[d] : F = Wanted(S)
    BY <1>2, <2>2
  <2>6. call.op # "selectservice"
    BY <1>2, <1>3
  <2> QED BY <1>1, <2>1, <2>4, <2>5, <2>6, LookedKeeps
<1>4. ASSUME platform = "series60", NEW failing \in SUBSET {"RFCOMM", "OBEX"},
             call' = [Add(call, d, Series60Filter(offered[d], call.name, call.type, failing))
                        EXCEPT !.failed = @ \cup IF failing = {} THEN {} ELSE {d}]
      PROVE  IInv'
  <2> DEFINE F == Series60Filter(offered[d], call.name, call.type, failing)
             fail == call.failed \cup IF failing = {} THEN {} ELSE {d}
  <2>1. F \in SUBSET Services /\ fail \in SUBSET Devices /\ call.failed \subseteq fail
    BY <1>1, <1>2 DEF Series60Filter, CallRecords
  <2>2. d \in fail \/ F = Wanted(offered[d])
    BY <1>1, <1>2, <1>4, FilterIsWanted
  <2>3. F \subseteq Wanted(offered[d])
    BY <1>1, <1>2, <1>4, FilterIsWanted
  <2>4. call' = [[call EXCEPT !.services = @ \cup ({d} \X F), !.todo = @ \ {d}]
                   EXCEPT !.failed = @ \cup IF failing = {} THEN {} ELSE {d}]
    BY <1>4 DEF Add
  <2>5. call' = [call EXCEPT !.services = @ \cup ({d} \X F), !.todo = @ \ {d},
                            !.failed = fail]
    BY <1>1, <2>4 DEF CallRecords
  <2> HIDE DEF F, fail
  <2>6. call' = [call EXCEPT !.services = @ \cup ({d} \X F), !.todo = @ \ {d},
                            !.failed = fail, !.pc = "looking"]
    BY <1>1, <2>5 DEF CallRecords
  <2>7. Told => d \in fail \/ \E S \in since[d] : F = Wanted(S)
    BY <1>2, <2>2
  <2>8. \A s \in F : \E S \in since[d] : s \in Wanted(S)
    BY <1>2, <2>3
  <2> QED BY <1>1, <2>1, <2>6, <2>7, <2>8, LookedKeeps
<1>5. CASE EndCall(call, "raised")
  BY <1>1, <1>5, RaisedKeeps
<1> QED BY <1>3, <1>4, <1>5 DEF LookUp

\* What the Mac knows of a device is found of it.
LEMMA WithKnownKeeps ==
    ASSUME IInv, platform = "mac", call.pc \in {"looking", "asking"}, NEW d \in call.todo,
           NEW fail \in SUBSET Devices, call.failed \subseteq fail,
           d \in fail \/ cache[d] \in since[d],
           call' = WithKnown([call EXCEPT !.failed = fail], d),
           UNCHANGED <<world, naming, cache, updated, inquiries, queries, since>>
    PROVE  IInv'
<1> DEFINE F == MacFilter(cache[d], call.name, call.type)
<1>1. /\ call \in CallRecords /\ d \in Devices /\ TypeOK /\ cache[d] \in SUBSET Services
      /\ call.op = "findservices"
  BY CallTyped DEF IInv, TypeOK, PcInv, CallRecords, Ops
<1>2. F \in SUBSET Services /\ F = Wanted(cache[d])
  BY <1>1, FilterIsWanted DEF MacFilter
<1>3. call' = [[[call EXCEPT !.failed = fail] EXCEPT !.services = @ \cup ({d} \X F),
                                                    !.todo = @ \ {d}]
                 EXCEPT !.pc = "looking"]
  BY <1>1 DEF WithKnown, Add, CallRecords
<1> HIDE DEF F
<1>4. call' = [call EXCEPT !.services = @ \cup ({d} \X F), !.todo = @ \ {d},
                          !.failed = fail, !.pc = "looking"]
  BY <1>1, <1>3 DEF CallRecords
<1> QED BY <1>1, <1>2, <1>4, LookedKeeps

LEMMA LookAtCacheKeeps ==
    ASSUME IInv, NEW d \in Devices, LookAtCache(d)
    PROVE  IInv'
<1>1. /\ platform = "mac" /\ call.pc = "looking" /\ d \in call.todo /\ call \in CallRecords
      /\ UNCHANGED <<world, naming, cache, updated, inquiries, since>>
  BY CallTyped DEF IInv, LookAtCache
<1>2. call.op = "findservices"
  BY <1>1 DEF IInv, PcInv, CallRecords, Ops
<1>3. ASSUME updated[d] = "recently", call' = WithKnown(call, d), queries' = queries
      PROVE  IInv'
  <2>1. call = [call EXCEPT !.failed = call.failed] /\ call.failed \in SUBSET Devices
    BY <1>1 DEF CallRecords
  <2>2. call' = WithKnown([call EXCEPT !.failed = call.failed], d)
    BY <1>3, <2>1
  <2>3. cache[d] \in since[d]
    BY <1>1, <1>2, <1>3 DEF IInv, SinceInv, Searches
  <2> QED BY <1>1, <1>3, <2>1, <2>2, <2>3, WithKnownKeeps
<1>4. ASSUME call' = WithKnown([call EXCEPT !.failed = @ \cup {d}], d), queries' = queries
      PROVE  IInv'
  <2> DEFINE fail == call.failed \cup {d}
  <2>1. fail \in SUBSET Devices /\ call.failed \subseteq fail /\ d \in fail
    BY <1>1 DEF CallRecords
  <2>2. call' = WithKnown([call EXCEPT !.failed = fail], d)
    BY <1>4
  <2> HIDE DEF fail
  <2> QED BY <1>1, <1>4, <2>1, <2>2, WithKnownKeeps
<1>5. ASSUME call' = [call EXCEPT !.pc = "querying", !.device = d, !.queryresult = "None"],
             queries' = queries \cup {<<call.n, d>>}
      PROVE  IInv'
  <2>1. /\ platform' = platform /\ offered' = offered /\ name' = name /\ changes' = changes
        /\ known' = known /\ names' = names /\ cache' = cache /\ updated' = updated
        /\ inquiries' = inquiries /\ since' = since
    BY <1>1 DEF world, naming
  <2>2. /\ call' \in CallRecords /\ call'.pc = "querying" /\ call'.op = "findservices"
        /\ call'.n = call.n /\ call'.found = call.found /\ call'.services = call.services
        /\ call'.failed = call.failed /\ call'.type = call.type /\ call'.name = call.name
        /\ call'.todo = call.todo /\ call'.device = d /\ call'.queryresult = "None"
    BY <1>1, <1>2, <1>5 DEF CallRecords, Pcs
  <2>3. TypeOK'
    <3>1. call.n \in Calls
      BY <1>1, <1>2 DEF IInv, PcInv, CallRecords, Calls
    <3>2. queries' \subseteq Calls \X Devices
      BY <1>5, <3>1 DEF IInv, TypeOK
    <3> QED BY <2>1, <2>2, <3>2 DEF IInv, TypeOK, CallRecords, Pcs, Ops
  <2>4. PcInv'
    BY <1>1, <2>1, <2>2 DEF IInv, PcInv
  <2>5. InquiryInv'
    BY <1>1, <2>1, <2>2 DEF IInv, InquiryInv
  <2>6. SinceInv'
    BY <1>1, <1>2, <2>1, <2>2 DEF IInv, SinceInv, Searches
  <2>7. FoundInv'
    BY <1>1, <1>2, <2>1, <2>2 DEF IInv, FoundInv, Searches, ServicesOf, Wanted, Told
  <2>8. (Told => ServicesCurrent)' /\ NameInv'
    BY <1>1, <1>2, <2>1, <2>2 DEF IInv, ServicesCurrent, NameInv, NameCurrent
  <2> QED BY <2>3, <2>4, <2>5, <2>6, <2>7, <2>8 DEF IInv
<1> QED BY <1>3, <1>4, <1>5 DEF LookAtCache

LEMMA QueriedKeeps == ASSUME IInv, Queried PROVE IInv'
<1>1. /\ call.pc = "querying" /\ call \in CallRecords
      /\ call' = [call EXCEPT !.pc = "asking", !.queryresult = "None"]
      /\ platform' = platform /\ offered' = offered /\ name' = name /\ changes' = changes
      /\ known' = known /\ names' = names /\ cache' = cache /\ updated' = updated
      /\ inquiries' = inquiries /\ queries' = queries /\ since' = since
  BY CallTyped DEF IInv, Queried, world, naming
<1>2. /\ call' \in CallRecords /\ call'.pc = "asking" /\ call'.op = call.op
      /\ call'.n = call.n /\ call'.found = call.found /\ call'.services = call.services
      /\ call'.failed = call.failed /\ call'.type = call.type /\ call'.name = call.name
      /\ call'.todo = call.todo /\ call'.device = call.device /\ call'.queryresult = "None"
  BY <1>1 DEF CallRecords, Pcs
<1>3. call.op = "findservices"
  BY <1>1 DEF IInv, PcInv, CallRecords, Ops
<1>4. TypeOK'
  BY <1>1, <1>2, TypesKept DEF IInv, Queried
<1>5. PcInv' /\ InquiryInv'
  BY <1>1, <1>2, <1>3 DEF IInv, PcInv, InquiryInv
<1>6. SinceInv'
  BY <1>1, <1>2, <1>3 DEF IInv, SinceInv, Searches
<1>7. FoundInv'
  BY <1>1, <1>2, <1>3 DEF IInv, FoundInv, Searches, ServicesOf, Wanted, Told
<1>8. (Told => ServicesCurrent)' /\ NameInv'
  BY <1>1, <1>2, <1>3 DEF IInv, ServicesCurrent, NameInv, NameCurrent
<1> QED BY <1>4, <1>5, <1>6, <1>7, <1>8 DEF IInv

LEMMA QueryCompleteKeeps ==
    ASSUME IInv, NEW q \in queries, NEW ok \in BOOLEAN, QueryComplete(q, ok)
    PROVE  IInv'
<1>1. /\ queries' = queries \ {q} /\ call \in CallRecords
      /\ platform' = platform /\ offered' = offered /\ name' = name /\ changes' = changes
      /\ known' = known /\ names' = names /\ inquiries' = inquiries /\ since' = since
      /\ q \in Calls \X Devices
  BY CallTyped DEF IInv, QueryComplete, world, naming, TypeOK
<1>2. CASE UNCHANGED <<cache, updated>> /\ call' = call
  <2>1. TypeOK'
    BY <1>1, <1>2 DEF IInv, TypeOK
  <2>2. PcInv' /\ InquiryInv'
    BY <1>1, <1>2 DEF IInv, PcInv, InquiryInv
  <2>3. SinceInv' /\ NameInv'
    BY <1>1, <1>2 DEF IInv, SinceInv, Searches, NameInv, NameCurrent
  <2>4. FoundInv' /\ (Told => ServicesCurrent)'
    BY <1>1, <1>2 DEF IInv, FoundInv, Searches, ServicesOf, Wanted, Told, ServicesCurrent
  <2> QED BY <2>1, <2>2, <2>3, <2>4 DEF IInv
<1>3. /\ cache' \in [Devices -> SUBSET Services]
      /\ updated' \in [Devices -> {"never", "recently", "earlier"}]
      /\ \A d \in Devices : \/ cache'[d] = cache[d] /\ updated'[d] = updated[d]
                            \/ cache'[d] = offered[d]
      /\ ok => cache'[q[2]] = offered[q[2]]
  BY <1>1 DEF QueryComplete, IInv, TypeOK
<1>4. /\ call' \in CallRecords /\ call'.pc = call.pc /\ call'.op = call.op
      /\ call'.n = call.n /\ call'.found = call.found /\ call'.services = call.services
      /\ call'.failed = call.failed /\ call'.type = call.type /\ call'.name = call.name
      /\ call'.todo = call.todo /\ call'.device = call.device
      /\ call'.usecache = call.usecache /\ call'.named = call.named
      /\ call'.outcome = call.outcome /\ call'.inquiring = call.inquiring
      /\ call'.queryresult = "ok" => call.queryresult = "ok" \/ (ok /\ call.device = q[2])
  BY <1>1 DEF QueryComplete, CallRecords
<1>5. TypeOK'
  BY <1>1, <1>3, <1>4 DEF IInv, TypeOK, CallRecords, Pcs, Ops
<1>6. PcInv' /\ InquiryInv'
  BY <1>1, <1>4 DEF IInv, PcInv, InquiryInv
<1>7. SinceInv'
  <2> SUFFICES ASSUME Searches
               PROVE  /\ \A d \in Devices : /\ offered[d] \in since[d]
                                            /\ updated'[d] = "recently" => cache'[d] \in since[d]
                      /\ call.pc \in {"querying", "asking"} /\ call'.queryresult = "ok"
                           => cache'[call.device] \in since[call.device]
    BY <1>1, <1>4 DEF SinceInv, Searches
  <2>1. \A d \in Devices : /\ offered[d] \in since[d]
                           /\ updated[d] = "recently" => cache[d] \in since[d]
    BY DEF IInv, SinceInv
  <2>2. ASSUME call.pc \in {"querying", "asking"}, call'.queryresult = "ok"
        PROVE  cache'[call.device] \in since[call.device]
    <3>1. call.device \in Devices
      BY <1>1, <2>2 DEF IInv, PcInv, CallRecords
    <3>2. call.queryresult = "ok" => cache[call.device] \in since[call.device]
      BY <2>2 DEF IInv, SinceInv
    <3>3. CASE call.queryresult = "ok"
      <4>1. cache[call.device] \in since[call.device] /\ offered[call.device] \in since[call.device]
        BY <2>1, <3>1, <3>2, <3>3
      <4> QED BY <1>3, <3>1, <4>1
    <3>4. CASE ok /\ call.device = q[2]
      <4>1. cache'[call.device] = offered[call.device]
        BY <1>3, <3>4
      <4> QED BY <2>1, <3>1, <4>1
    <3> QED BY <1>4, <2>2, <3>3, <3>4
  <2>3. ASSUME NEW d \in Devices
        PROVE  offered[d] \in since[d] /\ (updated'[d] = "recently" => cache'[d] \in since[d])
    BY <1>3, <2>1
  <2> QED BY <2>2, <2>3
<1>8. FoundInv'
  BY <1>1, <1>4 DEF IInv, FoundInv, Searches, ServicesOf, Wanted, Told
<1>9. (Told => ServicesCurrent)'
  BY <1>1, <1>4 DEF IInv, Wanted, Told, ServicesCurrent
<1>10. NameInv'
  BY <1>1, <1>4 DEF IInv, NameInv, NameCurrent
<1> QED BY <1>5, <1>6, <1>7, <1>8, <1>9, <1>10 DEF IInv

LEMMA AskedKeeps == ASSUME IInv, Asked PROVE IInv'
<1>1. /\ call.pc = "asking" /\ call \in CallRecords /\ platform = "mac"
      /\ call.device \in call.todo /\ call.op = "findservices" /\ call.device \in Devices
      /\ UNCHANGED <<world, naming, cache, updated, inquiries, queries, since>>
  BY CallTyped DEF IInv, Asked, PcInv, CallRecords, Ops
<1>2. CASE call.queryresult = "ok"
  <2>1. call = [call EXCEPT !.failed = call.failed] /\ call.failed \in SUBSET Devices
    BY <1>1 DEF CallRecords
  <2>2. call' = WithKnown([call EXCEPT !.failed = call.failed], call.device)
    BY <1>2, <2>1 DEF Asked
  <2>3. cache[call.device] \in since[call.device]
    BY <1>1, <1>2 DEF IInv, SinceInv, Searches
  <2> QED BY <1>1, <2>1, <2>2, <2>3, WithKnownKeeps
<1>3. CASE call.queryresult # "ok"
  <2> DEFINE fail == call.failed \cup {call.device}
  <2>1. fail \in SUBSET Devices /\ call.failed \subseteq fail /\ call.device \in fail
    BY <1>1 DEF CallRecords
  <2>2. call' = WithKnown([call EXCEPT !.failed = fail], call.device)
    BY <1>3 DEF Asked
  <2> HIDE DEF fail
  <2> QED BY <1>1, <2>1, <2>2, WithKnownKeeps
<1> QED BY <1>2, <1>3

-----------------------------------------------------------------------------
(* Names. *)

LEMMA NewCallTyped ==
    ASSUME NEW c \in CallRecords, c.n + 1 \in 0 .. MaxCalls, NEW op \in Ops, NEW pc \in Pcs,
           NEW d \in Devices \cup {Host}, NEW usecache \in BOOLEAN
    PROVE  [c EXCEPT !.n = @ + 1, !.op = op, !.pc = pc, !.device = d, !.usecache = usecache,
                     !.named = NoName, !.type = "None", !.name = "None", !.inquiring = FALSE,
                     !.inquiryerr = "none", !.todo = {}, !.queryresult = "None",
                     !.found = {}, !.services = {}, !.failed = {}, !.outcome = "none"]
             \in CallRecords
<1> DEFINE e == [c EXCEPT !.n = @ + 1, !.op = op, !.pc = pc, !.device = d,
                          !.usecache = usecache, !.named = NoName, !.type = "None",
                          !.name = "None", !.inquiring = FALSE, !.inquiryerr = "none"]
<1>1. e \in CallRecords
  BY DEF CallRecords, Types, Errors
<1>2. [e EXCEPT !.todo = {}, !.queryresult = "None", !.found = {}, !.services = {},
                !.failed = {}, !.outcome = "none"] \in CallRecords
  <2> HIDE DEF e
  <2> QED BY <1>1 DEF CallRecords
<1>3. [c EXCEPT !.n = @ + 1, !.op = op, !.pc = pc, !.device = d, !.usecache = usecache,
                !.named = NoName, !.type = "None", !.name = "None", !.inquiring = FALSE,
                !.inquiryerr = "none", !.todo = {}, !.queryresult = "None",
                !.found = {}, !.services = {}, !.failed = {}, !.outcome = "none"]
      = [e EXCEPT !.todo = {}, !.queryresult = "None", !.found = {}, !.services = {},
                  !.failed = {}, !.outcome = "none"]
  BY DEF CallRecords
<1> QED BY <1>2, <1>3, Zenon

LEMMA CallNameKeeps ==
    ASSUME IInv, NEW d \in Devices \cup {Host}, NEW usecache \in BOOLEAN, CallName(d, usecache)
    PROVE  IInv'
<1>1. /\ call \in CallRecords /\ call.n < MaxCalls
      /\ call' = [call EXCEPT !.n = @ + 1, !.op = "finddevicename", !.pc = "naming",
                              !.device = d, !.usecache = usecache, !.named = NoName,
                              !.type = "None", !.name = "None", !.inquiring = FALSE,
                              !.inquiryerr = "none", !.todo = {}, !.queryresult = "None",
                              !.found = {}, !.services = {}, !.failed = {}, !.outcome = "none"]
      /\ names' = IF d = Host THEN {}
                  ELSE {name[d]} \cup (IF usecache THEN {known[d]} \ {NoName} ELSE {})
      /\ platform' = platform /\ offered' = offered /\ name' = name /\ changes' = changes
      /\ known' = known /\ cache' = cache /\ updated' = updated
      /\ inquiries' = inquiries /\ queries' = queries /\ since' = since
  BY CallTyped DEF IInv, CallName, world
<1>2. /\ call'.n = call.n + 1 /\ call'.pc = "naming" /\ call'.op = "finddevicename"
      /\ call'.device = d /\ call'.usecache = usecache
  BY <1>1 DEF CallRecords
<1>3. call' \in CallRecords
  <2>1. call.n + 1 \in 0 .. MaxCalls
    BY <1>1 DEF CallRecords
  <2>2. "finddevicename" \in Ops /\ "naming" \in Pcs
    BY DEF Ops, Pcs
  <2> QED BY <1>1, <2>1, <2>2, NewCallTyped, Zenon
<1>4. TypeOK'
  <2>1. names' \subseteq 0 .. MaxChanges
    BY <1>1 DEF IInv, TypeOK
  <2> QED BY <1>1, <1>3, <2>1 DEF IInv, TypeOK, CallRecords, Pcs, Ops
<1>5. PcInv'
  BY <1>1, <1>2 DEF PcInv, CallRecords
<1>6. InquiryInv'
  <2>1. call.n \in Nat /\ \A i \in inquiries : i.of \in Nat /\ i.of <= call.n
    BY <1>1 DEF IInv, TypeOK, InquiryInv, CallRecords, Calls
  <2> QED BY <1>1, <1>2, <2>1 DEF IInv, InquiryInv
<1>7. SinceInv' /\ FoundInv' /\ (Told => ServicesCurrent)'
  BY <1>2 DEF SinceInv, FoundInv, Searches, ServicesCurrent
<1>8. NameInv'
  BY <1>1, <1>2 DEF IInv, NameInv, NameCurrent
<1> QED BY <1>4, <1>5, <1>6, <1>7, <1>8 DEF IInv

\* A step of finddevicename(), as long as it finds no name.
LEMMA NamingKeeps ==
    ASSUME IInv, call.pc \in {"naming", "hostname", "known", "nameasked"},
           NEW to \in Pcs, NEW outcome \in {"none", "ok", "raised"},
           NEW named \in {NoName} \cup 0 .. MaxChanges,
           call' = [call EXCEPT !.pc = to, !.named = named, !.outcome = outcome],
           \/ to \in {"hostname", "known", "nameasked"}
           \/ to = "idle" /\ (call.device = Host \/ named \in names),
           to \in {"known", "nameasked"} => call.device # Host,
           to = "hostname" => call.device = Host,
           to = "known" => call.pc = "naming",
           known' \in [Devices -> {NoName} \cup 0 .. MaxChanges],
           to = "idle" \/ known' = known,
           UNCHANGED <<world, names, cache, updated, inquiries, queries, since>>
    PROVE  IInv'
<1>1. /\ call \in CallRecords
      /\ platform' = platform /\ offered' = offered /\ name' = name /\ changes' = changes
      /\ names' = names /\ cache' = cache /\ updated' = updated
      /\ inquiries' = inquiries /\ queries' = queries /\ since' = since
  BY CallTyped DEF IInv, world
<1>2. call.op = "finddevicename"
  BY <1>1 DEF IInv, PcInv, CallRecords, Ops
<1>3. /\ call'.n = call.n /\ call'.pc = to /\ call'.op = "finddevicename"
      /\ call'.device = call.device /\ call'.usecache = call.usecache
      /\ call'.named = named /\ call'.outcome = outcome /\ call' \in CallRecords
  BY <1>1, <1>2 DEF CallRecords, Pcs
<1>4. TypeOK'
  BY <1>1, <1>3 DEF IInv, TypeOK, CallRecords, Pcs, Ops
<1>5. PcInv'
  BY <1>1, <1>2, <1>3 DEF IInv, PcInv
<1>6. InquiryInv'
  BY <1>1, <1>3 DEF IInv, InquiryInv
<1>7. SinceInv' /\ FoundInv' /\ (Told => ServicesCurrent)'
  BY <1>3 DEF SinceInv, FoundInv, Searches, ServicesCurrent
<1>8. NameInv'
  BY <1>1, <1>2, <1>3 DEF IInv, NameInv, NameCurrent
<1> QED BY <1>4, <1>5, <1>6, <1>7, <1>8 DEF IInv

LEMMA NameStepsKeep ==
    ASSUME IInv, HostAddress \/ HostName \/ LookAtName \/ NameAnswered
    PROVE  IInv'
<1>1. /\ call \in CallRecords
      /\ known \in [Devices -> {NoName} \cup 0 .. MaxChanges]
      /\ name \in [Devices -> 0 .. MaxChanges]
  BY CallTyped DEF IInv, TypeOK
<1>2. call = [call EXCEPT !.named = call.named, !.outcome = call.outcome]
  BY <1>1 DEF CallRecords
<1>3. ASSUME HostAddress, call' = [call EXCEPT !.pc = IF call.device = Host THEN "hostname"
                                                      ELSE "known"]
      PROVE  IInv'
  <2> DEFINE to == IF call.device = Host THEN "hostname" ELSE "known"
  <2>1. call' = [call EXCEPT !.pc = to, !.named = call.named, !.outcome = call.outcome]
    BY <1>1, <1>3 DEF CallRecords
  <2>2. /\ to \in Pcs /\ to \in {"hostname", "known"}
        /\ to = "known" <=> call.device # Host
        /\ call.named \in {NoName} \cup 0 .. MaxChanges
        /\ call.outcome \in {"none", "ok", "raised"}
    BY <1>1 DEF Pcs, CallRecords
  <2>3. /\ call.pc = "naming" /\ known' = known
        /\ UNCHANGED <<world, names, cache, updated, inquiries, queries, since>>
    BY <1>3 DEF HostAddress, naming
  <2> HIDE DEF to
  <2> QED BY <1>1, <2>1, <2>2, <2>3, NamingKeeps
<1>4. ASSUME HostAddress \/ HostName \/ NameAnswered, EndCall(call, "raised"), known' = known
      PROVE  IInv'
  BY <1>4, RaisedKeeps DEF HostAddress, HostName, NameAnswered, naming
<1>5. ASSUME HostName, EndCall(call, "ok")
      PROVE  IInv'
  <2>1. call' = [call EXCEPT !.pc = "idle", !.named = call.named, !.outcome = "ok"]
    BY <1>1, <1>5 DEF CallRecords, EndCall
  <2>2. /\ call.pc = "hostname" /\ known' = known
        /\ UNCHANGED <<world, names, cache, updated, inquiries, queries, since>>
    BY <1>5 DEF HostName, naming
  <2>3. call.device = Host
    BY <2>2 DEF IInv, PcInv
  <2>4. "idle" \in Pcs /\ call.named \in {NoName} \cup 0 .. MaxChanges
    BY <1>1 DEF Pcs, CallRecords
  <2> QED BY <1>1, <2>1, <2>2, <2>3, <2>4, NamingKeeps
<1>6. ASSUME LookAtName PROVE IInv'
  <2>1. /\ call.pc = "known" /\ known' = known /\ call.device # Host
        /\ UNCHANGED <<world, names, cache, updated, inquiries, queries, since>>
    BY <1>6 DEF LookAtName, naming, IInv, PcInv
  <2>2. CASE call.usecache /\ known[call.device] # NoName
    <3> DEFINE named == known[call.device]
    <3>1. call' = [call EXCEPT !.pc = "idle", !.named = named, !.outcome = "ok"]
      <4>1. call' = [[call EXCEPT !.named = named] EXCEPT !.pc = "idle", !.outcome = "ok"]
        BY <1>6, <2>2 DEF LookAtName, EndCall
      <4> QED BY <1>1, <4>1 DEF CallRecords
    <3>2. call.op = "finddevicename"
      BY <1>1, <2>1 DEF IInv, PcInv, CallRecords, Ops
    <3>3. named \in names /\ named \in 0 .. MaxChanges
      BY <2>1, <2>2, <3>2 DEF IInv, NameInv, TypeOK
    <3>4. "idle" \in Pcs
      BY DEF Pcs
    <3> HIDE DEF named
    <3> QED BY <1>1, <2>1, <3>1, <3>3, <3>4, NamingKeeps
  <2>3. CASE ~(call.usecache /\ known[call.device] # NoName)
    <3>1. call' = [call EXCEPT !.pc = "nameasked", !.named = call.named,
                              !.outcome = call.outcome]
      BY <1>1, <1>6, <2>3 DEF LookAtName, CallRecords
    <3>2. /\ "nameasked" \in Pcs /\ call.named \in {NoName} \cup 0 .. MaxChanges
          /\ call.outcome \in {"none", "ok", "raised"}
      BY <1>1 DEF Pcs, CallRecords
    <3> QED BY <1>1, <2>1, <3>1, <3>2, NamingKeeps
  <2> QED BY <2>2, <2>3
<1>7. ASSUME NameAnswered, known' = [known EXCEPT ![call.device] = name[call.device]],
             EndCall([call EXCEPT !.named = name[call.device]], "ok")
      PROVE  IInv'
  <2> DEFINE named == name[call.device]
  <2>1. /\ call.pc = "nameasked" /\ call.device \in Devices /\ call.device # Host
        /\ UNCHANGED <<world, names, cache, updated, inquiries, queries, since>>
    BY <1>1, <1>7 DEF NameAnswered, IInv, PcInv, CallRecords
  <2>2. call' = [call EXCEPT !.pc = "idle", !.named = named, !.outcome = "ok"]
    <3>1. call' = [[call EXCEPT !.named = named] EXCEPT !.pc = "idle", !.outcome = "ok"]
      BY <1>7 DEF EndCall
    <3> QED BY <1>1, <3>1 DEF CallRecords
  <2>3. call.op = "finddevicename"
    BY <1>1, <2>1 DEF IInv, PcInv, CallRecords, Ops
  <2>4. named \in names /\ named \in 0 .. MaxChanges
    BY <1>1, <2>1, <2>3 DEF IInv, NameInv
  <2>5. known' \in [Devices -> {NoName} \cup 0 .. MaxChanges]
    BY <1>1, <1>7, <2>4
  <2>6. "idle" \in Pcs
    BY DEF Pcs
  <2> HIDE DEF named
  <2> QED BY <2>1, <2>2, <2>4, <2>5, <2>6, NamingKeeps
<1> QED BY <1>3, <1>4, <1>5, <1>6, <1>7 DEF HostAddress, HostName, NameAnswered, naming

-----------------------------------------------------------------------------
(* A search begins. *)

LEMMA NowIsCurrent ==
    ASSUME TypeOK
    PROVE  /\ Now \in [Devices -> SUBSET SUBSET Services]
           /\ \A d \in Devices : /\ offered[d] \in Now[d]
                                 /\ updated[d] = "recently" => cache[d] \in Now[d]
<1>1. \A d \in Devices : offered[d] \in SUBSET Services /\ cache[d] \in SUBSET Services
  BY DEF TypeOK
<1> QED BY <1>1 DEF Now

LEMMA SearchBegins ==
    ASSUME IInv, call.pc = "idle", call.n < MaxCalls, call' \in CallRecords,
           call'.n = call.n + 1,
           \/ call'.op = "finddevices" /\ call'.pc = "starting"
           \/ call'.op = "findservices" /\ call'.pc \in {"starting", "looking"}
           \/ call'.op \in {"selectdevice", "selectservice"} /\ call'.pc = "dialog",
           call'.pc \in {"starting", "dialog"} => call'.todo = {},
           call'.services = {}, call'.found = call'.todo,
           call'.pc = "dialog" => call'.type = "None" /\ call'.name = "None",
           since' = Now,
           inquiries' = IF call'.pc = "starting"
                        THEN inquiries \cup {NewInquiry(call'.n)} ELSE inquiries,
           UNCHANGED <<world, naming, cache, updated, queries>>
    PROVE  IInv'
<1>1. /\ call \in CallRecords
      /\ platform' = platform /\ offered' = offered /\ name' = name /\ changes' = changes
      /\ known' = known /\ names' = names /\ cache' = cache /\ updated' = updated
      /\ queries' = queries
  BY CallTyped DEF IInv, world, naming
<1>2. /\ call.n \in Nat /\ call'.n \in Calls /\ \A i \in inquiries : i.of \in Nat /\ i.of <= call.n
  BY <1>1 DEF IInv, TypeOK, InquiryInv, CallRecords, Calls
<1>3. NewInquiry(call'.n) \in [of : Calls, found : SUBSET Devices] /\ NewInquiry(call'.n).of = call'.n
  BY <1>2 DEF NewInquiry
<1>4. TypeOK'
  <2>1. inquiries' \subseteq [of : Calls, found : SUBSET Devices]
    BY <1>3 DEF IInv, TypeOK
  <2> QED BY <1>1, <2>1, NowIsCurrent DEF IInv, TypeOK, CallRecords, Pcs, Ops
<1>5. PcInv'
  BY <1>2 DEF PcInv
<1>6. InquiryInv'
  BY <1>2, <1>3 DEF IInv, InquiryInv
<1>7. SinceInv'
  BY <1>1, NowIsCurrent DEF IInv, SinceInv
<1>8. FoundInv'
  <2>1. \A d \in Devices : ServicesOf(d)' = {}
    BY DEF ServicesOf
  <2> QED BY <2>1 DEF FoundInv
<1>9. (Told => ServicesCurrent)'
  BY DEF ServicesCurrent
<1>10. NameInv'
  BY <1>1 DEF IInv, NameInv, NameCurrent
<1> QED BY <1>4, <1>5, <1>6, <1>7, <1>8, <1>9, <1>10 DEF IInv

LEMMA SearchTyped ==
    ASSUME NEW c \in CallRecords, c.n + 1 \in 0 .. MaxCalls, NEW op \in Ops, NEW pc \in Pcs,
           NEW type \in Types, NEW wanted \in Names \cup {"None"},
           NEW devices \in SUBSET Devices
    PROVE  [c EXCEPT !.n = @ + 1, !.op = op, !.type = type, !.name = wanted, !.pc = pc,
                     !.usecache = FALSE, !.named = NoName, !.device = Host,
                     !.inquiring = FALSE, !.inquiryerr = "none", !.todo = devices,
                     !.found = devices, !.services = {}, !.failed = {}, !.outcome = "none"]
             \in CallRecords
<1> DEFINE e == [c EXCEPT !.n = @ + 1, !.op = op, !.type = type, !.name = wanted, !.pc = pc,
                          !.usecache = FALSE, !.named = NoName, !.device = Host]
<1>1. e \in CallRecords
  BY DEF CallRecords
<1>2. [e EXCEPT !.inquiring = FALSE, !.inquiryerr = "none", !.todo = devices,
                !.found = devices, !.services = {}, !.failed = {}, !.outcome = "none"]
        \in CallRecords
  <2> HIDE DEF e
  <2> DEFINE b == [e EXCEPT !.inquiring = FALSE, !.inquiryerr = "none", !.todo = devices,
                            !.found = devices]
  <2>1. b \in CallRecords
    BY <1>1 DEF CallRecords, Errors
  <2>2. [b EXCEPT !.services = {}, !.failed = {}, !.outcome = "none"] \in CallRecords
    <3> HIDE DEF b
    <3> QED BY <2>1 DEF CallRecords
  <2>3. [e EXCEPT !.inquiring = FALSE, !.inquiryerr = "none", !.todo = devices,
                  !.found = devices, !.services = {}, !.failed = {}, !.outcome = "none"]
        = [b EXCEPT !.services = {}, !.failed = {}, !.outcome = "none"]
    BY <1>1 DEF CallRecords
  <2> QED BY <2>2, <2>3, Zenon
<1>3. [c EXCEPT !.n = @ + 1, !.op = op, !.type = type, !.name = wanted, !.pc = pc,
                !.usecache = FALSE, !.named = NoName, !.device = Host,
                !.inquiring = FALSE, !.inquiryerr = "none", !.todo = devices,
                !.found = devices, !.services = {}, !.failed = {}, !.outcome = "none"]
      = [e EXCEPT !.inquiring = FALSE, !.inquiryerr = "none", !.todo = devices,
                  !.found = devices, !.services = {}, !.failed = {}, !.outcome = "none"]
  BY DEF CallRecords
<1> QED BY <1>2, <1>3, Zenon

LEMMA CallKeeps ==
    ASSUME IInv, NEW op \in {"finddevices", "findservices"}, NEW type \in Types,
           NEW wanted \in Names \cup {"None"}, NEW addr \in {{}} \cup {{d} : d \in Devices},
           Call(op, type, wanted, addr)
    PROVE  IInv'
<1> DEFINE inquires == op = "finddevices" \/ (addr = {} /\ platform # "linux")
           pc == IF inquires THEN "starting" ELSE "looking"
<1>1. /\ call \in CallRecords /\ call.pc = "idle" /\ call.n < MaxCalls
      /\ since' = Now
      /\ inquiries' = IF call'.pc = "starting" THEN inquiries \cup {NewInquiry(call'.n)}
                      ELSE inquiries
      /\ UNCHANGED <<world, naming, cache, updated, queries>>
  BY CallTyped DEF IInv, Call
<1>2. PICK devices \in IF addr = {} /\ ~inquires THEN SUBSET Devices ELSE {addr} :
        call' = [call EXCEPT !.n = @ + 1, !.op = op, !.type = type, !.name = wanted, !.pc = pc,
                             !.usecache = FALSE, !.named = NoName, !.device = Host,
                             !.inquiring = FALSE, !.inquiryerr = "none", !.todo = devices,
                             !.found = devices, !.services = {}, !.failed = {},
                             !.outcome = "none"]
  BY DEF Call
<1>3. devices \in SUBSET Devices
  OBVIOUS
<1>4. inquires => devices = {}
  BY DEF Call
<1>5. /\ op \in Ops /\ pc \in Pcs /\ call.n + 1 \in 0 .. MaxCalls
      /\ pc = "starting" <=> inquires
      /\ pc \in {"starting", "looking"} /\ (op = "finddevices" => pc = "starting")
  BY <1>1 DEF Ops, Pcs, CallRecords
<1> HIDE DEF inquires, pc
<1>6. call' \in CallRecords
  <2>1. [call EXCEPT !.n = @ + 1, !.op = op, !.type = type, !.name = wanted, !.pc = pc,
                     !.usecache = FALSE, !.named = NoName, !.device = Host,
                     !.inquiring = FALSE, !.inquiryerr = "none", !.todo = devices,
                     !.found = devices, !.services = {}, !.failed = {}, !.outcome = "none"]
          \in CallRecords
    BY <1>1, <1>3, <1>5, SearchTyped, Zenon
  <2> QED BY <1>2, <2>1, Zenon
<1>7. /\ call'.n = call.n + 1 /\ call'.op = op /\ call'.pc = pc /\ call'.todo = devices
      /\ call'.found = devices /\ call'.services = {}
  BY <1>1, <1>2 DEF CallRecords
<1>8. \/ call'.op = "finddevices" /\ call'.pc = "starting"
      \/ call'.op = "findservices" /\ call'.pc \in {"starting", "looking"}
  BY <1>5, <1>7
<1>9. call'.pc \in {"starting", "dialog"} => call'.todo = {}
  BY <1>4, <1>5, <1>7
<1> QED BY <1>1, <1>6, <1>7, <1>8, <1>9, SearchBegins

LEMMA CallSelectKeeps ==
    ASSUME IInv, NEW op \in {"selectdevice", "selectservice"}, CallSelect(op)
    PROVE  IInv'
<1>1. /\ call \in CallRecords /\ call.pc = "idle" /\ call.n < MaxCalls
      /\ since' = Now /\ inquiries' = inquiries
      /\ UNCHANGED <<world, naming, cache, updated, queries>>
      /\ call' = [call EXCEPT !.n = @ + 1, !.op = op, !.pc = "dialog", !.device = Host,
                              !.usecache = FALSE, !.named = NoName, !.type = "None",
                              !.name = "None", !.inquiring = FALSE, !.inquiryerr = "none",
                              !.todo = {}, !.queryresult = "None", !.found = {},
                              !.services = {}, !.failed = {}, !.outcome = "none"]
  BY CallTyped DEF IInv, CallSelect
<1>2. /\ op \in Ops /\ "dialog" \in Pcs /\ call.n + 1 \in 0 .. MaxCalls
      /\ Host \in Devices \cup {Host} /\ FALSE \in BOOLEAN
  BY <1>1 DEF Ops, Pcs, CallRecords
<1>3. call' \in CallRecords
  <2>1. [call EXCEPT !.n = @ + 1, !.op = op, !.pc = "dialog", !.device = Host,
                     !.usecache = FALSE, !.named = NoName, !.type = "None",
                     !.name = "None", !.inquiring = FALSE, !.inquiryerr = "none",
                     !.todo = {}, !.queryresult = "None", !.found = {},
                     !.services = {}, !.failed = {}, !.outcome = "none"] \in CallRecords
    BY <1>1, <1>2, NewCallTyped, Zenon
  <2> QED BY <1>1, <2>1, Zenon
<1>4. /\ call'.n = call.n + 1 /\ call'.op = op /\ call'.pc = "dialog" /\ call'.todo = {}
      /\ call'.found = {} /\ call'.services = {} /\ call'.type = "None" /\ call'.name = "None"
  BY <1>1 DEF CallRecords
<1> QED BY <1>1, <1>3, <1>4, SearchBegins

-----------------------------------------------------------------------------
(* The dialogs. *)

\* The user chooses a device and a service that the device offers, or cancels.
LEMMA ChosenKeeps ==
    ASSUME IInv, call.pc \in {"dialog", "choosing"}, call.op \in {"selectdevice", "selectservice"},
           NEW found \in SUBSET Devices, NEW services \in SUBSET (Devices \X Services),
           call' = [call EXCEPT !.pc = "idle", !.found = found, !.services = services,
                                !.outcome = "ok"],
           call.op = "selectservice" => Cardinality(services) <= 1,
           call.op = "selectservice" =>
             \A r \in services : r[1] \in found /\ \E S \in since[r[1]] : r[2] \in Wanted(S),
           UNCHANGED <<world, naming, cache, updated, inquiries, queries, since>>
    PROVE  IInv'
<1>1. /\ call \in CallRecords
      /\ platform' = platform /\ offered' = offered /\ name' = name /\ changes' = changes
      /\ known' = known /\ names' = names /\ cache' = cache /\ updated' = updated
      /\ inquiries' = inquiries /\ queries' = queries /\ since' = since
  BY CallTyped DEF IInv, world, naming
<1>2. /\ call'.n = call.n /\ call'.pc = "idle" /\ call'.op = call.op
      /\ call'.found = found /\ call'.services = services /\ call'.outcome = "ok"
      /\ call'.type = call.type /\ call'.name = call.name
  BY <1>1 DEF CallRecords
<1>3. call' \in CallRecords
  BY <1>1 DEF CallRecords, Pcs
<1>4. TypeOK'
  BY <1>1, <1>3, TypesKept DEF IInv
<1>5. PcInv' /\ InquiryInv'
  BY <1>1, <1>2 DEF IInv, PcInv, InquiryInv
<1>6. SinceInv' /\ FoundInv'
  BY <1>2 DEF SinceInv, FoundInv, Searches
<1>7. ServicesCurrent'
  <2>1. \A S : Wanted(S)' = Wanted(S)
    BY <1>1, <1>2 DEF Wanted
  <2>2. call'.op = "selectservice" =>
          /\ Cardinality(call'.services) <= 1
          /\ \A r \in call'.services :
               r[1] \in call'.found /\ \E S \in since'[r[1]] : r[2] \in Wanted(S)'
    BY <1>1, <1>2, <2>1
  <2> QED BY <1>2, <2>2 DEF ServicesCurrent
<1>8. NameInv'
  BY <1>1, <1>2 DEF IInv, NameInv, NameCurrent
<1> QED BY <1>4, <1>5, <1>6, <1>7, <1>8 DEF IInv

LEMMA MacDialogKeeps == ASSUME IInv, MacDialog PROVE IInv'
<1>1. /\ call \in CallRecords /\ call.pc = "dialog" /\ platform = "mac"
      /\ UNCHANGED <<world, naming, cache, updated, inquiries, queries, since>>
  BY CallTyped DEF IInv, MacDialog
<1>2. /\ call.op \in {"selectdevice", "selectservice"} /\ call.found \in SUBSET Devices
      /\ call.services \in SUBSET (Devices \X Services)
      /\ call.type = "None" /\ call.name = "None"
  BY <1>1 DEF IInv, PcInv, CallRecords, Ops
<1>3. call.op = "selectservice" => call.services = {}
  BY <1>1 DEF IInv, FoundInv, Searches
<1>4. Cardinality({}) = 0 /\ \A x : Cardinality({x}) = 1
  BY FS_EmptySet, FS_Singleton
<1>5. ASSUME EndCall(call, "ok") PROVE IInv'
  <2>1. call' = [call EXCEPT !.pc = "idle", !.found = call.found, !.services = call.services,
                            !.outcome = "ok"]
    BY <1>1, <1>5 DEF EndCall, CallRecords
  <2>2. call.op = "selectservice" => Cardinality(call.services) <= 1
    BY <1>3, <1>4
  <2> QED BY <1>1, <1>2, <1>3, <2>1, <2>2, ChosenKeeps
<1>6. ASSUME call.op = "selectdevice", NEW d \in Devices,
             EndCall([call EXCEPT !.found = {d}], "ok")
      PROVE  IInv'
  <2>1. call' = [call EXCEPT !.pc = "idle", !.found = {d}, !.services = call.services,
                            !.outcome = "ok"]
    <3>1. call' = [[call EXCEPT !.found = {d}] EXCEPT !.pc = "idle", !.outcome = "ok"]
      BY <1>6 DEF EndCall
    <3> QED BY <1>1, <3>1 DEF CallRecords
  <2>2. {d} \in SUBSET Devices /\ call.op # "selectservice"
    BY <1>6
  <2> QED BY <1>1, <1>2, <2>1, <2>2, ChosenKeeps
<1>7. ASSUME call.op = "selectservice", NEW d \in Devices, NEW s \in offered[d],
             EndCall([call EXCEPT !.found = {d}, !.services = {<<d, s>>}], "ok")
      PROVE  IInv'
  <2>1. call' = [call EXCEPT !.pc = "idle", !.found = {d}, !.services = {<<d, s>>},
                            !.outcome = "ok"]
    <3>1. call' = [[call EXCEPT !.found = {d}, !.services = {<<d, s>>}]
                     EXCEPT !.pc = "idle", !.outcome = "ok"]
      BY <1>7 DEF EndCall
    <3> QED BY <1>1, <3>1 DEF CallRecords
  <2>2. offered[d] \in SUBSET Services
    BY DEF IInv, TypeOK
  <2>3. {d} \in SUBSET Devices /\ {<<d, s>>} \in SUBSET (Devices \X Services)
    BY <2>2
  <2>4. offered[d] \in since[d]
    BY <1>1, <1>7 DEF IInv, SinceInv, Searches
  <2>5. s \in Wanted(offered[d])
    BY <1>1, <1>2, <1>7 DEF Wanted
  <2>6. \A r \in {<<d, s>>} : r[1] \in {d} /\ \E S \in since[r[1]] : r[2] \in Wanted(S)
    BY <2>4, <2>5
  <2>7. Cardinality({<<d, s>>}) <= 1
    <3>1. Cardinality({<<d, s>>}) = 1
      BY <1>4, Zenon
    <3> QED BY <3>1
  <2> QED BY <1>1, <1>2, <2>1, <2>3, <2>6, <2>7, ChosenKeeps
<1> QED BY <1>5, <1>6, <1>7 DEF MacDialog

LEMMA ChooseKeeps == ASSUME IInv, Choose PROVE IInv'
<1>1. /\ call \in CallRecords /\ call.pc = "choosing"
      /\ UNCHANGED <<world, naming, cache, updated, inquiries, queries, since>>
  BY CallTyped DEF IInv, Choose
<1>2. /\ call.op = "selectservice" /\ call.found \in SUBSET Devices
      /\ call.services \in SUBSET (Devices \X Services)
  BY <1>1 DEF IInv, PcInv, CallRecords, Ops
<1>3. PICK chosen \in {{}} \cup {{r} : r \in call.services} :
        EndCall([call EXCEPT !.services = chosen], "ok")
  BY DEF Choose
<1>4. Cardinality({}) = 0 /\ \A x : Cardinality({x}) = 1
  BY FS_EmptySet, FS_Singleton
<1>5. /\ chosen \subseteq call.services /\ Cardinality(chosen) <= 1
      /\ chosen \in SUBSET (Devices \X Services)
  BY <1>2, <1>4
<1>6. call' = [call EXCEPT !.pc = "idle", !.found = call.found, !.services = chosen,
                          !.outcome = "ok"]
  <2>1. call' = [[call EXCEPT !.services = chosen] EXCEPT !.pc = "idle", !.outcome = "ok"]
    BY <1>3 DEF EndCall
  <2> QED BY <1>1, <2>1 DEF CallRecords
<1>7. \A r \in chosen : r[1] \in call.found /\ \E S \in since[r[1]] : r[2] \in Wanted(S)
  BY <1>1, <1>2, <1>5 DEF IInv, FoundInv, Searches
<1> QED BY <1>1, <1>2, <1>5, <1>6, <1>7, ChosenKeeps

LEMMA Series60DialogKeeps == ASSUME IInv, Series60Dialog PROVE IInv'
<1>1. /\ call \in CallRecords /\ call.pc = "dialog" /\ platform = "series60"
      /\ UNCHANGED <<world, naming, cache, updated, inquiries, queries, since>>
  BY CallTyped DEF IInv, Series60Dialog
<1>2. /\ call.op \in {"selectdevice", "selectservice"}
      /\ call.services \in SUBSET (Devices \X Services)
  BY <1>1 DEF IInv, PcInv, CallRecords, Ops
<1>3. CASE EndCall(call, "raised")
  BY <1>1, <1>3, RaisedKeeps
<1>4. ASSUME NEW d \in Devices, call.op = "selectdevice",
             EndCall([call EXCEPT !.found = {d}], "ok")
      PROVE  IInv'
  <2>1. call' = [call EXCEPT !.pc = "idle", !.found = {d}, !.services = call.services,
                            !.outcome = "ok"]
    <3>1. call' = [[call EXCEPT !.found = {d}] EXCEPT !.pc = "idle", !.outcome = "ok"]
      BY <1>4 DEF EndCall
    <3> QED BY <1>1, <3>1 DEF CallRecords
  <2>2. {d} \in SUBSET Devices /\ call.op # "selectservice"
    BY <1>4
  <2> QED BY <1>1, <1>2, <2>1, <2>2, ChosenKeeps
<1>5. ASSUME NEW d \in Devices, call.op = "selectservice",
             call' = [[call EXCEPT !.found = {d}] EXCEPT !.pc = "looking", !.todo = {d}]
      PROVE  IInv'
  <2>1. /\ platform' = platform /\ offered' = offered /\ name' = name /\ changes' = changes
        /\ known' = known /\ names' = names /\ cache' = cache /\ updated' = updated
        /\ inquiries' = inquiries /\ queries' = queries /\ since' = since
    BY <1>1 DEF world, naming
  <2>2. /\ call'.n = call.n /\ call'.pc = "looking" /\ call'.op = "selectservice"
        /\ call'.found = {d} /\ call'.todo = {d} /\ call'.services = call.services
        /\ call'.type = call.type /\ call'.name = call.name
    BY <1>1, <1>5 DEF CallRecords
  <2>3. call' \in CallRecords
    BY <1>1, <1>5 DEF CallRecords, Pcs
  <2>4. TypeOK'
    BY <1>1, <2>1, <2>3, TypesKept DEF IInv
  <2>5. PcInv' /\ InquiryInv'
    BY <1>1, <2>1, <2>2 DEF IInv, PcInv, InquiryInv
  <2>6. SinceInv'
    BY <1>1, <1>5, <2>1, <2>2 DEF IInv, SinceInv, Searches
  <2>7. FoundInv'
    <3>1. call.services = {}
      BY <1>1, <1>5 DEF IInv, FoundInv, Searches
    <3>2. \A x \in Devices : ServicesOf(x)' = {}
      BY <2>2, <3>1 DEF ServicesOf
    <3> QED BY <2>2, <3>1, <3>2 DEF FoundInv
  <2>8. (Told => ServicesCurrent)'
    BY <2>2 DEF ServicesCurrent
  <2>9. NameInv'
    BY <2>1, <2>2 DEF IInv, NameInv, NameCurrent
  <2> QED BY <2>4, <2>5, <2>6, <2>7, <2>8, <2>9 DEF IInv
<1>6. call.op = "selectdevice" \/ call.op = "selectservice"
  BY <1>2
<1> QED BY <1>3, <1>4, <1>5, <1>6 DEF Series60Dialog

-----------------------------------------------------------------------------
(* The devices, and time. *)

LEMMA ChangeKeeps ==
    ASSUME IInv, NEW d \in Devices, Change(d)
    PROVE  IInv'
<1>1. /\ changes < MaxChanges /\ changes' = changes + 1
      /\ offered' = [offered EXCEPT ![d] = Services \ @]
      /\ since' = [since EXCEPT ![d] = @ \cup {offered'[d]}]
      /\ platform' = platform /\ name' = name /\ known' = known /\ names' = names
      /\ cache' = cache /\ updated' = updated /\ inquiries' = inquiries
      /\ queries' = queries /\ call' = call
  BY DEF Change, naming
<1>2. /\ offered \in [Devices -> SUBSET Services] /\ since \in [Devices -> SUBSET SUBSET Services]
      /\ changes \in 0 .. MaxChanges /\ call \in CallRecords
      /\ name \in [Devices -> 0 .. MaxChanges]
  BY CallTyped DEF IInv, TypeOK
<1>3. /\ offered' \in [Devices -> SUBSET Services]
      /\ \A x \in Devices : offered'[x] = offered[x] \/ offered'[x] \in since'[x]
      /\ changes' \in 0 .. MaxChanges
  BY <1>1, <1>2
<1>4. /\ since' \in [Devices -> SUBSET SUBSET Services]
      /\ \A x \in Devices : since[x] \subseteq since'[x]
  BY <1>1, <1>2, <1>3
<1>5. TypeOK'
  BY <1>1, <1>3, <1>4 DEF IInv, TypeOK
<1>6. PcInv' /\ InquiryInv'
  BY <1>1 DEF IInv, PcInv, InquiryInv
<1>7. SinceInv'
  <2> SUFFICES ASSUME Searches
               PROVE  /\ \A x \in Devices :
                           /\ offered'[x] \in since'[x]
                           /\ updated[x] = "recently" => cache[x] \in since'[x]
                      /\ call.pc \in {"querying", "asking"} /\ call.queryresult = "ok"
                           => cache[call.device] \in since'[call.device]
    BY <1>1 DEF SinceInv, Searches
  <2>1. call.pc \in {"querying", "asking"} => call.device \in Devices
    BY <1>2 DEF IInv, PcInv, CallRecords
  <2> QED BY <1>3, <1>4, <2>1 DEF IInv, SinceInv
<1>8. \A S : Wanted(S)' = Wanted(S)
  BY <1>1 DEF Wanted
<1>9. FoundInv'
  <2> SUFFICES ASSUME Searches
               PROVE  FoundInv'
    BY <1>1 DEF FoundInv, Searches
  <2>1. \A x \in Devices : ServicesOf(x)' = ServicesOf(x)
    BY <1>1 DEF ServicesOf
  <2>2. ASSUME Told, call.op = "findservices", call.pc \notin {"starting", "inquiring"},
               NEW x \in call.found \ call.todo
        PROVE  x \in call.failed \/ \E S \in since'[x] : ServicesOf(x)' = Wanted(S)'
    <3>1. x \in Devices
      BY <1>2 DEF CallRecords
    <3>2. x \in call.failed \/ \E S \in since[x] : ServicesOf(x) = Wanted(S)
      BY <2>2 DEF IInv, FoundInv
    <3> QED BY <1>4, <1>8, <2>1, <3>1, <3>2
  <2>3. ASSUME call.op = "selectservice", NEW r \in call.services
        PROVE  r[1] \in call.found /\ \E S \in since'[r[1]] : r[2] \in Wanted(S)'
    <3>1. r[1] \in Devices
      BY <1>2 DEF CallRecords
    <3>2. r[1] \in call.found /\ \E S \in since[r[1]] : r[2] \in Wanted(S)
      BY <2>3 DEF IInv, FoundInv
    <3> QED BY <1>4, <1>8, <3>1, <3>2
  <2>4. Told' => Told
    BY <1>1 DEF Told
  <2> QED BY <1>1, <2>1, <2>2, <2>3, <2>4 DEF IInv, FoundInv
<1>10. (Told => ServicesCurrent)'
  <2> SUFFICES ASSUME Told, call.pc = "idle", call.outcome = "ok"
               PROVE  ServicesCurrent'
    BY <1>1 DEF ServicesCurrent, Told
  <2>1. ServicesCurrent
    BY DEF IInv
  <2>2. ASSUME call.op = "findservices", NEW x \in Devices
        PROVE  \/ x \in call.failed
               \/ x \in call.found /\ \E S \in since'[x] : ServicesOf(x) = Wanted(S)'
               \/ x \notin call.found /\ ServicesOf(x) = {}
    BY <1>4, <1>8, <2>1, <2>2 DEF ServicesCurrent, ServicesOf
  <2>3. ASSUME call.op = "selectservice", NEW r \in call.services
        PROVE  r[1] \in call.found /\ \E S \in since'[r[1]] : r[2] \in Wanted(S)'
    <3>1. r[1] \in Devices
      BY <1>2 DEF CallRecords
    <3> QED BY <1>4, <1>8, <2>1, <2>3, <3>1 DEF ServicesCurrent
  <2>4. call.op = "selectservice" => Cardinality(call.services) <= 1
    BY <2>1 DEF ServicesCurrent
  <2> QED BY <1>1, <2>2, <2>3, <2>4 DEF ServicesCurrent, ServicesOf
<1>11. NameInv'
  BY <1>1, <1>2 DEF IInv, NameInv, NameCurrent
<1> QED BY <1>5, <1>6, <1>7, <1>9, <1>10, <1>11 DEF IInv

LEMMA RenameKeeps ==
    ASSUME IInv, NEW d \in Devices, Rename(d)
    PROVE  IInv'
<1>1. /\ changes < MaxChanges /\ changes' = changes + 1
      /\ name' = [name EXCEPT ![d] = @ + 1]
      /\ names' = IF call.device = d THEN names \cup {name'[d]} ELSE names
      /\ platform' = platform /\ offered' = offered /\ known' = known
      /\ cache' = cache /\ updated' = updated /\ inquiries' = inquiries
      /\ queries' = queries /\ call' = call /\ since' = since
  BY DEF Rename
<1>2. /\ name \in [Devices -> 0 .. MaxChanges] /\ changes \in 0 .. MaxChanges
      /\ names \subseteq 0 .. MaxChanges
      /\ \A x \in Devices : name[x] <= changes
  BY DEF IInv, TypeOK, NameInv
<1>3. /\ name' \in [Devices -> 0 .. MaxChanges] /\ changes' \in 0 .. MaxChanges
      /\ names' \subseteq 0 .. MaxChanges
      /\ \A x \in Devices : name'[x] <= changes'
  <2>1. name[d] + 1 \in 0 .. MaxChanges /\ name[d] + 1 <= changes'
    BY <1>1, <1>2
  <2>2. name' \in [Devices -> 0 .. MaxChanges] /\ name'[d] = name[d] + 1
    BY <1>1, <1>2, <2>1
  <2>3. \A x \in Devices : name'[x] <= changes'
    <3> SUFFICES ASSUME NEW x \in Devices PROVE name'[x] <= changes'
      OBVIOUS
    <3>1. CASE x = d
      BY <2>1, <2>2, <3>1
    <3>2. CASE x # d
      <4>1. name'[x] = name[x] /\ name[x] \in Nat /\ name[x] <= changes /\ changes \in Nat
        BY <1>1, <1>2, <3>2
      <4> QED BY <1>1, <4>1
    <3> QED BY <3>1, <3>2
  <2>4. changes' \in 0 .. MaxChanges
    BY <1>1, <1>2
  <2>5. names' \subseteq 0 .. MaxChanges
    <3>1. {name'[d]} \subseteq 0 .. MaxChanges
      BY <2>2
    <3> QED BY <1>1, <1>2, <3>1
  <2> QED BY <2>2, <2>3, <2>4, <2>5
<1>4. TypeOK'
  BY <1>1, <1>3 DEF IInv, TypeOK
<1>5. PcInv' /\ InquiryInv' /\ SinceInv'
  BY <1>1 DEF IInv, PcInv, InquiryInv, SinceInv, Searches
<1>6. FoundInv'
  BY <1>1 DEF IInv, FoundInv, Searches, ServicesOf, Wanted, Told
<1>7. (Told => ServicesCurrent)'
  BY <1>1 DEF IInv, Wanted, Told, ServicesCurrent
<1>8. NameInv'
  <2>1. call.device \in Devices \cup {Host}
    BY CallTyped DEF IInv, CallRecords
  <2>2. names \subseteq names'
    BY <1>1
  <2>3. ASSUME call.op = "finddevicename", call.pc # "idle", call.device # Host
        PROVE  name'[call.device] \in names'
    <3>1. name[call.device] \in names
      BY <2>3 DEF IInv, NameInv
    <3>2. call.device = d => name'[call.device] \in names'
      BY <1>1
    <3>3. call.device # d => name'[call.device] = name[call.device]
      BY <1>1, <1>2, <2>1, <2>3
    <3> QED BY <2>2, <3>1, <3>2, <3>3
  <2> QED BY <1>1, <1>3, <2>2, <2>3 DEF IInv, NameInv, NameCurrent
<1> QED BY <1>4, <1>5, <1>6, <1>7, <1>8 DEF IInv

LEMMA AgeKeeps ==
    ASSUME IInv, NEW d \in Devices, Age(d)
    PROVE  IInv'
<1>1. /\ updated' = [updated EXCEPT ![d] = "earlier"]
      /\ platform' = platform /\ offered' = offered /\ name' = name /\ changes' = changes
      /\ known' = known /\ names' = names /\ cache' = cache /\ inquiries' = inquiries
      /\ queries' = queries /\ call' = call /\ since' = since
  BY DEF Age, world, naming
<1>2. /\ updated' \in [Devices -> {"never", "recently", "earlier"}]
      /\ \A x \in Devices : updated'[x] = "recently" => updated[x] = "recently"
  BY <1>1 DEF IInv, TypeOK
<1>3. TypeOK'
  BY <1>1, <1>2 DEF IInv, TypeOK
<1>4. PcInv' /\ InquiryInv'
  BY <1>1 DEF IInv, PcInv, InquiryInv
<1>5. SinceInv'
  BY <1>1, <1>2 DEF IInv, SinceInv, Searches
<1>6. FoundInv'
  BY <1>1 DEF IInv, FoundInv, Searches, ServicesOf, Wanted, Told
<1>7. (Told => ServicesCurrent)'
  BY <1>1 DEF IInv, Wanted, Told, ServicesCurrent
<1>8. NameInv'
  BY <1>1 DEF IInv, NameInv, NameCurrent
<1> QED BY <1>3, <1>4, <1>5, <1>6, <1>7, <1>8 DEF IInv

-----------------------------------------------------------------------------
LEMMA Initially == Init => IInv
<1> SUFFICES ASSUME Init PROVE IInv
  OBVIOUS
<1>1. /\ call.n = 0 /\ call.pc = "idle" /\ call.outcome = "none" /\ call.op = "finddevices"
      /\ inquiries = {} /\ name = [d \in Devices |-> 0] /\ changes = 0
  BY DEF Init
<1>2. call \in CallRecords
  BY DEF Init, CallRecords, Pcs, Ops, Types, Errors
<1>3. TypeOK
  <2>1. /\ offered \in [Devices -> SUBSET Services] /\ name \in [Devices -> 0 .. MaxChanges]
        /\ known \in [Devices -> {NoName} \cup 0 .. MaxChanges]
        /\ cache \in [Devices -> SUBSET Services]
        /\ updated \in [Devices -> {"never", "recently", "earlier"}]
        /\ since \in [Devices -> SUBSET SUBSET Services]
    BY DEF Init
  <2> QED BY <1>2, <2>1, CallTyped DEF Init
<1>4. PcInv /\ InquiryInv
  BY <1>1 DEF PcInv, InquiryInv
<1>5. SinceInv /\ FoundInv /\ ServicesCurrent
  BY <1>1 DEF SinceInv, FoundInv, Searches, ServicesCurrent
<1>6. NameInv
  BY <1>1 DEF NameInv, NameCurrent
<1> QED BY <1>3, <1>4, <1>5, <1>6 DEF IInv

\* The invariant is kept by every step, and so is always true.
THEOREM Inductive == Spec => []IInv
<1>1. IInv /\ [Next]_vars => IInv'
  <2> SUFFICES ASSUME IInv, [Next]_vars PROVE IInv'
    OBVIOUS
  <2>1. ASSUME NEW op \in {"finddevices", "findservices"}, NEW type \in Types,
               NEW n \in Names \cup {"None"}, NEW addr \in {{}} \cup {{d} : d \in Devices},
               Call(op, type, n, addr)
        PROVE  IInv'
    BY <2>1, CallKeeps
  <2>2. ASSUME NEW d \in Devices \cup {Host}, NEW usecache \in BOOLEAN, CallName(d, usecache)
        PROVE  IInv'
    BY <2>2, CallNameKeeps
  <2>3. ASSUME NEW op \in {"selectdevice", "selectservice"}, CallSelect(op) PROVE IInv'
    BY <2>3, CallSelectKeeps
  <2>4. CASE MacDialog \/ Series60Dialog \/ Choose
    BY <2>4, MacDialogKeeps, Series60DialogKeeps, ChooseKeeps
  <2>5. CASE Step
    BY <2>5, StartedKeeps, InquiredKeeps, AllLookedAtKeeps, QueriedKeeps, AskedKeeps,
       LookUpKeeps, LookAtCacheKeeps, NameStepsKeep DEF Step
  <2>6. CASE Complete
    BY <2>6, InquiryCompleteKeeps DEF Complete
  <2>7. CASE StartFails \/ Interrupt
    BY <2>7, StartFailsKeeps, InterruptKeeps
  <2>8. ASSUME NEW i \in inquiries, NEW d \in Devices, DeviceFound(i, d) PROVE IInv'
    BY <2>8, DeviceFoundKeeps
  <2>9. ASSUME NEW q \in queries, NEW ok \in BOOLEAN, QueryComplete(q, ok) PROVE IInv'
    BY <2>9, QueryCompleteKeeps
  <2>10. ASSUME NEW d \in Devices, Change(d) \/ Rename(d) \/ Age(d) PROVE IInv'
    BY <2>10, ChangeKeeps, RenameKeeps, AgeKeeps
  <2>11. CASE UNCHANGED vars
    <3>1. /\ platform' = platform /\ offered' = offered /\ name' = name /\ changes' = changes
          /\ known' = known /\ names' = names /\ cache' = cache /\ updated' = updated
          /\ inquiries' = inquiries /\ queries' = queries /\ call' = call /\ since' = since
      BY <2>11 DEF vars, world, naming
    <3>2. TypeOK' /\ PcInv' /\ InquiryInv' /\ SinceInv' /\ NameInv'
      BY <3>1 DEF IInv, TypeOK, PcInv, InquiryInv, SinceInv, Searches, NameInv, NameCurrent
    <3>3. FoundInv'
      BY <3>1 DEF IInv, FoundInv, Searches, ServicesOf, Wanted, Told
    <3>4. (Told => ServicesCurrent)'
      BY <3>1 DEF IInv, Wanted, Told, ServicesCurrent
    <3> QED BY <3>2, <3>3, <3>4 DEF IInv
  <2> QED BY <2>1, <2>2, <2>3, <2>4, <2>5, <2>6, <2>7, <2>8, <2>9, <2>10, <2>11 DEF Next
<1> QED BY <1>1, Initially, PTL DEF Spec

\* Every variable keeps its type.
THEOREM TypeCorrect == Spec => []TypeOK
<1>1. IInv => TypeOK
  BY DEF IInv
<1> QED BY <1>1, Inductive, PTL

\* What findservices() and selectservice() return is current, except that Linux takes a
\* service for printing for one of RFCOMM.
THEOREM CurrentWhereTold == Spec => [](Told => ServicesCurrent)
<1>1. IInv => (Told => ServicesCurrent)
  BY DEF IInv
<1> QED BY <1>1, Inductive, PTL

\* Where no device offers printing, it is on every platform.
THEOREM ServicesAreCurrent ==
    ASSUME "print" \notin Services
    PROVE  Spec => []ServicesCurrent
<1>1. IInv => ServicesCurrent
  BY DEF IInv, Told
<1> QED BY <1>1, Inductive, PTL

\* finddevicename() returns a name that the device has had during the call, or, if the
\* caller allows it, the one that was known.
THEOREM NameIsCurrent == Spec => []NameCurrent
<1>1. IInv => NameCurrent
  BY DEF IInv, NameInv
<1> QED BY <1>1, Inductive, PTL

\* finddevices(), and any other call that returns, leaves no inquiry of its own.
THEOREM InquiriesAreOver == Spec => []InquiryOver
<1>1. IInv => InquiryOver
  BY DEF IInv, InquiryInv, InquiryOver
<1> QED BY <1>1, Inductive, PTL

-----------------------------------------------------------------------------
(* The selection windows of Linux, for any devices, services and nesting of *)
(* handlers.  They have a state of their own, of LinuxDiscoveryUI, a part of *)
(* which SelectionWindow declares.                                          *)

HIDE DiscoveryAssumption DEF DiscoveryAssumption

CONSTANTS MaxServices, MaxFrames, MaxItems, MaxSearches

VARIABLES closed, result, items, itemcache, services, sessioncache, servicestitle,
          selected, selectbutton, searches

UI == INSTANCE LinuxDiscoveryUI WITH cache <- itemcache

Lists == {"devices", "services"}
Alarms == Seq([last : Nat, noted : BOOLEAN])
Frames == UI!SearchFrame \cup UI!PickFrame
SearchPcs == {"disabled", "cleared", "inquiring", "found", "retracking"}

\* The search that is noted: there is one at most, and no other goes on.
OneNoted(s) ==
    /\ \A i \in DOMAIN s : Adding(s[i]) => s[i].current
    /\ \A i, j \in DOMAIN s :
          /\ s[i].kind = "search" /\ s[i].current
          /\ s[j].kind = "search" /\ s[j].current
          => i = j

\* The handlers that will begin to track the devices again.
Rearms(f) ==
    \/ f.kind = "search" /\ f.pc # "retracking"
    \/ f.kind = "pick" /\ f.index # 0

\* While the window is there and nothing was raised: who enables the search button again,
\* and who tracks each list again.
Restored ==
    /\ stack = <<>> \/ UI!InSearch("retracking") => searchbutton
    /\ window = "device" => alarms["devices"] # <<>>
    /\ window = "service" /\ alarms["devices"] = <<>> =>
          \E i \in DOMAIN stack : Rearms(stack[i])
    /\ window = "service" /\ alarms["services"] = <<>> =>
          \E i \in DOMAIN stack : stack[i].kind = "search"

UIInv ==
    /\ UI!TypeOK
    /\ OneNoted(stack)
    /\ ~gone /\ ~raised => Restored

-----------------------------------------------------------------------------
(* Handlers in progress. *)

\* The first elements of a sequence.
LEMMA PrefixFacts ==
    ASSUME NEW S, NEW s \in Seq(S), NEW m \in Int, m <= Len(s)
    PROVE  /\ SubSeq(s, 1, m) \in Seq(S)
           /\ DOMAIN SubSeq(s, 1, m) = 1 .. m /\ 1 .. m \subseteq DOMAIN s
           /\ \A i \in 1 .. m : SubSeq(s, 1, m)[i] = s[i]
<1>1. Len(s) \in Nat /\ DOMAIN s = 1 .. Len(s) /\ \A i \in 1 .. Len(s) : s[i] \in S
  OBVIOUS
<1>2. CASE m >= 0
  <2>1. SubSeq(s, 1, m) \in Seq(S) /\ Len(SubSeq(s, 1, m)) = m
    BY <1>1, <1>2
  <2>2. \A i \in 1 .. m : SubSeq(s, 1, m)[i] = s[i]
    BY <1>1, <1>2
  <2> QED BY <1>1, <2>1, <2>2
<1>3. CASE m < 0
  <2>1. SubSeq(s, 1, m) = <<>> /\ 1 .. m = {}
    BY <1>1, <1>3
  <2> QED BY <2>1
<1> QED BY <1>2, <1>3

\* What is of use of a handler in progress.
LEMMA FrameFields ==
    ASSUME NEW f \in Frames
    PROVE  /\ f.kind \in {"search", "pick"}
           /\ f.kind = "search" => /\ f \in UI!SearchFrame /\ f.pc \in SearchPcs
                                   /\ f.left \in SUBSET Devices
                                   /\ f.current \in BOOLEAN /\ f.cancelled \in BOOLEAN
           /\ f.kind = "pick" => /\ f \in UI!PickFrame /\ f.device \in Devices
                                 /\ f.index \in Nat /\ f.called \in BOOLEAN
<1>1. CASE f \in UI!SearchFrame
  BY <1>1 DEF UI!SearchFrame, SearchPcs
<1>2. CASE f \in UI!PickFrame
  BY <1>2 DEF UI!PickFrame
<1> QED BY <1>1, <1>2 DEF Frames

\* The topmost handler goes on.
LEMMA TopGoesOn ==
    ASSUME NEW s \in Seq(Frames), s # <<>>, s[Len(s)].kind = "search",
           NEW pc \in SearchPcs,
           NEW r, r = [s EXCEPT ![Len(s)].pc = pc]
    PROVE  /\ r \in Seq(Frames) /\ Len(r) = Len(s) /\ DOMAIN r = DOMAIN s
           /\ Len(s) \in DOMAIN s
           /\ \A i \in DOMAIN s : i # Len(s) => r[i] = s[i]
           /\ r[Len(s)].kind = "search" /\ r[Len(s)].pc = pc
           /\ r[Len(s)].left = s[Len(s)].left
           /\ r[Len(s)].current = s[Len(s)].current
           /\ r[Len(s)].cancelled = s[Len(s)].cancelled
<1>1. Len(s) \in DOMAIN s /\ DOMAIN s = 1 .. Len(s) /\ Len(s) \in Nat
  OBVIOUS
<1>2. s[Len(s)] \in UI!SearchFrame
  BY <1>1, FrameFields
<1>3. PICK f : f = [s[Len(s)] EXCEPT !.pc = pc]
  OBVIOUS
<1>4. /\ f \in UI!SearchFrame /\ f.kind = "search" /\ f.pc = pc
      /\ f.left = s[Len(s)].left /\ f.current = s[Len(s)].current
      /\ f.cancelled = s[Len(s)].cancelled
  BY <1>2, <1>3 DEF UI!SearchFrame, SearchPcs
<1>5. f \in Frames
  BY <1>4 DEF Frames
<1>6. r = [s EXCEPT ![Len(s)] = f]
  BY <1>3
<1>7. /\ r \in Seq(Frames) /\ Len(r) = Len(s) /\ DOMAIN r = DOMAIN s
      /\ r[Len(s)] = f /\ \A i \in DOMAIN s : i # Len(s) => r[i] = s[i]
  BY <1>1, <1>5, <1>6
<1> QED BY <1>1, <1>4, <1>7

\* The last elements are gone: of the others nothing changes.
LEMMA PrefixOneNoted ==
    ASSUME NEW s \in Seq(Frames), OneNoted(s), NEW m \in Int, m <= Len(s)
    PROVE  OneNoted(SubSeq(s, 1, m))
<1> DEFINE r == SubSeq(s, 1, m)
<1>1. /\ DOMAIN r = 1 .. m /\ 1 .. m \subseteq DOMAIN s
      /\ \A i \in 1 .. m : r[i] = s[i]
  BY PrefixFacts
<1> HIDE DEF r
<1>2. OneNoted(r)
  BY <1>1 DEF OneNoted
<1> QED BY <1>2 DEF r

\* A handler is begun.
LEMMA AppendFacts ==
    ASSUME NEW s \in Seq(Frames), NEW f \in Frames
    PROVE  /\ Append(s, f) \in Seq(Frames) /\ Len(Append(s, f)) = Len(s) + 1
           /\ DOMAIN Append(s, f) = DOMAIN s \cup {Len(s) + 1}
           /\ \A i \in DOMAIN s : Append(s, f)[i] = s[i]
           /\ Append(s, f)[Len(s) + 1] = f
<1>1. Len(s) \in Nat /\ DOMAIN s = 1 .. Len(s)
  OBVIOUS
<1>2. Append(s, f) \in Seq(Frames) /\ Len(Append(s, f)) = Len(s) + 1
  OBVIOUS
<1>3. DOMAIN Append(s, f) = 1 .. (Len(s) + 1)
  BY <1>2
<1>4. /\ \A i \in DOMAIN s : Append(s, f)[i] = s[i]
      /\ Append(s, f)[Len(s) + 1] = f
  BY <1>1
<1> QED BY <1>1, <1>2, <1>3, <1>4

\* The new handler is no search, or one that is not noted yet.
LEMMA AppendOneNoted ==
    ASSUME NEW s \in Seq(Frames), OneNoted(s), NEW f \in Frames, ~Adding(f),
           f.kind = "search" => ~f.current
    PROVE  OneNoted(Append(s, f))
<1> DEFINE r == Append(s, f)
<1>1. /\ DOMAIN r = DOMAIN s \cup {Len(s) + 1}
      /\ \A i \in DOMAIN s : r[i] = s[i]
      /\ r[Len(s) + 1] = f
  BY AppendFacts
<1> HIDE DEF r
<1>2. OneNoted(r)
  BY <1>1 DEF OneNoted
<1> QED BY <1>2 DEF r

\* A search goes on that is told to stop, or is noted, or adds nothing.
LEMMA TopOneNoted ==
    ASSUME NEW s \in Seq(Frames), OneNoted(s), s # <<>>, s[Len(s)].kind = "search",
           NEW r, DOMAIN r = DOMAIN s,
           \A i \in DOMAIN s : i # Len(s) => r[i] = s[i],
           r[Len(s)].kind = "search", r[Len(s)].current = s[Len(s)].current,
           Adding(r[Len(s)]) => Adding(s[Len(s)])
    PROVE  OneNoted(r)
<1>1. Len(s) \in DOMAIN s
  OBVIOUS
<1>2. \A i \in DOMAIN s : Adding(r[i]) => Adding(s[i])
  OBVIOUS
<1>3. \A i \in DOMAIN s : r[i].kind = "search" /\ r[i].current
                            => s[i].kind = "search" /\ s[i].current
  OBVIOUS
<1>4. \A i \in DOMAIN s : Adding(r[i]) => r[i].current
  BY <1>1, <1>2 DEF OneNoted
<1> QED BY <1>3, <1>4 DEF OneNoted

\* What _stopdiscovery() does to a search: nothing of it changes but that it is told.
LEMMA StopDiscoveryFacts ==
    ASSUME NEW s \in Seq(Frames)
    PROVE  /\ UI!StopDiscovery(s) \in Seq(Frames)
           /\ Len(UI!StopDiscovery(s)) = Len(s) /\ DOMAIN UI!StopDiscovery(s) = DOMAIN s
           /\ \A i \in DOMAIN s :
                 /\ UI!StopDiscovery(s)[i] \in Frames
                 /\ UI!StopDiscovery(s)[i].kind = s[i].kind
                 /\ s[i].kind = "pick" => UI!StopDiscovery(s)[i] = s[i]
                 /\ s[i].kind = "search" =>
                       /\ UI!StopDiscovery(s)[i].pc = s[i].pc
                       /\ UI!StopDiscovery(s)[i].current = s[i].current
                       /\ UI!StopDiscovery(s)[i].cancelled = (s[i].cancelled \/ s[i].current)
<1> DEFINE r == UI!StopDiscovery(s)
<1>1. /\ DOMAIN s = 1 .. Len(s) /\ Len(s) \in Nat
      /\ r = [i \in 1 .. Len(s) |-> IF s[i].kind = "search" /\ s[i].current
                                    THEN [s[i] EXCEPT !.cancelled = TRUE] ELSE s[i]]
  BY DEF UI!StopDiscovery
<1> HIDE DEF r
<1>2. ASSUME NEW i \in DOMAIN s
      PROVE  /\ r[i] \in Frames /\ r[i].kind = s[i].kind
             /\ s[i].kind = "pick" => r[i] = s[i]
             /\ s[i].kind = "search" =>
                   /\ r[i].pc = s[i].pc /\ r[i].current = s[i].current
                   /\ r[i].cancelled = (s[i].cancelled \/ s[i].current)
  <2>1. s[i] \in Frames
    OBVIOUS
  <2>2. CASE s[i].kind = "search" /\ s[i].current
    <3>1. s[i] \in UI!SearchFrame
      BY <2>1, <2>2, FrameFields
    <3>2. PICK f : f = [s[i] EXCEPT !.cancelled = TRUE]
      OBVIOUS
    <3>3. /\ f \in UI!SearchFrame /\ f.kind = "search" /\ f.pc = s[i].pc
          /\ f.current = s[i].current /\ f.cancelled = TRUE
      BY <3>1, <3>2 DEF UI!SearchFrame
    <3>4. r[i] = f
      BY <1>1, <2>2, <3>2
    <3> QED BY <2>2, <3>3, <3>4 DEF Frames
  <2>3. CASE ~(s[i].kind = "search" /\ s[i].current)
    <3>1. r[i] = s[i]
      BY <1>1, <2>3
    <3>2. s[i].kind = "search" => s[i].current = FALSE /\ s[i].cancelled \in BOOLEAN
      BY <2>1, <2>3, FrameFields
    <3> QED BY <2>1, <3>1, <3>2
  <2> QED BY <2>2, <2>3
<1>3. r \in Seq(Frames) /\ Len(r) = Len(s) /\ DOMAIN r = DOMAIN s
  <2>1. DOMAIN r = 1 .. Len(s) /\ r = [i \in 1 .. Len(s) |-> r[i]]
    BY <1>1
  <2>2. \A i \in 1 .. Len(s) : r[i] \in Frames
    BY <1>1, <1>2
  <2>3. r \in [1 .. Len(s) -> Frames]
    BY <2>1, <2>2
  <2>4. Len(s) \in Nat
    OBVIOUS
  <2> QED BY <1>1, <2>1, <2>3, <2>4
<1> QED BY <1>2, <1>3 DEF r

\* The searches are told, and none of them is noted newly.
LEMMA StopDiscoveryOneNoted ==
    ASSUME NEW s \in Seq(Frames), OneNoted(s)
    PROVE  OneNoted(UI!StopDiscovery(s))
<1> DEFINE r == UI!StopDiscovery(s)
<1>1. /\ DOMAIN r = DOMAIN s
      /\ \A i \in DOMAIN s :
            /\ r[i].kind = s[i].kind
            /\ s[i].kind = "search" => /\ r[i].pc = s[i].pc /\ r[i].current = s[i].current
                                       /\ r[i].cancelled = (s[i].cancelled \/ s[i].current)
  BY StopDiscoveryFacts
<1> HIDE DEF r
<1>2. \A i \in DOMAIN s : Adding(r[i]) => Adding(s[i])
  BY <1>1 DEF Adding
<1>3. OneNoted(r)
  BY <1>1, <1>2 DEF OneNoted, Adding
<1> QED BY <1>3 DEF r

\* A new inquiry: the search that was noted is told, and the topmost one noted, so that
\* it is the only one that goes on.
LEMMA SearchingFacts ==
    ASSUME NEW s \in Seq(Frames), s # <<>>, s[Len(s)].kind = "search",
           \A i \in DOMAIN s : i # Len(s) /\ Adding(s[i]) => s[i].current
    PROVE  /\ UI!Searching(s) \in Seq(Frames) /\ Len(UI!Searching(s)) = Len(s)
           /\ OneNoted(UI!Searching(s))
           /\ UI!Searching(s)[Len(s)].kind = "search"
           /\ UI!Searching(s)[Len(s)].pc = s[Len(s)].pc
           /\ \A i \in DOMAIN s :
                 /\ UI!Searching(s)[i].kind = s[i].kind
                 /\ s[i].kind = "pick" => UI!Searching(s)[i] = s[i]
                 /\ s[i].kind = "search" => UI!Searching(s)[i].pc = s[i].pc
<1> DEFINE told == UI!StopDiscovery(s)
           r == UI!Searching(s)
<1>1. /\ told \in Seq(Frames) /\ Len(told) = Len(s) /\ DOMAIN told = DOMAIN s
      /\ \A i \in DOMAIN s :
            /\ told[i] \in Frames /\ told[i].kind = s[i].kind
            /\ s[i].kind = "pick" => told[i] = s[i]
            /\ s[i].kind = "search" =>
                  /\ told[i].pc = s[i].pc
                  /\ told[i].cancelled = (s[i].cancelled \/ s[i].current)
  BY StopDiscoveryFacts
<1>2. r = [i \in 1 .. Len(s) |-> IF told[i].kind = "search"
                                 THEN [told[i] EXCEPT !.current = (i = Len(s))]
                                 ELSE told[i]]
  BY DEF UI!Searching
<1>3. DOMAIN s = 1 .. Len(s) /\ Len(s) \in DOMAIN s /\ Len(s) \in Nat
  OBVIOUS
<1> HIDE DEF told, r
<1>4. ASSUME NEW i \in DOMAIN s
      PROVE  /\ r[i] \in Frames /\ r[i].kind = s[i].kind
             /\ s[i].kind = "pick" => r[i] = s[i]
             /\ s[i].kind = "search" =>
                   /\ r[i].pc = s[i].pc /\ r[i].current = (i = Len(s))
                   /\ r[i].cancelled = (s[i].cancelled \/ s[i].current)
  <2>1. CASE s[i].kind = "search"
    <3>1. told[i] \in UI!SearchFrame
      BY <1>1, <2>1, FrameFields
    <3>2. PICK b \in BOOLEAN : b = (i = Len(s))
      OBVIOUS
    <3>3. PICK f : f = [told[i] EXCEPT !.current = b]
      OBVIOUS
    <3>4. /\ f \in UI!SearchFrame /\ f.kind = "search" /\ f.pc = told[i].pc
          /\ f.current = b /\ f.cancelled = told[i].cancelled
      BY <3>1, <3>3 DEF UI!SearchFrame
    <3>5. r[i] = f
      BY <1>1, <1>2, <1>3, <2>1, <3>2, <3>3
    <3> QED BY <1>1, <2>1, <3>2, <3>4, <3>5 DEF Frames
  <2>2. CASE s[i].kind # "search"
    <3>1. r[i] = told[i] /\ told[i].kind = s[i].kind /\ told[i] \in Frames
      BY <1>1, <1>2, <1>3, <2>2
    <3> QED BY <1>1, <2>2, <3>1
  <2> QED BY <2>1, <2>2
<1>5. r \in Seq(Frames) /\ Len(r) = Len(s) /\ DOMAIN r = DOMAIN s
  <2>1. DOMAIN r = 1 .. Len(s) /\ r = [i \in 1 .. Len(s) |-> r[i]]
    BY <1>2
  <2>2. \A i \in 1 .. Len(s) : r[i] \in Frames
    BY <1>3, <1>4
  <2>3. r \in [1 .. Len(s) -> Frames]
    BY <2>1, <2>2
  <2>4. Len(s) \in Nat
    OBVIOUS
  <2> QED BY <1>3, <2>1, <2>3, <2>4
<1>6. ASSUME NEW i \in DOMAIN s, Adding(r[i]) PROVE i = Len(s)
  <2>1. r[i].kind = "search" /\ ~r[i].cancelled /\ r[i].pc \in {"inquiring", "found"}
    BY <1>6 DEF Adding
  <2>2. s[i].kind = "search" /\ s[i].pc = r[i].pc /\ ~s[i].cancelled /\ ~s[i].current
    BY <1>4, <2>1
  <2>3. Adding(s[i])
    BY <2>1, <2>2 DEF Adding
  <2> QED BY <2>2, <2>3
<1>7. OneNoted(r)
  BY <1>3, <1>4, <1>5, <1>6 DEF OneNoted, Adding
<1> QED BY <1>3, <1>4, <1>5, <1>7 DEF r

-----------------------------------------------------------------------------
(* Alarms and the steps of a handler. *)

\* The types, with the names of this section.
LEMMA UITypes ==
    ASSUME UI!TypeOK
    PROVE  /\ stack \in Seq(Frames) /\ items \in Seq(Devices)
           /\ alarms \in [Lists -> Alarms] /\ selected \in [Lists -> Nat]
           /\ services \in Seq(Devices \X (1 .. MaxServices))
           /\ selected["devices"] <= Len(items) /\ selected["services"] <= Len(services)
           /\ selected["devices"] \in Nat /\ selected["services"] \in Nat
           /\ alarms["devices"] \in Alarms /\ alarms["services"] \in Alarms
           /\ sessioncache \in [Devices -> 0 .. MaxServices]
BY DEF UI!TypeOK, Frames, Lists, Alarms

\* After an alarm is set there is one.
LEMMA ArmFacts ==
    ASSUME NEW a \in Alarms, NEW last \in Nat
    PROVE  UI!Arm(a, last) \in Alarms /\ UI!Arm(a, last) # <<>>
<1> DEFINE A == [last : Nat, noted : BOOLEAN]
           b == [i \in 1 .. Len(a) |-> [a[i] EXCEPT !.noted = FALSE]]
           x == [last |-> last, noted |-> TRUE]
<1>1. Len(a) \in Nat /\ \A i \in 1 .. Len(a) : a[i] \in A
  <2>1. a \in Seq(A)
    BY DEF Alarms
  <2> HIDE DEF A
  <2> QED BY <2>1
<1>2. x \in A
  OBVIOUS
<1>3. b \in [1 .. Len(a) -> A]
  <2>1. \A i \in 1 .. Len(a) : [a[i] EXCEPT !.noted = FALSE] \in A
    BY <1>1
  <2> QED BY <2>1
<1>4. UI!Arm(a, last) = Append(b, x)
  BY DEF UI!Arm
<1> HIDE DEF A, b, x
<1>5. b \in Seq(A)
  BY <1>1, <1>3
<1>6. Append(b, x) \in Seq(A) /\ Len(Append(b, x)) = Len(b) + 1 /\ Len(b) \in Nat
  BY <1>2, <1>5
<1>7. Append(b, x) # <<>>
  BY <1>6
<1> QED BY <1>4, <1>6, <1>7 DEF Alarms, A

\* The alarms without one that goes off, and without the one that is cancelled.
LEMMA FewerAlarms ==
    ASSUME NEW a \in Alarms
    PROVE  /\ UI!StopTracking(a) \in Alarms
           /\ \A k \in DOMAIN a : UI!RemoveAt(a, k) \in Alarms
<1> DEFINE A == [last : Nat, noted : BOOLEAN]
<1>1. a \in Seq(A) /\ Len(a) \in Nat /\ DOMAIN a = 1 .. Len(a)
  BY DEF Alarms
<1> HIDE DEF A
<1>2. \A m \in Int : m <= Len(a) => SubSeq(a, 1, m) \in Seq(A)
  BY <1>1, PrefixFacts
<1>3. UI!StopTracking(a) \in Seq(A)
  <2>1. UI!Front(a) \in Seq(A)
    BY <1>1, <1>2 DEF UI!Front
  <2> QED BY <1>1, <2>1 DEF UI!StopTracking
<1>4. ASSUME NEW k \in DOMAIN a PROVE UI!RemoveAt(a, k) \in Seq(A)
  <2>1. SubSeq(a, 1, k - 1) \in Seq(A)
    BY <1>1, <1>2
  <2>2. SubSeq(a, k + 1, Len(a)) \in Seq(A)
    BY <1>1
  <2>3. SubSeq(a, 1, k - 1) \o SubSeq(a, k + 1, Len(a)) \in Seq(A)
    BY <2>1, <2>2
  <2> QED BY <2>3 DEF UI!RemoveAt
<1> QED BY <1>3, <1>4 DEF Alarms, A

\* Nothing more is to be done by a handler than before, and no list is tracked less.
LEMMA RestoredKept ==
    ASSUME Restored, UI!TypeOK,
           window' = window, alarms' = alarms,
           \A i \in DOMAIN stack : /\ i \in DOMAIN stack'
                                   /\ Rearms(stack[i]) => Rearms(stack'[i])
                                   /\ stack[i].kind = "search" => stack'[i].kind = "search",
           (stack' = <<>> \/ UI!InSearch("retracking")') => searchbutton'
    PROVE  Restored'
<1>1. window' = "service" /\ alarms'["devices"] = <<>> =>
          \E i \in DOMAIN stack' : Rearms(stack'[i])
  <2> SUFFICES ASSUME window = "service", alarms["devices"] = <<>>
               PROVE  \E i \in DOMAIN stack' : Rearms(stack'[i])
    OBVIOUS
  <2>1. PICK i \in DOMAIN stack : Rearms(stack[i])
    BY DEF Restored
  <2> QED BY <2>1
<1>2. window' = "service" /\ alarms'["services"] = <<>> =>
          \E i \in DOMAIN stack' : stack'[i].kind = "search"
  <2> SUFFICES ASSUME window = "service", alarms["services"] = <<>>
               PROVE  \E i \in DOMAIN stack' : stack'[i].kind = "search"
    OBVIOUS
  <2>1. PICK i \in DOMAIN stack : stack[i].kind = "search"
    BY DEF Restored
  <2> QED BY <2>1
<1> QED BY <1>1, <1>2 DEF Restored

\* The handlers that an exception ends; it was raised, or the window is gone.
LEMMA RaiseFacts ==
    ASSUME UI!TypeOK, OneNoted(stack), stack # <<>>, UI!Raise
    PROVE  /\ stack' \in Seq(Frames) /\ OneNoted(stack')
           /\ raised' \in BOOLEAN /\ (raised' \/ gone)
<1>1. stack \in Seq(Frames) /\ Len(stack) \in Nat /\ raised \in BOOLEAN /\ gone \in BOOLEAN
  BY UITypes DEF UI!TypeOK
<1>2. PICK m \in Int : m <= Len(stack) /\ stack' = SubSeq(stack, 1, m)
  <2>1. /\ Len(stack) - 1 \in Int /\ Len(stack) - 1 <= Len(stack)
        /\ Len(stack) - 2 \in Int /\ Len(stack) - 2 <= Len(stack)
    BY <1>1
  <2>2. \/ stack' = SubSeq(stack, 1, Len(stack) - 1)
        \/ stack' = SubSeq(stack, 1, Len(stack) - 2)
    BY DEF UI!Raise
  <2> QED BY <2>1, <2>2
<1>3. stack' \in Seq(Frames) /\ OneNoted(stack')
  BY <1>1, <1>2, PrefixFacts, PrefixOneNoted
<1>4. raised' = (raised \/ ~gone)
  BY DEF UI!Raise
<1> QED BY <1>1, <1>3, <1>4

\* A handler is done.
LEMMA FinishFacts ==
    ASSUME UI!TypeOK, OneNoted(stack), stack # <<>>, UI!Finish
    PROVE  /\ stack' \in Seq(Frames) /\ OneNoted(stack') /\ Len(stack') = Len(stack) - 1
           /\ DOMAIN stack = DOMAIN stack' \cup {Len(stack)}
           /\ \A i \in DOMAIN stack' : stack'[i] = stack[i]
<1>1. stack \in Seq(Frames) /\ Len(stack) \in Nat /\ Len(stack) # 0
      /\ DOMAIN stack = 1 .. Len(stack)
  BY UITypes
<1>2. PICK m \in Nat : m = Len(stack) - 1
  <2>1. Len(stack) - 1 \in Nat
    BY <1>1
  <2> QED BY <2>1
<1>3. stack' = SubSeq(stack, 1, m)
  BY <1>2 DEF UI!Finish, UI!Front
<1>4. /\ stack' \in Seq(Frames) /\ OneNoted(stack')
      /\ DOMAIN stack' = 1 .. m /\ \A i \in 1 .. m : stack'[i] = stack[i]
  <2>1. m \in Int /\ m <= Len(stack)
    BY <1>1, <1>2
  <2> QED BY <1>1, <1>3, <2>1, PrefixFacts, PrefixOneNoted
<1>5. Len(stack') = m
  <2>1. DOMAIN stack' = 1 .. Len(stack') /\ Len(stack') \in Nat
    BY <1>4
  <2> QED BY <1>2, <1>4, <2>1
<1> QED BY <1>1, <1>2, <1>4, <1>5

\* Picking a device begins.
LEMMA PickBegins ==
    ASSUME UI!TypeOK, NEW i \in DOMAIN items, NEW index \in Nat, NEW called \in BOOLEAN,
           NEW below \in Seq(Frames), OneNoted(below), UI!StartPick(i, index, called, below)
    PROVE  /\ services' = <<>> /\ servicestitle' = "None" /\ sessioncache' = sessioncache
           /\ searchbutton' = FALSE /\ selectbutton' = FALSE
           /\ stack' \in Seq(Frames) /\ OneNoted(stack') /\ Len(stack') = Len(below) + 1
           /\ DOMAIN stack' = DOMAIN below \cup {Len(below) + 1}
           /\ \A j \in DOMAIN below : stack'[j] = below[j]
           /\ stack'[Len(below) + 1].kind = "pick"
           /\ stack'[Len(below) + 1].index = index
<1>1. PICK f : f = [kind |-> "pick", device |-> items[i], index |-> index, called |-> called]
  OBVIOUS
<1>2. items[i] \in Devices
  BY UITypes
<1>3. f \in UI!PickFrame /\ f.kind = "pick" /\ f.index = index
  BY <1>1, <1>2 DEF UI!PickFrame
<1>4. f \in Frames /\ ~Adding(f) /\ f.kind # "search"
  BY <1>3 DEF Frames, Adding
<1>5. stack' = Append(below, f)
  BY <1>1 DEF UI!StartPick
<1>6. OneNoted(stack')
  BY <1>4, <1>5, AppendOneNoted
<1>7. /\ stack' \in Seq(Frames) /\ Len(stack') = Len(below) + 1
      /\ DOMAIN stack' = DOMAIN below \cup {Len(below) + 1}
      /\ \A j \in DOMAIN below : stack'[j] = below[j]
      /\ stack'[Len(below) + 1] = f
  BY <1>4, <1>5, AppendFacts
<1>8. /\ services' = <<>> /\ servicestitle' = "None" /\ sessioncache' = sessioncache
      /\ searchbutton' = FALSE /\ selectbutton' = FALSE
  BY DEF UI!StartPick, UI!ClearServices, UI!None
<1> QED BY <1>3, <1>6, <1>7, <1>8

-----------------------------------------------------------------------------
(* The actions. *)

\* The initial states.
LEMMA UIInitially == UI!UIAssumption /\ UI!Init => UIInv
<1> SUFFICES ASSUME UI!UIAssumption, UI!Init PROVE UIInv
  OBVIOUS
<1>1. stack = <<>> /\ searchbutton = TRUE
  BY DEF UI!Init
<1>2. itemcache \in Seq(Devices) /\ items = itemcache /\ services = <<>>
  <2>1. itemcache \in {<<>>} \cup {<<d>> : d \in Devices}
    BY DEF UI!Init
  <2>2. CASE itemcache = <<>>
    BY <2>2 DEF UI!Init
  <2>3. CASE \E d \in Devices : itemcache = <<d>>
    <3>1. PICK d \in Devices : itemcache = <<d>>
      BY <2>3
    <3>2. itemcache \in Seq(Devices)
      BY <3>1
    <3> QED BY <3>2 DEF UI!Init
  <2> QED BY <2>1, <2>2, <2>3
<1>3. \A b \in {"devices", "services"} : b \in Boxes => alarms[b] # <<>>
  <2> SUFFICES ASSUME NEW b \in {"devices", "services"}, b \in Boxes
               PROVE  alarms[b] # <<>>
    OBVIOUS
  <2>1. alarms[b] = <<[last |-> 0, noted |-> TRUE]>>
    BY DEF UI!Init, Boxes, UI!Boxes
  <2> QED BY <2>1
<1>4. alarms \in [Lists -> Alarms]
  <2>1. PICK x : x = [last |-> 0, noted |-> TRUE]
    OBVIOUS
  <2>2. x \in [last : Nat, noted : BOOLEAN]
    BY <2>1
  <2>3. <<x>> \in Alarms /\ <<>> \in Alarms
    BY <2>2 DEF Alarms
  <2> QED BY <2>1, <2>3 DEF UI!Init, Lists
<1>5. UI!TypeOK
  <2>1. stack \in Seq(UI!SearchFrame \cup UI!PickFrame)
    BY <1>1
  <2>2. services \in Seq(Devices \X (1 .. MaxServices)) /\ Len(services) = 0
    BY <1>2
  <2>3. alarms \in [{"devices", "services"} -> Seq([last : Nat, noted : BOOLEAN])]
    BY <1>4 DEF Lists, Alarms
  <2>4. Len(items) \in Nat
    BY <1>2
  <2>5. sessioncache \in [Devices -> 0 .. MaxServices] /\ searches \in 0 .. MaxSearches
    BY DEF UI!Init, UI!UIAssumption
  <2>6. /\ selected \in [{"devices", "services"} -> Nat]
        /\ selected["devices"] = 0 /\ selected["services"] = 0
    BY DEF UI!Init
  <2>7. {closed, gone, searchbutton, selectbutton, raised} \subseteq BOOLEAN
    BY DEF UI!Init
  <2> QED BY <1>2, <2>1, <2>2, <2>3, <2>4, <2>5, <2>6, <2>7 DEF UI!Init, UI!TypeOK
<1>6. OneNoted(stack)
  BY <1>1 DEF OneNoted
<1>7. Restored
  BY <1>1, <1>3 DEF Restored, Boxes, UI!Init
<1> QED BY <1>5, <1>6, <1>7 DEF UIInv

\* Nothing happens, or a click selects an item.
LEMMA ClickItemKeeps ==
    ASSUME UIInv,
           \/ UNCHANGED UI!vars
           \/ \E b \in Lists, i \in 1 .. MaxItems + MaxServices : UI!ClickItem(b, i)
    PROVE  UIInv'
<1>1. /\ window' = window /\ closed' = closed /\ gone' = gone /\ result' = result
      /\ raised' = raised /\ items' = items /\ itemcache' = itemcache
      /\ services' = services /\ sessioncache' = sessioncache
      /\ servicestitle' = servicestitle /\ alarms' = alarms
      /\ searchbutton' = searchbutton /\ selectbutton' = selectbutton
      /\ stack' = stack /\ searches' = searches
  BY DEF UI!ClickItem, UI!vars, UI!list, UI!ends, UI!shown
<1>2. /\ selected' \in [Lists -> Nat]
      /\ selected'["devices"] <= Len(items) /\ selected'["services"] <= Len(services)
  <2>1. CASE UNCHANGED UI!vars
    BY <2>1, UITypes DEF UIInv, UI!vars
  <2>2. ASSUME NEW b \in Lists, NEW i \in 1 .. MaxItems + MaxServices, UI!ClickItem(b, i)
        PROVE  /\ selected' \in [Lists -> Nat]
               /\ selected'["devices"] <= Len(items)
               /\ selected'["services"] <= Len(services)
    <3>1. /\ selected \in [Lists -> Nat] /\ items \in Seq(Devices)
          /\ services \in Seq(Devices \X (1 .. MaxServices))
          /\ selected["devices"] <= Len(items) /\ selected["services"] <= Len(services)
      BY UITypes DEF UIInv
    <3>2. /\ selected' = [selected EXCEPT ![b] = i]
          /\ i \in 1 .. Len(IF b = "devices" THEN items ELSE services)
      BY <2>2 DEF UI!ClickItem
    <3>3. i \in Nat
      BY <3>1, <3>2
    <3>4. CASE b = "devices"
      BY <3>1, <3>2, <3>3, <3>4 DEF Lists
    <3>5. CASE b = "services"
      BY <3>1, <3>2, <3>3, <3>5 DEF Lists
    <3> QED BY <3>4, <3>5 DEF Lists
  <2> QED BY <2>1, <2>2
<1>3. UI!TypeOK'
  BY <1>1, <1>2 DEF UIInv, UI!TypeOK, Lists
<1>4. ~gone' /\ ~raised' => Restored'
  BY <1>1 DEF UIInv, Restored, UI!InSearch, UI!Top
<1> QED BY <1>1, <1>3, <1>4 DEF UIInv

\* The window is closed.
LEMMA QuitKeeps ==
    ASSUME UIInv, NEW s, UI!Quit(s),
           s \in {<<>>} \cup {<<d>> : d \in Devices} \cup (Devices \X (1 .. MaxServices))
    PROVE  UIInv'
<1>1. stack \in Seq(Frames)
  BY UITypes DEF UIInv
<1>2. stack' \in Seq(Frames) /\ OneNoted(stack')
  BY <1>1, StopDiscoveryFacts, StopDiscoveryOneNoted DEF UIInv, UI!Quit
<1>3. alarms' \in [Lists -> Alarms]
  <2>1. <<>> \in Alarms
    BY DEF Alarms
  <2> QED BY <2>1 DEF UI!Quit, Lists
<1>4. UI!TypeOK'
  BY <1>2, <1>3 DEF UIInv, UI!TypeOK, UI!Quit, UI!shown, Frames, Lists, Alarms
<1>5. gone'
  BY DEF UI!Quit
<1> QED BY <1>2, <1>4, <1>5 DEF UIInv

\* The user has chosen, or cancels.
LEMMA ChoiceKeeps ==
    ASSUME UIInv, UI!ClickSelect \/ UI!Cancel
    PROVE  UIInv'
<1> DEFINE R == {<<>>} \cup {<<d>> : d \in Devices} \cup (Devices \X (1 .. MaxServices))
<1>1. CASE UI!Cancel
  <2>1. UI!Quit(result) /\ result \in R
    BY <1>1 DEF UIInv, UI!TypeOK, UI!Cancel
  <2> QED BY <2>1, QuitKeeps
<1>2. CASE UI!ClickSelect
  <2>1. PICK b \in Lists : UI!Quit(UI!Selection(b))
    BY <1>2 DEF UI!ClickSelect, Lists
  <2>2. /\ items \in Seq(Devices) /\ services \in Seq(Devices \X (1 .. MaxServices))
        /\ selected["devices"] <= Len(items) /\ selected["services"] <= Len(services)
        /\ selected["devices"] \in Nat /\ selected["services"] \in Nat
    BY UITypes DEF UIInv
  <2>3. UI!Selection(b) \in R
    <3>1. CASE selected[b] = 0
      BY <3>1 DEF UI!Selection
    <3>2. CASE selected[b] # 0 /\ b = "devices"
      <4>1. selected["devices"] \in 1 .. Len(items)
        BY <2>2, <3>2
      <4>2. PICK d \in Devices : d = items[selected["devices"]]
        BY <2>2, <4>1
      <4>3. UI!Selection(b) = <<d>>
        BY <3>2, <4>2 DEF UI!Selection
      <4> QED BY <4>3
    <3>3. CASE selected[b] # 0 /\ b = "services"
      <4>1. selected["services"] \in 1 .. Len(services)
        BY <2>2, <3>3
      <4>2. services[selected["services"]] \in Devices \X (1 .. MaxServices)
        BY <2>2, <4>1
      <4>3. UI!Selection(b) = services[selected["services"]]
        BY <3>3 DEF UI!Selection
      <4> QED BY <4>2, <4>3
    <3> QED BY <3>1, <3>2, <3>3 DEF Lists
  <2>4. PICK s \in R : s = UI!Selection(b)
    BY <2>3
  <2> HIDE DEF R
  <2>5. UI!Quit(s)
    BY <2>1, <2>4
  <2> QED BY <2>5, QuitKeeps DEF R
<1> QED BY <1>1, <1>2

\* The window is destroyed.
LEMMA DestroyKeeps ==
    ASSUME UIInv, UI!Destroy
    PROVE  UIInv'
<1>1. alarms' \in [Lists -> Alarms]
  <2>1. <<>> \in Alarms
    BY DEF Alarms
  <2> QED BY <2>1 DEF UI!Destroy, Lists
<1>2. UI!TypeOK'
  BY <1>1 DEF UIInv, UI!TypeOK, UI!Destroy, UI!list, UI!shown, Lists, Alarms
<1>3. gone' /\ stack' = stack
  BY DEF UI!Destroy
<1> QED BY <1>2, <1>3 DEF UIInv

\* A device is picked, by the user or by an alarm: an alarm that has gone off is set again
\* when the device is picked.
LEMMA PickRestored ==
    ASSUME UIInv, NEW i \in DOMAIN items, NEW index \in Nat,
           UI!StartPick(i, index, FALSE, stack),
           window' = window, gone' = gone, raised' = raised, window = "service",
           alarms'["services"] = alarms["services"],
           alarms'["devices"] = alarms["devices"] \/ index # 0
    PROVE  ~gone' /\ ~raised' => Restored'
<1> SUFFICES ASSUME ~gone', ~raised' PROVE Restored'
  OBVIOUS
<1>1. Restored
  BY DEF UIInv
<1>2. stack \in Seq(Frames) /\ OneNoted(stack)
  BY UITypes DEF UIInv
<1>3. /\ stack' \in Seq(Frames) /\ Len(stack') = Len(stack) + 1
      /\ DOMAIN stack' = DOMAIN stack \cup {Len(stack) + 1}
      /\ \A j \in DOMAIN stack : stack'[j] = stack[j]
      /\ stack'[Len(stack) + 1].kind = "pick" /\ stack'[Len(stack) + 1].index = index
  <2>1. UI!TypeOK
    BY DEF UIInv
  <2>2. FALSE \in BOOLEAN
    OBVIOUS
  <2> QED BY <1>2, <2>1, <2>2, PickBegins, ZenonT(60)
<1>4. ~(stack' = <<>> \/ UI!InSearch("retracking")')
  <2>1. DOMAIN stack' # {}
    BY <1>3
  <2>2. stack' # <<>>
    BY <2>1
  <2> QED BY <1>3, <2>2 DEF UI!InSearch, UI!Top
<1>5. alarms'["devices"] = <<>> => \E j \in DOMAIN stack' : Rearms(stack'[j])
  <2> SUFFICES ASSUME alarms'["devices"] = <<>>
               PROVE  \E j \in DOMAIN stack' : Rearms(stack'[j])
    OBVIOUS
  <2>1. CASE index # 0
    <3>1. Len(stack) + 1 \in DOMAIN stack' /\ Rearms(stack'[Len(stack) + 1])
      BY <1>3, <2>1 DEF Rearms
    <3> QED BY <3>1
  <2>2. CASE index = 0
    <3>1. PICK j \in DOMAIN stack : Rearms(stack[j])
      BY <1>1, <2>2 DEF Restored
    <3>2. j \in DOMAIN stack' /\ Rearms(stack'[j])
      BY <1>3, <3>1
    <3> QED BY <3>2
  <2> QED BY <2>1, <2>2
<1>6. alarms'["services"] = <<>> => \E j \in DOMAIN stack' : stack'[j].kind = "search"
  <2> SUFFICES ASSUME alarms'["services"] = <<>>
               PROVE  \E j \in DOMAIN stack' : stack'[j].kind = "search"
    OBVIOUS
  <2>1. PICK j \in DOMAIN stack : stack[j].kind = "search"
    BY <1>1 DEF Restored
  <2>2. j \in DOMAIN stack' /\ stack'[j].kind = "search"
    BY <1>3, <2>1
  <2> QED BY <2>2
<1> QED BY <1>4, <1>5, <1>6 DEF Restored

\* Picking a device deselects the services.
LEMMA PickTypes ==
    ASSUME UI!TypeOK, services' = <<>>, servicestitle' = "None",
           sessioncache' = sessioncache,
           searchbutton' = FALSE, selectbutton' = FALSE, stack' \in Seq(Frames),
           selected' = [selected EXCEPT !["services"] = 0],
           alarms' \in [Lists -> Alarms], searches' \in 0 .. MaxSearches,
           window' = window, items' = items, itemcache' = itemcache, closed' = closed,
           gone' = gone, result' = result, raised' = raised
    PROVE  UI!TypeOK'
<1>1. /\ selected' \in [Lists -> Nat] /\ selected'["services"] = 0
      /\ selected'["devices"] = selected["devices"]
  BY UITypes DEF Lists
<1>2. services' \in Seq(Devices \X (1 .. MaxServices)) /\ Len(services') = 0
  OBVIOUS
<1>3. selected'["devices"] <= Len(items') /\ selected'["services"] <= Len(services')
  BY <1>1, <1>2, UITypes
<1>4. /\ {closed', gone', searchbutton', selectbutton', raised'} \subseteq BOOLEAN
      /\ servicestitle' \in Devices \cup {UI!None}
  BY DEF UI!TypeOK, UI!None
<1>5. /\ selected' \in [{"devices", "services"} -> Nat]
      /\ alarms' \in [{"devices", "services"} -> Seq([last : Nat, noted : BOOLEAN])]
      /\ stack' \in Seq(UI!SearchFrame \cup UI!PickFrame)
  BY <1>1 DEF Frames, Lists, Alarms
<1> QED BY <1>2, <1>3, <1>4, <1>5 DEF UI!TypeOK

\* A double click on a device.
LEMMA DoubleClickKeeps ==
    ASSUME UIInv, UI!DoubleClickDevice
    PROVE  UIInv'
<1>1. /\ selected["devices"] \in DOMAIN items /\ stack \in Seq(Frames) /\ OneNoted(stack)
      /\ alarms \in [Lists -> Alarms]
  <2>1. /\ selected["devices"] \in Nat /\ selected["devices"] # 0
        /\ selected["devices"] <= Len(items) /\ items \in Seq(Devices)
    BY UITypes DEF UIInv, UI!DoubleClickDevice
  <2> QED BY <2>1, UITypes DEF UIInv
<1>2. PICK i \in DOMAIN items : i = selected["devices"]
  BY <1>1
<1>3. /\ UI!StartPick(i, 0, FALSE, stack)
      /\ selected' = [selected EXCEPT !["services"] = 0] /\ window = "service"
      /\ window' = window /\ items' = items /\ itemcache' = itemcache /\ closed' = closed
      /\ gone' = gone /\ result' = result /\ raised' = raised /\ alarms' = alarms
      /\ searches' = searches
  BY <1>2 DEF UI!DoubleClickDevice, UI!list, UI!ends
<1>4. /\ services' = <<>> /\ servicestitle' = "None" /\ sessioncache' = sessioncache
      /\ searchbutton' = FALSE /\ selectbutton' = FALSE
      /\ stack' \in Seq(Frames) /\ OneNoted(stack')
  <2>1. UI!TypeOK
    BY DEF UIInv
  <2>2. FALSE \in BOOLEAN /\ 0 \in Nat
    OBVIOUS
  <2>3. UI!StartPick(i, 0, FALSE, stack)
    BY <1>3
  <2>4. stack \in Seq(Frames) /\ OneNoted(stack)
    BY <1>1
  <2>5. i \in DOMAIN items
    BY <1>2
  <2> QED BY <2>1, <2>2, <2>3, <2>4, <2>5, PickBegins, ZenonT(60)
<1>5. UI!TypeOK'
  BY <1>1, <1>3, <1>4, PickTypes DEF UIInv, UI!TypeOK
<1>6. ~gone' /\ ~raised' => Restored'
  BY <1>3, PickRestored
<1> QED BY <1>4, <1>5, <1>6 DEF UIInv

\* A search begins.
LEMMA ClickSearchKeeps ==
    ASSUME UIInv, UI!UIAssumption, UI!ClickSearch
    PROVE  UIInv'
<1>1. PICK f : f = [kind |-> "search", pc |-> "disabled", left |-> Devices,
                    current |-> FALSE, cancelled |-> FALSE]
  OBVIOUS
<1>2. /\ f \in UI!SearchFrame /\ f.kind = "search" /\ f.pc = "disabled" /\ ~f.current
  BY <1>1 DEF UI!SearchFrame
<1>3. f \in Frames /\ ~Adding(f) /\ Rearms(f)
  BY <1>2 DEF Frames, Adding, Rearms
<1>4. stack' = Append(stack, f)
  BY <1>1 DEF UI!ClickSearch
<1>5. stack \in Seq(Frames) /\ OneNoted(stack) /\ Len(stack) \in Nat
  BY UITypes DEF UIInv
<1>6. /\ stack' \in Seq(Frames) /\ OneNoted(stack')
      /\ Len(stack') = Len(stack) + 1
      /\ Len(stack) + 1 \in DOMAIN stack' /\ stack'[Len(stack) + 1] = f
  BY <1>2, <1>3, <1>4, <1>5, AppendFacts, AppendOneNoted
<1>7. /\ window' = window /\ items' = items /\ itemcache' = itemcache /\ closed' = closed
      /\ gone' = gone /\ result' = result /\ raised' = raised
      /\ searches' = searches + 1 /\ searches < MaxSearches
      /\ searchbutton' = FALSE /\ selectbutton' = FALSE
  BY DEF UI!ClickSearch, UI!list, UI!ends
<1>8. /\ alarms' \in [Lists -> Alarms]
      /\ window = "device" => alarms' = alarms
  <2>1. CASE window = "service"
    <3>1. alarms' = [b \in {"devices", "services"} |-> UI!StopTracking(alarms[b])]
      BY <2>1 DEF UI!ClickSearch
    <3>2. \A b \in Lists : UI!StopTracking(alarms[b]) \in Alarms
      BY UITypes, FewerAlarms DEF UIInv
    <3> QED BY <2>1, <3>1, <3>2 DEF Lists
  <2>2. CASE window # "service"
    BY <2>2, UITypes DEF UI!ClickSearch, UIInv
  <2> QED BY <2>1, <2>2
<1>9. searches' \in 0 .. MaxSearches
  BY <1>7 DEF UIInv, UI!TypeOK, UI!UIAssumption
<1>10. UI!TypeOK'
  <2>1. CASE window = "service"
    <3>1. /\ services' = <<>> /\ servicestitle' = "None" /\ sessioncache' = sessioncache
          /\ selected' = [selected EXCEPT !["services"] = 0]
      BY <2>1 DEF UI!ClickSearch, UI!ClearServices, UI!None
    <3> QED BY <1>6, <1>7, <1>8, <1>9, <3>1, PickTypes DEF UIInv
  <2>2. CASE window # "service"
    <3>1. /\ services' = services /\ servicestitle' = servicestitle
          /\ sessioncache' = sessioncache /\ selected' = selected
      BY <2>2 DEF UI!ClickSearch, UI!shown
    <3> QED BY <1>6, <1>7, <1>8, <1>9, <3>1
            DEF UIInv, UI!TypeOK, Frames, Lists, Alarms
  <2> QED BY <2>1, <2>2
<1>11. ~gone' /\ ~raised' => Restored'
  <2> SUFFICES ASSUME ~gone', ~raised' PROVE Restored'
    OBVIOUS
  <2>1. Restored
    BY <1>7 DEF UIInv
  <2>2. ~(stack' = <<>> \/ UI!InSearch("retracking")')
    <3>1. stack' # <<>>
      BY <1>6
    <3> QED BY <1>2, <1>6, <3>1 DEF UI!InSearch, UI!Top
  <2>3. \E i \in DOMAIN stack' : Rearms(stack'[i]) /\ stack'[i].kind = "search"
    <3>1. /\ Len(stack) + 1 \in DOMAIN stack' /\ Rearms(stack'[Len(stack) + 1])
          /\ stack'[Len(stack) + 1].kind = "search"
      BY <1>2, <1>3, <1>6
    <3> QED BY <3>1
  <2>4. window' = "device" => alarms'["devices"] # <<>>
    BY <1>7, <1>8, <2>1 DEF Restored
  <2> QED BY <2>2, <2>3, <2>4 DEF Restored
<1> QED BY <1>6, <1>10, <1>11 DEF UIInv

\* An alarm goes off: the list is looked at, and the alarm set again, at once or when the
\* device is picked.
LEMMA AlarmKeeps ==
    ASSUME UIInv, NEW b \in Lists, NEW k \in DOMAIN alarms[b], UI!Alarm(b, k)
    PROVE  UIInv'
<1> DEFINE index == selected[b]
           rest == UI!RemoveAt(alarms[b], k)
           new == index # 0 /\ index # alarms[b][k].last
<1>1. /\ window' = window /\ items' = items /\ itemcache' = itemcache /\ closed' = closed
      /\ gone' = gone /\ result' = result /\ raised' = raised /\ searches' = searches
  BY DEF UI!Alarm, UI!list, UI!ends
<1>2. /\ stack \in Seq(Frames) /\ OneNoted(stack) /\ alarms \in [Lists -> Alarms]
      /\ selected \in [Lists -> Nat]
  BY UITypes DEF UIInv
<1>3. rest \in Alarms
  BY <1>2, FewerAlarms
<1>4. CASE new /\ b = "devices" /\ window = "service"
  <2>1. selected["devices"] \in DOMAIN items
    <3>1. /\ selected["devices"] \in Nat /\ selected["devices"] # 0
          /\ selected["devices"] <= Len(items) /\ items \in Seq(Devices)
      BY <1>4, UITypes DEF UIInv
    <3> QED BY <3>1
  <2>2. PICK i \in DOMAIN items : i = selected["devices"]
    BY <2>1
  <2>3. i \in Nat /\ i # 0
    BY <1>2, <1>4, <2>2 DEF Lists
  <2>4. /\ UI!StartPick(i, i, FALSE, stack)
        /\ selected' = [selected EXCEPT !["services"] = 0]
        /\ alarms' = [alarms EXCEPT !["devices"] = rest]
    BY <1>4, <2>2 DEF UI!Alarm
  <2>5. alarms' \in [Lists -> Alarms] /\ alarms'["services"] = alarms["services"]
    BY <1>2, <1>3, <2>4 DEF Lists
  <2>6. /\ services' = <<>> /\ servicestitle' = "None" /\ sessioncache' = sessioncache
        /\ searchbutton' = FALSE /\ selectbutton' = FALSE
        /\ stack' \in Seq(Frames) /\ OneNoted(stack')
    <3>1. UI!TypeOK
      BY DEF UIInv
    <3>2. FALSE \in BOOLEAN
      OBVIOUS
    <3>3. UI!StartPick(i, i, FALSE, stack)
      BY <2>4
    <3>4. i \in DOMAIN items /\ i \in Nat
      BY <2>2, <2>3
    <3>5. stack \in Seq(Frames) /\ OneNoted(stack)
      BY <1>2
    <3> QED BY <3>1, <3>2, <3>3, <3>4, <3>5, PickBegins, ZenonT(60)
  <2>7. UI!TypeOK'
    BY <1>1, <2>4, <2>5, <2>6, PickTypes DEF UIInv, UI!TypeOK
  <2>8. ~gone' /\ ~raised' => Restored'
    BY <1>1, <1>4, <2>3, <2>4, <2>5, PickRestored
  <2> QED BY <2>6, <2>7, <2>8 DEF UIInv
<1>5. CASE ~(new /\ b = "devices" /\ window = "service")
  <2>1. /\ alarms' = [alarms EXCEPT ![b] = UI!Arm(rest, index)]
        /\ selectbutton' = (selectbutton \/ new)
        /\ selected' = selected /\ services' = services
        /\ sessioncache' = sessioncache /\ servicestitle' = servicestitle
        /\ searchbutton' = searchbutton /\ stack' = stack
    BY <1>5 DEF UI!Alarm, UI!shown
  <2>2. UI!Arm(rest, index) \in Alarms /\ UI!Arm(rest, index) # <<>>
    BY <1>2, <1>3, ArmFacts
  <2>3. /\ alarms' \in [Lists -> Alarms]
        /\ \A c \in Lists : alarms'[c] = alarms[c] \/ alarms'[c] # <<>>
    BY <1>2, <2>1, <2>2
  <2>4. UI!TypeOK'
    <3>1. selectbutton' \in BOOLEAN
      BY <2>1 DEF UIInv, UI!TypeOK
    <3> QED BY <1>1, <2>1, <2>3, <3>1 DEF UIInv, UI!TypeOK, Lists, Alarms
  <2>5. ~gone' /\ ~raised' => Restored'
    BY <1>1, <2>1, <2>3 DEF UIInv, Restored, Lists, UI!InSearch, UI!Top
  <2> QED BY <2>1, <2>4, <2>5 DEF UIInv
<1> QED BY <1>4, <1>5

\* What TrackServices sets: alarms for the services, and for the devices if none of them
\* is selected.
LEMMA TrackFacts ==
    ASSUME UI!TypeOK, UI!TrackServices
    PROVE  /\ alarms' \in [Lists -> Alarms] /\ selectbutton' \in BOOLEAN
           /\ window = "device" => alarms' = alarms
           /\ window = "service" => alarms'["services"] # <<>>
           /\ window = "service" /\ selected["devices"] = 0 => alarms'["devices"] # <<>>
           /\ alarms["devices"] # <<>> => alarms'["devices"] # <<>>
<1>1. /\ alarms \in [Lists -> Alarms] /\ selected \in [Lists -> Nat]
  BY UITypes
<1>2. \A b \in Lists : /\ UI!Arm(alarms[b], selected[b]) \in Alarms
                       /\ UI!Arm(alarms[b], selected[b]) # <<>>
  BY <1>1, ArmFacts
<1>3. CASE window = "service"
  <2>1. alarms' = [b \in Lists |-> IF b = "services" \/ selected["devices"] = 0
                                   THEN UI!Arm(alarms[b], selected[b]) ELSE alarms[b]]
    BY <1>3 DEF UI!TrackServices, Lists
  <2>2. alarms' \in [Lists -> Alarms]
    BY <1>1, <1>2, <2>1
  <2>3. /\ alarms'["services"] # <<>>
        /\ selected["devices"] = 0 => alarms'["devices"] # <<>>
        /\ alarms["devices"] # <<>> => alarms'["devices"] # <<>>
    BY <1>2, <2>1 DEF Lists
  <2>4. selectbutton' \in BOOLEAN
    BY <1>3 DEF UI!TrackServices, UI!TypeOK
  <2> QED BY <1>3, <2>2, <2>3, <2>4
<1>4. CASE window # "service"
  BY <1>1, <1>4 DEF UI!TrackServices, UI!TypeOK
<1> QED BY <1>3, <1>4

\* A search changes none of the types but those of the list and of itself.
LEMMA SearchTypes ==
    ASSUME UI!TypeOK, stack' \in Seq(Frames), raised' \in BOOLEAN,
           items' \in Seq(Devices), selected' \in [Lists -> Nat],
           selected'["devices"] <= Len(items'),
           selected'["services"] = selected["services"],
           alarms' \in [Lists -> Alarms], searchbutton' \in BOOLEAN,
           selectbutton' \in BOOLEAN,
           window' = window, closed' = closed, gone' = gone, result' = result,
           itemcache' = itemcache, services' = services, sessioncache' = sessioncache,
           servicestitle' = servicestitle, searches' = searches
    PROVE  UI!TypeOK'
<1>1. {closed', gone', searchbutton', selectbutton', raised'} \subseteq BOOLEAN
  BY DEF UI!TypeOK
<1>2. /\ selected' \in [{"devices", "services"} -> Nat]
      /\ alarms' \in [{"devices", "services"} -> Seq([last : Nat, noted : BOOLEAN])]
      /\ stack' \in Seq(UI!SearchFrame \cup UI!PickFrame)
  BY DEF Frames, Lists, Alarms
<1> QED BY <1>1, <1>2 DEF UI!TypeOK

\* A search goes on to a statement other than the last one.
LEMMA TopRestored ==
    ASSUME UIInv, UI!TypeOK, stack # <<>>, stack[Len(stack)].kind = "search",
           DOMAIN stack' = DOMAIN stack, stack' \in Seq(Frames),
           \A i \in DOMAIN stack : i # Len(stack) => stack'[i] = stack[i],
           stack'[Len(stack)].kind = "search", stack'[Len(stack)].pc # "retracking",
           window' = window, gone' = gone, alarms' = alarms, raised' = raised
    PROVE  ~gone' /\ ~raised' => Restored'
<1> SUFFICES ASSUME ~gone, ~raised PROVE Restored'
  OBVIOUS
<1>1. Restored
  BY DEF UIInv
<1>2. stack \in Seq(Frames) /\ Len(stack') = Len(stack)
  BY UITypes
<1>3. \A i \in DOMAIN stack : /\ i \in DOMAIN stack'
                              /\ Rearms(stack[i]) => Rearms(stack'[i])
                              /\ stack[i].kind = "search" => stack'[i].kind = "search"
  BY DEF Rearms
<1>4. ~(stack' = <<>> \/ UI!InSearch("retracking")')
  <2>1. Len(stack) # 0
    BY <1>2
  <2>2. stack' # <<>>
    BY <1>2, <2>1
  <2> QED BY <1>2, <2>2 DEF UI!InSearch, UI!Top
<1> QED BY <1>1, <1>3, <1>4, RestoredKept

\* A search that goes on.
LEMMA SearchOnTop ==
    ASSUME UI!TypeOK, NEW pc \in SearchPcs, UI!InSearch(pc)
    PROVE  /\ stack \in Seq(Frames) /\ stack # <<>> /\ Len(stack) \in DOMAIN stack
           /\ stack[Len(stack)].kind = "search" /\ stack[Len(stack)].pc = pc
           /\ stack[Len(stack)] \in UI!SearchFrame
<1>1. stack \in Seq(Frames) /\ stack # <<>>
  BY UITypes DEF UI!InSearch
<1>2. Len(stack) \in DOMAIN stack
  BY <1>1
<1>3. stack[Len(stack)].kind = "search" /\ stack[Len(stack)].pc = pc
  BY DEF UI!InSearch, UI!Top
<1>4. stack[Len(stack)] \in UI!SearchFrame
  BY <1>1, <1>2, <1>3, FrameFields
<1> QED BY <1>1, <1>2, <1>3, <1>4

\* The list is cleared.
LEMMA ClearKeeps ==
    ASSUME UIInv, UI!Clear
    PROVE  UIInv'
<1>1. /\ stack \in Seq(Frames) /\ stack # <<>> /\ Len(stack) \in DOMAIN stack
      /\ stack[Len(stack)].kind = "search" /\ stack[Len(stack)].pc = "disabled"
  BY SearchOnTop DEF UIInv, UI!Clear, SearchPcs
<1>2. /\ window' = window /\ closed' = closed /\ gone' = gone /\ result' = result
      /\ itemcache' = itemcache /\ services' = services /\ sessioncache' = sessioncache
      /\ servicestitle' = servicestitle /\ searches' = searches /\ alarms' = alarms
      /\ searchbutton' = searchbutton /\ selectbutton' = selectbutton
  BY DEF UI!Clear, UI!shown
<1>3. /\ items' \in Seq(Devices) /\ selected' \in [Lists -> Nat]
      /\ selected'["devices"] <= Len(items')
      /\ selected'["services"] = selected["services"]
  <2>1. CASE gone
    BY <2>1, UITypes DEF UIInv, UI!Clear
  <2>2. CASE ~gone
    <3>1. items' = <<>> /\ selected' = [selected EXCEPT !["devices"] = 0]
      BY <2>2 DEF UI!Clear
    <3>2. selected \in [Lists -> Nat]
      BY UITypes DEF UIInv
    <3>3. /\ selected' \in [Lists -> Nat] /\ selected'["devices"] = 0
          /\ selected'["services"] = selected["services"]
      BY <3>1, <3>2 DEF Lists
    <3>4. items' \in Seq(Devices) /\ Len(items') = 0
      BY <3>1
    <3> QED BY <3>3, <3>4
  <2> QED BY <2>1, <2>2
<1>4. /\ stack' \in Seq(Frames) /\ OneNoted(stack') /\ raised' \in BOOLEAN
      /\ ~gone' /\ ~raised' => Restored'
  <2>1. CASE gone
    <3>1. UI!Raise
      BY <2>1 DEF UI!Clear
    <3> QED BY <1>1, <1>2, <2>1, <3>1, RaiseFacts DEF UIInv
  <2>2. CASE ~gone
    <3>1. stack' = [stack EXCEPT ![Len(stack)].pc = "cleared"] /\ raised' = raised
      BY <2>2 DEF UI!Clear, UI!Goto
    <3>2. /\ stack' \in Seq(Frames) /\ DOMAIN stack' = DOMAIN stack
          /\ \A i \in DOMAIN stack : i # Len(stack) => stack'[i] = stack[i]
          /\ stack'[Len(stack)].kind = "search" /\ stack'[Len(stack)].pc = "cleared"
          /\ stack'[Len(stack)].current = stack[Len(stack)].current
      <4>1. "cleared" \in SearchPcs
        BY DEF SearchPcs
      <4> QED BY <1>1, <3>1, <4>1, TopGoesOn
    <3>3. ~Adding(stack'[Len(stack)])
      BY <3>2 DEF Adding
    <3>4. OneNoted(stack')
      BY <1>1, <3>2, <3>3, TopOneNoted DEF UIInv
    <3>5. ~gone' /\ ~raised' => Restored'
      BY <1>1, <1>2, <3>1, <3>2, TopRestored DEF UIInv
    <3> QED BY <3>1, <3>2, <3>4, <3>5 DEF UIInv, UI!TypeOK
  <2> QED BY <2>1, <2>2
<1>5. UI!TypeOK'
  BY <1>2, <1>3, <1>4, UITypes, SearchTypes DEF UIInv, UI!TypeOK
<1> QED BY <1>4, <1>5 DEF UIInv

\* A new inquiry begins, or fails.
LEMMA StartInquiryKeeps ==
    ASSUME UIInv, UI!StartInquiry
    PROVE  UIInv'
<1>1. /\ stack \in Seq(Frames) /\ stack # <<>> /\ Len(stack) \in DOMAIN stack
      /\ stack[Len(stack)].kind = "search" /\ stack[Len(stack)].pc = "cleared"
      /\ OneNoted(stack) /\ Len(stack) \in Nat
  BY SearchOnTop DEF UIInv, UI!StartInquiry, SearchPcs
<1>2. /\ window' = window /\ closed' = closed /\ gone' = gone /\ result' = result
      /\ itemcache' = itemcache /\ services' = services /\ sessioncache' = sessioncache
      /\ servicestitle' = servicestitle /\ searches' = searches /\ alarms' = alarms
      /\ searchbutton' = searchbutton /\ selectbutton' = selectbutton
      /\ items' = items /\ selected' = selected
  BY DEF UI!StartInquiry, UI!shown, UI!list
<1>3. CASE /\ stack' = UI!Searching([stack EXCEPT ![Len(stack)].pc = "inquiring"])
           /\ raised' = raised
  <2>1. PICK s : s = [stack EXCEPT ![Len(stack)].pc = "inquiring"]
    OBVIOUS
  <2>2. /\ s \in Seq(Frames) /\ Len(s) = Len(stack) /\ DOMAIN s = DOMAIN stack
        /\ \A i \in DOMAIN stack : i # Len(stack) => s[i] = stack[i]
        /\ s[Len(stack)].kind = "search" /\ s[Len(stack)].pc = "inquiring"
    <3>1. "inquiring" \in SearchPcs
      BY DEF SearchPcs
    <3> QED BY <1>1, <2>1, <3>1, TopGoesOn
  <2>3. \A i \in DOMAIN s : i # Len(s) /\ Adding(s[i]) => s[i].current
    BY <1>1, <2>2 DEF OneNoted
  <2>4. s # <<>> /\ s[Len(s)].kind = "search"
    <3>1. Len(stack) # 0
      BY <1>1
    <3> QED BY <2>2, <3>1
  <2>5. stack' = UI!Searching(s)
    BY <1>3, <2>1
  <2>6. /\ stack' \in Seq(Frames) /\ Len(stack') = Len(s) /\ OneNoted(stack')
        /\ stack'[Len(s)].pc = s[Len(s)].pc
        /\ \A i \in DOMAIN s : /\ stack'[i].kind = s[i].kind
                               /\ s[i].kind = "pick" => stack'[i] = s[i]
                               /\ s[i].kind = "search" => stack'[i].pc = s[i].pc
    BY <2>2, <2>3, <2>4, <2>5, SearchingFacts
  <2>7. raised' \in BOOLEAN
    BY <1>3 DEF UIInv, UI!TypeOK
  <2>8. UI!TypeOK'
    BY <1>2, <2>6, <2>7, UITypes, SearchTypes DEF UIInv, UI!TypeOK
  <2>9. ASSUME ~gone', ~raised' PROVE Restored'
    <3>1. Restored
      BY <1>2, <1>3, <2>9 DEF UIInv
    <3>2. \A i \in DOMAIN stack : /\ i \in DOMAIN stack'
                                  /\ Rearms(stack[i]) => Rearms(stack'[i])
                                  /\ stack[i].kind = "search" => stack'[i].kind = "search"
      <4> TAKE i \in DOMAIN stack
      <4>1. i \in DOMAIN stack'
        BY <2>2, <2>6
      <4>2. CASE i = Len(stack)
        BY <1>1, <2>2, <2>6, <4>1, <4>2 DEF Rearms
      <4>3. CASE i # Len(stack)
        BY <2>2, <2>6, <4>1, <4>3 DEF Rearms
      <4> QED BY <4>2, <4>3
    <3>3. ~(stack' = <<>> \/ UI!InSearch("retracking")')
      <4>1. Len(stack') # 0 /\ stack'[Len(stack')].pc = "inquiring"
        BY <1>1, <2>2, <2>6
      <4>2. stack' # <<>>
        BY <2>6, <4>1
      <4> QED BY <4>1, <4>2 DEF UI!InSearch, UI!Top
    <3> QED BY <1>2, <3>1, <3>2, <3>3, RestoredKept DEF UIInv
  <2> QED BY <2>6, <2>8, <2>9 DEF UIInv
<1>4. CASE raised' = (raised \/ ~gone) /\ stack' = UI!Front(UI!Searching(stack))
  <2>1. \A i \in DOMAIN stack : i # Len(stack) /\ Adding(stack[i]) => stack[i].current
    BY <1>1 DEF OneNoted
  <2>2. PICK s : s = UI!Searching(stack)
    OBVIOUS
  <2>3. s \in Seq(Frames) /\ OneNoted(s) /\ Len(s) = Len(stack)
    BY <1>1, <2>1, <2>2, SearchingFacts
  <2>4. Len(s) - 1 \in Int /\ Len(s) - 1 <= Len(s)
    BY <1>1, <2>3
  <2>5. stack' = SubSeq(s, 1, Len(s) - 1)
    BY <1>4, <2>2 DEF UI!Front
  <2>6. stack' \in Seq(Frames) /\ OneNoted(stack')
    BY <2>3, <2>4, <2>5, PrefixFacts, PrefixOneNoted
  <2>7. raised' \in BOOLEAN /\ (raised' \/ gone')
    BY <1>2, <1>4 DEF UIInv, UI!TypeOK
  <2>8. UI!TypeOK'
    BY <1>2, <2>6, <2>7, UITypes, SearchTypes DEF UIInv, UI!TypeOK
  <2> QED BY <2>6, <2>7, <2>8 DEF UIInv
<1> QED BY <1>3, <1>4 DEF UI!StartInquiry

\* The inquiry reports a device.
LEMMA DeviceListedKeeps ==
    ASSUME UIInv, NEW x \in Devices, UI!DeviceFound(x)
    PROVE  UIInv'
<1>1. /\ stack \in Seq(Frames) /\ stack # <<>> /\ Len(stack) \in DOMAIN stack
      /\ stack[Len(stack)].kind = "search" /\ stack[Len(stack)].pc = "inquiring"
      /\ stack[Len(stack)] \in UI!SearchFrame /\ OneNoted(stack) /\ Len(stack) \in Nat
  BY SearchOnTop DEF UIInv, UI!DeviceFound, SearchPcs
<1>2. /\ window' = window /\ closed' = closed /\ gone' = gone /\ result' = result
      /\ itemcache' = itemcache /\ services' = services /\ sessioncache' = sessioncache
      /\ servicestitle' = servicestitle /\ searches' = searches /\ alarms' = alarms
      /\ searchbutton' = searchbutton /\ selectbutton' = selectbutton
      /\ selected' = selected
  BY DEF UI!DeviceFound, UI!shown
<1>3. /\ items \in Seq(Devices) /\ selected \in [Lists -> Nat]
      /\ selected["devices"] \in Nat
      /\ selected["devices"] <= Len(items) /\ alarms \in [Lists -> Alarms]
      /\ raised \in BOOLEAN /\ searchbutton \in BOOLEAN /\ selectbutton \in BOOLEAN
  BY UITypes DEF UIInv, UI!TypeOK
<1>4. CASE gone
  <2>1. UI!Raise /\ items' = items
    BY <1>4 DEF UI!DeviceFound
  <2>2. stack' \in Seq(Frames) /\ OneNoted(stack') /\ raised' \in BOOLEAN
    BY <1>1, <2>1, RaiseFacts DEF UIInv
  <2>3. UI!TypeOK'
    BY <1>2, <1>3, <2>1, <2>2, SearchTypes DEF UIInv
  <2> QED BY <1>2, <1>4, <2>2, <2>3 DEF UIInv
<1>5. CASE ~gone
  <2>1. PICK f : f = [stack[Len(stack)] EXCEPT !.pc = "found",
                                               !.left = stack[Len(stack)].left \ {x}]
    OBVIOUS
  <2>2. /\ f \in UI!SearchFrame /\ f.kind = "search" /\ f.pc = "found"
        /\ f.current = stack[Len(stack)].current
        /\ f.cancelled = stack[Len(stack)].cancelled
    <3>1. PICK g : g = [stack[Len(stack)] EXCEPT !.pc = "found"]
      OBVIOUS
    <3>2. /\ g \in UI!SearchFrame /\ g.kind = "search" /\ g.pc = "found"
          /\ g.current = stack[Len(stack)].current
          /\ g.cancelled = stack[Len(stack)].cancelled
          /\ stack[Len(stack)].left \in SUBSET Devices
      BY <1>1, <3>1 DEF UI!SearchFrame
    <3>3. PICK l \in SUBSET Devices : l = stack[Len(stack)].left \ {x}
      BY <3>2
    <3>4. f = [g EXCEPT !.left = l]
      BY <2>1, <3>1, <3>3
    <3> QED BY <3>2, <3>4 DEF UI!SearchFrame
  <2>3. stack' = [stack EXCEPT ![Len(stack)] = f]
    BY <1>1, <1>5, <2>1 DEF UI!DeviceFound
  <2>4. f \in Frames
    BY <2>2 DEF Frames
  <2>5. /\ stack' \in Seq(Frames) /\ DOMAIN stack' = DOMAIN stack
        /\ \A i \in DOMAIN stack : i # Len(stack) => stack'[i] = stack[i]
        /\ stack'[Len(stack)] = f
    BY <1>1, <2>3, <2>4
  <2>6. Adding(f) => Adding(stack[Len(stack)])
    BY <1>1, <2>2 DEF Adding
  <2>7. OneNoted(stack')
    BY <1>1, <2>2, <2>5, <2>6, TopOneNoted
  <2>8. items' = Append(items, x) /\ raised' = raised
    BY <1>5 DEF UI!DeviceFound
  <2>9. items' \in Seq(Devices) /\ Len(items') = Len(items) + 1 /\ Len(items) \in Nat
    BY <1>3, <2>8
  <2>10. selected'["devices"] <= Len(items')
    BY <1>2, <1>3, <2>9
  <2>11. UI!TypeOK'
    BY <1>2, <1>3, <2>5, <2>8, <2>9, <2>10, SearchTypes DEF UIInv
  <2>12. ~gone' /\ ~raised' => Restored'
    BY <1>1, <1>2, <2>2, <2>5, <2>8, TopRestored DEF UIInv
  <2> QED BY <2>7, <2>11, <2>12 DEF UIInv
<1> QED BY <1>4, <1>5

\* The inquiry goes on.
LEMMA FoundKeeps ==
    ASSUME UIInv, UI!Found
    PROVE  UIInv'
<1>1. /\ stack \in Seq(Frames) /\ stack # <<>> /\ Len(stack) \in DOMAIN stack
      /\ stack[Len(stack)].kind = "search" /\ stack[Len(stack)].pc = "found"
      /\ OneNoted(stack)
  BY SearchOnTop DEF UIInv, UI!Found, SearchPcs
<1>2. /\ window' = window /\ closed' = closed /\ gone' = gone /\ result' = result
      /\ itemcache' = itemcache /\ services' = services /\ sessioncache' = sessioncache
      /\ servicestitle' = servicestitle /\ searches' = searches /\ alarms' = alarms
      /\ searchbutton' = searchbutton /\ selectbutton' = selectbutton
      /\ items' = items /\ selected' = selected /\ raised' = raised
      /\ stack' = [stack EXCEPT ![Len(stack)].pc = "inquiring"]
  BY DEF UI!Found, UI!shown, UI!list, UI!ends, UI!Goto
<1>3. /\ stack' \in Seq(Frames) /\ DOMAIN stack' = DOMAIN stack
      /\ \A i \in DOMAIN stack : i # Len(stack) => stack'[i] = stack[i]
      /\ stack'[Len(stack)].kind = "search" /\ stack'[Len(stack)].pc = "inquiring"
      /\ stack'[Len(stack)].current = stack[Len(stack)].current
      /\ stack'[Len(stack)].cancelled = stack[Len(stack)].cancelled
  <2>1. "inquiring" \in SearchPcs
    BY DEF SearchPcs
  <2> QED BY <1>1, <1>2, <2>1, TopGoesOn
<1>4. Adding(stack'[Len(stack)]) => Adding(stack[Len(stack)])
  BY <1>1, <1>3 DEF Adding
<1>5. OneNoted(stack')
  BY <1>1, <1>3, <1>4, TopOneNoted
<1>6. UI!TypeOK'
  BY <1>2, <1>3, UITypes, SearchTypes DEF UIInv, UI!TypeOK
<1>7. ~gone' /\ ~raised' => Restored'
  BY <1>1, <1>2, <1>3, TopRestored DEF UIInv
<1> QED BY <1>5, <1>6, <1>7 DEF UIInv

\* A search ends: the search button is enabled and tracking begins again, with picking the
\* device that is selected.
LEMMA SearchEndsKeeps ==
    ASSUME UIInv, UI!SearchEnds
    PROVE  UIInv'
<1>1. /\ stack \in Seq(Frames) /\ stack # <<>> /\ Len(stack) \in DOMAIN stack
      /\ stack[Len(stack)].kind = "search" /\ stack[Len(stack)].pc = "inquiring"
      /\ OneNoted(stack) /\ Len(stack) \in Nat
  BY SearchOnTop DEF UIInv, UI!SearchEnds, SearchPcs
<1>2. /\ window' = window /\ closed' = closed /\ gone' = gone /\ result' = result
      /\ itemcache' = itemcache /\ searches' = searches /\ items' = items
  BY DEF UI!SearchEnds, UI!list
<1>3. /\ items \in Seq(Devices) /\ selected \in [Lists -> Nat]
      /\ selected["devices"] \in Nat
      /\ selected["devices"] <= Len(items) /\ alarms \in [Lists -> Alarms]
      /\ raised \in BOOLEAN /\ searchbutton \in BOOLEAN /\ selectbutton \in BOOLEAN
  BY UITypes DEF UIInv, UI!TypeOK
<1>4. CASE gone
  <2>1. /\ services' = services /\ servicestitle' = servicestitle
        /\ sessioncache' = sessioncache /\ selected' = selected /\ alarms' = alarms
        /\ searchbutton' = searchbutton /\ selectbutton' = selectbutton
    BY <1>4 DEF UI!SearchEnds
  <2>2. stack' \in Seq(Frames) /\ OneNoted(stack') /\ raised' \in BOOLEAN
    <3>1. CASE UI!Finish /\ raised' = raised
      BY <1>1, <1>3, <3>1, FinishFacts DEF UIInv
    <3>2. CASE UI!Raise
      BY <1>1, <3>2, RaiseFacts DEF UIInv
    <3> QED BY <1>4, <3>1, <3>2 DEF UI!SearchEnds
  <2>3. UI!TypeOK'
    BY <1>2, <1>3, <2>1, <2>2, SearchTypes DEF UIInv
  <2> QED BY <1>2, <1>4, <2>2, <2>3 DEF UIInv
<1>5. CASE ~gone /\ window = "service" /\ selected["devices"] # 0
  <2>1. PICK i \in DOMAIN items : i = selected["devices"]
    <3>1. selected["devices"] \in DOMAIN items
      BY <1>3, <1>5
    <3> QED BY <3>1
  <2>2. i \in Nat /\ i # 0
    BY <1>3, <1>5, <2>1
  <2>3. PICK s : s = [stack EXCEPT ![Len(stack)].pc = "retracking"]
    OBVIOUS
  <2>4. /\ s \in Seq(Frames) /\ DOMAIN s = DOMAIN stack /\ Len(s) = Len(stack)
        /\ \A j \in DOMAIN stack : j # Len(stack) => s[j] = stack[j]
        /\ s[Len(stack)].kind = "search" /\ s[Len(stack)].pc = "retracking"
        /\ s[Len(stack)].current = stack[Len(stack)].current
    <3>1. "retracking" \in SearchPcs
      BY DEF SearchPcs
    <3> QED BY <1>1, <2>3, <3>1, TopGoesOn
  <2>5. ~Adding(s[Len(stack)])
    BY <2>4 DEF Adding
  <2>6. OneNoted(s)
    BY <1>1, <2>4, <2>5, TopOneNoted
  <2>7. /\ UI!StartPick(i, i, TRUE, s)
        /\ selected' = [selected EXCEPT !["services"] = 0]
        /\ alarms' = alarms /\ raised' = raised
    BY <1>5, <2>1, <2>3 DEF UI!SearchEnds
  <2>8. /\ services' = <<>> /\ servicestitle' = "None" /\ sessioncache' = sessioncache
        /\ searchbutton' = FALSE /\ selectbutton' = FALSE
        /\ stack' \in Seq(Frames) /\ OneNoted(stack') /\ Len(stack') = Len(s) + 1
        /\ DOMAIN stack' = DOMAIN s \cup {Len(s) + 1}
        /\ \A j \in DOMAIN s : stack'[j] = s[j]
        /\ stack'[Len(s) + 1].kind = "pick" /\ stack'[Len(s) + 1].index = i
    <3>1. UI!StartPick(i, i, TRUE, s)
      BY <2>7
    <3>2. UI!TypeOK
      BY DEF UIInv
    <3>3. s \in Seq(Frames)
      BY <2>4
    <3>4. i \in DOMAIN items
      BY <2>1
    <3>5. i \in Nat
      BY <2>2
    <3>6. TRUE \in BOOLEAN
      OBVIOUS
    <3> QED BY <2>6, <3>1, <3>2, <3>3, <3>4, <3>5, <3>6, PickBegins, ZenonT(60)
  <2>9. UI!TypeOK'
    BY <1>2, <1>3, <2>7, <2>8, PickTypes DEF UIInv, UI!TypeOK
  <2>10. Restored'
    <3>1. Len(s) + 1 \in DOMAIN stack' /\ Rearms(stack'[Len(s) + 1])
      BY <2>2, <2>8 DEF Rearms
    <3>2. Len(stack) \in DOMAIN stack' /\ stack'[Len(stack)].kind = "search"
      BY <1>1, <2>4, <2>8
    <3>3. ~(stack' = <<>> \/ UI!InSearch("retracking")')
      <4>1. stack' # <<>>
        BY <3>1
      <4> QED BY <2>8, <4>1 DEF UI!InSearch, UI!Top
    <3>4. \E j \in DOMAIN stack' : Rearms(stack'[j])
      BY <3>1
    <3>5. \E j \in DOMAIN stack' : stack'[j].kind = "search"
      BY <3>2
    <3> QED BY <1>2, <1>5, <3>3, <3>4, <3>5 DEF Restored
  <2> QED BY <2>8, <2>9, <2>10 DEF UIInv
<1>6. CASE ~gone /\ ~(window = "service" /\ selected["devices"] # 0)
  <2>1. /\ searchbutton' = TRUE /\ UI!Finish /\ UI!TrackServices
        /\ services' = services /\ servicestitle' = servicestitle
        /\ sessioncache' = sessioncache /\ selected' = selected /\ raised' = raised
    BY <1>6 DEF UI!SearchEnds
  <2>2. /\ alarms' \in [Lists -> Alarms] /\ selectbutton' \in BOOLEAN
        /\ window = "device" => alarms' = alarms
        /\ window = "service" => alarms'["services"] # <<>> /\ alarms'["devices"] # <<>>
    BY <1>6, <2>1, TrackFacts DEF UIInv
  <2>3. stack' \in Seq(Frames) /\ OneNoted(stack')
    BY <1>1, <2>1, FinishFacts DEF UIInv
  <2>4. UI!TypeOK'
    BY <1>2, <1>3, <2>1, <2>2, <2>3, SearchTypes DEF UIInv
  <2>5. ~gone' /\ ~raised' => Restored'
    BY <1>2, <2>1, <2>2 DEF UIInv, Restored
  <2> QED BY <2>3, <2>4, <2>5 DEF UIInv
<1> QED BY <1>4, <1>5, <1>6

\* The device that was selected is picked, and the services are tracked.
LEMMA RetrackedKeeps ==
    ASSUME UIInv, UI!Retracked
    PROVE  UIInv'
<1>1. /\ stack \in Seq(Frames) /\ stack # <<>> /\ Len(stack) \in DOMAIN stack
      /\ stack[Len(stack)].kind = "search" /\ stack[Len(stack)].pc = "retracking"
      /\ OneNoted(stack) /\ UI!InSearch("retracking")
  BY SearchOnTop DEF UIInv, UI!Retracked, SearchPcs
<1>2. /\ window' = window /\ closed' = closed /\ gone' = gone /\ result' = result
      /\ itemcache' = itemcache /\ services' = services /\ sessioncache' = sessioncache
      /\ servicestitle' = servicestitle /\ searches' = searches
      /\ searchbutton' = searchbutton /\ items' = items /\ selected' = selected
      /\ raised' = raised /\ UI!Finish /\ UI!TrackServices
  BY DEF UI!Retracked, UI!shown, UI!list, UI!ends
<1>3. /\ alarms' \in [Lists -> Alarms] /\ selectbutton' \in BOOLEAN
      /\ window = "device" => alarms' = alarms
      /\ window = "service" => alarms'["services"] # <<>>
      /\ alarms["devices"] # <<>> => alarms'["devices"] # <<>>
  BY <1>2, TrackFacts DEF UIInv
<1>4. /\ stack' \in Seq(Frames) /\ OneNoted(stack')
      /\ DOMAIN stack = DOMAIN stack' \cup {Len(stack)}
      /\ \A i \in DOMAIN stack' : stack'[i] = stack[i]
  BY <1>1, <1>2, FinishFacts DEF UIInv
<1>5. UI!TypeOK'
  BY <1>2, <1>3, <1>4, UITypes, SearchTypes DEF UIInv, UI!TypeOK
<1>6. ASSUME ~gone', ~raised' PROVE Restored'
  <2>1. Restored
    BY <1>2, <1>6 DEF UIInv
  <2>2. window = "service" /\ alarms'["devices"] = <<>>
          => \E i \in DOMAIN stack' : Rearms(stack'[i])
    <3> SUFFICES ASSUME window = "service", alarms'["devices"] = <<>>
                 PROVE  \E i \in DOMAIN stack' : Rearms(stack'[i])
      OBVIOUS
    <3>1. PICK i \in DOMAIN stack : Rearms(stack[i])
      BY <1>3, <2>1 DEF Restored
    <3>2. i # Len(stack)
      BY <1>1, <3>1 DEF Rearms
    <3>3. i \in DOMAIN stack' /\ Rearms(stack'[i])
      BY <1>4, <3>1, <3>2
    <3> QED BY <3>3
  <2>3. searchbutton'
    BY <1>1, <1>2, <2>1 DEF Restored
  <2> QED BY <1>2, <1>3, <2>1, <2>2, <2>3 DEF Restored
<1> QED BY <1>4, <1>5, <1>6 DEF UIInv

\* Picking a device fails.
LEMMA PickFailsKeeps ==
    ASSUME UIInv, UI!PickFails
    PROVE  UIInv'
<1>1. stack # <<>> /\ UI!Raise
  BY DEF UI!PickFails, UI!Picking
<1>2. /\ stack' \in Seq(Frames) /\ OneNoted(stack')
      /\ raised' \in BOOLEAN /\ (raised' \/ gone)
  BY <1>1, RaiseFacts DEF UIInv
<1>3. /\ window' = window /\ closed' = closed /\ gone' = gone /\ result' = result
      /\ itemcache' = itemcache /\ items' = items /\ sessioncache' = sessioncache
      /\ searches' = searches /\ alarms' = alarms
      /\ searchbutton' = searchbutton /\ selectbutton' = selectbutton
      /\ servicestitle' = servicestitle
  BY DEF UI!PickFails, UI!list
<1>4. /\ services' \in Seq(Devices \X (1 .. MaxServices))
      /\ selected' \in [Lists -> Nat]
      /\ selected'["devices"] = selected["devices"]
      /\ selected'["services"] <= Len(services')
  <2>1. CASE gone
    BY <2>1, UITypes DEF UIInv, UI!PickFails
  <2>2. CASE ~gone
    <3>1. services' = <<>> /\ selected' = [selected EXCEPT !["services"] = 0]
      BY <2>2 DEF UI!PickFails
    <3>2. services' \in Seq(Devices \X (1 .. MaxServices)) /\ Len(services') = 0
      BY <3>1
    <3>3. /\ selected' \in [Lists -> Nat] /\ selected'["services"] = 0
          /\ selected'["devices"] = selected["devices"]
      BY <3>1, UITypes DEF UIInv, Lists
    <3> QED BY <3>2, <3>3
  <2> QED BY <2>1, <2>2
<1>5. UI!TypeOK'
  <2>1. {closed', gone', searchbutton', selectbutton', raised'} \subseteq BOOLEAN
    BY <1>2, <1>3 DEF UIInv, UI!TypeOK
  <2>2. /\ selected' \in [{"devices", "services"} -> Nat]
        /\ stack' \in Seq(UI!SearchFrame \cup UI!PickFrame)
        /\ selected'["devices"] <= Len(items')
    BY <1>2, <1>3, <1>4, UITypes DEF UIInv, Frames, Lists
  <2> QED BY <1>3, <1>4, <2>1, <2>2 DEF UIInv, UI!TypeOK
<1> QED BY <1>2, <1>3, <1>5 DEF UIInv

\* A device is picked: its services are shown, and an alarm that has called this is set
\* again.
LEMMA PickedKeeps ==
    ASSUME UIInv, UI!UIAssumption, NEW n \in 0 .. MaxServices, UI!Picked(n)
    PROVE  UIInv'
<1> DEFINE top == stack[Len(stack)]
<1>1. /\ stack \in Seq(Frames) /\ stack # <<>> /\ Len(stack) \in DOMAIN stack
      /\ OneNoted(stack) /\ top.kind = "pick"
  <2>1. stack \in Seq(Frames) /\ stack # <<>>
    BY UITypes DEF UIInv, UI!Picked, UI!Picking
  <2>2. Len(stack) \in DOMAIN stack
    BY <2>1
  <2> QED BY <2>1, <2>2 DEF UIInv, UI!Picked, UI!Picking, UI!Top
<1>2. top.device \in Devices /\ top.index \in Nat
  BY <1>1, FrameFields
<1>3. /\ window' = window /\ closed' = closed /\ gone' = gone /\ result' = result
      /\ itemcache' = itemcache /\ items' = items /\ searches' = searches
      /\ searchbutton' = TRUE /\ selectbutton' = selectbutton /\ raised' = raised
      /\ UI!Finish
  BY DEF UI!Picked, UI!list, UI!ends
<1>4. /\ services' = [i \in 1 .. n |-> <<top.device, i>>]
      /\ sessioncache' = [sessioncache EXCEPT ![top.device] = n]
      /\ servicestitle' = top.device
      /\ selected' = [selected EXCEPT !["services"] = 0]
      /\ alarms' = IF top.index = 0 THEN alarms
                   ELSE [alarms EXCEPT !["devices"] = UI!Arm(@, top.index)]
  BY DEF UI!Picked, UI!Top
<1> HIDE DEF top
<1>5. /\ services' \in Seq(Devices \X (1 .. MaxServices)) /\ Len(services') \in Nat
  <2>1. n \in Nat /\ \A i \in 1 .. n : <<top.device, i>> \in Devices \X (1 .. MaxServices)
    BY <1>2 DEF UI!UIAssumption
  <2>2. services' \in [1 .. n -> Devices \X (1 .. MaxServices)]
    BY <1>4, <2>1
  <2>3. services' \in Seq(Devices \X (1 .. MaxServices))
    BY <2>1, <2>2
  <2> QED BY <2>3
<1>6. /\ alarms' \in [Lists -> Alarms] /\ alarms'["services"] = alarms["services"]
      /\ alarms["devices"] # <<>> => alarms'["devices"] # <<>>
      /\ top.index # 0 => alarms'["devices"] # <<>>
  <2>1. alarms \in [Lists -> Alarms] /\ alarms["devices"] \in Alarms
    BY UITypes DEF UIInv
  <2>2. /\ UI!Arm(alarms["devices"], top.index) \in Alarms
        /\ UI!Arm(alarms["devices"], top.index) # <<>>
    BY <1>2, <2>1, ArmFacts
  <2>3. CASE top.index = 0
    BY <1>4, <2>1, <2>3
  <2>4. CASE top.index # 0
    <3>1. alarms' = [alarms EXCEPT !["devices"] = UI!Arm(alarms["devices"], top.index)]
      BY <1>4, <2>4
    <3> QED BY <2>1, <2>2, <3>1 DEF Lists
  <2> QED BY <2>3, <2>4
<1>7. /\ stack' \in Seq(Frames) /\ OneNoted(stack')
      /\ DOMAIN stack = DOMAIN stack' \cup {Len(stack)}
      /\ \A i \in DOMAIN stack' : stack'[i] = stack[i]
  BY <1>1, <1>3, FinishFacts DEF UIInv
<1>8. UI!TypeOK'
  <2>1. {closed', gone', searchbutton', selectbutton', raised'} \subseteq BOOLEAN
    BY <1>3 DEF UIInv, UI!TypeOK
  <2>2. /\ selected' \in [Lists -> Nat] /\ selected'["services"] = 0
        /\ selected'["devices"] = selected["devices"]
    BY <1>4, UITypes DEF UIInv, Lists
  <2>3. /\ selected' \in [{"devices", "services"} -> Nat]
        /\ selected'["devices"] <= Len(items') /\ selected'["services"] <= Len(services')
    BY <1>3, <1>5, <2>2, UITypes DEF UIInv, Lists
  <2>4. /\ stack' \in Seq(UI!SearchFrame \cup UI!PickFrame)
        /\ alarms' \in [{"devices", "services"} -> Seq([last : Nat, noted : BOOLEAN])]
    BY <1>6, <1>7 DEF Frames, Lists, Alarms
  <2>5. sessioncache' \in [Devices -> 0 .. MaxServices]
    BY <1>4, UITypes DEF UIInv
  <2>6. servicestitle' \in Devices \cup {UI!None}
    BY <1>2, <1>4
  <2> QED BY <1>3, <1>5, <2>1, <2>3, <2>4, <2>5, <2>6 DEF UIInv, UI!TypeOK
<1>9. ASSUME ~gone', ~raised' PROVE Restored'
  <2>1. Restored
    BY <1>3, <1>9 DEF UIInv
  <2>2. window = "service" /\ alarms'["devices"] = <<>>
          => \E i \in DOMAIN stack' : Rearms(stack'[i])
    <3> SUFFICES ASSUME window = "service", alarms'["devices"] = <<>>
                 PROVE  \E i \in DOMAIN stack' : Rearms(stack'[i])
      OBVIOUS
    <3>1. alarms["devices"] = <<>> /\ top.index = 0
      BY <1>6
    <3>2. PICK i \in DOMAIN stack : Rearms(stack[i])
      BY <2>1, <3>1 DEF Restored
    <3>3. i # Len(stack)
      BY <1>1, <3>1, <3>2 DEF Rearms, top
    <3>4. i \in DOMAIN stack' /\ Rearms(stack'[i])
      BY <1>7, <3>2, <3>3
    <3> QED BY <3>4
  <2>3. window = "service" /\ alarms'["services"] = <<>>
          => \E i \in DOMAIN stack' : stack'[i].kind = "search"
    <3> SUFFICES ASSUME window = "service", alarms'["services"] = <<>>
                 PROVE  \E i \in DOMAIN stack' : stack'[i].kind = "search"
      OBVIOUS
    <3>1. PICK i \in DOMAIN stack : stack[i].kind = "search"
      BY <1>6, <2>1 DEF Restored
    <3>2. i # Len(stack)
      BY <1>1, <3>1 DEF top
    <3>3. i \in DOMAIN stack' /\ stack'[i].kind = "search"
      BY <1>7, <3>1, <3>2
    <3> QED BY <3>3
  <2> QED BY <1>3, <1>6, <2>1, <2>2, <2>3 DEF Restored
<1> QED BY <1>7, <1>8, <1>9 DEF UIInv

-----------------------------------------------------------------------------
(* The theorems about the windows. *)

\* The types, the search that is noted and who enables and tracks again are an invariant
\* of the selection windows, for any devices, services and nesting.
THEOREM WindowInductive ==
    ASSUME UI!UIAssumption
    PROVE  UI!Spec => []UIInv
<1>1. UI!Init => UIInv
  BY UIInitially
<1>2. UIInv /\ [UI!Next]_(UI!vars) => UIInv'
  <2> SUFFICES ASSUME UIInv, [UI!Next]_(UI!vars) PROVE UIInv'
    OBVIOUS
  <2>1. CASE UI!Step
    <3>1. CASE UI!Clear \/ UI!StartInquiry \/ UI!Found \/ UI!SearchEnds \/ UI!Retracked
      BY <3>1, ClearKeeps, StartInquiryKeeps, FoundKeeps, SearchEndsKeeps, RetrackedKeeps
    <3>2. CASE UI!PickFails \/ \E n \in 0 .. MaxServices : UI!Picked(n)
      BY <3>2, PickFailsKeeps, PickedKeeps
    <3> QED BY <2>1, <3>1, <3>2 DEF UI!Step
  <2>2. CASE \E d \in Devices : UI!DeviceFound(d)
    BY <2>2, DeviceListedKeeps
  <2>3. ASSUME NEW b \in {"devices", "services"},
               \/ \E i \in 1 .. MaxItems + MaxServices : UI!ClickItem(b, i)
               \/ \E k \in DOMAIN alarms[b] : UI!Alarm(b, k)
        PROVE  UIInv'
    <3>1. b \in Lists
      BY DEF Lists
    <3> QED BY <2>3, <3>1, ClickItemKeeps, AlarmKeeps
  <2>4. CASE UI!ClickSelect \/ UI!Cancel
    BY <2>4, ChoiceKeeps
  <2>5. CASE UI!Destroy
    BY <2>5, DestroyKeeps
  <2>6. CASE UI!DoubleClickDevice
    BY <2>6, DoubleClickKeeps
  <2>7. CASE UI!ClickSearch
    BY <2>7, ClickSearchKeeps
  <2>8. CASE UNCHANGED UI!vars
    BY <2>8, ClickItemKeeps
  <2> QED BY <2>1, <2>2, <2>3, <2>4, <2>5, <2>6, <2>7, <2>8 DEF UI!Next
<1> QED BY <1>1, <1>2, PTL DEF UI!Spec

\* Every variable of the selection windows keeps its type.
THEOREM WindowTypeCorrect ==
    ASSUME UI!UIAssumption
    PROVE  UI!Spec => []UI!TypeOK
<1>1. UIInv => UI!TypeOK
  BY DEF UIInv
<1> QED BY <1>1, WindowInductive, PTL

\* However searches are nested, at most one of them still adds devices to the list.
THEOREM SearchesDoNotMix ==
    ASSUME UI!UIAssumption
    PROVE  UI!Spec => []OneSearch
<1>1. UIInv => OneSearch
  BY DEF UIInv, OneNoted, OneSearch, Adding
<1> QED BY <1>1, WindowInductive, PTL

\* Once all handlers are done and none has raised an exception, the user can search again
\* and each list is tracked, whatever was nested in what.
THEOREM WindowsStayUsable ==
    ASSUME UI!UIAssumption
    PROVE  UI!Spec => []Usable
<1>1. UIInv => Usable
  <2> SUFFICES ASSUME UIInv, stack = <<>>, ~gone, ~raised
               PROVE  searchbutton /\ \A b \in Boxes : alarms[b] # <<>>
    BY DEF Usable
  <2>1. Restored /\ DOMAIN stack = {}
    BY DEF UIInv
  <2>2. window \in {"device", "service"}
    BY DEF UIInv, UI!TypeOK
  <2> QED BY <2>1, <2>2 DEF Restored, Boxes
<1> QED BY <1>1, WindowInductive, PTL
=============================================================================
