--------------------------- MODULE LinuxDiscoveryUI ---------------------------
(***************************************************************************)
(* The windows of selectdevice() and selectservice() on Linux              *)
(* (src/src/linux/_discoveryui.py).  There is one thread, but its handlers *)
(* nest: each time a handler calls update(), Tk runs every event that is   *)
(* waiting, to the end, before the handler goes on with what it has read.  *)
(* "stack" holds the handlers that are in the middle of something.  It is  *)
(* declared in SelectionWindow, with what is promised of the windows and   *)
(* the other variables that takes.                                         *)
(*                                                                         *)
(* Tk and PyBluez are external.  Assumed of them: a call on a destroyed    *)
(* widget raises TclError, an exception ends the handlers up to the one Tk *)
(* has called and is printed, an inquiry reports a device once and ends.   *)
(***************************************************************************)
EXTENDS SelectionWindow, Integers, Sequences, SequencesExt

CONSTANTS
    Devices,
    MaxServices,    \* bound: services of a device
    MaxFrames,      \* bound: handlers inside each other
    MaxItems,       \* bound: devices listed
    MaxSearches     \* bound: searches begun

ASSUME UIAssumption ==
    /\ MaxServices \in Nat /\ MaxFrames \in Nat /\ MaxItems \in Nat
    /\ MaxSearches \in Nat

None == "None"

VARIABLES
    closed,       \* _closed
    result,       \* _selection: <<>>, <<device>> or <<device, number>>
    items,        \* __items of the device manager, as listed
    cache,        \* DeviceSelectionController._cache
    services,     \* __items of the service manager, as listed: <<device, number>>
    sessioncache,
    servicestitle,\* whose services the title says these are
    selected,     \* selected["devices"], selected["services"]: the index, 0 if none
    selectbutton, \* enabled
    searches

vars == <<window, closed, gone, result, items, cache, services, sessioncache, servicestitle,
          selected, alarms, searchbutton, selectbutton, stack, searches, raised>>
list == <<items, cache>>
ends == <<closed, gone, result, raised>>
shown == <<services, sessioncache, servicestitle>>

SearchFrame ==
    [kind : {"search"}, pc : {"disabled", "cleared", "inquiring", "found", "retracking"},
     left : SUBSET Devices, current : BOOLEAN, cancelled : BOOLEAN]
PickFrame ==
    [kind : {"pick"}, device : Devices,
     index : Nat,             \* to track with once it is done, 0 if it was no alarm
     called : BOOLEAN]        \* called by the search below, not by Tk

TypeOK ==
    /\ window \in {"device", "service"}
    /\ {closed, gone, searchbutton, selectbutton, raised} \subseteq BOOLEAN
    /\ result \in {<<>>} \cup {<<d>> : d \in Devices} \cup (Devices \X (1 .. MaxServices))
    /\ items \in Seq(Devices) /\ cache \in Seq(Devices)
    /\ services \in Seq(Devices \X (1 .. MaxServices))
    /\ sessioncache \in [Devices -> 0 .. MaxServices]
    /\ servicestitle \in Devices \cup {None}
    /\ selected \in [{"devices", "services"} -> Nat]
    /\ selected["devices"] <= Len(items) /\ selected["services"] <= Len(services)
    /\ alarms \in [{"devices", "services"} -> Seq([last : Nat, noted : BOOLEAN])]
    /\ stack \in Seq(SearchFrame \cup PickFrame)
    /\ searches \in 0 .. MaxSearches

Init ==
    /\ window \in {"device", "service"}
    /\ closed = FALSE /\ gone = FALSE /\ result = <<>> /\ raised = FALSE
    /\ cache \in {<<>>} \cup {<<d>> : d \in Devices}
    /\ items = cache
    /\ services = <<>> /\ servicestitle = None
    /\ sessioncache = [d \in Devices |-> 0]
    /\ selected = [b \in {"devices", "services"} |-> 0]
    /\ alarms = [b \in {"devices", "services"} |->
                    IF b \in Boxes THEN <<[last |-> 0, noted |-> TRUE]>> ELSE <<>>]
    /\ searchbutton = TRUE /\ selectbutton = FALSE
    /\ stack = <<>> /\ searches = 0

-----------------------------------------------------------------------------
(* Handlers *)

Top == stack[Len(stack)]

\* getselection(): what is selected in a list.
Selection(b) ==
    IF selected[b] = 0 THEN <<>>
    ELSE IF b = "devices" THEN <<items[selected[b]]>> ELSE services[selected[b]]

\* Tk runs events: in the main loop, or in an update().
Events ==
    /\ ~gone
    /\ IF stack = <<>> \/ Top.kind = "pick" THEN TRUE
       ELSE Top.pc \in {"disabled", "cleared", "found"}

InSearch(pc) == stack # <<>> /\ Top.kind = "search" /\ Top.pc = pc
Goto(pc) == stack' = [stack EXCEPT ![Len(stack)].pc = pc]
Finish == stack' = Front(stack)

\* An exception ends the handlers down to the one that Tk has called.
Raise ==
    /\ stack' = LET n == Len(stack)
                IN  SubSeq(stack, 1, n - IF Top.kind = "pick" /\ Top.called THEN 2 ELSE 1)
    /\ raised' = (raised \/ ~gone)

\* The alarms "a" with one more, which is the one that is noted.
Arm(a, last) ==
    Append([i \in 1 .. Len(a) |-> [a[i] EXCEPT !.noted = FALSE]],
           [last |-> last, noted |-> TRUE])

\* stoptracking(): of the alarms only the one that is noted is cancelled, the one that was
\* set last unless it has gone off.
StopTracking(a) == IF a # <<>> /\ Last(a).noted THEN Front(a) ELSE a

\* _stopdiscovery(): only the discoverer that is noted is told.
StopDiscovery(s) ==
    [i \in 1 .. Len(s) |->
        IF s[i].kind = "search" /\ s[i].current THEN [s[i] EXCEPT !.cancelled = TRUE]
        ELSE s[i]]

\* _clearservices()
ClearServices ==
    services' = <<>> /\ servicestitle' = None /\ UNCHANGED sessioncache

\* What _pickeddevice() does up to its update().
StartPick(i, index, called, below) ==
    /\ ClearServices
    /\ searchbutton' = FALSE /\ selectbutton' = FALSE
    /\ stack' = Append(below, [kind |-> "pick", device |-> items[i], index |-> index,
                               called |-> called])

-----------------------------------------------------------------------------
(* The user *)

\* A click on an item selects it.
ClickItem(b, i) ==
    /\ Events /\ b \in Boxes
    /\ i \in 1 .. Len(IF b = "devices" THEN items ELSE services)
    /\ selected' = [selected EXCEPT ![b] = i]
    /\ UNCHANGED <<window, list, ends, shown, alarms, searchbutton, selectbutton, stack,
                   searches>>

\* _quit()
Quit(selection) ==
    /\ closed' = TRUE /\ gone' = TRUE /\ result' = selection
    /\ cache' = items
    /\ stack' = StopDiscovery(stack)
    /\ alarms' = [b \in {"devices", "services"} |-> <<>>]
    /\ UNCHANGED <<window, items, shown, selected, searchbutton, selectbutton, searches, raised>>

\* _clickedselect(); a double click on an item does the same, but on a device of
\* ServiceSelector.
ClickSelect ==
    /\ Events
    /\ LET b == IF window = "service" THEN "services" ELSE "devices" IN
       /\ selectbutton \/ selected[b] # 0
       /\ Quit(Selection(b))

Cancel == Events /\ Quit(result)

\* The window is closed by the window manager, and _quit() is not called.
Destroy ==
    /\ Events
    /\ gone' = TRUE /\ alarms' = [b \in {"devices", "services"} |-> <<>>]
    /\ UNCHANGED <<window, closed, result, raised, list, shown, selected, searchbutton,
                   selectbutton, stack, searches>>

\* A double click on a device of ServiceSelector.
DoubleClickDevice ==
    /\ Events /\ window = "service" /\ selected["devices"] # 0 /\ Len(stack) < MaxFrames
    /\ StartPick(selected["devices"], 0, FALSE, stack)
    /\ selected' = [selected EXCEPT !["services"] = 0]
    /\ UNCHANGED <<window, list, ends, alarms, searches>>

\* _clickedsearch() up to its update().
ClickSearch ==
    /\ Events /\ searchbutton /\ Len(stack) < MaxFrames /\ searches < MaxSearches
    /\ searches' = searches + 1
    /\ searchbutton' = FALSE /\ selectbutton' = FALSE
    /\ IF window = "service"
       THEN /\ ClearServices
            /\ selected' = [selected EXCEPT !["services"] = 0]
            /\ alarms' = [b \in {"devices", "services"} |-> StopTracking(alarms[b])]
       ELSE UNCHANGED <<shown, selected, alarms>>
    /\ stack' = Append(stack, [kind |-> "search", pc |-> "disabled", left |-> Devices,
                               current |-> FALSE, cancelled |-> FALSE])
    /\ UNCHANGED <<window, list, ends>>

-----------------------------------------------------------------------------
(* Tracking *)

\* _track(): a selection other than the last one is reported, then the list is looked
\* at again later.  In ServiceSelector a new device is picked first.
Alarm(b, k) ==
    /\ Events
    /\ LET index == selected[b]
           new   == index # 0 /\ index # alarms[b][k].last
           rest  == RemoveAt(alarms[b], k) IN
       IF new /\ b = "devices" /\ window = "service"
       THEN /\ Len(stack) < MaxFrames
            /\ StartPick(index, index, FALSE, stack)
            /\ selected' = [selected EXCEPT !["services"] = 0]
            /\ alarms' = [alarms EXCEPT ![b] = rest]
       ELSE /\ alarms' = [alarms EXCEPT ![b] = Arm(rest, index)]
            /\ selectbutton' = (selectbutton \/ new)
            /\ UNCHANGED <<selected, shown, searchbutton, stack>>
    /\ UNCHANGED <<window, list, ends, searches>>

\* trackselections(), for the services, once the devices are tracked.
TrackServices ==
    IF window = "service"
    THEN /\ alarms' = [b \in {"devices", "services"} |->
                          IF b = "services" \/ selected["devices"] = 0
                          THEN Arm(alarms[b], selected[b]) ELSE alarms[b]]
         /\ selectbutton' = (selectbutton \/ selected["services"] # 0)
    ELSE UNCHANGED <<alarms, selectbutton>>

-----------------------------------------------------------------------------
(* Searching: _clickedsearch(), refreshdevices(), find_devices() *)

\* The first update() returns, and the list is cleared.
Clear ==
    /\ InSearch("disabled")
    /\ items' = IF gone THEN items ELSE <<>>
    /\ selected' = IF gone THEN selected ELSE [selected EXCEPT !["devices"] = 0]
    /\ IF gone THEN Raise ELSE Goto("cleared") /\ UNCHANGED raised
    /\ UNCHANGED <<window, closed, gone, result, cache, shown, alarms, searchbutton,
                   selectbutton, searches>>

\* Mutant of Searching: the search in progress is not told.
SearchingBeside(s) ==
    [i \in 1 .. Len(s) |->
        IF s[i].kind = "search" THEN [s[i] EXCEPT !.current = (i = Len(s))] ELSE s[i]]

\* The discoverer in progress is told to stop, and that of the topmost search noted.
Searching(s) ==
    LET told == StopDiscovery(s) IN
    [i \in 1 .. Len(s) |->
        IF told[i].kind = "search" THEN [told[i] EXCEPT !.current = (i = Len(s))]
        ELSE told[i]]

\* The second one returns, also when the window was closed in it, and a new inquiry is
\* begun, or fails.
StartInquiry ==
    /\ InSearch("cleared")
    /\ \/ /\ stack' = Searching([stack EXCEPT ![Len(stack)].pc = "inquiring"])
          /\ UNCHANGED raised
       \/ /\ raised' = (raised \/ ~gone)
          /\ stack' = Front(Searching(stack))
    /\ UNCHANGED <<window, closed, gone, result, list, shown, selected, alarms, searchbutton,
                   selectbutton, searches>>

\* A device is listed, if the window is still there, and the list is updated.
DeviceFound(d) ==
    /\ InSearch("inquiring") /\ ~Top.cancelled /\ d \in Top.left /\ Len(items) < MaxItems
    /\ IF gone THEN Raise /\ UNCHANGED items
       ELSE /\ items' = Append(items, d)
            /\ stack' = [stack EXCEPT ![Len(stack)].pc = "found",
                                     ![Len(stack)].left = @ \ {d}]
            /\ UNCHANGED raised
    /\ UNCHANGED <<window, closed, gone, result, cache, shown, selected, alarms, searchbutton,
                   selectbutton, searches>>

Found ==
    /\ InSearch("found")
    /\ Goto("inquiring")
    /\ UNCHANGED <<window, list, ends, shown, selected, alarms, searchbutton, selectbutton,
                   searches>>

\* Mutant of SearchEnds: tracking does not begin again.
SearchEndsUntracked ==
    /\ InSearch("inquiring")
    /\ Finish
    /\ searchbutton' = (searchbutton \/ ~gone)
    /\ UNCHANGED <<window, list, ends, shown, selected, alarms, selectbutton, searches>>

\* Mutant of SearchEnds: it is not noticed that the inquiry is complete.
SearchEndsIfTold ==
    /\ InSearch("inquiring") /\ Top.cancelled
    /\ Finish
    /\ searchbutton' = (searchbutton \/ ~gone)
    /\ UNCHANGED <<window, list, ends, shown, selected, alarms, selectbutton, searches>>

\* The inquiry is complete, or the search was told to stop.  If a device is selected,
\* tracking begins with picking it.
SearchEnds ==
    /\ InSearch("inquiring")
    /\ IF gone THEN /\ IF closed THEN Finish /\ UNCHANGED raised ELSE Raise
                    /\ UNCHANGED <<services, servicestitle, sessioncache, selected, alarms,
                                   searchbutton, selectbutton>>
       ELSE IF window = "service" /\ selected["devices"] # 0
       THEN /\ Len(stack) < MaxFrames
            /\ StartPick(selected["devices"], selected["devices"], TRUE,
                         [stack EXCEPT ![Len(stack)].pc = "retracking"])
            /\ selected' = [selected EXCEPT !["services"] = 0]
            /\ UNCHANGED <<alarms, raised>>
       ELSE /\ searchbutton' = TRUE /\ Finish /\ TrackServices
            /\ UNCHANGED <<services, servicestitle, sessioncache, selected, raised>>
    /\ UNCHANGED <<window, closed, gone, result, list, searches>>

\* The device is picked, and the services are tracked.
Retracked ==
    /\ InSearch("retracking")
    /\ Finish /\ TrackServices
    /\ UNCHANGED <<window, list, ends, shown, selected, searchbutton, searches>>

-----------------------------------------------------------------------------
(* Picking a device: the rest of _pickeddevice() *)

Picking == stack # <<>> /\ Top.kind = "pick"

\* The window is gone, or the services cannot be found.
PickFails ==
    /\ Picking
    /\ Raise
    /\ IF gone THEN UNCHANGED <<services, servicestitle, selected>>
       ELSE /\ sessioncache[Top.device] = 0
            /\ services' = <<>> /\ selected' = [selected EXCEPT !["services"] = 0]
            /\ UNCHANGED servicestitle
    /\ UNCHANGED <<window, closed, gone, result, list, sessioncache, alarms, searchbutton,
                   selectbutton, searches>>

\* update() returns, and the services are shown: those that were found before, if any
\* were.  An alarm that has called this is set again.
Picked(n) ==
    /\ Picking /\ ~gone
    /\ sessioncache[Top.device] \in {0, n}
    /\ services' = [i \in 1 .. n |-> <<Top.device, i>>]
    /\ sessioncache' = [sessioncache EXCEPT ![Top.device] = n]
    /\ servicestitle' = Top.device
    /\ selected' = [selected EXCEPT !["services"] = 0]
    /\ searchbutton' = TRUE
    /\ alarms' = IF Top.index = 0 THEN alarms
                 ELSE [alarms EXCEPT !["devices"] = Arm(@, Top.index)]
    /\ Finish
    /\ UNCHANGED <<window, list, ends, selectbutton, searches>>

-----------------------------------------------------------------------------
Step ==
    \/ Clear \/ StartInquiry \/ Found \/ SearchEnds \/ Retracked
    \/ PickFails \/ \E n \in 0 .. MaxServices : Picked(n)

Next ==
    \/ Step
    \/ \E d \in Devices : DeviceFound(d)
    \/ \E b \in {"devices", "services"} :
          \/ \E i \in 1 .. MaxItems + MaxServices : ClickItem(b, i)
          \/ \E k \in DOMAIN alarms[b] : Alarm(b, k)
    \/ ClickSelect \/ Cancel \/ Destroy \/ DoubleClickDevice \/ ClickSearch

Spec == Init /\ [][Next]_vars

\* A handler goes on: update() returns, and an inquiry ends.
FairSpec == Spec /\ WF_vars(Step)

-----------------------------------------------------------------------------
(* What is checked. *)

\* selectdevice() and selectservice() return once the window is gone: no handler waits
\* for ever, whether its inquiry was told to stop or not.
WindowCloses == gone ~> stack = <<>>
=============================================================================
