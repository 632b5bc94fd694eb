--------------------------- MODULE SelectionWindow ---------------------------
(***************************************************************************)
(* What the windows of selectdevice() and selectservice() on Linux         *)
(* (src/src/linux/_discoveryui.py) promise, of the part of their state     *)
(* that it concerns.                                                       *)
(***************************************************************************)
EXTENDS Sequences

VARIABLES
    window,       \* DeviceSelector or ServiceSelector
    gone,         \* the window is destroyed
    alarms,       \* alarms of each list, with the lastindex they were set with; the one
                  \* that is noted in __alarmIDs is "noted"
    searchbutton, \* enabled
    stack,        \* handlers in progress: searches and device picks
    raised        \* history: a search or a look-up has raised an exception

Boxes == IF window = "service" THEN {"devices", "services"} ELSE {"devices"}

\* A search whose inquiry goes on.
Adding(frame) ==
    frame.kind = "search" /\ ~frame.cancelled /\ frame.pc \in {"inquiring", "found"}

\* Searches can be nested, as a pick enables the search button in the middle of one;
\* at most one of them still adds devices to the list.
OneSearch ==
    \A i, j \in DOMAIN stack : Adding(stack[i]) /\ Adding(stack[j]) => i = j

\* Whatever handlers were nested, and in whatever order they came: once all are done,
\* and none has raised an exception, one can search again, and each list is tracked.
Usable ==
    stack = <<>> /\ ~gone /\ ~raised
      => searchbutton /\ \A b \in Boxes : alarms[b] # <<>>
=============================================================================
