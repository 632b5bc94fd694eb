----------------------------- MODULE ByteStream ------------------------------
(***************************************************************************)
(* What recv() promises (recv in src/src/mac/_lightbluecommon.py): a       *)
(* socket is a stream to which bytes are only ever added at the end; each  *)
(* successful call returns the next ones, at least one and at most as many *)
(* as were asked for; the end of the stream is reported only when the      *)
(* remote end is closed and everything was returned; a call may also give  *)
(* up (no data in time) and then takes nothing.                            *)
(***************************************************************************)
EXTENDS Integers, Sequences

CONSTANTS Sockets,  \* connected sockets
          Readers,  \* callers of recv()
          BufSizes  \* the sizes recv() is called with

VARIABLES stream,   \* stream[s]: every byte the socket was given, oldest first
          taken,    \* taken[s]: how many of them recv() has returned
          open,     \* open[s]: the remote end has not closed
          result    \* result[r]: how the last call of r ended, "none" while it runs

abstract == <<stream, taken, open, result>>

Init == /\ stream = [s \in Sockets |-> <<>>]
        /\ taken = [s \in Sockets |-> 0]
        /\ open \in [Sockets -> BOOLEAN]
        /\ result = [r \in Readers |-> "none"]

\* t is s with bytes added at its end.
Extends(s, t) == Len(s) <= Len(t) /\ SubSeq(t, 1, Len(s)) = s

Deliver(s) ==
    /\ open[s]
    /\ Extends(stream[s], stream'[s])
    /\ stream' = [stream EXCEPT ![s] = stream'[s]]
    /\ UNCHANGED <<taken, open, result>>

Close(s) ==
    /\ open' = [open EXCEPT ![s] = FALSE]
    /\ UNCHANGED <<stream, taken, result>>

Call(r) ==
    /\ result' = [result EXCEPT ![r] = "none"]
    /\ UNCHANGED <<stream, taken, open>>

GetData(r, s, n) ==
    /\ result[r] = "none"
    /\ taken[s] < Len(stream[s])
    /\ taken' = [taken EXCEPT ![s] =
                    IF @ + n < Len(stream[s]) THEN @ + n ELSE Len(stream[s])]
    /\ result' = [result EXCEPT ![r] = "data"]
    /\ UNCHANGED <<stream, open>>

EndOfStream(r, s) ==
    /\ result[r] = "none"
    /\ ~open[s]
    /\ taken[s] = Len(stream[s])
    /\ result' = [result EXCEPT ![r] = "reset"]
    /\ UNCHANGED <<stream, taken, open>>

\* The call ends without taking anything: no data in time.
GiveUp(r) ==
    /\ result[r] = "none"
    /\ \E x \in {"again", "timeout"} : result' = [result EXCEPT ![r] = x]
    /\ UNCHANGED <<stream, taken, open>>

\* Reading was shut down: the call ends as it begins.
Refuse(r) ==
    /\ result' = [result EXCEPT ![r] = "shut"]
    /\ UNCHANGED <<stream, taken, open>>

Next == \/ \E s \in Sockets : Deliver(s) \/ Close(s)
        \/ \E r \in Readers : Call(r) \/ GiveUp(r) \/ Refuse(r)
        \/ \E r \in Readers, s \in Sockets : EndOfStream(r, s)
        \/ \E r \in Readers, s \in Sockets, n \in BufSizes : GetData(r, s, n)

Spec == Init /\ [][Next]_abstract
=============================================================================
