----------------------------- MODULE CarriedCalls -----------------------------
(***************************************************************************)
(* What send() of the Mac OS X sockets (src/src/mac/_bluetoothsockets.py)  *)
(* promises: where in the channel the data of each call is.                *)
(***************************************************************************)
EXTENDS Integers

CONSTANTS
    Senders     \* threads

VARIABLES
    stream,     \* history: the bytes written to the channel, each as <<call, position>>
    call        \* call[t]: the call of t, the one numbered call[t].n if that is not 0

\* Bytes 1 .. k of call n are in the channel, in order and once, and no other of it.
Carried(n, k) ==
    /\ \A m \in 1 .. k : \E i \in DOMAIN stream : stream[i] = <<n, m>>
    /\ \A i \in DOMAIN stream : stream[i][1] = n => stream[i][2] \in 1 .. k
    /\ \A i, j \in DOMAIN stream :
          i < j /\ stream[i][1] = n /\ stream[j][1] = n => stream[i][2] < stream[j][2]

\* The threads that send on one socket mix their data only frame by frame: of every
\* call the channel carries a part from the start, in order and once, all of it when the
\* call returns, and nothing when it is refused, as writing is shut down or the socket
\* would block, so that it can be repeated.  (After a timeout or a broken channel nobody
\* knows how much was sent.)
EachCallInOrder ==
    \A t \in Senders :
        LET c == call[t] IN
        c.n # 0 => \E k \in 0 .. c.size :
                      /\ Carried(c.n, k)
                      /\ c.outcome = "ok" => k = c.size
                      /\ c.outcome \in {"pipe", "again"} => k = 0
=============================================================================
