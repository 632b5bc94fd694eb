----------------------------- MODULE StringQueue -----------------------------
(***************************************************************************)
(* The receive buffer of a Mac OS X Bluetooth socket: class _StringQueue   *)
(* of src/src/mac/_bluetoothsockets.py, as operators on a record that has  *)
(* the object's three fields.                                              *)
(*                                                                         *)
(*   l_buffer   data written and not yet joined.  The object keeps a list  *)
(*              of chunks; nothing depends on where one chunk ends and the *)
(*              next begins, so the model keeps their concatenation.       *)
(*   s_buffer   data already joined, from which read() is served.          *)
(*   bufempty   the flag that empty() returns.                             *)
(*                                                                         *)
(* write() sets the flag in a second statement after the append.  empty()  *)
(* and __len__() do not take the lock, so they may run between the two:    *)
(* the two halves are separate operators.  read() touches nothing that is  *)
(* observed without the lock until it ends, and is one operator.           *)
(***************************************************************************)
EXTENDS Integers, Sequences

NewQueue == [l_buffer |-> <<>>, s_buffer |-> <<>>, bufempty |-> TRUE]

\* What the buffer holds, in the order it was written.
Content(q) == q.s_buffer \o q.l_buffer

QueueLen(q) == Len(q.l_buffer) + Len(q.s_buffer)

WriteAppend(q, data) == [q EXCEPT !.l_buffer = @ \o data]

WriteMark(q) == [q EXCEPT !.bufempty = FALSE]

\* Mutant of BuildStr: the new string goes in front of the buffered one.
BuildStrSwapped(q) == [q EXCEPT !.s_buffer = q.l_buffer \o @, !.l_buffer = <<>>]

BuildStr(q) == [q EXCEPT !.s_buffer = @ \o q.l_buffer, !.l_buffer = <<>>]

\* The slices s[:n] and s[n:] of Python.
UpTo(s, n) == SubSeq(s, 1, IF n < Len(s) THEN n ELSE Len(s))
From(s, n) == SubSeq(s, n + 1, Len(s))

\* Mutant of ReadFrom: the list is never joined.
ReadFromUnjoined(q, count) == q

\* The queue read() serves the call from: joined only when s_buffer is short.
ReadFrom(q, count) == IF count > Len(q.s_buffer) THEN BuildStr(q) ELSE q

ReadData(q, count) == UpTo(ReadFrom(q, count).s_buffer, count)

ReadRest(q, count) ==
    LET joined == ReadFrom(q, count)
        rest   == From(joined.s_buffer, Len(ReadData(q, count)))
    IN  [joined EXCEPT !.s_buffer = rest, !.bufempty = (rest = <<>>)]

=============================================================================
