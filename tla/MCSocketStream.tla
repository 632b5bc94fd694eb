--------------------------- MODULE MCSocketStream ----------------------------
(* Instances of SocketStream for TLC. *)
EXTENDS SocketStream
CONSTANTS s1, s2, r1, r2
OneSocket  == {s1}
TwoSockets == {s1, s2}
OneReader  == {r1}
TwoReaders == {r1, r2}
Sizes == {1, 2}
=============================================================================
