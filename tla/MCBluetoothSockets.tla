------------------------- MODULE MCBluetoothSockets --------------------------
(* Instances of BluetoothSockets for TLC. *)
EXTENDS BluetoothSockets
CONSTANTS t1, t2, c1, c2
OneThread   == {t1}
TwoThreads  == {t1, t2}
OneChannel  == {c1}
TwoChannels == {c1, c2}
OnePort     == {1}
TwoPorts    == {1, 2}
=============================================================================
