--------------------------- MODULE MCSingleFlight ---------------------------
(* Instances of SingleFlight for TLC.                                      *)
EXTENDS SingleFlight

CONSTANTS k1, k2, c1, c2, ch1, ch2, ch3

Accounts == {k1, k2}
Calls2 == {c1, c2}
Channels3 == {ch1, ch2, ch3}
=============================================================================
