--------------------------- MODULE MCAutoCheckin ----------------------------
(* Instances of AutoCheckin for TLC.                                       *)
EXTENDS AutoCheckin

CONSTANTS a1, a2

TwoAccounts == {a1, a2}
OneWindow == {"window"}

\* Disabled; any minute of the day; its last minute.
Disabled == [enabled |-> FALSE, start |-> 0, end |-> 1]
Whole == [enabled |-> TRUE, start |-> 0, end |-> 1]
Late == [enabled |-> TRUE, start |-> 1, end |-> 1]
AllSettings == {Disabled, Whole, Late}
=============================================================================
