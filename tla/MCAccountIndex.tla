---------------------------- MODULE MCAccountIndex ----------------------------
(***************************************************************************)
(* Two callers, two uids and an email that either of them may have.        *)
(***************************************************************************)
EXTENDS AccountIndex

CONSTANTS c1, c2, u1, u2, e1

TwoCallers == {c1, c2}
TwoUids == {u1, u2}
OneEmail == {e1}
=============================================================================
