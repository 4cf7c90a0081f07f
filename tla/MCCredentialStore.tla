-------------------------- MODULE MCCredentialStore --------------------------
(* Instances of CredentialStore for TLC.                                   *)
EXTENDS CredentialStore, TLC

CONSTANTS a, b, c, d, l1, l2

Credentials2 == {a, b}
Credentials3 == {a, b, c}
Credentials4 == {a, b, c, d}

NoGenerations == {}
OneGeneration == {b}

Relogins == {"crash", "relogin"}
CrashOnly == {"crash"}
ExternalOnly == {"external"}
AllFaults == FaultKinds

\* A primary of an older generation, left by a release that kept a .bak.
OldBackup == [cred |-> a, label |-> l1, rt |-> [status |-> a, error |-> NoCred]]

Generations == Permutations(Creds)
GenerationsAndLabels == Permutations(Creds) \cup Permutations(Labels)
=============================================================================
