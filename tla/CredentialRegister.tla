-------------------------- MODULE CredentialRegister --------------------------
(***************************************************************************)
(* What credential_store.rs promises of an existing account, whatever      *)
(* moment its process stops at: the account is one register.  Rotating     *)
(* takes effect at one instant and touches nothing else; labels change at  *)
(* one instant and touch nothing else; and a generation that was replaced  *)
(* lately cannot come back.                                                *)
(***************************************************************************)
EXTENDS Naturals, Sequences

CONSTANTS Creds, Labels, Remembered

VARIABLES cred, label, recent

regvars == <<cred, label, recent>>

Init ==
    /\ cred \in Creds
    /\ label \in Labels
    /\ recent = <<>>

\* The Remembered most recent members of s.
Latest(s) ==
    IF Len(s) > Remembered THEN SubSeq(s, Len(s) - Remembered + 1, Len(s)) ELSE s

Rotate(c) ==
    /\ c # cred
    /\ \A i \in 1 .. Len(recent) : c # recent[i]
    /\ cred' = c
    /\ recent' = Latest(Append(recent, cred))
    /\ UNCHANGED label

Relabel(l) ==
    /\ label' = l
    /\ UNCHANGED <<cred, recent>>

Next ==
    \/ \E c \in Creds : Rotate(c)
    \/ \E l \in Labels : Relabel(l)

Spec == Init /\ [][Next]_regvars
=============================================================================
