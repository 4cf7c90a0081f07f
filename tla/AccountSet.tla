------------------------------ MODULE AccountSet ------------------------------
(***************************************************************************)
(* What the account files promise, whatever the index, its copy and the    *)
(* order of the writes do: a set of accounts.  An account appears only     *)
(* through a login or an import under way for it, and disappears only      *)
(* through a removal under way for it, which returns as it does.  A change *)
(* of labels changes no membership, and a request may end without effect,  *)
(* by an error or with the application.                                    *)
(***************************************************************************)
EXTENDS FiniteSets

CONSTANTS Callers, Ids

VARIABLES
    accounts,       \* the accounts there are
    request         \* what each caller asks for

Requests == [op : {"login", "labels", "remove"}, id : Ids]
Nothing == [op |-> "nothing"]

Init == accounts = {} /\ request = [c \in Callers |-> Nothing]

Ask(c, r) ==
    /\ request[c] = Nothing
    /\ request' = [request EXCEPT ![c] = r]
    /\ UNCHANGED accounts

Add(c) ==
    /\ request[c].op = "login"
    /\ accounts' = accounts \cup {request[c].id}
    /\ UNCHANGED request

\* An import goes on to the labels of the account it has logged in.
Label(c) ==
    /\ request[c].op = "login"
    /\ request' = [request EXCEPT ![c].op = "labels"]
    /\ UNCHANGED accounts

Remove(c) ==
    /\ request[c].op = "remove"
    /\ accounts' = accounts \ {request[c].id}
    /\ request' = [request EXCEPT ![c] = Nothing]

Done(c) ==
    /\ request' = [request EXCEPT ![c] = Nothing]
    /\ UNCHANGED accounts

Restart == request' = [c \in Callers |-> Nothing] /\ UNCHANGED accounts

Next ==
    \/ \E c \in Callers :
          \/ \E r \in Requests : Ask(c, r)
          \/ Add(c) \/ Label(c) \/ Remove(c) \/ Done(c)
    \/ Restart

Spec == Init /\ [][Next]_<<accounts, request>>
=============================================================================
