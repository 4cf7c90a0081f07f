--------------------------- MODULE AccountRefresh ---------------------------
(***************************************************************************)
(* One WorkBuddy account and the flow that refreshes it:                   *)
(* workbuddy_account.rs over account_singleflight.rs and the store.        *)
(*                                                                         *)
(* refresh_account_token_once is three critical sections of the account    *)
(* lock with an HTTP request between each two of them: load and prepare,   *)
(* rotate, commit the pair, read the quota, commit the quota.  Logins,     *)
(* imports, tags and removal take the lock in between.  The flow runs in a *)
(* task of SingleFlight, so callers share it and cannot stop it.           *)
(*                                                                         *)
(* The server rotates: a refresh token works once and its answer carries   *)
(* the next pair.  A request may be lost, answered after the client timed  *)
(* out, or answered to a process that has stopped.                         *)
(*                                                                         *)
(* The store is the register CredentialStore implements: a save takes      *)
(* effect at once, and a generation that is archived is not saved again.   *)
(* Nothing is pruned: every generation is taken to be among the last       *)
(* HISTORY_LIMIT ones.  A save of the flow may fail; one of another writer *)
(* that fails is no step.                                                  *)
(*                                                                         *)
(* A credential fingerprint is the tokens, each named by the pair it was   *)
(* issued in, and the rest, which stands for the expiry of the refresh     *)
(* token.  apply_payload computes it anew from the login's answer and the  *)
(* clock: if the tokens carry their expiry, or nobody states it, it finds  *)
(* what it was AsReceived; if the server states it beside the tokens, it   *)
(* may be a lifetime or that of a former pair, and the value another.      *)
(***************************************************************************)
EXTENDS FiniteSets, Naturals

CONSTANTS
    Id, Callers, Channels, NoChannel, NoKey,        \* of SingleFlight
    MaxPairs,       \* bound on the pairs the server issues
    MaxBackups,     \* bound on the backups that are exported
    Tags,
    Expiries,       \* what the rest of a fingerprint can be,
    AsReceived,     \* and what it is when a pair is received
    NoAccount, NoCreds, NoToken,
    Events          \* what else happens: a subset of EventKinds

EventKinds == {"login", "tokenOnly", "import", "remove", "tags", "crash", "panic", "fail"}

Pairs == 1 .. MaxPairs
Creds == [access : Pairs, refresh : Pairs \cup {NoToken}, expiry : Expiries]
Accounts == [creds : Creds, rejected : BOOLEAN, tags : SUBSET Tags, seen : Pairs]
Merges == [snapshot : Accounts, imported : Creds]

ASSUME MaxPairsAssumption == MaxPairs \in Nat \ {0}
ASSUME EventsAssumption == Events \subseteq EventKinds
ASSUME DistinctAssumption ==
    /\ NoAccount \notin Accounts /\ NoCreds \notin Creds /\ NoToken \notin Pairs
    /\ NoChannel \notin Channels /\ NoKey # Id
ASSUME ExpiriesAssumption == AsReceived \in Expiries

VARIABLES
    flights, phase, keyOf, published, caller,       \* of SingleFlight
    account,        \* the stored record; seen: the access token its status
                    \* (status, status_reason) was observed with
    archived,       \* generations in the account's history
    flow,           \* the refresh flow each task runs
    wire,           \* refresh requests on their way to the server
    valid,          \* refresh tokens the server accepts
    issued,         \* pairs issued so far
    backups,        \* accounts as they were exported
    merging,        \* an import between its two critical sections
    spent,          \* history variable: refresh tokens whose next pair the
                    \* flow received, and did not fail to save, while the
                    \* account existed
    lost,           \* history variable: refresh tokens sent in a request whose
                    \* answer nobody waits for any more, or was not saved
    restored        \* history variable: refresh tokens that an import put in
                    \* the place of other credentials

flightVars == <<flights, phase, keyOf, published, caller>>
server == <<wire, valid, issued>>
imports == <<backups, merging>>
ghosts == <<spent, lost, restored>>
vars == <<flightVars, account, archived, flow, server, imports, ghosts>>

Flight == INSTANCE SingleFlight WITH Keys <- {Id}

Pair(n) == [access |-> n, refresh |-> n, expiry |-> AsReceived]
SameTokens(creds, other) == creds.access = other.access /\ creds.refresh = other.refresh
Exists == account # NoAccount

\* same_credentials
Holds(creds) == Exists /\ account.creds = creds

\* The store refuses changed credentials whose fingerprint the history of an
\* existing account holds.
Accepts(creds) == ~Exists \/ Holds(creds) \/ creds \notin archived

NoFlow == [step |-> "none", original |-> NoCreds, target |-> NoCreds, seen |-> NoToken,
           rejected |-> FALSE]
Start == [NoFlow EXCEPT !.step = "prepare"]

Goto(ch, step) == flow' = [flow EXCEPT ![ch].step = step]

\* Only a task of the single flight runs a flow.
At(ch, step) == phase[ch] = "working" /\ flow[ch].step = step

-----------------------------------------------------------------------------
(* The flow: refresh_account_token_once.                                   *)

\* First critical section: load the account and prove its store writable.
Prepare(ch) ==
    /\ At(ch, "prepare")
    /\ IF Exists
       THEN /\ archived' = archived \cup {account.creds}
            /\ flow' = [flow EXCEPT ![ch] = [step |-> "send", original |-> account.creds,
                                             target |-> account.creds, seen |-> account.seen,
                                             rejected |-> account.rejected]]
       ELSE Goto(ch, "done") /\ UNCHANGED archived
    /\ UNCHANGED <<flightVars, account, server, imports, ghosts>>

\* prepare_refresh fails, before or after the archiving: nothing is sent.
PrepareFails(ch) ==
    /\ "fail" \in Events
    /\ At(ch, "prepare")
    /\ Exists
    /\ archived' \in {archived, archived \cup {account.creds}}
    /\ Goto(ch, "done")
    /\ UNCHANGED <<flightVars, account, server, imports, ghosts>>

\* refresh_credentials_for_account: a token known to be rejected is not sent.
Send(ch) ==
    /\ At(ch, "send")
    /\ IF flow[ch].rejected \/ flow[ch].original.refresh = NoToken
       THEN Goto(ch, "quota") /\ UNCHANGED wire
       ELSE /\ wire' = wire \cup {[token |-> flow[ch].original.refresh, from |-> ch]}
            /\ Goto(ch, "waiting")
    /\ UNCHANGED <<flightVars, account, archived, valid, issued, imports, ghosts>>

\* The request fails or times out: the quota is read with the old pair.  The
\* request was lost, or the server will see it later.
Timeout(ch) ==
    /\ At(ch, "waiting")
    /\ LET request == [token |-> flow[ch].original.refresh, from |-> ch]
       IN  \/ wire' = wire \ {request}
           \/ wire' = (wire \ {request}) \cup {[request EXCEPT !.from = NoChannel]}
    /\ lost' = lost \cup {flow[ch].original.refresh}
    /\ Goto(ch, "quota")
    /\ UNCHANGED <<flightVars, account, archived, valid, issued, imports, spent, restored>>

\* The record that was loaded again, with the received pair and its status.
Rotated(ch) == [account EXCEPT !.creds = flow[ch].target, !.rejected = FALSE,
                               !.seen = flow[ch].seen]

\* The next pair of the token that was sent has been received.
Spends(ch) ==
    spent' = IF Exists /\ flow[ch].target.refresh # flow[ch].original.refresh
             THEN spent \cup {flow[ch].original.refresh} ELSE spent

\* Mutant: the pair is archived before the save that stores it.
CommitRotationArchivedFirst(ch) ==
    /\ At(ch, "received")
    /\ archived' = archived \cup {flow[ch].target}
    /\ IF Holds(flow[ch].original) /\ flow[ch].target \notin archived'
       THEN /\ account' = Rotated(ch)
            /\ Goto(ch, "quota")
       ELSE Goto(ch, "done") /\ UNCHANGED account
    /\ Spends(ch)
    /\ UNCHANGED <<flightVars, server, imports, lost, restored>>

\* Mutant: any change to the record is taken for a new login.
CommitRotationIfUntouched(ch) ==
    /\ At(ch, "received")
    /\ IF Holds(flow[ch].original) /\ account.tags = {}
       THEN /\ account' = Rotated(ch)
            /\ archived' = archived \cup {flow[ch].original, flow[ch].target}
            /\ Goto(ch, "quota")
       ELSE Goto(ch, "done") /\ UNCHANGED <<account, archived>>
    /\ Spends(ch)
    /\ UNCHANGED <<flightVars, server, imports, lost, restored>>

\* Mutant: the record that was loaded before the request is saved.
CommitRotationOfOriginal(ch) ==
    /\ At(ch, "received")
    /\ account' = [creds |-> flow[ch].target, rejected |-> FALSE, tags |-> {},
                   seen |-> flow[ch].seen]
    /\ archived' = archived \cup {flow[ch].original, flow[ch].target}
    /\ Goto(ch, "quota")
    /\ spent' = spent \cup {flow[ch].original.refresh}
    /\ UNCHANGED <<flightVars, server, imports, lost, restored>>

\* Second critical section: the received pair is saved if the account still
\* holds the credentials that were sent, and the store accepts it.
CommitRotation(ch) ==
    /\ At(ch, "received")
    /\ IF Holds(flow[ch].original) /\ Accepts(flow[ch].target)
       THEN /\ account' = Rotated(ch)
            /\ archived' = archived \cup {flow[ch].original, flow[ch].target}
            /\ Goto(ch, "quota")
       ELSE Goto(ch, "done") /\ UNCHANGED <<account, archived>>
    /\ Spends(ch)
    /\ UNCHANGED <<flightVars, server, imports, lost, restored>>

\* save_account_file fails, and the flow ends: before the journal is written the
\* received pair is gone, after it the pair is what will be read.
RotationFails(ch) ==
    /\ "fail" \in Events
    /\ At(ch, "received")
    /\ Holds(flow[ch].original)
    /\ Accepts(flow[ch].target)
    /\ \/ /\ lost' = lost \cup {flow[ch].original.refresh}
          /\ UNCHANGED <<account, archived, spent>>
       \/ /\ account' = Rotated(ch)
          /\ \E next \in SUBSET {flow[ch].target} :
                archived' = archived \cup {flow[ch].original} \cup next
          /\ Spends(ch)
          /\ UNCHANGED lost
    /\ Goto(ch, "done")
    /\ UNCHANGED <<flightVars, server, imports, restored>>

\* quota_payload_for_account: its three requests end one way or another.  The
\* status they lead to is the one they start from or one they observed.
Quota(ch) ==
    /\ At(ch, "quota")
    /\ \E seen \in {flow[ch].seen, flow[ch].target.access} :
          flow' = [flow EXCEPT ![ch].step = "quotaDone", ![ch].seen = seen]
    /\ UNCHANGED <<flightVars, account, archived, server, imports, ghosts>>

\* Mutant: the result is stored whatever login the account holds.
CommitQuotaUnchecked(ch) ==
    /\ At(ch, "quotaDone")
    /\ account' = IF Exists
                  THEN [account EXCEPT !.rejected = flow[ch].rejected, !.seen = flow[ch].seen]
                  ELSE account
    /\ Goto(ch, "done")
    /\ UNCHANGED <<flightVars, archived, server, imports, ghosts>>

\* Mutant: a removed account is waited for.
CommitQuotaIfExists(ch) ==
    /\ At(ch, "quotaDone")
    /\ Exists
    /\ account' = IF Holds(flow[ch].target)
                  THEN [account EXCEPT !.rejected = flow[ch].rejected, !.seen = flow[ch].seen]
                  ELSE account
    /\ Goto(ch, "done")
    /\ UNCHANGED <<flightVars, archived, server, imports, ghosts>>

\* Third critical section: the status and the token error are stored if the
\* account holds the credentials they were observed for.
CommitQuota(ch) ==
    /\ At(ch, "quotaDone")
    /\ account' = IF Holds(flow[ch].target)
                  THEN [account EXCEPT !.rejected = flow[ch].rejected, !.seen = flow[ch].seen]
                  ELSE account
    /\ Goto(ch, "done")
    /\ UNCHANGED <<flightVars, archived, server, imports, ghosts>>

\* save_runtime fails, or it refuses the record as one of another login: its
\* expiry was computed anew and is another.
DropQuota(ch) ==
    /\ At(ch, "quotaDone")
    /\ Holds(flow[ch].target)
    /\ "fail" \in Events \/ \E expiry \in Expiries : expiry # flow[ch].target.expiry
    /\ Goto(ch, "done")
    /\ UNCHANGED <<flightVars, account, archived, server, imports, ghosts>>

-----------------------------------------------------------------------------
(* The server.  A request from NoChannel is one nobody waits for any more. *)

\* The answer, or nothing, reaches the flow that sent the request.
Deliver(request, answer) ==
    flow' = IF request.from = NoChannel THEN flow ELSE [flow EXCEPT ![request.from] = answer]

\* A rotated pair, or a new access token alone, and the status "normal".
ServerRotates(request, refresh) ==
    /\ request \in wire
    /\ request.token \in valid
    /\ issued < MaxPairs
    /\ refresh \in {request.token, issued + 1}
    /\ issued' = issued + 1
    /\ valid' = (valid \ {request.token}) \cup {refresh}
    /\ wire' = wire \ {request}
    /\ Deliver(request, [flow[request.from] EXCEPT !.step = "received", !.seen = issued + 1,
           !.target = [access |-> issued + 1, refresh |-> refresh, expiry |-> AsReceived]])
    /\ UNCHANGED <<flightVars, account, archived, imports, ghosts>>

ServerRejects(request) ==
    /\ request \in wire
    /\ request.token \notin valid
    /\ wire' = wire \ {request}
    /\ Deliver(request, [flow[request.from] EXCEPT !.step = "quota", !.rejected = TRUE])
    /\ UNCHANGED <<flightVars, account, archived, valid, issued, imports, ghosts>>

-----------------------------------------------------------------------------
(* Other writers, each one critical section of the account lock.           *)

\* Mutant: the rejected-refresh marker outlives the login it is about.
SupersedeKeepingMarker(creds, seen) ==
    account' = IF Exists
               THEN [account EXCEPT !.creds = creds, !.seen = seen]
               ELSE [creds |-> creds, rejected |-> FALSE, tags |-> {}, seen |-> seen]

\* upsert_account with other credentials and their status: apply_payload keeps
\* everything else, and the marker if the tokens are the same.
Supersede(creds, seen) ==
    account' = IF Exists
               THEN [account EXCEPT !.creds = creds, !.seen = seen,
                        !.rejected = account.rejected /\ SameTokens(account.creds, creds)]
               ELSE [creds |-> creds, rejected |-> FALSE, tags |-> {}, seen |-> seen]

\* A payload without a refresh token keeps the stored one.
Kept(refresh) == IF refresh = NoToken /\ Exists THEN account.creds.refresh ELSE refresh

\* Mutant: what a save replaces is archived only if a refresh did it before.
ArchivesStoredOnly(creds) ==
    archived' = IF Holds(creds) THEN archived ELSE archived \cup {creds}

\* A changed save archives what it replaces and what it stores.
Archives(creds) ==
    archived' = IF Holds(creds) THEN archived
                ELSE archived \cup {creds} \cup (IF Exists THEN {account.creds} ELSE {})

Login ==
    /\ "login" \in Events
    /\ issued < MaxPairs
    /\ issued' = issued + 1
    /\ valid' = valid \cup {issued + 1}
    /\ Supersede(Pair(issued + 1), issued + 1)
    /\ Archives(Pair(issued + 1))
    /\ UNCHANGED <<flightVars, flow, wire, imports, ghosts>>

\* add_workbuddy_account_with_token: the payload has no refresh token.
AddToken ==
    /\ "tokenOnly" \in Events
    /\ issued < MaxPairs
    /\ issued' = issued + 1
    /\ LET creds == [Pair(issued + 1) EXCEPT !.refresh = Kept(NoToken)]
       IN  Supersede(creds, issued + 1) /\ Archives(creds)
    /\ UNCHANGED <<flightVars, flow, wire, valid, imports, ghosts>>

Export ==
    /\ "import" \in Events
    /\ Exists
    /\ Cardinality(backups) < MaxBackups
    /\ backups' = backups \cup {account}
    /\ UNCHANGED <<flightVars, account, archived, flow, server, merging, ghosts>>

\* An import replaces what is stored.
Restores(creds) ==
    restored' = IF Holds(creds) THEN restored ELSE restored \cup {creds.refresh}

\* import_from_json_value: upsert_account with the backup's tokens and status,
\* and the rest of the fingerprint computed anew, unless the store refuses it ...
Import(backup) ==
    /\ backup \in backups
    /\ merging = NoAccount
    /\ \E expiry \in Expiries :
          LET imported == [access |-> backup.creds.access, refresh |-> Kept(backup.creds.refresh),
                           expiry |-> expiry]
          IN  /\ Accepts(imported)
              /\ Supersede(imported, backup.seen)
              /\ Archives(imported)
              /\ Restores(imported)
              /\ merging' = [snapshot |-> backup, imported |-> imported]
    /\ UNCHANGED <<flightVars, flow, server, backups, spent, lost>>

\* ... and, after taking the lock again, the rest of the snapshot.  If the
\* account still holds what was imported, that is the snapshot's marker and
\* expiry, and the store may refuse the fingerprint they make.
ImportMerge ==
    /\ merging # NoAccount
    /\ \E expiry \in {merging.snapshot.creds.expiry, merging.imported.expiry} :
          LET unchanged == Holds(merging.imported)
              creds == IF unchanged THEN [merging.imported EXCEPT !.expiry = expiry]
                                    ELSE account.creds
          IN  IF Exists /\ Accepts(creds)
              THEN /\ account' = [account EXCEPT !.creds = creds,
                         !.tags = @ \cup merging.snapshot.tags,
                         !.rejected = IF unchanged THEN merging.snapshot.rejected ELSE @]
                   /\ Archives(creds)
                   /\ Restores(creds)
              ELSE UNCHANGED <<account, archived, restored>>
    /\ merging' = NoAccount
    /\ UNCHANGED <<flightVars, flow, server, backups, spent, lost>>

UpdateTags(tags) ==
    /\ "tags" \in Events
    /\ Exists
    /\ account' = [account EXCEPT !.tags = tags]
    /\ UNCHANGED <<flightVars, archived, flow, server, imports, ghosts>>

\* The history stays; the tokens of the account that is gone no longer matter.
Remove ==
    /\ "remove" \in Events
    /\ Exists
    /\ account' = NoAccount
    /\ spent' = {}
    /\ UNCHANGED <<flightVars, archived, flow, server, imports, lost, restored>>

-----------------------------------------------------------------------------
(* Callers and tasks, and the process they live in.                        *)

\* A task that was just spawned begins the flow.
Request ==
    /\ Flight!Call
    /\ flow' = [ch \in Channels |->
                  IF phase[ch] # "working" /\ phase'[ch] = "working" THEN Start ELSE flow[ch]]
    /\ UNCHANGED <<account, archived, server, imports, ghosts>>

\* Mutant: the quota is read after the task has returned.
ReturnEarly(ch) ==
    /\ flow[ch].step \in {"quota", "done"}
    /\ Flight!Publish(ch)
    /\ flow' = [flow EXCEPT ![ch] = IF @.step = "done" THEN NoFlow ELSE @]
    /\ UNCHANGED <<account, archived, server, imports, ghosts>>

\* The work future returns when the flow has ended.
Return(ch) ==
    /\ flow[ch].step = "done"
    /\ Flight!Publish(ch)
    /\ flow' = [flow EXCEPT ![ch] = NoFlow]
    /\ UNCHANGED <<account, archived, server, imports, ghosts>>

\* The requests of a flow that is gone are answered to nobody.
Orphaned(channels) ==
    {[request EXCEPT !.from = IF @ \in channels THEN NoChannel ELSE @] : request \in wire}

\* What they have sent, and not yet stored the answer to.
InHand(channels) ==
    {flow[ch].original.refresh :
        ch \in {ch \in channels : flow[ch].step \in {"waiting", "received"}}}

PanicIn(ch) ==
    /\ "panic" \in Events
    /\ Flight!Panic(ch)
    /\ flow' = [flow EXCEPT ![ch] = NoFlow]
    /\ wire' = Orphaned({ch})
    /\ lost' = lost \cup InHand({ch})
    /\ UNCHANGED <<account, archived, valid, issued, imports, spent, restored>>

EndTask(ch) ==
    /\ Flight!RemoveFlight(ch) \/ Flight!DropSender(ch)
    /\ UNCHANGED <<account, archived, flow, server, imports, ghosts>>

\* The application exits; files and requests already sent remain.
Crash ==
    /\ "crash" \in Events
    /\ flights' = [key \in {Id} |-> NoChannel]
    /\ phase' = [ch \in Channels |-> "closed"]
    /\ keyOf' = [ch \in Channels |-> NoKey]
    /\ published' = [ch \in Channels |-> FALSE]
    /\ caller' = [c \in Callers |-> [pc |-> "idle", channel |-> NoChannel]]
    /\ flow' = [ch \in Channels |-> NoFlow]
    /\ wire' = Orphaned(Channels)
    /\ lost' = lost \cup InHand(Channels)
    /\ merging' = NoAccount
    /\ UNCHANGED <<account, archived, valid, issued, backups, spent, restored>>

-----------------------------------------------------------------------------
\* One account, logged in, with nothing archived: a release that kept the
\* primary file only.
Init ==
    /\ Flight!Init
    /\ account = [creds |-> Pair(1), rejected |-> FALSE, tags |-> {}, seen |-> 1]
    /\ archived = {}
    /\ flow = [ch \in Channels |-> NoFlow]
    /\ wire = {}
    /\ valid = {1}
    /\ issued = 1
    /\ backups = {}
    /\ merging = NoAccount
    /\ spent = {}
    /\ lost = {}
    /\ restored = {}

FlowStep(ch) ==
    \/ Prepare(ch) \/ PrepareFails(ch)
    \/ Send(ch)
    \/ Timeout(ch)
    \/ CommitRotation(ch) \/ RotationFails(ch)
    \/ Quota(ch)
    \/ CommitQuota(ch) \/ DropQuota(ch)

Server ==
    \E request \in wire :
        \/ \E refresh \in Pairs : ServerRotates(request, refresh)
        \/ ServerRejects(request)

Writers ==
    \/ Login
    \/ AddToken
    \/ Export
    \/ \E backup \in backups : Import(backup)
    \/ ImportMerge
    \/ \E tags \in SUBSET Tags : UpdateTags(tags)
    \/ Remove

Next ==
    \/ Request
    \/ \E ch \in Channels : FlowStep(ch) \/ Return(ch) \/ PanicIn(ch) \/ EndTask(ch)
    \/ Server
    \/ Writers
    \/ Crash

Spec == Init /\ [][Next]_vars

Serve(c) ==
    /\ Flight!Look(c) \/ Flight!Wake(c)
    /\ UNCHANGED <<account, archived, flow, server, imports, ghosts>>

\* The runtime polls ready tasks, a mutex is handed over, requests time out.
Fairness ==
    /\ \A c \in Callers : WF_vars(Serve(c))
    /\ \A ch \in Channels : WF_vars(FlowStep(ch)) /\ WF_vars(Return(ch)) /\ WF_vars(EndTask(ch))

FairSpec == Spec /\ Fairness

-----------------------------------------------------------------------------
(* Properties.                                                             *)

FlowSteps == {"none", "prepare", "send", "waiting", "received", "quota", "quotaDone", "done"}

\* A flow exists while its task works, and each request on the wire is the
\* one its flow waits for, or nobody's.
TypeOK ==
    /\ account \in Accounts \cup {NoAccount}
    /\ archived \subseteq Creds
    /\ flow \in [Channels -> [step : FlowSteps, original : Creds \cup {NoCreds},
                              target : Creds \cup {NoCreds}, seen : Pairs \cup {NoToken},
                              rejected : BOOLEAN]]
    /\ wire \subseteq [token : Pairs, from : Channels \cup {NoChannel}]
    /\ valid \subseteq Pairs
    /\ issued \in Pairs
    /\ backups \subseteq Accounts
    /\ merging \in Merges \cup {NoAccount}
    /\ spent \subseteq Pairs
    /\ lost \subseteq Pairs
    /\ restored \subseteq Pairs \cup {NoToken}
    /\ \A ch \in Channels : phase[ch] = "working" <=> flow[ch].step # "none"
    /\ \A request \in wire : request.from # NoChannel =>
          /\ flow[request.from].step = "waiting"
          /\ flow[request.from].original.refresh = request.token

\* What a flow carries, step by step.
FlowShape ==
    \A ch \in Channels :
        flow[ch].step \in {"send", "waiting", "received", "quota", "quotaDone"} =>
            /\ flow[ch].original \in Creds
            /\ flow[ch].target \in Creds
            /\ flow[ch].seen \in Pairs
            /\ flow[ch].step \in {"waiting", "received"} => flow[ch].original.refresh \in Pairs
            /\ flow[ch].step = "received" => flow[ch].target.refresh \in Pairs

SpentTokenStored == Exists /\ account.creds.refresh \in spent

\* Once the flow received the next pair, the account holds the refresh token that
\* pair replaced only if an import put it back: no label edit, login or removal
\* in between makes the rotation disappear.  Left out are token-only additions
\* (see AddedTokenKeepsRotation).
RotationKept ==
    "tokenOnly" \notin Events /\ SpentTokenStored => account.creds.refresh \in restored

\* While no account is removed, a backup that is not what is stored is refused
\* under the fingerprint it was exported with: an import puts an old pair back
\* only if its expiry, computed anew, is another (or if it is older than the
\* history, which this module does not prune).
OldBackupRefused ==
    "remove" \notin Events =>
        \A backup \in backups : Exists /\ (Holds(backup.creds) \/ ~Accepts(backup.creds))

\* With them: adding an access token "does not erase refresh token"
\* (the name of a test in workbuddy_account.rs).
AddedTokenKeepsRotation == ~SpentTokenStored

\* A record marked as rejected really holds a refresh token the server refuses:
\* no old failure blocks a new login's refresh.
RejectedTokenIsDead ==
    Exists /\ account.rejected => account.creds.refresh \notin valid

\* The account holds a token the server refuses only if an answer was lost to a
\* timeout, a panic, a crash or a save that failed before its journal, if an import
\* put it in the place of another (see OldBackupRefused), or if the answer is in the
\* hands of the flow.  No login, edit or removal in between wastes a rotation, and
\* the store refuses no pair that a flow has received.
Unrefreshable == Exists /\ account.creds.refresh \notin valid
Answered == \E ch \in Channels : At(ch, "received") /\ Holds(flow[ch].original)
TokenLives ==
    "tokenOnly" \notin Events /\ Unrefreshable
        => account.creds.refresh \in lost \cup restored \/ Answered

\* The status that is stored was observed with the access token that is stored,
\* however late the answers arrive.  (The quota is not: a new login keeps that of
\* the one before it until its own has been read.)
StatusIsOwn == Exists => account.seen = account.creds.access

\* A one-use token is in at most one request that somebody waits for.
OneRotation ==
    \A ch1, ch2 \in Channels :
        At(ch1, "waiting") /\ At(ch2, "waiting") => ch1 = ch2

\* A flow's late results yield to everybody else: they create no account that
\* was removed, change no label, and replace no credentials but the ones the
\* flow sent.
LateResultsYield ==
    [][\A ch \in Channels : FlowStep(ch) /\ account' # account =>
          /\ Exists /\ account' # NoAccount
          /\ account'.tags = account.tags
          /\ account'.creds # account.creds => account.creds = flow[ch].original]_vars

\* Every call of refresh_account_detailed returns.
EveryRefreshReturns ==
    \A c \in Callers : caller[c].pc \in Flight!Waiting ~> caller[c].pc \in Flight!Returned
=============================================================================
