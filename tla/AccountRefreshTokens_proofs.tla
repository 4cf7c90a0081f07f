--------------------- MODULE AccountRefreshTokens_proofs ---------------------
(***************************************************************************)
(* Proofs about the tokens of AccountRefresh: where one that was replaced, *)
(* rejected or received may be, for any number of callers, tasks and       *)
(* pairs.                                                                  *)
(*                                                                         *)
(* The invariants are inductive one after the other, each with the ones    *)
(* before it: one task works at a time; no token is from the future, so    *)
(* that a new pair differs from all there are; the pair a flow received is *)
(* nowhere else, so that the store accepts it; what is rejected is dead;   *)
(* what was exported is stored or archived; what was spent stays away; and *)
(* what is not refreshable was lost.  The last two leave out what an       *)
(* import put back, and hold while no token is added without its refresh   *)
(* token.                                                                  *)
(***************************************************************************)
EXTENDS AccountRefresh_proofs

\* One task at a time has the account's entry, and only it works.
OneFlight ==
    /\ flights \in [{Id} -> Channels \cup {NoChannel}]
    /\ \A ch \in Channels : phase[ch] \in {"working", "unwinding"} => flights[Id] = ch

\* No token is from the future.
IssuedBy(token, n) == token = NoToken \/ token \in 1 .. n
Issued(token) == IssuedBy(token, issued)

FlowIssued(ch) ==
    flow[ch].step \in {"send", "waiting", "received", "quota", "quotaDone"} =>
        Issued(flow[ch].original.refresh) /\ Issued(flow[ch].target.refresh)

TokensIssued ==
    /\ Exists => Issued(account.creds.refresh)
    /\ \A backup \in backups : Issued(backup.creds.refresh)
    /\ merging # NoAccount => Issued(merging.snapshot.creds.refresh)
    /\ spent \subseteq 1 .. issued
    /\ \A ch \in Channels : FlowIssued(ch)

\* The credentials that are stored anywhere.
Stored ==
    archived \cup (IF Exists THEN {account.creds} ELSE {})
             \cup {backup.creds : backup \in backups}

\* The access token a flow has received is nowhere else.
PairsFresh ==
    /\ \A creds \in Stored : creds.access \in 1 .. issued
    /\ \A ch \in Channels : flow[ch].step = "received" =>
          /\ flow[ch].target.access \in 1 .. issued
          /\ \A creds \in Stored : creds.access # flow[ch].target.access

\* A record or a flow that says rejected is about a token that is dead.
RecordTrue(record) == record.rejected => record.creds.refresh \in Pairs \ valid

FlowTrue(ch) ==
    /\ flow[ch].step \in {"send", "waiting"} => flow[ch].target = flow[ch].original
    /\ flow[ch].step \in {"waiting", "received"} => ~flow[ch].rejected
    /\ flow[ch].step \in {"send", "quota", "quotaDone"} /\ flow[ch].rejected =>
          flow[ch].target.refresh \in Pairs \ valid

MergingTrue ==
    merging # NoAccount =>
        /\ RecordTrue(merging.snapshot)
        /\ merging.snapshot.rejected =>
              merging.imported.refresh = merging.snapshot.creds.refresh

RejectionsTrue ==
    /\ Exists => RecordTrue(account)
    /\ \A backup \in backups : RecordTrue(backup)
    /\ MergingTrue
    /\ \A ch \in Channels : FlowTrue(ch)

\* While it is not what is stored, a backup is archived.
BackupsArchived ==
    "remove" \notin Events =>
        \A backup \in backups : Exists /\ (Holds(backup.creds) \/ backup.creds \in archived)

\* The token a flow has sent is the stored pair's, or has left the account until
\* an import puts it back, and the one it has received is new.
FlowKept(ch) ==
    /\ flow[ch].step \in {"send", "waiting", "received"} /\ Exists =>
          \/ Holds(flow[ch].original)
          \/ account.creds.refresh # flow[ch].original.refresh
          \/ account.creds.refresh \in restored
    /\ flow[ch].step = "received" /\ flow[ch].target.refresh # flow[ch].original.refresh =>
          flow[ch].target.refresh \notin spent

RotationsKept ==
    /\ SpentTokenStored => account.creds.refresh \in restored
    /\ \A ch \in Channels : FlowKept(ch)

\* A token that is stored, or was received to be stored, works, was lost or was
\* put back; and the token of a request nobody waits for was lost.
TokensLive ==
    /\ Exists => account.creds.refresh \in valid \cup lost \cup restored \/ Answered
    /\ \A ch \in Channels : flow[ch].step = "received" =>
          flow[ch].target.refresh \in valid \cup lost
    /\ \A request \in wire : request.from = NoChannel => request.token \in lost

-----------------------------------------------------------------------------
(* One task.                                                               *)

LEMMA OneFlightInit == Init => OneFlight
BY DEF Init, Flight!Init, OneFlight

LEMMA OneFlightStep ==
    ASSUME Assumptions, PhaseType, OneFlight, [Next]_vars
    PROVE  OneFlight'
<1>1. CASE Request
  <2>1. ASSUME NEW c \in Callers, Flight!Run(c, Id) PROVE OneFlight'
    BY <2>1 DEF Flight!Run, OneFlight, Assumptions, PhaseType
  <2>2. ASSUME NEW c \in Callers, Flight!Look(c) \/ Flight!Wake(c) \/ Flight!Cancel(c)
        PROVE  OneFlight'
    BY <2>2 DEF Flight!Look, Flight!Wake, Flight!Cancel, OneFlight
  <2> QED BY <1>1, <2>1, <2>2 DEF Request, Flight!Call
<1>2. CASE Crash
  BY <1>2 DEF Crash, OneFlight
<1>3. ASSUME NEW ch \in Channels, Return(ch) \/ PanicIn(ch) \/ EndTask(ch) PROVE OneFlight'
  <2>1. CASE Return(ch) \/ PanicIn(ch)
    BY <2>1 DEF Return, PanicIn, Flight!Publish, Flight!Panic, OneFlight, PhaseType
  <2>2. CASE EndTask(ch)
    BY <2>2 DEF EndTask, Flight!RemoveFlight, Flight!DropSender, OneFlight, PhaseType
  <2> QED BY <1>3, <2>1, <2>2
<1>4. ASSUME NEW ch \in Channels, FlowStep(ch) PROVE OneFlight'
  BY <1>4 DEF FlowStep, Prepare, PrepareFails, Send, Timeout, CommitRotation, RotationFails, Quota,
              CommitQuota, DropQuota, flightVars, OneFlight
<1>5. CASE Server \/ Writers \/ UNCHANGED vars
  BY <1>5 DEF Server, ServerRotates, ServerRejects, Writers, Login, AddToken, Export, Import,
              ImportMerge, UpdateTags, Remove, vars, flightVars, OneFlight
<1> QED BY <1>1, <1>2, <1>3, <1>4, <1>5 DEF Next

-----------------------------------------------------------------------------
(* Tokens are issued before they are anywhere.                             *)

LEMMA TokensInit == ASSUME Assumptions PROVE Init => TokensIssued
BY DEF Init, Assumptions, TokensIssued, FlowIssued, Issued, IssuedBy, Exists, Pair, NoFlow

\* What was issued stays issued.
LEMMA IssuedStays ==
    ASSUME NEW token, Issued(token), issued \in Nat, issued' \in {issued, issued + 1}
    PROVE  IssuedBy(token, issued')
BY DEF Issued, IssuedBy

\* A step changes one flow at most, and nothing that is stored elsewhere.
LEMMA TokensLocal ==
    ASSUME TokensIssued, flow \in [Channels -> Flows], NEW ch \in Channels,
           NEW f, flow' = [flow EXCEPT ![ch] = f],
           f.step \in {"send", "waiting", "received", "quota", "quotaDone"} =>
               Issued(f.original.refresh) /\ Issued(f.target.refresh),
           UNCHANGED <<backups, merging, issued>>,
           Exists' => Issued(account'.creds.refresh), spent' \subseteq 1 .. issued
    PROVE  TokensIssued'
<1>1. \A c2 \in Channels : FlowIssued(c2)'
  BY DEF TokensIssued, FlowIssued, Issued, IssuedBy
<1> QED BY <1>1 DEF TokensIssued, Issued, IssuedBy

LEMMA TokensFlow ==
    ASSUME Assumptions, TypeInv, TokensIssued, NEW ch \in Channels, FlowStep(ch)
    PROVE  TokensIssued'
<1> USE DEF TypeInv, DataType
<1>0. /\ flow[ch] \in Flows /\ flow[ch].step # "none"
      /\ FlowIssued(ch) /\ (Exists => Issued(account.creds.refresh))
  BY DEF FlowStep, Prepare, PrepareFails, Send, Timeout, CommitRotation, RotationFails, Quota,
         CommitQuota, DropQuota, At, TokensIssued
<1>1. CASE Prepare(ch)
  <2>1. CASE Exists
    BY <1>0, <1>1, <2>1, TokensLocal DEF Prepare, server, imports, ghosts, Exists, TokensIssued
  <2>2. CASE ~Exists
    <3> DEFINE f == [flow[ch] EXCEPT !.step = "done"]
    <3>1. flow' = [flow EXCEPT ![ch] = f] /\ f.step = "done"
      BY <1>0, <1>1, <2>2 DEF Prepare, Goto, Flows
    <3> HIDE DEF f
    <3> QED BY <1>1, <2>2, <3>1, TokensLocal DEF Prepare, server, imports, ghosts, Exists, TokensIssued
  <2> QED BY <2>1, <2>2
<1>2. CASE ~Prepare(ch)
  <2>1. /\ flow' = [flow EXCEPT ![ch] = flow'[ch]]
        /\ flow'[ch].original = flow[ch].original /\ flow'[ch].target = flow[ch].target
        /\ UNCHANGED <<backups, merging, issued>>
    BY <1>0, <1>2 DEF FlowStep, PrepareFails, Send, Timeout, CommitRotation, RotationFails, Quota,
                      CommitQuota, DropQuota, Goto, server, imports, Flows
  <2>2. \/ flow'[ch].step = "done"
        \/ flow[ch].step \in {"send", "waiting", "received", "quota"}
    BY <1>0, <1>2 DEF FlowStep, PrepareFails, Send, Timeout, CommitRotation, RotationFails, Quota,
                      CommitQuota, DropQuota, Goto, At, Flows
  <2>3. flow'[ch].step \in {"send", "waiting", "received", "quota", "quotaDone"} =>
            Issued(flow'[ch].original.refresh) /\ Issued(flow'[ch].target.refresh)
    BY <1>0, <2>1, <2>2 DEF FlowIssued
  <2>4. (Exists' => Issued(account'.creds.refresh)) /\ spent' \subseteq 1 .. issued
    <3>1. CASE CommitRotation(ch) \/ RotationFails(ch)
      <4>1. /\ Issued(flow[ch].original.refresh) /\ Issued(flow[ch].target.refresh)
            /\ flow[ch].original.refresh \in Pairs /\ flow[ch].target \in Creds
        BY <1>0, <3>1 DEF CommitRotation, RotationFails, At, FlowIssued, FlowShape
      <4>2. flow[ch].original.refresh \in 1 .. issued
        BY <4>1 DEF Issued, IssuedBy, Assumptions
      <4>3. spent' \subseteq 1 .. issued
        BY <3>1, <4>2 DEF CommitRotation, RotationFails, Spends, TokensIssued
      <4>4. Holds(flow[ch].original) => Rotated(ch).creds = flow[ch].target
        BY <4>1 DEF Rotated, Holds, Exists, Accounts
      <4>5. Exists' => Issued(account'.creds.refresh)
        BY <1>0, <3>1, <4>1, <4>4 DEF CommitRotation, RotationFails, Exists
      <4> QED BY <4>3, <4>5
    <3>2. CASE CommitQuota(ch)
      BY <1>0, <3>2 DEF CommitQuota, Holds, Exists, Accounts, ghosts, TokensIssued
    <3>3. CASE PrepareFails(ch) \/ Send(ch) \/ Timeout(ch) \/ Quota(ch) \/ DropQuota(ch)
      BY <1>0, <3>3 DEF PrepareFails, Send, Timeout, Quota, DropQuota, ghosts, TokensIssued, Exists
    <3> QED BY <1>2, <3>1, <3>2, <3>3 DEF FlowStep
  <2> HIDE DEF TypeInv, DataType
  <2> QED BY <2>1, <2>3, <2>4, TokensLocal DEF TypeInv, DataType
<1> QED BY <1>1, <1>2

LEMMA TokensServer ==
    ASSUME Assumptions, TypeInv, RequestsAwaited, TokensIssued, Server
    PROVE  TokensIssued'
<1> USE DEF TypeInv, DataType
<1>0. issued \in Nat
  BY DEF Pairs
<1>1. ASSUME NEW request \in wire, NEW refresh \in Pairs, ServerRotates(request, refresh)
      PROVE  TokensIssued'
  <2>1. issued' = issued + 1 /\ UNCHANGED <<account, backups, merging, spent>>
    BY <1>1 DEF ServerRotates, imports, ghosts
  <2>2. \A token : Issued(token) => IssuedBy(token, issued')
    BY <1>0, <2>1, IssuedStays
  <2>3. \A ch \in Channels : FlowIssued(ch)'
    <3>1. CASE request.from = NoChannel
      BY <1>1, <2>2, <3>1 DEF ServerRotates, Deliver, TokensIssued, FlowIssued, Issued
    <3>2. CASE request.from # NoChannel
      <4> DEFINE sender == request.from
                 f == [flow[sender] EXCEPT !.step = "received", !.seen = issued + 1,
                          !.target = [access |-> issued + 1, refresh |-> refresh,
                                      expiry |-> AsReceived]]
      <4>1. /\ sender \in Channels /\ flow[sender] \in Flows
            /\ flow[sender].step = "waiting" /\ flow[sender].original.refresh = request.token
        BY <3>2 DEF RequestsAwaited
      <4>2. flow' = [flow EXCEPT ![sender] = f]
        BY <1>1, <3>2 DEF ServerRotates, Deliver
      <4>3. f.original = flow[sender].original /\ f.target.refresh = refresh
        BY <4>1 DEF Flows
      <4> HIDE DEF f, sender
      <4>4. Issued(flow[sender].original.refresh)
        BY <4>1 DEF TokensIssued, FlowIssued
      <4>5. IssuedBy(refresh, issued')
        <5>1. refresh \in {request.token, issued + 1}
          BY <1>1 DEF ServerRotates
        <5> QED BY <1>0, <2>1, <2>2, <4>1, <4>4, <5>1 DEF Issued, IssuedBy
      <4>6. flow'[sender] = f
        BY <4>1, <4>2
      <4> QED BY <2>2, <4>1, <4>2, <4>3, <4>4, <4>5, <4>6 DEF TokensIssued, FlowIssued, Issued
    <3> QED BY <3>1, <3>2
  <2>4. spent' \subseteq 1 .. issued'
    BY <1>0, <2>1 DEF TokensIssued
  <2> QED BY <2>1, <2>2, <2>3, <2>4 DEF TokensIssued, Issued, Exists
<1>2. ASSUME NEW request \in wire, ServerRejects(request) PROVE TokensIssued'
  <2>1. CASE request.from = NoChannel
    BY <1>2, <2>1
    DEF ServerRejects, Deliver, imports, ghosts, TokensIssued, FlowIssued, Issued, IssuedBy,
        Exists
  <2>2. CASE request.from # NoChannel
    <3> DEFINE sender == request.from
               f == [flow[sender] EXCEPT !.step = "quota", !.rejected = TRUE]
    <3>1. sender \in Channels /\ flow[sender] \in Flows /\ flow[sender].step = "waiting"
      BY <2>2 DEF RequestsAwaited
    <3>2. flow' = [flow EXCEPT ![sender] = f]
      BY <1>2, <2>2 DEF ServerRejects, Deliver
    <3>3. f.original = flow[sender].original /\ f.target = flow[sender].target
      BY <3>1 DEF Flows
    <3>4. Issued(f.original.refresh) /\ Issued(f.target.refresh)
      BY <3>1, <3>3 DEF TokensIssued, FlowIssued
    <3> HIDE DEF f, sender
    <3> QED BY <1>2, <3>1, <3>2, <3>4, TokensLocal DEF ServerRejects, imports, ghosts, TokensIssued, Exists
  <2> QED BY <2>1, <2>2
<1> QED BY <1>1, <1>2 DEF Server

LEMMA TokensWriters ==
    ASSUME Assumptions, TypeInv, TokensIssued, Writers
    PROVE  TokensIssued'
<1> USE DEF TypeInv, DataType
<1>0. issued \in Nat
  BY DEF Pairs
<1>1. ASSUME NEW creds, NEW seen, Supersede(creds, seen), IssuedBy(creds.refresh, issued')
      PROVE  Exists' => IssuedBy(account'.creds.refresh, issued')
  BY <1>1 DEF Supersede, Exists, Accounts
<1>2. ASSUME issued' \in {issued, issued + 1}, UNCHANGED <<flow, backups, spent>>,
             \/ merging' \in {merging, NoAccount}
             \/ merging'.snapshot \in backups,
             Exists' => IssuedBy(account'.creds.refresh, issued')
      PROVE  TokensIssued'
  <2>1. \A token : Issued(token) => IssuedBy(token, issued')
    BY <1>0, <1>2, IssuedStays
  <2>2. spent' \subseteq 1 .. issued'
    BY <1>0, <1>2 DEF TokensIssued
  <2>3. \A ch \in Channels : FlowIssued(ch)'
    BY <1>2, <2>1 DEF TokensIssued, FlowIssued, Issued
  <2> QED BY <1>2, <2>1, <2>2, <2>3 DEF TokensIssued, Issued
<1>3. CASE Login
  <2>1. IssuedBy(Pair(issued + 1).refresh, issued')
    BY <1>0, <1>3 DEF Login, Pair, Issued, IssuedBy
  <2> QED BY <1>1, <1>2, <1>3, <2>1 DEF Login, imports, ghosts
<1>4. CASE AddToken
  <2> DEFINE creds == [Pair(issued + 1) EXCEPT !.refresh = Kept(NoToken)]
  <2>1. Issued(creds.refresh)
    BY DEF Pair, Kept, TokensIssued, Issued, IssuedBy
  <2>2. Supersede(creds, issued + 1) /\ issued' = issued + 1
    BY <1>4 DEF AddToken
  <2>3. IssuedBy(creds.refresh, issued')
    BY <1>0, <2>1, <2>2, IssuedStays
  <2> HIDE DEF creds
  <2> QED BY <1>1, <1>2, <1>4, <2>2, <2>3 DEF AddToken, imports, ghosts
<1>5. ASSUME NEW backup \in backups, Import(backup) PROVE TokensIssued'
  <2>1. PICK imported \in Creds :
          /\ imported.refresh = Kept(backup.creds.refresh) /\ Supersede(imported, backup.seen)
          /\ merging' = [snapshot |-> backup, imported |-> imported]
    BY <1>5, ImportedCreds
  <2>2. issued' = issued /\ UNCHANGED <<flow, backups, spent>>
    BY <1>5 DEF Import, server
  <2>3. IssuedBy(imported.refresh, issued')
    BY <2>1, <2>2 DEF Kept, TokensIssued, Issued
  <2> QED BY <1>1, <1>2, <2>1, <2>2, <2>3
<1>6. CASE ImportMerge
  <2>1. issued' = issued /\ merging' = NoAccount /\ UNCHANGED <<flow, backups, spent>>
    BY <1>6 DEF ImportMerge, server
  <2>2. Exists' => Exists /\ account'.creds.refresh = account.creds.refresh
    <3>1. CASE UNCHANGED <<account, archived, restored>>
      BY <3>1 DEF Exists
    <3>2. CASE ~UNCHANGED <<account, archived, restored>>
      <4>1. PICK creds \in Creds : MergesInto(creds)
        BY <1>6, <3>2, MergedCreds
      <4> QED BY <4>1 DEF MergesInto, SameTokens, Exists, Accounts
    <3> QED BY <3>1, <3>2
  <2> QED BY <1>2, <2>1, <2>2 DEF TokensIssued, Issued
<1>7. CASE \E tags \in SUBSET Tags : UpdateTags(tags)
  BY <1>2, <1>7 DEF UpdateTags, server, imports, ghosts, Exists, Accounts, TokensIssued, Issued, IssuedBy
<1>8. CASE Remove \/ Export
  BY <1>8 DEF Remove, Export, server, imports, ghosts, Exists, TokensIssued, FlowIssued, Issued, IssuedBy
<1> QED BY <1>3, <1>4, <1>5, <1>6, <1>7, <1>8 DEF Writers

LEMMA TokensTask ==
    ASSUME Assumptions, TypeInv, TokensIssued,
           \/ Request \/ Crash \/ UNCHANGED vars
           \/ \E ch \in Channels : Return(ch) \/ PanicIn(ch) \/ EndTask(ch)
    PROVE  TokensIssued'
<1> USE DEF TypeInv, DataType
<1>0. NoFlow.step = "none" /\ Start.step = "prepare"
  BY DEF NoFlow, Start
<1>1. ASSUME flow' \in [Channels -> Flows],
             \A ch \in Channels : flow'[ch] \in {flow[ch], Start, NoFlow},
             UNCHANGED <<account, issued, backups, spent>>, merging' \in {merging, NoAccount}
      PROVE  TokensIssued'
  <2>1. \A ch \in Channels : FlowIssued(ch)'
    BY <1>0, <1>1 DEF TokensIssued, FlowIssued, Issued, IssuedBy
  <2> QED BY <1>1, <2>1 DEF TokensIssued, Issued, IssuedBy, Exists
<1>2. TypeInv'
  BY TaskType
<1>3. CASE Request \/ Crash \/ UNCHANGED vars
  BY <1>1, <1>2, <1>3 DEF Request, Crash, vars, server, imports, ghosts
<1>4. ASSUME NEW ch \in Channels, Return(ch) \/ PanicIn(ch) \/ EndTask(ch) PROVE TokensIssued'
  BY <1>1, <1>2, <1>4 DEF Return, PanicIn, EndTask, server, imports, ghosts
<1> QED BY <1>3, <1>4

-----------------------------------------------------------------------------
(* The pair a flow has received is nowhere else.                           *)

LEMMA FreshInit == ASSUME Assumptions PROVE Init => PairsFresh
<1> SUFFICES ASSUME Init PROVE PairsFresh
  OBVIOUS
<1>1. account.creds.access = 1 /\ issued = 1 /\ archived = {} /\ backups = {}
  BY DEF Init, Pair
<1>2. \A ch \in Channels : flow[ch].step = "none"
  BY DEF Init, NoFlow
<1> QED BY <1>1, <1>2 DEF PairsFresh, Stored

\* No new access token is stored.
LEMMA FreshLocal ==
    ASSUME PairsFresh, issued' = issued,
           \A creds \in Stored' : \E other \in Stored : creds.access = other.access,
           \A ch \in Channels : flow'[ch].step = "received" =>
               flow[ch].step = "received" /\ flow'[ch].target = flow[ch].target
    PROVE  PairsFresh'
BY DEF PairsFresh

\* A pair that was just issued is stored: no flow has it.
LEMMA FreshIssued ==
    ASSUME PairsFresh, issued \in Nat, issued' = issued + 1, flow' = flow,
           NEW creds, creds.access = issued + 1, Stored' \subseteq Stored \cup {creds}
    PROVE  PairsFresh'
<1>1. \A access \in 1 .. issued : access \in 1 .. issued' /\ access # issued + 1
  OBVIOUS
<1>2. issued + 1 \in 1 .. issued'
  OBVIOUS
<1> QED BY <1>1, <1>2 DEF PairsFresh

\* The store accepts a received pair.
LEMMA CommitStores ==
    ASSUME PairsFresh, NEW ch \in Channels, CommitRotation(ch)
    PROVE  IF Holds(flow[ch].original)
           THEN /\ account' = Rotated(ch)
                /\ archived' = archived \cup {flow[ch].original, flow[ch].target}
           ELSE UNCHANGED <<account, archived>>
<1>1. flow[ch].target \notin archived
  BY DEF CommitRotation, At, PairsFresh, Stored
<1>2. Accepts(flow[ch].target)
  BY <1>1 DEF Accepts
<1> QED BY <1>2 DEF CommitRotation

\* After a received pair is saved, or its save failed, either it is what is
\* stored, and what was stored before it is archived, or nothing has changed.
LEMMA RotationStores ==
    ASSUME Assumptions, TypeInv, PairsFresh, NEW ch \in Channels,
           CommitRotation(ch) \/ RotationFails(ch)
    PROVE  \/ /\ Holds(flow[ch].original)
              /\ Exists' /\ account'.creds = flow[ch].target /\ ~account'.rejected
              /\ archived \cup {flow[ch].original} \subseteq archived'
              /\ archived' \subseteq archived \cup {flow[ch].original, flow[ch].target}
              /\ Spends(ch) /\ lost' = lost
           \/ /\ UNCHANGED <<account, archived>>
              /\ \/ CommitRotation(ch) /\ ~Holds(flow[ch].original) /\ Spends(ch) /\ lost' = lost
                 \/ spent' = spent /\ lost' = lost \cup {flow[ch].original.refresh}
<1>1. Holds(flow[ch].original) =>
        Rotated(ch) \in Accounts /\ Rotated(ch).creds = flow[ch].target /\ ~Rotated(ch).rejected
  <2>1. flow[ch].target \in Creds /\ flow[ch].seen \in Pairs
    BY DEF CommitRotation, RotationFails, At, TypeInv, FlowShape
  <2>2. Exists => account \in Accounts
    BY DEF TypeInv, DataType, Exists
  <2> QED BY <2>1, <2>2 DEF Rotated, Holds, Accounts
<1>2. CASE CommitRotation(ch)
  BY <1>1, <1>2, CommitStores DEF CommitRotation, Exists, Assumptions
<1>3. CASE RotationFails(ch)
  BY <1>1, <1>3 DEF RotationFails, Exists, Assumptions
<1> QED BY <1>2, <1>3

\* The other steps of a flow store no credentials.
LEMMA FlowStores ==
    ASSUME Assumptions, TypeInv, NEW ch \in Channels, FlowStep(ch),
           ~(CommitRotation(ch) \/ RotationFails(ch))
    PROVE  /\ Exists' = Exists /\ (Exists => account'.creds = account.creds)
           /\ archived \subseteq archived' /\ archived' \subseteq Stored /\ spent' = spent
<1> USE DEF TypeInv, DataType
<1>1. CASE CommitQuota(ch)
  <2>1. flow[ch].rejected \in BOOLEAN /\ flow[ch].seen \in Pairs
    BY <1>1 DEF CommitQuota, At, FlowShape, Flows
  <2>2. CASE Exists
    <3>1. account \in Accounts
      BY <2>2 DEF Exists
    <3>2. account' \in Accounts /\ account'.creds = account.creds
      BY <1>1, <2>1, <3>1 DEF CommitQuota, Accounts
    <3> QED BY <1>1, <2>2, <3>2 DEF CommitQuota, Exists, Assumptions, ghosts, Stored
  <2>3. CASE ~Exists
    BY <1>1, <2>3 DEF CommitQuota, Holds, Exists, ghosts, Stored
  <2> QED BY <2>2, <2>3
<1>2. CASE Prepare(ch) \/ PrepareFails(ch) \/ Send(ch) \/ Timeout(ch) \/ Quota(ch) \/ DropQuota(ch)
  BY <1>2 DEF Prepare, PrepareFails, Send, Timeout, Quota, DropQuota, Exists, ghosts, Stored
<1> QED BY <1>1, <1>2 DEF FlowStep

\* What all steps of a flow have in common.
LEMMA FlowFrame ==
    ASSUME Assumptions, TypeInv, FlowWorks, OneFlight, NEW ch \in Channels, FlowStep(ch)
    PROVE  /\ flow[ch] \in Flows /\ flow' \in [Channels -> Flows] /\ phase[ch] = "working"
           /\ UNCHANGED <<phase, valid, issued, backups, merging, restored>>
           /\ \A c2 \in Channels \ {ch} : flow'[c2] = flow[c2] /\ flow[c2].step = "none"
           /\ flow'[ch].step # "received"
<1>1. flow' \in [Channels -> Flows] /\ flow[ch] \in Flows
  BY FlowType DEF TypeInv, DataType
<1>2. /\ phase[ch] = "working"
      /\ UNCHANGED <<phase, valid, issued, backups, merging, restored>>
  BY DEF FlowStep, Prepare, PrepareFails, Send, Timeout, CommitRotation, RotationFails, Quota,
         CommitQuota, DropQuota, At, server, imports, ghosts, flightVars
<1>5. \A c2 \in Channels \ {ch} : flow'[c2] = flow[c2]
  BY <1>1 DEF FlowStep, Prepare, PrepareFails, Send, Timeout, CommitRotation, RotationFails, Quota,
              CommitQuota, DropQuota, Goto, TypeInv, DataType
<1>3. flow'[ch].step # "received"
  BY <1>1 DEF FlowStep, Prepare, PrepareFails, Send, Timeout, CommitRotation, RotationFails, Quota,
              CommitQuota, DropQuota, Goto, Flows, TypeInv, DataType
<1>4. \A c2 \in Channels \ {ch} : phase[c2] # "working"
  BY <1>2 DEF OneFlight
<1> QED BY <1>1, <1>2, <1>3, <1>4, <1>5 DEF FlowWorks

LEMMA FreshFlow ==
    ASSUME Assumptions, TypeInv, FlowWorks, OneFlight, PairsFresh,
           NEW ch \in Channels, FlowStep(ch)
    PROVE  PairsFresh'
<1>0. /\ UNCHANGED <<issued, backups>>
      /\ \A c2 \in Channels : flow'[c2].step # "received"
  BY FlowFrame
<1>1. CASE CommitRotation(ch) \/ RotationFails(ch)
  <2>1. flow[ch].step = "received"
    BY <1>1 DEF CommitRotation, RotationFails, At
  <2>2. Stored' \subseteq Stored \cup {flow[ch].target}
    BY <1>0, <1>1, RotationStores DEF Stored, Holds, Exists
  <2> QED BY <1>0, <2>1, <2>2 DEF PairsFresh
<1>2. CASE ~(CommitRotation(ch) \/ RotationFails(ch))
  <2>1. Stored' \subseteq Stored
    BY <1>0, <1>2, FlowStores DEF Stored
  <2> QED BY <1>0, <2>1 DEF PairsFresh
<1> QED BY <1>1, <1>2

LEMMA FreshServer ==
    ASSUME Assumptions, TypeInv, RequestsAwaited, PairsFresh, Server
    PROVE  PairsFresh'
<1> USE DEF TypeInv, DataType
<1>0. issued \in Nat
  BY DEF Pairs
<1>1. Stored' = Stored
  BY DEF Server, ServerRotates, ServerRejects, imports, Stored, Exists
<1>2. ASSUME NEW request \in wire, NEW refresh \in Pairs, ServerRotates(request, refresh)
      PROVE  PairsFresh'
  <2>1. issued' = issued + 1
    BY <1>2 DEF ServerRotates
  <2>2. \A creds \in Stored : creds.access \in 1 .. issued' /\ creds.access # issued + 1
    BY <1>0, <2>1 DEF PairsFresh
  <2>3. ASSUME NEW ch \in Channels, flow'[ch].step = "received"
        PROVE  /\ flow'[ch].target.access \in 1 .. issued'
               /\ \A creds \in Stored : creds.access # flow'[ch].target.access
    <3>1. CASE flow'[ch] = flow[ch]
      BY <1>0, <2>1, <2>3, <3>1 DEF PairsFresh
    <3>2. CASE flow'[ch] # flow[ch]
      <4>1. request.from = ch /\ flow[ch] \in Flows
        BY <1>2, <3>2 DEF ServerRotates, Deliver
      <4>2. flow'[ch] = [flow[ch] EXCEPT !.step = "received", !.seen = issued + 1,
                !.target = [access |-> issued + 1, refresh |-> refresh, expiry |-> AsReceived]]
        BY <1>2, <3>2, <4>1 DEF ServerRotates, Deliver
      <4>3. flow'[ch].target.access = issued + 1
        BY <4>1, <4>2 DEF Flows
      <4> QED BY <1>0, <2>1, <2>2, <4>3
    <3> QED BY <3>1, <3>2
  <2> QED BY <1>1, <2>2, <2>3 DEF PairsFresh
<1>3. ASSUME NEW request \in wire, ServerRejects(request) PROVE PairsFresh'
  <2>1. ASSUME NEW ch \in Channels, flow'[ch] # flow[ch] PROVE flow'[ch].step = "quota"
    <3>1. request.from = ch /\ flow[ch] \in Flows
      BY <1>3, <2>1 DEF ServerRejects, Deliver
    <3>2. flow'[ch] = [flow[ch] EXCEPT !.step = "quota", !.rejected = TRUE]
      BY <1>3, <2>1, <3>1 DEF ServerRejects, Deliver
    <3> QED BY <3>1, <3>2 DEF Flows
  <2>2. issued' = issued
    BY <1>3 DEF ServerRejects
  <2> QED BY <1>1, <2>1, <2>2, FreshLocal
<1> QED BY <1>2, <1>3 DEF Server

LEMMA FreshWriters ==
    ASSUME Assumptions, TypeInv, PairsFresh, Writers
    PROVE  PairsFresh'
<1> USE DEF TypeInv, DataType
<1>0. issued \in Nat
  BY DEF Pairs
<1>a. ASSUME NEW creds, NEW seen, Supersede(creds, seen), Archives(creds), backups' = backups
      PROVE  Stored' \subseteq Stored \cup {creds}
  <2>1. account'.creds = creds
    BY <1>a DEF Supersede, Exists, Accounts
  <2>2. archived' \subseteq Stored \cup {creds}
    BY <1>a DEF Archives, Stored
  <2> QED BY <1>a, <2>1, <2>2 DEF Stored
<1>1. CASE Login
  <2>1. Pair(issued + 1).access = issued + 1
    BY DEF Pair
  <2> QED BY <1>0, <1>1, <1>a, <2>1, FreshIssued DEF Login, imports
<1>2. CASE AddToken
  <2> DEFINE creds == [Pair(issued + 1) EXCEPT !.refresh = Kept(NoToken)]
  <2>1. Supersede(creds, issued + 1) /\ Archives(creds) /\ creds.access = issued + 1
    BY <1>2 DEF AddToken, Pair
  <2> HIDE DEF creds
  <2> QED BY <1>0, <1>2, <1>a, <2>1, FreshIssued DEF AddToken, imports
<1>3. ASSUME NEW backup \in backups, Import(backup) PROVE PairsFresh'
  <2>1. PICK imported \in Creds :
          /\ imported.access = backup.creds.access
          /\ Supersede(imported, backup.seen) /\ Archives(imported)
    BY <1>3, ImportedCreds
  <2>2. UNCHANGED <<flow, issued, backups>>
    BY <1>3 DEF Import, server
  <2>3. Stored' \subseteq Stored \cup {imported}
    BY <1>a, <2>1, <2>2
  <2>4. backup.creds \in Stored
    BY DEF Stored
  <2> QED BY <2>1, <2>2, <2>3, <2>4, FreshLocal
<1>4. CASE ImportMerge
  <2>1. UNCHANGED <<flow, issued, backups>>
    BY <1>4 DEF ImportMerge, server
  <2>2. CASE UNCHANGED <<account, archived, restored>>
    BY <2>1, <2>2, FreshLocal DEF Stored, Exists
  <2>3. CASE ~UNCHANGED <<account, archived, restored>>
    <3>1. PICK creds \in Creds : MergesInto(creds)
      BY <1>4, <2>3, MergedCreds
    <3>2. account \in Accounts /\ account'.creds = creds /\ creds.access = account.creds.access
      BY <3>1 DEF MergesInto, SameTokens, Exists, Accounts
    <3>3. Stored' \subseteq Stored \cup {creds}
      BY <2>1, <3>1, <3>2 DEF MergesInto, Archives, Stored
    <3>4. account.creds \in Stored
      BY <3>1 DEF MergesInto, Stored
    <3> QED BY <2>1, <3>2, <3>3, <3>4, FreshLocal
  <2> QED BY <2>2, <2>3
<1>5. CASE \E tags \in SUBSET Tags : UpdateTags(tags)
  <2>1. Exists /\ account \in Accounts /\ account'.creds = account.creds
    BY <1>5 DEF UpdateTags, Exists, Accounts
  <2>2. UNCHANGED <<archived, backups, flow, issued>>
    BY <1>5 DEF UpdateTags, server, imports
  <2>3. Stored' \subseteq Stored
    BY <2>1, <2>2 DEF Stored
  <2> QED BY <2>2, <2>3, FreshLocal
<1>6. CASE Remove \/ Export
  <2>1. Stored' \subseteq Stored
    BY <1>6 DEF Remove, Export, imports, Stored, Exists
  <2> QED BY <1>6, <2>1, FreshLocal DEF Remove, Export, server
<1> QED BY <1>1, <1>2, <1>3, <1>4, <1>5, <1>6 DEF Writers

LEMMA FreshTask ==
    ASSUME Assumptions, TypeInv, PairsFresh,
           \/ Request \/ Crash \/ UNCHANGED vars
           \/ \E ch \in Channels : Return(ch) \/ PanicIn(ch) \/ EndTask(ch)
    PROVE  PairsFresh'
<1> USE DEF TypeInv, DataType
<1>0. NoFlow.step = "none" /\ Start.step = "prepare"
  BY DEF NoFlow, Start
<1>1. ASSUME \A ch \in Channels : flow'[ch] \in {flow[ch], Start, NoFlow},
             UNCHANGED <<account, archived, backups, issued>>
      PROVE  PairsFresh'
  <2>1. Stored' = Stored
    BY <1>1 DEF Stored, Exists
  <2> QED BY <1>0, <1>1, <2>1, FreshLocal
<1>2. CASE Request \/ Crash \/ UNCHANGED vars
  BY <1>1, <1>2 DEF Request, Crash, vars, server, imports
<1>3. ASSUME NEW ch \in Channels, Return(ch) \/ PanicIn(ch) \/ EndTask(ch) PROVE PairsFresh'
  BY <1>1, <1>3 DEF Return, PanicIn, EndTask, server, imports
<1> QED BY <1>2, <1>3

-----------------------------------------------------------------------------
(* What is rejected is dead.                                               *)

\* A dead token does not come back to life: what becomes valid is new.
LEMMA DeadStays ==
    ASSUME Assumptions, issued \in Nat, valid' \subseteq valid \cup {issued + 1},
           issued' = issued + 1, issued' \in Pairs,
           NEW token, Issued(token), token \notin valid
    PROVE  token \notin valid'
BY DEF Issued, IssuedBy, Assumptions

LEMMA RejectionsInit == ASSUME Assumptions PROVE Init => RejectionsTrue
BY DEF Init, Assumptions, RejectionsTrue, RecordTrue, MergingTrue, FlowTrue, NoFlow

LEMMA RejectionsFlow ==
    ASSUME Assumptions, TypeInv, FlowWorks, OneFlight, PairsFresh, RejectionsTrue,
           NEW ch \in Channels, FlowStep(ch)
    PROVE  RejectionsTrue'
<1>0. /\ flow[ch] \in Flows /\ FlowTrue(ch) /\ (Exists => account \in Accounts /\ RecordTrue(account))
      /\ UNCHANGED <<valid, backups, merging>>
      /\ \A c2 \in Channels \ {ch} : flow'[c2].step = "none"
  BY FlowFrame DEF RejectionsTrue, TypeInv, DataType, Exists
<1>1. FlowTrue(ch)'
  <2>1. CASE Prepare(ch)
    BY <1>0, <2>1 DEF Prepare, Goto, FlowTrue, RecordTrue, Flows, TypeInv, DataType
  <2>2. CASE Send(ch) \/ Timeout(ch) \/ Quota(ch)
    BY <1>0, <2>2 DEF Send, Timeout, Quota, At, Goto, FlowTrue, Flows, TypeInv, DataType
  <2>3. CASE CommitRotation(ch)
    BY <1>0, <2>3 DEF CommitRotation, At, Goto, FlowTrue, Flows, TypeInv, DataType
  <2>4. CASE PrepareFails(ch) \/ RotationFails(ch) \/ CommitQuota(ch) \/ DropQuota(ch)
    BY <1>0, <2>4 DEF PrepareFails, RotationFails, CommitQuota, DropQuota, Goto, FlowTrue, Flows,
                      TypeInv, DataType
  <2> QED BY <2>1, <2>2, <2>3, <2>4 DEF FlowStep
<1>2. (Exists => RecordTrue(account))'
  <2>1. CASE CommitRotation(ch) \/ RotationFails(ch)
    BY <1>0, <2>1, RotationStores DEF RecordTrue, Exists
  <2>2. CASE CommitQuota(ch)
    <3>1. CASE Holds(flow[ch].target)
      <4>1. account'.creds = account.creds /\ account'.rejected = flow[ch].rejected
        BY <1>0, <2>2, <3>1 DEF CommitQuota, Holds, Accounts
      <4>2. flow[ch].rejected => account.creds.refresh \in Pairs \ valid
        BY <1>0, <2>2, <3>1 DEF CommitQuota, At, Holds, FlowTrue
      <4> QED BY <1>0, <4>1, <4>2 DEF RecordTrue
    <3>2. CASE ~Holds(flow[ch].target)
      BY <1>0, <2>2, <3>2 DEF CommitQuota, RecordTrue, Exists
    <3> QED BY <3>1, <3>2
  <2>3. CASE Prepare(ch) \/ PrepareFails(ch) \/ Send(ch) \/ Timeout(ch) \/ Quota(ch) \/ DropQuota(ch)
    BY <1>0, <2>3 DEF Prepare, PrepareFails, Send, Timeout, Quota, DropQuota, RecordTrue, Exists
  <2> QED BY <2>1, <2>2, <2>3 DEF FlowStep
<1>3. \A c2 \in Channels : FlowTrue(c2)'
  BY <1>0, <1>1 DEF FlowTrue
<1> QED BY <1>0, <1>2, <1>3 DEF RejectionsTrue, MergingTrue, RecordTrue

LEMMA RejectionsServer ==
    ASSUME Assumptions, TypeInv, RequestsAwaited, TokensIssued, RejectionsTrue, Server
    PROVE  RejectionsTrue'
<1> USE DEF TypeInv, DataType
<1>0. issued \in Nat
  BY DEF Pairs
<1>1. ASSUME NEW request \in wire, NEW refresh \in Pairs, ServerRotates(request, refresh)
      PROVE  RejectionsTrue'
  <2>1. /\ valid' \subseteq valid \cup {issued + 1}
        /\ issued' = issued + 1 /\ issued' \in Pairs
        /\ UNCHANGED <<account, backups, merging>>
    BY <1>1 DEF ServerRotates, imports, ghosts, Pairs, Assumptions
  <2>2. \A token : Issued(token) /\ token \notin valid => token \notin valid'
    BY <1>0, <2>1, DeadStays
  <2>3. /\ (Exists => RecordTrue(account))' /\ MergingTrue'
        /\ \A backup \in backups : RecordTrue(backup)'
    BY <2>1, <2>2 DEF RejectionsTrue, RecordTrue, MergingTrue, TokensIssued, Exists
  <2>4. ASSUME NEW ch \in Channels PROVE FlowTrue(ch)'
    <3>1. CASE flow'[ch] = flow[ch]
      BY <2>2, <3>1 DEF RejectionsTrue, FlowTrue, TokensIssued, FlowIssued
    <3>2. CASE flow'[ch] # flow[ch]
      <4>1. request.from = ch
        BY <1>1, <3>2 DEF ServerRotates, Deliver
      <4>2. flow[ch] \in Flows /\ flow[ch].step = "waiting"
        BY <3>2, <4>1 DEF RequestsAwaited, Assumptions
      <4>3. flow'[ch] = [flow[ch] EXCEPT !.step = "received", !.seen = issued + 1,
                !.target = [access |-> issued + 1, refresh |-> refresh, expiry |-> AsReceived]]
        BY <1>1, <3>2, <4>1 DEF ServerRotates, Deliver
      <4>4. flow'[ch].step = "received" /\ flow'[ch].rejected = flow[ch].rejected
        BY <4>2, <4>3 DEF Flows
      <4> QED BY <4>2, <4>4 DEF RejectionsTrue, FlowTrue
    <3> QED BY <3>1, <3>2
  <2> QED BY <2>1, <2>3, <2>4 DEF RejectionsTrue
<1>2. ASSUME NEW request \in wire, ServerRejects(request) PROVE RejectionsTrue'
  <2>1. UNCHANGED <<account, backups, merging, valid>>
    BY <1>2 DEF ServerRejects, imports, ghosts
  <2>2. ASSUME NEW ch \in Channels PROVE FlowTrue(ch)'
    <3>1. CASE flow'[ch] = flow[ch]
      BY <2>1, <3>1 DEF RejectionsTrue, FlowTrue
    <3>2. CASE flow'[ch] # flow[ch]
      <4>1. request.from = ch
        BY <1>2, <3>2 DEF ServerRejects, Deliver
      <4>2. /\ flow[ch] \in Flows /\ flow[ch].step = "waiting"
            /\ flow[ch].original.refresh \in Pairs \ valid
        BY <1>2, <3>2, <4>1 DEF ServerRejects, RequestsAwaited, Assumptions
      <4>3. flow'[ch] = [flow[ch] EXCEPT !.step = "quota", !.rejected = TRUE]
        BY <1>2, <3>2, <4>1 DEF ServerRejects, Deliver
      <4>4. flow'[ch].step = "quota" /\ flow'[ch].target = flow[ch].target
        BY <4>2, <4>3 DEF Flows
      <4> QED BY <2>1, <4>2, <4>4 DEF RejectionsTrue, FlowTrue
    <3> QED BY <3>1, <3>2
  <2> QED BY <2>1, <2>2 DEF RejectionsTrue, RecordTrue, MergingTrue, Exists
<1> QED BY <1>1, <1>2 DEF Server

LEMMA RejectionsWriters ==
    ASSUME Assumptions, TypeInv, TokensIssued, RejectionsTrue, Writers
    PROVE  RejectionsTrue'
<1> USE DEF TypeInv, DataType
<1>0. issued \in Nat /\ flow' = flow
  BY DEF Pairs, Writers, Login, AddToken, Export, Import, ImportMerge, UpdateTags, Remove
<1>1. \A token : Issued(token) /\ token \notin valid => token \notin valid'
  <2>1. CASE Login
    <3>1. /\ valid' \subseteq valid \cup {issued + 1}
          /\ issued' = issued + 1 /\ issued' \in Pairs
      BY <1>0, <2>1 DEF Login, Pairs, Assumptions
    <3> QED BY <1>0, <3>1, DeadStays
  <2>2. CASE ~Login
    BY <2>2 DEF Writers, AddToken, Export, Import, ImportMerge, UpdateTags, Remove, server
  <2> QED BY <2>1, <2>2
<1>2. ASSUME NEW record, Issued(record.creds.refresh), RecordTrue(record)
      PROVE  record.rejected => record.creds.refresh \in Pairs \ valid'
  BY <1>1, <1>2 DEF RecordTrue
<1>3. ASSUME backups' = backups, (Exists => RecordTrue(account))', MergingTrue'
      PROVE  RejectionsTrue'
  <2>1. \A ch \in Channels : FlowTrue(ch)'
    BY <1>0, <1>1 DEF RejectionsTrue, FlowTrue, TokensIssued, FlowIssued
  <2>2. \A backup \in backups : RecordTrue(backup)'
    BY <1>2 DEF RejectionsTrue, RecordTrue, TokensIssued
  <2> QED BY <1>3, <2>1, <2>2 DEF RejectionsTrue
\* A record that keeps its marker keeps its token.
<1>4. ASSUME NEW creds, NEW seen, Supersede(creds, seen) PROVE RecordTrue(account)'
  <2>1. CASE Exists
    <3>1. account \in Accounts
      BY <2>1 DEF Exists
    <3>2. account'.rejected => account.rejected /\ account'.creds.refresh = account.creds.refresh
      BY <1>4, <2>1, <3>1 DEF Supersede, SameTokens, Accounts
    <3> QED BY <1>1, <2>1, <3>2 DEF RejectionsTrue, RecordTrue, TokensIssued
  <2>2. CASE ~Exists
    BY <1>4, <2>2 DEF Supersede, RecordTrue
  <2> QED BY <2>1, <2>2
<1>5. UNCHANGED merging \/ merging' = NoAccount => MergingTrue'
  BY <1>1 DEF RejectionsTrue, MergingTrue, RecordTrue, TokensIssued
<1>6. CASE Login \/ AddToken
  BY <1>3, <1>4, <1>5, <1>6 DEF Login, AddToken, imports
<1>7. ASSUME NEW backup \in backups, Import(backup) PROVE RejectionsTrue'
  <2>1. PICK imported \in Creds :
          /\ imported.refresh = Kept(backup.creds.refresh) /\ Supersede(imported, backup.seen)
          /\ merging' = [snapshot |-> backup, imported |-> imported]
    BY <1>7, ImportedCreds
  <2>2. backup.rejected => backup.creds.refresh \in Pairs \ valid'
    BY <1>2 DEF RejectionsTrue, TokensIssued
  <2>3. MergingTrue'
    BY <2>1, <2>2 DEF MergingTrue, RecordTrue, Kept, Assumptions
  <2> QED BY <1>3, <1>4, <1>7, <2>1, <2>3 DEF Import
<1>8. CASE ImportMerge
  <2>1. (Exists => RecordTrue(account))'
    <3>1. CASE UNCHANGED <<account, archived, restored>>
      BY <1>2, <3>1 DEF RejectionsTrue, RecordTrue, TokensIssued, Exists
    <3>2. CASE ~UNCHANGED <<account, archived, restored>>
      <4>1. PICK creds \in Creds : MergesInto(creds)
        BY <1>8, <3>2, MergedCreds
      <4>2. account \in Accounts /\ merging \in Merges /\ merging # NoAccount
        BY <1>8, <4>1 DEF MergesInto, ImportMerge, Exists
      <4>3. account'.creds.refresh = account.creds.refresh
        BY <4>1, <4>2 DEF MergesInto, SameTokens, Accounts
      <4>4. account'.rejected =
              IF Holds(merging.imported) THEN merging.snapshot.rejected ELSE account.rejected
        BY <4>1, <4>2 DEF MergesInto, Accounts
      <4>5. CASE Holds(merging.imported) /\ merging.snapshot.rejected
        <5>1. account.creds.refresh = merging.snapshot.creds.refresh
          BY <4>2, <4>5 DEF RejectionsTrue, MergingTrue, Holds
        <5>2. merging.snapshot.creds.refresh \in Pairs \ valid'
          BY <1>2, <4>2, <4>5 DEF RejectionsTrue, MergingTrue, TokensIssued
        <5> QED BY <4>3, <5>1, <5>2 DEF RecordTrue
      <4>6. CASE ~(Holds(merging.imported) /\ merging.snapshot.rejected)
        <5>1. account'.rejected => account.rejected
          BY <4>4, <4>6
        <5> QED BY <1>1, <4>1, <4>3, <5>1
                DEF MergesInto, RejectionsTrue, RecordTrue, TokensIssued
      <4> QED BY <4>5, <4>6
    <3> QED BY <3>1, <3>2
  <2> QED BY <1>3, <1>5, <1>8, <2>1 DEF ImportMerge
<1>9. CASE \E tags \in SUBSET Tags : UpdateTags(tags)
  <2>1. Exists /\ account \in Accounts /\ account'.creds = account.creds
        /\ account'.rejected = account.rejected
    BY <1>9 DEF UpdateTags, Exists, Accounts
  <2>2. RecordTrue(account)'
    BY <1>1, <2>1 DEF RejectionsTrue, RecordTrue, TokensIssued
  <2> QED BY <1>3, <1>5, <1>9, <2>2 DEF UpdateTags, imports
<1>10. CASE Remove
  BY <1>3, <1>5, <1>10 DEF Remove, imports, Exists
<1>11. CASE Export
  <2>1. UNCHANGED <<account, valid, merging>> /\ backups' = backups \cup {account} /\ Exists
    BY <1>11 DEF Export, server
  <2>2. \A ch \in Channels : FlowTrue(ch)'
    BY <1>0, <2>1 DEF RejectionsTrue, FlowTrue
  <2> QED BY <2>1, <2>2 DEF RejectionsTrue, MergingTrue, RecordTrue, Exists
<1> QED BY <1>6, <1>7, <1>8, <1>9, <1>10, <1>11 DEF Writers

LEMMA RejectionsTask ==
    ASSUME Assumptions, TypeInv, RejectionsTrue,
           \/ Request \/ Crash \/ UNCHANGED vars
           \/ \E ch \in Channels : Return(ch) \/ PanicIn(ch) \/ EndTask(ch)
    PROVE  RejectionsTrue'
<1> USE DEF TypeInv, DataType
<1>0. NoFlow.step = "none" /\ Start.step = "prepare"
  BY DEF NoFlow, Start
<1>1. ASSUME \A ch \in Channels : flow'[ch] \in {flow[ch], Start, NoFlow},
             UNCHANGED <<account, valid, backups>>, merging' \in {merging, NoAccount}
      PROVE  RejectionsTrue'
  <2>1. \A ch \in Channels : FlowTrue(ch)'
    BY <1>0, <1>1 DEF RejectionsTrue, FlowTrue
  <2> QED BY <1>1, <2>1 DEF RejectionsTrue, RecordTrue, MergingTrue, Exists
<1>2. CASE Request \/ Crash \/ UNCHANGED vars
  BY <1>1, <1>2 DEF Request, Crash, vars, server, imports, ghosts
<1>3. ASSUME NEW ch \in Channels, Return(ch) \/ PanicIn(ch) \/ EndTask(ch) PROVE RejectionsTrue'
  BY <1>1, <1>3 DEF Return, PanicIn, EndTask, server, imports, ghosts
<1> QED BY <1>2, <1>3

-----------------------------------------------------------------------------
(* What was exported is stored or archived.                                *)

\* The archive grows, and what is stored is archived before it is replaced.
LEMMA BackupsKept ==
    ASSUME BackupsArchived, backups' = backups, archived \subseteq archived',
           Exists => Exists' /\ (account'.creds = account.creds \/ account.creds \in archived')
    PROVE  BackupsArchived'
BY DEF BackupsArchived, Holds

LEMMA BackupsFlow ==
    ASSUME Assumptions, TypeInv, FlowWorks, OneFlight, PairsFresh, BackupsArchived,
           NEW ch \in Channels, FlowStep(ch)
    PROVE  BackupsArchived'
<1>1. backups' = backups
  BY FlowFrame
<1>2. CASE CommitRotation(ch) \/ RotationFails(ch)
  BY <1>1, <1>2, RotationStores, BackupsKept DEF Holds, Exists
<1>3. CASE ~(CommitRotation(ch) \/ RotationFails(ch))
  BY <1>1, <1>3, FlowStores, BackupsKept
<1> QED BY <1>2, <1>3

LEMMA BackupsWriters ==
    ASSUME Assumptions, TypeInv, BackupsArchived, Writers
    PROVE  BackupsArchived'
<1> USE DEF TypeInv, DataType
<1>1. ASSUME NEW creds \in Creds, NEW seen \in Pairs, Supersede(creds, seen), Archives(creds),
             backups' = backups
      PROVE  BackupsArchived'
  <2>1. Exists' /\ account'.creds = creds
    <3>1. account' \in Accounts
      BY <1>1, SupersedeType
    <3> QED BY <1>1, <3>1 DEF Supersede, Exists, Accounts, Assumptions
  <2> QED BY <1>1, <2>1, BackupsKept DEF Archives, Holds
<1>2. issued < MaxPairs => issued + 1 \in Pairs /\ Pair(issued + 1) \in Creds
  BY DEF Pairs, Pair, Creds, Assumptions
<1>3. CASE Login
  BY <1>1, <1>2, <1>3 DEF Login, imports
<1>4. CASE AddToken
  <2> DEFINE creds == [Pair(issued + 1) EXCEPT !.refresh = Kept(NoToken)]
  <2>1. creds \in Creds
    BY <1>2, <1>4, KeptType DEF AddToken, Pair, Creds
  <2>2. Supersede(creds, issued + 1) /\ Archives(creds)
    BY <1>4 DEF AddToken
  <2> HIDE DEF creds
  <2> QED BY <1>1, <1>2, <1>4, <2>1, <2>2 DEF AddToken, imports
<1>5. ASSUME NEW backup \in backups, Import(backup) PROVE BackupsArchived'
  <2>1. backup.seen \in Pairs
    BY DEF Accounts
  <2> QED BY <1>1, <1>5, <2>1, ImportedCreds DEF Import
<1>6. CASE ImportMerge
  <2>1. backups' = backups
    BY <1>6 DEF ImportMerge
  <2>2. CASE UNCHANGED <<account, archived, restored>>
    BY <2>1, <2>2, BackupsKept DEF Exists
  <2>3. CASE ~UNCHANGED <<account, archived, restored>>
    <3>1. PICK creds \in Creds : MergesInto(creds)
      BY <1>6, <2>3, MergedCreds
    <3>2. Exists' /\ account'.creds = creds
      <4>1. account' \in Accounts
        <5>1. merging.snapshot \in Accounts
          BY <1>6 DEF ImportMerge, Merges
        <5> QED BY <3>1, <5>1 DEF MergesInto, Exists, Accounts
      <4> QED BY <3>1, <4>1 DEF MergesInto, Exists, Accounts, Assumptions
    <3> QED BY <2>1, <3>1, <3>2, BackupsKept DEF MergesInto, Archives, Holds
  <2> QED BY <2>2, <2>3
<1>7. CASE \E tags \in SUBSET Tags : UpdateTags(tags)
  <2>1. account' \in Accounts /\ account'.creds = account.creds
    BY <1>7 DEF UpdateTags, Exists, Accounts
  <2> QED BY <1>7, <2>1, BackupsKept DEF UpdateTags, imports, Exists, Assumptions
<1>8. CASE Export
  BY <1>8 DEF Export, BackupsArchived, Holds, Exists
<1>9. CASE Remove
  BY <1>9 DEF Remove, BackupsArchived
<1> QED BY <1>3, <1>4, <1>5, <1>6, <1>7, <1>8, <1>9 DEF Writers

LEMMA BackupsServer == ASSUME BackupsArchived, Server PROVE BackupsArchived'
BY DEF Server, ServerRotates, ServerRejects, imports, BackupsArchived, Holds, Exists

LEMMA BackupsTask ==
    ASSUME BackupsArchived,
           \/ Request \/ Crash \/ UNCHANGED vars
           \/ \E ch \in Channels : Return(ch) \/ PanicIn(ch) \/ EndTask(ch)
    PROVE  BackupsArchived'
<1>1. UNCHANGED <<account, archived, backups>>
  BY DEF Request, Crash, Return, PanicIn, EndTask, vars, imports
<1> QED BY <1>1 DEF BackupsArchived, Holds, Exists

-----------------------------------------------------------------------------
(* What was spent stays away.                                              *)

LEMMA RotationsInit == ASSUME Assumptions PROVE Init => RotationsKept
BY DEF Init, Assumptions, RotationsKept, SpentTokenStored, FlowKept, NoFlow

LEMMA RotationsFlow ==
    ASSUME Assumptions, TypeInv, FlowWorks, OneFlight, PairsFresh, RotationsKept,
           NEW ch \in Channels, FlowStep(ch)
    PROVE  RotationsKept'
<1>0. /\ flow[ch] \in Flows /\ flow' \in [Channels -> Flows] /\ FlowKept(ch)
      /\ restored' = restored /\ flow'[ch].step # "received"
      /\ \A c2 \in Channels \ {ch} : flow'[c2].step = "none"
  BY FlowFrame DEF RotationsKept
<1>1. \A c2 \in Channels \ {ch} : FlowKept(c2)'
  BY <1>0 DEF FlowKept
<1>2. CASE CommitRotation(ch) \/ RotationFails(ch)
  <2>1. flow[ch].step = "received" /\ flow'[ch].step \in {"quota", "done"}
    BY <1>0, <1>2 DEF CommitRotation, RotationFails, At, Goto, Flows, TypeInv, DataType
  <2>2. SpentTokenStored' => account'.creds.refresh \in restored'
    <3>1. CASE /\ Holds(flow[ch].original)
               /\ Exists' /\ account'.creds = flow[ch].target /\ Spends(ch)
      <4>1. CASE flow[ch].target.refresh = flow[ch].original.refresh
        BY <1>0, <3>1, <4>1 DEF Spends, Holds, RotationsKept, SpentTokenStored
      <4>2. CASE flow[ch].target.refresh # flow[ch].original.refresh
        BY <1>0, <2>1, <3>1, <4>2 DEF Spends, FlowKept, SpentTokenStored
      <4> QED BY <4>1, <4>2
    <3>2. CASE account' = account /\ ~Holds(flow[ch].original) /\ Spends(ch)
      BY <1>0, <2>1, <3>2 DEF Spends, FlowKept, RotationsKept, SpentTokenStored, Exists
    <3>3. CASE account' = account /\ spent' = spent
      BY <1>0, <3>3 DEF RotationsKept, SpentTokenStored, Exists
    <3> QED BY <1>2, <3>1, <3>2, <3>3, RotationStores
  <2>3. FlowKept(ch)'
    BY <2>1 DEF FlowKept
  <2> QED BY <1>1, <2>2, <2>3 DEF RotationsKept
<1>3. CASE ~(CommitRotation(ch) \/ RotationFails(ch))
  <2>1. Exists' = Exists /\ (Exists => account'.creds = account.creds) /\ spent' = spent
    BY <1>3, FlowStores
  <2>2. CASE Prepare(ch) /\ Exists
    <3>1. flow'[ch].original = account.creds
      BY <1>0, <2>2 DEF Prepare, TypeInv, DataType
    <3>2. FlowKept(ch)'
      BY <1>0, <2>1, <2>2, <3>1 DEF FlowKept, Holds
    <3> QED BY <1>0, <1>1, <2>1, <3>2 DEF RotationsKept, SpentTokenStored
  <2>3. CASE ~(Prepare(ch) /\ Exists)
    <3>1. /\ flow'[ch].original = flow[ch].original
          /\ flow'[ch].step \in {"send", "waiting", "received"} => flow[ch].step = "send"
      BY <1>0, <1>3, <2>3 DEF FlowStep, Prepare, PrepareFails, Send, Timeout, Quota, CommitQuota,
                              DropQuota, At, Goto, Flows, TypeInv, DataType
    <3>2. FlowKept(ch)'
      BY <1>0, <2>1, <3>1 DEF FlowKept, Holds
    <3> QED BY <1>0, <1>1, <2>1, <3>2 DEF RotationsKept, SpentTokenStored
  <2> QED BY <2>2, <2>3
<1> QED BY <1>2, <1>3

LEMMA RotationsServer ==
    ASSUME Assumptions, TypeInv, RequestsAwaited, TokensIssued, RotationsKept, Server
    PROVE  RotationsKept'
<1> USE DEF TypeInv, DataType
<1>1. UNCHANGED <<account, spent, restored>>
  BY DEF Server, ServerRotates, ServerRejects, imports, ghosts
<1>2. ASSUME NEW ch \in Channels PROVE FlowKept(ch)'
  <2>1. CASE flow'[ch] = flow[ch]
    BY <1>1, <2>1 DEF RotationsKept, FlowKept, Holds, Exists
  <2>2. ASSUME flow'[ch] # flow[ch], NEW request \in wire, NEW refresh \in Pairs,
               ServerRotates(request, refresh)
        PROVE  FlowKept(ch)'
    <3>1. request.from = ch
      BY <2>2 DEF ServerRotates, Deliver
    <3>2. /\ flow[ch] \in Flows /\ flow[ch].step = "waiting"
          /\ flow[ch].original.refresh = request.token
      BY <2>2, <3>1 DEF RequestsAwaited, Assumptions
    <3>3. flow'[ch] = [flow[ch] EXCEPT !.step = "received", !.seen = issued + 1,
              !.target = [access |-> issued + 1, refresh |-> refresh, expiry |-> AsReceived]]
      BY <2>2, <3>1 DEF ServerRotates, Deliver
    <3>4. /\ flow'[ch].step = "received" /\ flow'[ch].original = flow[ch].original
          /\ flow'[ch].target.refresh = refresh
      BY <3>2, <3>3 DEF Flows
    <3>5. refresh # request.token => refresh \notin spent
      BY <2>2 DEF ServerRotates, TokensIssued, Pairs
    <3> QED BY <1>1, <3>2, <3>4, <3>5 DEF RotationsKept, FlowKept, Holds, Exists
  <2>3. ASSUME flow'[ch] # flow[ch], NEW request \in wire, ServerRejects(request)
        PROVE  FlowKept(ch)'
    <3>1. flow[ch] \in Flows /\ flow'[ch] = [flow[ch] EXCEPT !.step = "quota", !.rejected = TRUE]
      BY <2>3 DEF ServerRejects, Deliver
    <3>2. flow'[ch].step = "quota"
      BY <3>1 DEF Flows
    <3> QED BY <3>2 DEF FlowKept
  <2> QED BY <2>1, <2>2, <2>3 DEF Server
<1> QED BY <1>1, <1>2 DEF RotationsKept, SpentTokenStored, Exists

\* What another writer stores is what was stored, new, or put back.
LEMMA WritersStore ==
    ASSUME Assumptions, TypeInv, "tokenOnly" \notin Events, Writers
    PROVE  /\ restored \subseteq restored'
           /\ \/ ~Exists' /\ spent' = {}
              \/ spent' = spent /\ account' = account
              \/ spent' = spent /\ Exists /\ account'.creds = account.creds
              \/ spent' = spent /\ account'.creds.refresh \in restored'
              \/ /\ spent' = spent /\ issued + 1 \in Pairs
                 /\ account'.creds.refresh = issued + 1 /\ issued + 1 \in valid'
<1> USE DEF TypeInv, DataType
<1>1. CASE Login
  <2>1. account'.creds = Pair(issued + 1)
    BY <1>1 DEF Login, Supersede, Exists, Accounts
  <2>2. issued + 1 \in Pairs /\ issued + 1 \in valid'
    BY <1>1 DEF Login, Pairs, Assumptions
  <2> QED BY <1>1, <2>1, <2>2 DEF Login, Pair, ghosts
<1>2. CASE AddToken
  BY <1>2 DEF AddToken
<1>3. ASSUME NEW backup \in backups, Import(backup)
      PROVE  /\ restored \subseteq restored' /\ spent' = spent
             /\ \/ Exists /\ account'.creds = account.creds
                \/ account'.creds.refresh \in restored'
  <2>1. PICK imported \in Creds : Supersede(imported, backup.seen) /\ Restores(imported)
    BY <1>3, ImportedCreds
  <2>2. account'.creds = imported
    BY <2>1 DEF Supersede, Exists, Accounts
  <2> QED BY <1>3, <2>1, <2>2 DEF Import, Restores, Holds
<1>4. CASE ImportMerge
  <2>1. CASE UNCHANGED <<account, archived, restored>>
    BY <1>4, <2>1 DEF ImportMerge
  <2>2. CASE ~UNCHANGED <<account, archived, restored>>
    <3>1. PICK creds \in Creds : MergesInto(creds)
      BY <1>4, <2>2, MergedCreds
    <3>2. account'.creds = creds
      BY <3>1 DEF MergesInto, Exists, Accounts
    <3> QED BY <1>4, <3>1, <3>2 DEF ImportMerge, MergesInto, Restores, Holds
  <2> QED BY <2>1, <2>2
<1>5. CASE \E tags \in SUBSET Tags : UpdateTags(tags)
  BY <1>5 DEF UpdateTags, ghosts, Exists, Accounts
<1>6. CASE Remove \/ Export
  BY <1>6 DEF Remove, Export, ghosts, Exists
<1> QED BY <1>1, <1>2, <1>3, <1>4, <1>5, <1>6 DEF Writers

LEMMA RotationsWriters ==
    ASSUME Assumptions, TypeInv, "tokenOnly" \notin Events, TokensIssued, RotationsKept, Writers
    PROVE  RotationsKept'
<1> USE DEF TypeInv, DataType
<1>0. issued \in Nat /\ flow' = flow /\ restored \subseteq restored'
  <2>1. issued \in Nat
    BY DEF Pairs
  <2>2. flow' = flow
    BY DEF Writers, Login, AddToken, Export, Import, ImportMerge, UpdateTags, Remove
  <2> QED BY <2>1, <2>2, WritersStore
<1>1. CASE ~Exists' /\ spent' = {}
  BY <1>0, <1>1 DEF RotationsKept, SpentTokenStored, FlowKept
<1>2. CASE \/ spent' = spent /\ account' = account
           \/ spent' = spent /\ Exists /\ account'.creds = account.creds
  BY <1>0, <1>2 DEF RotationsKept, SpentTokenStored, FlowKept, Holds, Exists
<1>3. CASE spent' = spent /\ account'.creds.refresh \in restored'
  BY <1>0, <1>3 DEF RotationsKept, SpentTokenStored, FlowKept
<1>4. CASE spent' = spent /\ issued + 1 \in Pairs /\ account'.creds.refresh = issued + 1
  <2>1. ~Issued(issued + 1) /\ issued + 1 \notin spent
    BY <1>0, <1>4 DEF TokensIssued, Issued, IssuedBy, Assumptions
  <2>2. \A ch \in Channels : flow[ch].step \in {"send", "waiting", "received"} =>
            flow[ch].original.refresh # issued + 1
    BY <2>1 DEF TokensIssued, FlowIssued
  <2> QED BY <1>0, <1>4, <2>1, <2>2 DEF RotationsKept, SpentTokenStored, FlowKept
<1> QED BY <1>1, <1>2, <1>3, <1>4, WritersStore

LEMMA RotationsTask ==
    ASSUME Assumptions, TypeInv, RotationsKept,
           \/ Request \/ Crash \/ UNCHANGED vars
           \/ \E ch \in Channels : Return(ch) \/ PanicIn(ch) \/ EndTask(ch)
    PROVE  RotationsKept'
<1> USE DEF TypeInv, DataType
<1>0. NoFlow.step = "none" /\ Start.step = "prepare"
  BY DEF NoFlow, Start
<1>1. ASSUME \A ch \in Channels : flow'[ch] \in {flow[ch], Start, NoFlow},
             UNCHANGED <<account, spent, restored>>
      PROVE  RotationsKept'
  BY <1>0, <1>1 DEF RotationsKept, SpentTokenStored, FlowKept, Holds, Exists
<1>2. CASE Request \/ Crash \/ UNCHANGED vars
  BY <1>1, <1>2 DEF Request, Crash, vars, imports, ghosts
<1>3. ASSUME NEW ch \in Channels, Return(ch) \/ PanicIn(ch) \/ EndTask(ch) PROVE RotationsKept'
  BY <1>1, <1>3 DEF Return, PanicIn, EndTask, imports, ghosts
<1> QED BY <1>2, <1>3

-----------------------------------------------------------------------------
(* What does not refresh was lost.                                         *)

LEMMA LiveInit == ASSUME Assumptions PROVE Init => TokensLive
<1> SUFFICES ASSUME Init PROVE TokensLive
  OBVIOUS
<1>1. account.creds.refresh = 1 /\ valid = {1} /\ wire = {}
  BY DEF Init, Pair
<1>2. \A ch \in Channels : flow[ch].step = "none"
  BY DEF Init, NoFlow
<1> QED BY <1>1, <1>2 DEF TokensLive

\* No token dies, no flow's pair gets lost unseen, and what is stored changes only
\* to what is put back.
LEMMA LiveLocal ==
    ASSUME TokensLive, valid \subseteq valid', lost \subseteq lost', restored \subseteq restored',
           Exists' => \/ Exists /\ account'.creds = account.creds
                      \/ account'.creds.refresh \in restored',
           Exists' /\ Answered => Answered' \/ account'.creds.refresh \in lost' \cup restored',
           \A ch \in Channels : flow'[ch].step = "received" =>
               flow[ch].step = "received" /\ flow'[ch].target = flow[ch].target,
           \A request \in wire' : request.from = NoChannel => request \in wire \/ request.token \in lost'
    PROVE  TokensLive'
BY DEF TokensLive

LEMMA LiveFlow ==
    ASSUME Assumptions, TypeInv, Links, OneFlight, PairsFresh, TokensLive,
           NEW ch \in Channels, FlowStep(ch)
    PROVE  TokensLive'
<1> USE DEF TypeInv, DataType
<1>0. /\ flow[ch] \in Flows /\ phase[ch] = "working"
      /\ UNCHANGED <<phase, valid, restored>>
      /\ \A c2 \in Channels \ {ch} : flow'[c2] = flow[c2] /\ flow[c2].step = "none"
  BY FlowFrame DEF Links
<1>1. \A c2 \in Channels : flow'[c2].step # "received"
  BY FlowFrame DEF Links
<1>2. Answered => flow[ch].step = "received" /\ Holds(flow[ch].original)
  BY <1>0 DEF Answered, At
<1>3. CASE CommitRotation(ch) \/ RotationFails(ch)
  <2>1. flow[ch].step = "received" /\ flow[ch].target.refresh \in valid \cup lost /\ wire' = wire
    BY <1>3 DEF CommitRotation, RotationFails, At, server, TokensLive
  <2>2. lost \subseteq lost'
    BY <1>3, RotationStores
  <2>3. Exists' => account'.creds.refresh \in valid \cup lost' \cup restored
    <3>1. CASE Holds(flow[ch].original) /\ account'.creds = flow[ch].target
      BY <2>1, <2>2, <3>1
    <3>2. CASE account' = account /\ ~Holds(flow[ch].original)
      BY <1>2, <2>2, <3>2 DEF TokensLive, Exists
    <3>3. CASE account' = account /\ lost' = lost \cup {flow[ch].original.refresh}
      BY <1>2, <3>3 DEF TokensLive, Holds, Exists
    <3> QED BY <1>3, <3>1, <3>2, <3>3, RotationStores
  <2> QED BY <1>0, <1>1, <2>1, <2>2, <2>3 DEF TokensLive
<1>4. CASE ~(CommitRotation(ch) \/ RotationFails(ch))
  <2>1. ~Answered
    BY <1>2, <1>4 DEF FlowStep, Prepare, PrepareFails, Send, Timeout, Quota, CommitQuota, DropQuota,
                      At
  <2>2. Exists' => Exists /\ account'.creds = account.creds
    BY <1>4, FlowStores
  <2>3. /\ lost \subseteq lost'
        /\ \A request \in wire' :
              request.from = NoChannel => request \in wire \/ request.token \in lost'
    <3>1. CASE Timeout(ch)
      BY <3>1 DEF Timeout, Assumptions
    <3>2. CASE Send(ch)
      BY <3>2 DEF Send, ghosts, Assumptions
    <3>3. CASE Prepare(ch) \/ PrepareFails(ch) \/ Quota(ch) \/ CommitQuota(ch) \/ DropQuota(ch)
      BY <3>3 DEF Prepare, PrepareFails, Quota, CommitQuota, DropQuota, server, ghosts
    <3> QED BY <1>4, <3>1, <3>2, <3>3 DEF FlowStep
  <2> QED BY <1>0, <1>1, <2>1, <2>2, <2>3, LiveLocal
<1> QED BY <1>3, <1>4

\* The server replaces the token of the one flow that waits, whose answer is then
\* in its hands, or one nobody waits for, which was lost before.
LEMMA LiveServer ==
    ASSUME Assumptions, TypeInv, Links, OneFlight, RotationsKept, TokensLive, Server
    PROVE  TokensLive'
<1> USE DEF TypeInv, DataType
<1>0. /\ UNCHANGED <<account, lost, restored, phase>> /\ wire' \subseteq wire
  BY DEF Server, ServerRotates, ServerRejects, ghosts, flightVars
<1>1. ASSUME NEW request \in wire, NEW refresh \in Pairs, ServerRotates(request, refresh)
      PROVE  TokensLive'
  <2>1. valid' = (valid \ {request.token}) \cup {refresh}
    BY <1>1 DEF ServerRotates
  <2>2. CASE request.from = NoChannel
    <3>1. flow' = flow /\ request.token \in lost
      BY <1>1, <2>2 DEF ServerRotates, Deliver, TokensLive
    <3>2. Answered' = Answered
      BY <1>0, <3>1 DEF Answered, At, Holds, Exists
    <3> QED BY <1>0, <2>1, <3>1, <3>2 DEF TokensLive, Exists
  <2>3. CASE request.from # NoChannel
    <3> DEFINE sender == request.from
    <3>1. /\ sender \in Channels /\ flow[sender] \in Flows
          /\ flow[sender].step = "waiting" /\ flow[sender].original.refresh = request.token
      BY <2>3 DEF Links, RequestsAwaited
    <3>2. flow' = [flow EXCEPT ![sender] = [flow[sender] EXCEPT !.step = "received",
              !.seen = issued + 1,
              !.target = [access |-> issued + 1, refresh |-> refresh, expiry |-> AsReceived]]]
      BY <1>1, <2>3 DEF ServerRotates, Deliver
    <3> HIDE DEF sender
    <3>3. /\ flow'[sender].step = "received" /\ flow'[sender].original = flow[sender].original
          /\ flow'[sender].target.refresh = refresh
      BY <3>1, <3>2 DEF Flows
    <3>4. phase[sender] = "working"
      BY <3>1 DEF Links, FlowWorks
    <3>5. \A c2 \in Channels \ {sender} : phase[c2] # "working" /\ flow'[c2].step = "none"
      <4>1. \A c2 \in Channels \ {sender} : phase[c2] # "working"
        BY <3>1, <3>4 DEF OneFlight
      <4> QED BY <3>1, <3>2, <4>1 DEF Links, FlowWorks
    <3>6. ~Answered
      BY <3>1, <3>5 DEF Answered, At
    <3>7. Exists => account.creds.refresh \in valid' \cup lost \cup restored \/ Answered'
      <4> SUFFICES ASSUME Exists, account.creds.refresh \notin valid' \cup lost \cup restored
                   PROVE  Answered'
        OBVIOUS
      <4>1. account.creds.refresh = request.token
        BY <2>1, <3>6 DEF TokensLive
      <4>2. Holds(flow[sender].original)
        BY <3>1, <4>1 DEF RotationsKept, FlowKept
      <4> QED BY <1>0, <3>1, <3>3, <3>4, <4>2 DEF Answered, At, Holds, Exists
    <3> QED BY <1>0, <2>1, <3>1, <3>3, <3>5, <3>7 DEF TokensLive, Exists
  <2> QED BY <2>2, <2>3
<1>2. ASSUME NEW request \in wire, ServerRejects(request) PROVE TokensLive'
  <2>1. ASSUME NEW ch \in Channels, flow'[ch] # flow[ch]
        PROVE  flow'[ch].step = "quota" /\ flow[ch].step = "waiting"
    <3>1. request.from = ch /\ flow[ch] \in Flows /\ request.from # NoChannel
      BY <1>2, <2>1 DEF ServerRejects, Deliver
    <3>2. flow'[ch] = [flow[ch] EXCEPT !.step = "quota", !.rejected = TRUE]
      BY <1>2, <2>1, <3>1 DEF ServerRejects, Deliver
    <3> QED BY <3>1, <3>2 DEF Flows, Links, RequestsAwaited
  <2>2. Answered => Answered'
    BY <1>0, <2>1 DEF Answered, At, Holds, Exists
  <2>3. valid' = valid
    BY <1>2 DEF ServerRejects
  <2>4. \A ch \in Channels : flow'[ch].step = "received" => flow'[ch] = flow[ch]
    BY <2>1
  <2> QED BY <1>0, <2>2, <2>3, <2>4, LiveLocal DEF Exists
<1> QED BY <1>1, <1>2 DEF Server

LEMMA LiveWriters ==
    ASSUME Assumptions, TypeInv, "tokenOnly" \notin Events, TokensLive, Writers
    PROVE  TokensLive'
<1>0. /\ UNCHANGED <<flow, wire, lost, phase>>
      /\ valid \subseteq valid' /\ restored \subseteq restored'
  BY WritersStore
  DEF Writers, Login, AddToken, Export, Import, ImportMerge, UpdateTags, Remove, server, ghosts,
      flightVars
<1>1. CASE ~Exists'
  BY <1>0, <1>1, LiveLocal
<1>2. CASE account' = account \/ (Exists /\ account'.creds = account.creds)
  <2>1. Exists' /\ Answered => Answered'
    BY <1>0, <1>2 DEF Answered, At, Holds, Exists
  <2>2. Exists' => Exists /\ account'.creds = account.creds
    BY <1>2 DEF Exists
  <2> QED BY <1>0, <2>1, <2>2, LiveLocal
<1>3. CASE account'.creds.refresh \in restored'
  BY <1>0, <1>3, LiveLocal
<1>4. CASE account'.creds.refresh \in valid'
  BY <1>0, <1>4 DEF TokensLive
<1> QED BY <1>1, <1>2, <1>3, <1>4, WritersStore

LEMMA LiveTask ==
    ASSUME Assumptions, TypeInv, Links, TokensLive,
           \/ Request \/ Crash \/ UNCHANGED vars
           \/ \E ch \in Channels : Return(ch) \/ PanicIn(ch) \/ EndTask(ch)
    PROVE  TokensLive'
<1> USE DEF TypeInv, DataType
<1>0. NoFlow.step = "none" /\ Start.step = "prepare"
  BY DEF NoFlow, Start
<1>1. /\ UNCHANGED <<account, valid, restored>>
      /\ \A ch \in Channels : flow'[ch] \in {flow[ch], Start, NoFlow}
  BY DEF Request, Crash, Return, PanicIn, EndTask, vars, server, ghosts
<1>2. \A ch \in Channels : flow'[ch].step = "received" => flow'[ch] = flow[ch]
  BY <1>0, <1>1
\* The flows and requests of the channels that end.
<1>a. ASSUME NEW channels \in SUBSET Channels, wire' = Orphaned(channels),
             lost' = lost \cup InHand(channels),
             \A ch \in Channels \ channels : flow'[ch] = flow[ch] /\ phase'[ch] = phase[ch]
      PROVE  TokensLive'
  <2>1. ASSUME NEW ch \in channels, flow[ch].step \in {"waiting", "received"}
        PROVE  flow[ch].original.refresh \in lost'
    BY <1>a, <2>1 DEF InHand
  <2>2. Exists /\ Answered => Answered' \/ account.creds.refresh \in lost'
    <3> SUFFICES ASSUME Exists, NEW ch \in Channels, At(ch, "received"), Holds(flow[ch].original)
                 PROVE  Answered' \/ account.creds.refresh \in lost'
      BY DEF Answered
    <3>1. CASE ch \in channels
      BY <2>1, <3>1 DEF At, Holds
    <3>2. CASE ch \notin channels
      BY <1>1, <1>a, <3>2 DEF Answered, At, Holds, Exists
    <3> QED BY <3>1, <3>2
  <2>3. ASSUME NEW request \in wire', request.from = NoChannel
        PROVE  request \in wire \/ request.token \in lost'
    <3>1. PICK r \in wire :
              request = [r EXCEPT !.from = IF @ \in channels THEN NoChannel ELSE @]
      BY <1>a DEF Orphaned
    <3>2. r \in [token : Pairs, from : Channels \cup {NoChannel}]
      OBVIOUS
    <3>3. request.token = r.token
      BY <3>1, <3>2
    <3>4. CASE r.from \in channels
      <4>1. flow[r.from].step = "waiting" /\ flow[r.from].original.refresh = r.token
        BY <3>4 DEF Links, RequestsAwaited, Assumptions
      <4> QED BY <2>1, <3>3, <3>4, <4>1
    <3>5. CASE r.from \notin channels
      <4>1. request = r
        BY <3>1, <3>2, <3>5
      <4> QED BY <4>1
    <3> QED BY <3>4, <3>5
  <2> QED BY <1>1, <1>2, <1>a, <2>2, <2>3, LiveLocal DEF Exists
\* Every other step starts or ends a flow that has nothing in hand.
<1>b. ASSUME UNCHANGED <<wire, lost>>,
             \A ch \in Channels : At(ch, "received") =>
                 flow'[ch] = flow[ch] /\ phase'[ch] = phase[ch]
      PROVE  TokensLive'
  <2>1. Answered => Answered'
    BY <1>1, <1>b DEF Answered, At, Holds, Exists
  <2> QED BY <1>1, <1>2, <1>b, <2>1, LiveLocal DEF Exists
<1>3. CASE Request
  <2>1. ASSUME NEW ch \in Channels, phase[ch] = "working" PROVE phase'[ch] = "working"
    <3>1. ASSUME NEW c \in Callers, Flight!Run(c, Id) PROVE phase'[ch] = "working"
      BY <2>1, <3>1 DEF Flight!Run, Flight!Unheld, Links, PhaseType
    <3>2. ASSUME NEW c \in Callers, Flight!Look(c) \/ Flight!Wake(c) \/ Flight!Cancel(c)
          PROVE  phase'[ch] = "working"
      BY <2>1, <3>2 DEF Flight!Look, Flight!Wake, Flight!Cancel
    <3> QED BY <1>3, <3>1, <3>2 DEF Request, Flight!Call
  <2>2. \A ch \in Channels : phase[ch] = "working" => flow'[ch] = flow[ch]
    BY <1>3 DEF Request
  <2> QED BY <1>3, <1>b, <2>1, <2>2 DEF Request, At, server, ghosts
<1>4. CASE Crash
  BY <1>4, <1>a DEF Crash
<1>5. CASE UNCHANGED vars
  BY <1>5, <1>b DEF vars, flightVars, server, ghosts
<1>6. ASSUME NEW ch \in Channels, Return(ch) PROVE TokensLive'
  <2>1. flow[ch].step = "done" /\ \A c2 \in Channels \ {ch} : flow'[c2] = flow[c2] /\ phase'[c2] = phase[c2]
    BY <1>6 DEF Return, Flight!Publish, Links, PhaseType
  <2> QED BY <1>6, <1>b, <2>1 DEF Return, At, server, ghosts
<1>7. ASSUME NEW ch \in Channels, PanicIn(ch) PROVE TokensLive'
  <2>1. \A c2 \in Channels \ {ch} : flow'[c2] = flow[c2] /\ phase'[c2] = phase[c2]
    BY <1>7 DEF PanicIn, Flight!Panic, Links, PhaseType
  <2> QED BY <1>7, <1>a, <2>1 DEF PanicIn
<1>8. ASSUME NEW ch \in Channels, EndTask(ch) PROVE TokensLive'
  <2>1. /\ flow' = flow /\ phase[ch] # "working"
        /\ \A c2 \in Channels \ {ch} : phase'[c2] = phase[c2]
    BY <1>8 DEF EndTask, Flight!RemoveFlight, Flight!DropSender, Links, PhaseType
  <2> QED BY <1>8, <1>b, <2>1 DEF EndTask, At, server, ghosts
<1> QED BY <1>3, <1>4, <1>5, <1>6, <1>7, <1>8

-----------------------------------------------------------------------------
(* The theorems.                                                           *)

TInv ==
    /\ IInv /\ OneFlight /\ TokensIssued /\ PairsFresh /\ RejectionsTrue /\ BackupsArchived
    /\ "tokenOnly" \notin Events => RotationsKept /\ TokensLive

LEMMA TInvInit == Init => TInv
BY AssumptionsHold, IInvInit, OneFlightInit, TokensInit, FreshInit, RejectionsInit, RotationsInit,
   LiveInit DEF TInv, Init, BackupsArchived

LEMMA TInvStep == TInv /\ [Next]_vars => TInv'
<1> SUFFICES ASSUME TInv, [Next]_vars PROVE TInv'
  OBVIOUS
<1> USE AssumptionsHold
<1>1. IInv' /\ TypeInv /\ Links
  BY IInvStep DEF TInv, IInv
<1>2. OneFlight'
  BY <1>1, OneFlightStep DEF TInv, Links
<1>3. ASSUME NEW ch \in Channels, FlowStep(ch) PROVE TInv'
  BY <1>1, <1>2, <1>3, TokensFlow, FreshFlow, RejectionsFlow, BackupsFlow, RotationsFlow,
     LiveFlow
  DEF TInv, Links
<1>4. CASE Server
  BY <1>1, <1>2, <1>4, TokensServer, FreshServer, RejectionsServer, BackupsServer,
     RotationsServer, LiveServer
  DEF TInv, Links
<1>5. CASE Writers
  BY <1>1, <1>2, <1>5, TokensWriters, FreshWriters, RejectionsWriters, BackupsWriters,
     RotationsWriters, LiveWriters
  DEF TInv
<1>6. CASE \/ Request \/ Crash \/ UNCHANGED vars
           \/ \E ch \in Channels : Return(ch) \/ PanicIn(ch) \/ EndTask(ch)
  BY <1>1, <1>2, <1>6, TokensTask, FreshTask, RejectionsTask, BackupsTask, RotationsTask,
     LiveTask
  DEF TInv
<1> QED BY <1>3, <1>4, <1>5, <1>6 DEF Next

LEMMA TokenInvariance == Spec => []TInv
BY TInvInit, TInvStep, PTL DEF Spec

\* A one-use token is in at most one request that somebody waits for, however
\* many windows ask for a refresh and whatever panics or crashes.
THEOREM OneRotationCorrect == Spec => []OneRotation
<1>1. TInv => OneRotation
  BY DEF TInv, OneFlight, OneRotation, At
<1> QED BY <1>1, TokenInvariance, PTL

\* The marker that stops refreshes is about a token the server really refuses,
\* whichever logins, imports of marked records and late rejections happen.
THEOREM RejectedCorrect == Spec => []RejectedTokenIsDead
<1>1. TInv => RejectedTokenIsDead
  BY DEF TInv, RejectionsTrue, RecordTrue, RejectedTokenIsDead, Exists
<1> QED BY <1>1, TokenInvariance, PTL

\* While no account is removed, what was exported is what is stored or is refused
\* under its fingerprint, whatever the saves that fail, as long as the history
\* reaches back to it.
THEOREM OldBackupCorrect == Spec => []OldBackupRefused
<1>1. TInv => OldBackupRefused
  BY DEF TInv, BackupsArchived, OldBackupRefused, Accepts, Holds
<1> QED BY <1>1, TokenInvariance, PTL

\* Unless an import puts it back, a refresh token whose next pair was received
\* never comes back to the account, for any number of rotations and logins, with
\* failed saves, crashes and removals.
THEOREM RotationKeptCorrect == Spec => []RotationKept
<1>1. TInv => RotationKept
  BY DEF TInv, RotationsKept, RotationKept
<1> QED BY <1>1, TokenInvariance, PTL

\* If an expiry that is computed anew is what it was, no import puts a token back.
Untouched ==
    /\ restored = {}
    /\ Exists => account.creds.refresh \in Pairs
    /\ \A backup \in backups : backup.creds.refresh \in Pairs

LEMMA UntouchedWriters ==
    ASSUME Assumptions, TypeInv, BackupsArchived, Untouched, Writers,
           Expiries = {AsReceived}, "remove" \notin Events, "tokenOnly" \notin Events
    PROVE  Untouched'
<1> USE DEF TypeInv, DataType
<1>1. \A c1, c2 \in Creds : SameTokens(c1, c2) => c1 = c2
  BY DEF SameTokens, Creds
<1>2. CASE Login
  <2>1. account'.creds.refresh \in Pairs
    BY <1>2 DEF Login, Supersede, Pair, Exists, Accounts, Pairs, Assumptions
  <2> QED BY <1>2, <2>1 DEF Login, imports, ghosts, Untouched
<1>3. ASSUME NEW backup \in backups, Import(backup) PROVE Untouched'
  <2>1. PICK imported \in Creds :
          /\ imported.access = backup.creds.access
          /\ imported.refresh = Kept(backup.creds.refresh)
          /\ Accepts(imported) /\ Supersede(imported, backup.seen) /\ Restores(imported)
    BY <1>3, ImportedCreds
  <2>2. imported = backup.creds
    <3>1. backup.creds \in Creds /\ backup.creds.refresh \in Pairs
      BY DEF Untouched, Accounts
    <3> QED BY <1>1, <2>1, <3>1 DEF Kept, SameTokens, Assumptions
  <2>3. Holds(imported)
    BY <2>1, <2>2 DEF Accepts, BackupsArchived
  <2>4. account'.creds = account.creds
    BY <2>1, <2>3 DEF Supersede, Holds, Exists, Accounts
  <2> QED BY <1>3, <2>1, <2>3, <2>4 DEF Import, Restores, Holds, Untouched
<1>4. CASE ImportMerge
  <2>1. CASE UNCHANGED <<account, archived, restored>>
    BY <1>4, <2>1 DEF ImportMerge, Untouched, Exists
  <2>2. CASE ~UNCHANGED <<account, archived, restored>>
    <3>1. PICK creds \in Creds : MergesInto(creds)
      BY <1>4, <2>2, MergedCreds
    <3>2. account \in Accounts /\ account.creds \in Creds /\ account'.creds = creds
      BY <3>1 DEF MergesInto, Exists, Accounts
    <3>3. Holds(creds)
      BY <1>1, <3>1, <3>2 DEF MergesInto, Holds
    <3> QED BY <1>4, <3>1, <3>2, <3>3 DEF ImportMerge, MergesInto, Restores, Holds, Untouched
  <2> QED BY <2>1, <2>2
<1>5. CASE \E tags \in SUBSET Tags : UpdateTags(tags)
  BY <1>5 DEF UpdateTags, imports, ghosts, Exists, Accounts, Untouched
<1>6. CASE Export
  BY <1>6 DEF Export, ghosts, Exists, Untouched
<1> QED BY <1>2, <1>3, <1>4, <1>5, <1>6 DEF Writers, AddToken, Remove

LEMMA UntouchedStep ==
    ASSUME Expiries = {AsReceived}, "remove" \notin Events, "tokenOnly" \notin Events,
           TInv, Untouched, [Next]_vars
    PROVE  Untouched'
<1> USE AssumptionsHold DEF TInv, IInv
<1>1. ASSUME NEW ch \in Channels, FlowStep(ch) PROVE Untouched'
  <2>1. restored' = restored /\ backups' = backups
    BY <1>1, FlowFrame DEF Links
  <2>2. CASE CommitRotation(ch) \/ RotationFails(ch)
    <3>1. flow[ch].target.refresh \in Pairs
      BY <2>2 DEF CommitRotation, RotationFails, At, TypeInv, FlowShape
    <3> QED BY <2>1, <2>2, <3>1, RotationStores DEF Untouched, Exists
  <2>3. CASE ~(CommitRotation(ch) \/ RotationFails(ch))
    BY <1>1, <2>1, <2>3, FlowStores DEF Untouched
  <2> QED BY <2>2, <2>3
<1>2. CASE Writers
  BY <1>2, UntouchedWriters
<1>3. CASE Server \/ Request \/ Crash \/ UNCHANGED vars
  BY <1>3 DEF Server, ServerRotates, ServerRejects, Request, Crash, vars, imports, ghosts, Untouched,
              Exists
<1>4. ASSUME NEW ch \in Channels, Return(ch) \/ PanicIn(ch) \/ EndTask(ch) PROVE Untouched'
  BY <1>4 DEF Return, PanicIn, EndTask, imports, ghosts, Untouched, Exists
<1> QED BY <1>1, <1>2, <1>3, <1>4 DEF Next

\* Where an expiry that is computed anew is what it was, an import puts nothing
\* back either: while no account is removed and the history reaches back to the
\* backups, a refresh token whose next pair was received never comes back.
THEOREM RotationKeptByImports ==
    ASSUME Expiries = {AsReceived}, "remove" \notin Events, "tokenOnly" \notin Events
    PROVE  Spec => []~SpentTokenStored
<1>1. Init => Untouched
  BY AssumptionsHold DEF Init, Untouched, Pair, Pairs, Assumptions
<1>2. TInv /\ Untouched /\ [Next]_vars => Untouched'
  BY UntouchedStep
<1>3. TInv /\ Untouched => ~SpentTokenStored
  BY DEF TInv, RotationsKept, Untouched
<1> QED BY <1>1, <1>2, <1>3, TokenInvariance, PTL DEF Spec

\* The account holds a token the server refuses only if its answer was lost to a
\* timeout, a panic, a crash or a failed save, if an import put it back, or if the
\* answer is still on its way to the store, which accepts it: for any number of
\* flows, rotations, logins and edits.
THEOREM TokenLivesCorrect == Spec => []TokenLives
<1>1. TInv => TokenLives
  BY DEF TInv, TokensLive, TokenLives, Unrefreshable
<1> QED BY <1>1, TokenInvariance, PTL
=============================================================================
