------------------------ MODULE AccountRefresh_proofs ------------------------
(***************************************************************************)
(* Proofs about AccountRefresh for any number of callers, tasks, pairs and *)
(* tags, and any combination of events.                                    *)
(*                                                                         *)
(* TypeInv is inductive.  StatusIsOwn becomes so with StatusInv: a backup, *)
(* and a flow that has a status to store, carry the status of the access   *)
(* token they carry.                                                       *)
(***************************************************************************)
EXTENDS AccountRefresh, TLAPS

Assumptions ==
    /\ MaxPairs \in Nat \ {0}
    /\ NoAccount \notin Accounts
    /\ NoCreds \notin Creds
    /\ NoToken \notin Pairs
    /\ NoChannel \notin Channels
    /\ AsReceived \in Expiries

LEMMA AssumptionsHold == Assumptions
BY MaxPairsAssumption, DistinctAssumption, ExpiriesAssumption DEF Assumptions

Flows == [step : FlowSteps, original : Creds \cup {NoCreds},
          target : Creds \cup {NoCreds}, seen : Pairs \cup {NoToken},
          rejected : BOOLEAN]

\* A flow exists exactly while its task works.
PhaseType == phase \in [Channels -> Flight!Phases]

FlowWorks == \A ch \in Channels : phase[ch] = "working" <=> flow[ch].step # "none"

\* A request somebody waits for carries the token its flow waits with.
RequestsAwaited ==
    \A request \in wire : request.from # NoChannel =>
        /\ flow[request.from].step = "waiting"
        /\ flow[request.from].original.refresh = request.token

\* The data of TypeOK: everything but the link between flows and tasks.
DataType ==
    /\ account \in Accounts \cup {NoAccount}
    /\ archived \subseteq Creds
    /\ flow \in [Channels -> Flows]
    /\ wire \subseteq [token : Pairs, from : Channels \cup {NoChannel}]
    /\ valid \subseteq Pairs
    /\ issued \in Pairs
    /\ backups \subseteq Accounts
    /\ merging \in Merges \cup {NoAccount}
    /\ spent \subseteq Pairs
    /\ lost \subseteq Pairs
    /\ restored \subseteq Pairs \cup {NoToken}

TypeInv == DataType /\ FlowShape

LEMMA TypeInit == ASSUME Assumptions PROVE Init => TypeInv
<1> SUFFICES ASSUME Init PROVE TypeInv
  OBVIOUS
<1>1. 1 \in Pairs
  BY DEF Assumptions, Pairs
<1>2. Pair(1) \in Creds
  BY <1>1 DEF Pair, Creds, Assumptions
<1>3. account \in Accounts
  BY <1>1, <1>2 DEF Init, Accounts
<1>4. flow \in [Channels -> Flows]
  BY DEF Init, NoFlow, Flows, FlowSteps
<1>5. FlowShape
  BY DEF Init, NoFlow, FlowShape
<1> QED BY <1>1, <1>3, <1>4, <1>5 DEF Init, TypeInv, DataType

\* Storing new credentials keeps the record well formed.
LEMMA SupersedeType ==
    ASSUME account \in Accounts \cup {NoAccount}, NEW creds \in Creds, NEW seen \in Pairs,
           Supersede(creds, seen)
    PROVE  account' \in Accounts
<1>1. CASE Exists
  <2>1. account \in Accounts
    BY <1>1 DEF Exists
  <2>2. (account.rejected /\ SameTokens(account.creds, creds)) \in BOOLEAN
    BY DEF SameTokens
  <2> QED BY <1>1, <2>1, <2>2 DEF Supersede, Accounts
<1>2. CASE ~Exists
  BY <1>2 DEF Supersede, Accounts
<1> QED BY <1>1, <1>2

LEMMA ArchivesType ==
    ASSUME archived \subseteq Creds, account \in Accounts \cup {NoAccount},
           NEW creds \in Creds, Archives(creds)
    PROVE  archived' \subseteq Creds
<1>1. Exists => account.creds \in Creds
  BY DEF Exists, Accounts
<1> QED BY <1>1 DEF Archives

LEMMA FlowType ==
    ASSUME Assumptions, TypeInv, NEW ch \in Channels, FlowStep(ch)
    PROVE  TypeInv'
<1> USE DEF TypeInv, DataType
<1>0. flow[ch] \in Flows
  OBVIOUS
<1>1. CASE Prepare(ch)
  <2>1. CASE Exists
    <3>1. account.creds \in Creds /\ account.rejected \in BOOLEAN /\ account.seen \in Pairs
      BY <2>1 DEF Exists, Accounts
    <3>2. flow' = [flow EXCEPT ![ch] = [step |-> "send", original |-> account.creds,
                                        target |-> account.creds, seen |-> account.seen,
                                        rejected |-> account.rejected]]
      BY <1>1, <2>1 DEF Prepare
    <3>3. flow' \in [Channels -> Flows]
      BY <3>1, <3>2 DEF Flows, FlowSteps
    <3>4. FlowShape'
      BY <3>1, <3>2 DEF FlowShape
    <3> QED BY <1>1, <2>1, <3>1, <3>3, <3>4 DEF Prepare, server, imports, ghosts
  <2>2. CASE ~Exists
    BY <1>0, <1>1, <2>2 DEF Prepare, Goto, server, imports, ghosts, Flows, FlowSteps, FlowShape
  <2> QED BY <2>1, <2>2
<1>2. CASE Send(ch)
  <2>1. flow[ch].original \in Creds
    BY <1>2 DEF Send, At, FlowShape
  <2>2. CASE flow[ch].rejected \/ flow[ch].original.refresh = NoToken
    BY <1>0, <1>2, <2>2 DEF Send, At, Goto, imports, ghosts, Flows, FlowSteps, FlowShape
  <2>3. CASE ~(flow[ch].rejected \/ flow[ch].original.refresh = NoToken)
    <3>1. flow[ch].original.refresh \in Pairs
      BY <2>1, <2>3 DEF Creds
    <3>2. wire' \subseteq [token : Pairs, from : Channels \cup {NoChannel}]
      BY <1>2, <2>3, <3>1 DEF Send
    <3>3. flow' \in [Channels -> Flows] /\ FlowShape'
      BY <1>0, <1>2, <2>3, <3>1 DEF Send, At, Goto, Flows, FlowSteps, FlowShape
    <3> QED BY <1>2, <3>2, <3>3 DEF Send, imports, ghosts
  <2> QED BY <2>2, <2>3
<1>3. CASE Timeout(ch)
  <2>1. wire' \subseteq [token : Pairs, from : Channels \cup {NoChannel}]
    BY <1>3 DEF Timeout, At, FlowShape
  <2>2. flow' \in [Channels -> Flows] /\ FlowShape'
    BY <1>0, <1>3 DEF Timeout, At, Goto, Flows, FlowSteps, FlowShape
  <2>3. flow[ch].original.refresh \in Pairs
    BY <1>3 DEF Timeout, At, FlowShape
  <2> QED BY <1>3, <2>1, <2>2, <2>3 DEF Timeout, imports
<1>4. CASE CommitRotation(ch) \/ RotationFails(ch)
  <2>1. /\ flow[ch].original \in Creds /\ flow[ch].target \in Creds /\ flow[ch].seen \in Pairs
        /\ flow[ch].original.refresh \in Pairs
    BY <1>4 DEF CommitRotation, RotationFails, At, FlowShape
  <2>2. flow' \in [Channels -> Flows] /\ FlowShape'
    BY <1>0, <1>4 DEF CommitRotation, RotationFails, At, Goto, Flows, FlowSteps, FlowShape
  <2>3. archived' \subseteq Creds
    BY <1>4, <2>1 DEF CommitRotation, RotationFails
  <2>4. account' \in Accounts \cup {NoAccount}
    <3>1. Holds(flow[ch].original) => Rotated(ch) \in Accounts
      BY <2>1 DEF Rotated, Holds, Exists, Accounts
    <3> QED BY <1>4, <3>1 DEF CommitRotation, RotationFails
  <2>5. spent' \subseteq Pairs /\ lost' \subseteq Pairs
    BY <1>4, <2>1 DEF CommitRotation, RotationFails, Spends
  <2> QED BY <1>4, <2>2, <2>3, <2>4, <2>5 DEF CommitRotation, RotationFails, server, imports
<1>5. CASE Quota(ch)
  <2>1. flow[ch].target \in Creds /\ flow[ch].seen \in Pairs
    BY <1>5 DEF Quota, At, FlowShape
  <2>2. PICK seen \in Pairs :
          flow' = [flow EXCEPT ![ch] = [flow[ch] EXCEPT !.step = "quotaDone", !.seen = seen]]
    BY <1>0, <1>5, <2>1 DEF Quota, Creds, Flows
  <2>3. flow' \in [Channels -> Flows] /\ FlowShape'
    BY <1>0, <1>5, <2>2 DEF Quota, At, Flows, FlowSteps, FlowShape
  <2> QED BY <1>5, <2>3 DEF Quota, server, imports, ghosts
<1>6. CASE CommitQuota(ch)
  <2>1. flow' \in [Channels -> Flows] /\ FlowShape'
    BY <1>0, <1>6 DEF CommitQuota, At, Goto, Flows, FlowSteps, FlowShape
  <2>2. account' \in Accounts \cup {NoAccount}
    <3>1. flow[ch].target \in Creds /\ flow[ch].rejected \in BOOLEAN /\ flow[ch].seen \in Pairs
      BY <1>0, <1>6 DEF CommitQuota, At, FlowShape, Flows
    <3> QED BY <1>6, <3>1 DEF CommitQuota, Holds, Exists, Accounts
  <2> QED BY <1>6, <2>1, <2>2 DEF CommitQuota, server, imports, ghosts
<1>7. CASE PrepareFails(ch) \/ DropQuota(ch)
  <2>1. flow' \in [Channels -> Flows] /\ FlowShape'
    BY <1>0, <1>7 DEF PrepareFails, DropQuota, At, Goto, Flows, FlowSteps, FlowShape
  <2>2. archived' \subseteq Creds
    BY <1>7 DEF PrepareFails, DropQuota, Exists, Accounts
  <2> QED BY <1>7, <2>1, <2>2 DEF PrepareFails, DropQuota, server, imports, ghosts
<1> QED BY <1>1, <1>2, <1>3, <1>4, <1>5, <1>6, <1>7 DEF FlowStep

\* Rewriting who waits for a request keeps requests well formed.
LEMMA OrphanedType ==
    ASSUME wire \subseteq [token : Pairs, from : Channels \cup {NoChannel}],
           NEW channels \in SUBSET Channels
    PROVE  /\ Orphaned(channels) \subseteq [token : Pairs, from : Channels \cup {NoChannel}]
           /\ \A r2 \in Orphaned(channels) : r2.from # NoChannel =>
                  r2 \in wire /\ r2.from \notin channels
<1> SUFFICES ASSUME NEW request \in wire
             PROVE  LET r2 == [request EXCEPT !.from = IF @ \in channels THEN NoChannel ELSE @]
                    IN  /\ r2 \in [token : Pairs, from : Channels \cup {NoChannel}]
                        /\ r2.from # NoChannel => r2 \in wire /\ r2.from \notin channels
  BY DEF Orphaned
<1>1. request \in [token : Pairs, from : Channels \cup {NoChannel}]
  OBVIOUS
<1>2. CASE request.from \in channels
  BY <1>1, <1>2
<1>3. CASE request.from \notin channels
  <2>1. [request EXCEPT !.from = IF @ \in channels THEN NoChannel ELSE @] = request
    BY <1>1, <1>3
  <2> QED BY <1>1, <1>3, <2>1
<1> QED BY <1>2, <1>3

LEMMA ServerType ==
    ASSUME Assumptions, TypeInv, RequestsAwaited, Server
    PROVE  TypeInv'
<1> USE DEF TypeInv, DataType
<1>1. ASSUME NEW request \in wire, NEW refresh \in Pairs, ServerRotates(request, refresh)
      PROVE  TypeInv'
  <2>1. issued + 1 \in Pairs /\ issued' = issued + 1
    BY <1>1 DEF ServerRotates, Pairs, Assumptions
  <2> DEFINE target == [access |-> issued + 1, refresh |-> refresh, expiry |-> AsReceived]
  <2>2. target \in Creds /\ target.refresh \in Pairs
    BY <2>1 DEF Creds, Assumptions
  <2>3. CASE request.from = NoChannel
    BY <1>1, <2>1, <2>3 DEF ServerRotates, Deliver, imports, ghosts, FlowShape
  <2>4. CASE request.from # NoChannel
    <3> DEFINE ch == request.from
    <3>1. ch \in Channels /\ flow[ch] \in Flows /\ flow[ch].step = "waiting"
          /\ flow[ch].original \in Creds /\ flow[ch].original.refresh \in Pairs
      BY <2>4 DEF RequestsAwaited, FlowShape
    <3>2. flow' = [flow EXCEPT ![ch] = [flow[ch] EXCEPT !.step = "received",
                      !.seen = issued + 1, !.target = target]]
      BY <1>1, <2>4 DEF ServerRotates, Deliver
    <3> HIDE DEF ch, target
    <3>3. flow' \in [Channels -> Flows]
      BY <2>1, <2>2, <3>1, <3>2 DEF Flows, FlowSteps
    <3>4. FlowShape'
      BY <2>1, <2>2, <3>1, <3>2 DEF FlowShape, Flows
    <3> QED BY <1>1, <2>1, <3>3, <3>4 DEF ServerRotates, imports, ghosts
  <2> QED BY <2>3, <2>4
<1>2. ASSUME NEW request \in wire, ServerRejects(request) PROVE TypeInv'
  <2>3. CASE request.from = NoChannel
    BY <1>2, <2>3 DEF ServerRejects, Deliver, imports, ghosts, FlowShape
  <2>4. CASE request.from # NoChannel
    <3> DEFINE ch == request.from
    <3>1. ch \in Channels /\ flow[ch] \in Flows /\ flow[ch].step = "waiting"
      BY <2>4 DEF RequestsAwaited
    <3>2. flow' = [flow EXCEPT ![ch] = [flow[ch] EXCEPT !.step = "quota", !.rejected = TRUE]]
      BY <1>2, <2>4 DEF ServerRejects, Deliver
    <3> HIDE DEF ch
    <3>3. flow' \in [Channels -> Flows]
      BY <3>1, <3>2 DEF Flows, FlowSteps
    <3>4. FlowShape'
      BY <3>1, <3>2 DEF FlowShape, Flows
    <3> QED BY <1>2, <3>3, <3>4 DEF ServerRejects, imports, ghosts
  <2> QED BY <2>3, <2>4
<1> QED BY <1>1, <1>2 DEF Server

LEMMA KeptType ==
    ASSUME account \in Accounts \cup {NoAccount}, NEW refresh \in Pairs \cup {NoToken}
    PROVE  Kept(refresh) \in Pairs \cup {NoToken}
BY DEF Kept, Exists, Accounts, Creds

\* An import stores credentials that have the backup's access token.
LEMMA ImportedCreds ==
    ASSUME TypeInv, NEW backup \in backups, Import(backup)
    PROVE  \E imported \in Creds :
              /\ imported.access = backup.creds.access
              /\ imported.refresh = Kept(backup.creds.refresh)
              /\ Accepts(imported)
              /\ Supersede(imported, backup.seen) /\ Archives(imported) /\ Restores(imported)
              /\ merging' = [snapshot |-> backup, imported |-> imported]
<1>1. PICK expiry \in Expiries :
        LET imported == [access |-> backup.creds.access, refresh |-> Kept(backup.creds.refresh),
                         expiry |-> expiry]
        IN  /\ Accepts(imported)
            /\ Supersede(imported, backup.seen) /\ Archives(imported) /\ Restores(imported)
            /\ merging' = [snapshot |-> backup, imported |-> imported]
  BY DEF Import
<1> DEFINE imported == [access |-> backup.creds.access, refresh |-> Kept(backup.creds.refresh),
                        expiry |-> expiry]
<1>2. imported \in Creds
  <2>1. backup.creds \in Creds
    BY DEF TypeInv, DataType, Accounts
  <2> QED BY <2>1, KeptType DEF TypeInv, DataType, Creds
<1>3. imported.access = backup.creds.access /\ imported.refresh = Kept(backup.creds.refresh)
  OBVIOUS
<1>4. /\ Accepts(imported)
      /\ Supersede(imported, backup.seen) /\ Archives(imported) /\ Restores(imported)
      /\ merging' = [snapshot |-> backup, imported |-> imported]
  BY <1>1
<1> HIDE DEF imported
<1> QED BY <1>2, <1>3, <1>4

\* What the second half of an import stores: the access and refresh tokens that
\* are stored, and, if they are what was imported, the snapshot's marker.
MergesInto(creds) ==
    /\ Exists /\ Accepts(creds)
    /\ SameTokens(creds, account.creds)
    /\ \/ creds = account.creds
       \/ Holds(merging.imported)
    /\ account' = [account EXCEPT !.creds = creds,
          !.tags = @ \cup merging.snapshot.tags,
          !.rejected = IF Holds(merging.imported) THEN merging.snapshot.rejected ELSE @]
    /\ Archives(creds) /\ Restores(creds)

LEMMA MergedCreds ==
    ASSUME TypeInv, ImportMerge, ~UNCHANGED <<account, archived, restored>>
    PROVE  \E creds \in Creds : MergesInto(creds)
<1> USE DEF TypeInv, DataType
<1>1. merging \in Merges /\ merging.imported \in Creds /\ merging.snapshot.creds \in Creds
  BY DEF ImportMerge, Merges, Accounts
<1>2. PICK expiry \in {merging.snapshot.creds.expiry, merging.imported.expiry} :
        LET unchanged == Holds(merging.imported)
            creds == IF unchanged THEN [merging.imported EXCEPT !.expiry = expiry]
                                  ELSE account.creds
        IN  /\ Exists /\ Accepts(creds)
            /\ account' = [account EXCEPT !.creds = creds,
                  !.tags = @ \cup merging.snapshot.tags,
                  !.rejected = IF unchanged THEN merging.snapshot.rejected ELSE @]
            /\ Archives(creds) /\ Restores(creds)
  BY DEF ImportMerge
<1> DEFINE creds == IF Holds(merging.imported) THEN [merging.imported EXCEPT !.expiry = expiry]
                                               ELSE account.creds
<1>3. account \in Accounts /\ account.creds \in Creds
  BY <1>2 DEF Exists, Accounts
<1>4. expiry \in Expiries
  BY <1>1, <1>2 DEF Creds
<1>5. creds \in Creds
  BY <1>1, <1>3, <1>4 DEF Creds
<1>6. SameTokens(creds, account.creds)
  BY <1>1, <1>3 DEF SameTokens, Holds, Creds
<1>7. creds = account.creds \/ Holds(merging.imported)
  OBVIOUS
<1>8. /\ Exists /\ Accepts(creds)
      /\ account' = [account EXCEPT !.creds = creds,
            !.tags = @ \cup merging.snapshot.tags,
            !.rejected = IF Holds(merging.imported) THEN merging.snapshot.rejected ELSE @]
      /\ Archives(creds) /\ Restores(creds)
  BY <1>2
<1> HIDE DEF creds
<1> QED BY <1>5, <1>6, <1>7, <1>8 DEF MergesInto

LEMMA WritersType ==
    ASSUME Assumptions, TypeInv, Writers
    PROVE  TypeInv'
<1> USE DEF TypeInv, DataType
<1>0. issued < MaxPairs => issued + 1 \in Pairs
  BY DEF Pairs, Assumptions
<1>1. CASE Login
  <2>1. Pair(issued + 1) \in Creds
    BY <1>0, <1>1 DEF Login, Pair, Creds, Assumptions
  <2>2. account' \in Accounts /\ archived' \subseteq Creds
    BY <1>0, <1>1, <2>1, SupersedeType, ArchivesType DEF Login
  <2> QED BY <1>0, <1>1, <2>2 DEF Login, imports, ghosts, FlowShape
<1>2. CASE AddToken
  <2> DEFINE creds == [Pair(issued + 1) EXCEPT !.refresh = Kept(NoToken)]
  <2>1. creds \in Creds
    BY <1>0, <1>2, KeptType DEF AddToken, Pair, Creds, Assumptions
  <2>2. Supersede(creds, issued + 1) /\ Archives(creds)
    BY <1>2 DEF AddToken
  <2> HIDE DEF creds
  <2>3. account' \in Accounts /\ archived' \subseteq Creds
    BY <1>0, <1>2, <2>1, <2>2, SupersedeType, ArchivesType DEF AddToken
  <2> QED BY <1>0, <1>2, <2>3 DEF AddToken, imports, ghosts, FlowShape
<1>3. ASSUME NEW backup \in backups, Import(backup) PROVE TypeInv'
  <2>1. backup \in Accounts /\ backup.creds \in Creds /\ backup.seen \in Pairs
    BY DEF Accounts
  <2>2. PICK imported \in Creds :
          /\ Supersede(imported, backup.seen) /\ Archives(imported) /\ Restores(imported)
          /\ merging' = [snapshot |-> backup, imported |-> imported]
    BY <1>3, <2>1, ImportedCreds
  <2>3. account' \in Accounts /\ archived' \subseteq Creds
    BY <2>1, <2>2, SupersedeType, ArchivesType
  <2>4. merging' \in Merges
    BY <2>1, <2>2 DEF Merges
  <2>5. restored' \subseteq Pairs \cup {NoToken}
    BY <2>2 DEF Restores, Creds
  <2> QED BY <1>3, <2>3, <2>4, <2>5 DEF Import, server, FlowShape
<1>4. CASE ImportMerge
  <2>1. CASE UNCHANGED <<account, archived, restored>>
    BY <1>4, <2>1 DEF ImportMerge, server, FlowShape
  <2>2. CASE ~UNCHANGED <<account, archived, restored>>
    <3>1. PICK creds \in Creds : MergesInto(creds)
      BY <1>4, <2>2, MergedCreds
    <3>2. merging.snapshot.tags \in SUBSET Tags /\ merging.snapshot.rejected \in BOOLEAN
      BY <1>4 DEF ImportMerge, Merges, Accounts
    <3>3. account' \in Accounts
      BY <3>1, <3>2 DEF MergesInto, Exists, Accounts
    <3>4. archived' \subseteq Creds
      BY <3>1, ArchivesType DEF MergesInto
    <3>5. restored' \subseteq Pairs \cup {NoToken}
      BY <3>1 DEF MergesInto, Restores, Creds
    <3> QED BY <1>4, <3>3, <3>4, <3>5 DEF ImportMerge, server, FlowShape
  <2> QED BY <2>1, <2>2
<1>5. CASE \E tags \in SUBSET Tags : UpdateTags(tags)
  <2>1. account' \in Accounts
    BY <1>5 DEF UpdateTags, Exists, Accounts
  <2> QED BY <1>5, <2>1 DEF UpdateTags, server, imports, ghosts, FlowShape
<1>6. CASE Remove \/ Export
  BY <1>6 DEF Remove, Export, Exists, server, imports, ghosts, FlowShape
<1> QED BY <1>1, <1>2, <1>3, <1>4, <1>5, <1>6 DEF Writers

\* What a flow has in hand is a token that was issued.
LEMMA InHandType ==
    ASSUME FlowShape, NEW channels \in SUBSET Channels
    PROVE  InHand(channels) \subseteq Pairs
BY DEF InHand, FlowShape

LEMMA TaskType ==
    ASSUME Assumptions, TypeInv,
           \/ Request \/ Crash \/ UNCHANGED vars
           \/ \E ch \in Channels : Return(ch) \/ PanicIn(ch) \/ EndTask(ch)
    PROVE  TypeInv'
<1> USE DEF TypeInv, DataType
<1>0. NoFlow \in Flows /\ NoFlow.step = "none" /\ Start \in Flows /\ Start.step = "prepare"
  BY DEF NoFlow, Start, Flows, FlowSteps
<1>1. CASE Request
  <2>1. flow' \in [Channels -> Flows] /\ FlowShape'
    BY <1>0, <1>1 DEF Request, FlowShape
  <2> QED BY <1>1, <2>1 DEF Request, server, imports, ghosts
<1>2. CASE Crash
  <2>1. Orphaned(Channels) \subseteq [token : Pairs, from : Channels \cup {NoChannel}]
    BY OrphanedType
  <2>2. flow' \in [Channels -> Flows] /\ FlowShape'
    BY <1>0, <1>2 DEF Crash, FlowShape
  <2>3. lost' \subseteq Pairs
    BY <1>2, InHandType DEF Crash
  <2> QED BY <1>2, <2>1, <2>2, <2>3 DEF Crash
<1>3. CASE UNCHANGED vars
  BY <1>3 DEF vars, server, imports, ghosts, FlowShape
<1>4. ASSUME NEW ch \in Channels, Return(ch) \/ PanicIn(ch) PROVE TypeInv'
  <2>1. Orphaned({ch}) \subseteq [token : Pairs, from : Channels \cup {NoChannel}]
    BY OrphanedType
  <2>2. flow' \in [Channels -> Flows] /\ FlowShape'
    BY <1>0, <1>4 DEF Return, PanicIn, FlowShape
  <2>3. lost' \subseteq Pairs
    BY <1>4, InHandType DEF Return, PanicIn, ghosts
  <2> QED BY <1>4, <2>1, <2>2, <2>3 DEF Return, PanicIn, server, imports, ghosts
<1>5. ASSUME NEW ch \in Channels, EndTask(ch) PROVE TypeInv'
  BY <1>5 DEF EndTask, server, imports, ghosts, FlowShape
<1> QED BY <1>1, <1>2, <1>3, <1>4, <1>5

-----------------------------------------------------------------------------
(* The links between tasks, flows and requests.                            *)

Links == PhaseType /\ FlowWorks /\ RequestsAwaited

LEMMA LinksInit == ASSUME Assumptions PROVE Init => Links
BY DEF Init, Flight!Init, Links, PhaseType, Flight!Phases, FlowWorks, RequestsAwaited, NoFlow

\* A step of one flow that neither waits nor sends.
LEMMA LinksLocal ==
    ASSUME Links, flow \in [Channels -> Flows], NEW ch \in Channels, NEW f \in Flows,
           flow[ch].step \notin {"none", "waiting"}, f.step # "none",
           flow' = [flow EXCEPT ![ch] = f], UNCHANGED <<phase, wire>>
    PROVE  Links'
<1>1. \A c2 \in Channels : flow'[c2] = IF c2 = ch THEN f ELSE flow[c2]
  OBVIOUS
<1>2. FlowWorks'
  BY <1>1 DEF Links, FlowWorks
<1>3. RequestsAwaited'
  <2> SUFFICES ASSUME NEW request \in wire, request.from # NoChannel
               PROVE  /\ flow'[request.from].step = "waiting"
                      /\ flow'[request.from].original.refresh = request.token
    BY DEF RequestsAwaited
  <2>1. flow[request.from].step = "waiting" /\ flow[request.from].original.refresh = request.token
    BY DEF Links, RequestsAwaited
  <2>2. request.from # ch
    BY <2>1
  <2>3. flow'[request.from] = flow[request.from]
    BY <2>2
  <2> QED BY <2>1, <2>3
<1> QED BY <1>2, <1>3 DEF Links, PhaseType

LEMMA FlowLinks ==
    ASSUME Assumptions, TypeInv, TypeInv', Links, NEW ch \in Channels, FlowStep(ch)
    PROVE  Links'
<1> USE DEF TypeInv, DataType
<1>0. flow[ch] \in Flows /\ flow'[ch] \in Flows /\ phase[ch] = "working"
  BY DEF FlowStep, Prepare, PrepareFails, Send, Timeout, CommitRotation, RotationFails, Quota,
         CommitQuota, DropQuota, At
<1>1. CASE Send(ch) /\ ~(flow[ch].rejected \/ flow[ch].original.refresh = NoToken)
  <2> DEFINE request == [token |-> flow[ch].original.refresh, from |-> ch]
             f == [flow[ch] EXCEPT !.step = "waiting"]
  <2>1. wire' = wire \cup {request} /\ flow' = [flow EXCEPT ![ch] = f] /\ phase' = phase
    BY <1>1 DEF Send, Goto, flightVars
  <2>2. f.step = "waiting" /\ f.original = flow[ch].original /\ flow[ch].step = "send"
    BY <1>0, <1>1 DEF Send, At, Flows
  <2> HIDE DEF f
  <2>3. FlowWorks'
    BY <1>0, <2>1, <2>2 DEF Links, FlowWorks
  <2>4. ASSUME NEW r2 \in wire', r2.from # NoChannel
        PROVE  /\ flow'[r2.from].step = "waiting"
               /\ flow'[r2.from].original.refresh = r2.token
    <3>1. CASE r2 = request
      BY <2>1, <2>2, <3>1
    <3>2. CASE r2 # request
      <4>1. r2 \in wire
        BY <2>1, <3>2
      <4>2. flow[r2.from].step = "waiting" /\ flow[r2.from].original.refresh = r2.token
        BY <2>4, <4>1 DEF Links, RequestsAwaited
      <4>3. r2.from # ch
        BY <2>2, <4>2
      <4> QED BY <2>1, <4>2, <4>3
    <3> QED BY <3>1, <3>2
  <2> QED BY <2>1, <2>3, <2>4 DEF Links, PhaseType, RequestsAwaited
<1>2. CASE Timeout(ch)
  <2> DEFINE request == [token |-> flow[ch].original.refresh, from |-> ch]
             f == [flow[ch] EXCEPT !.step = "quota"]
  <2>1. flow' = [flow EXCEPT ![ch] = f] /\ phase' = phase
    BY <1>2 DEF Timeout, Goto, flightVars
  <2>2. f.step = "quota"
    BY <1>0 DEF Flows
  <2> HIDE DEF f
  <2>3. FlowWorks'
    BY <1>0, <2>1, <2>2 DEF Links, FlowWorks
  <2>4. ASSUME NEW r2 \in wire', r2.from # NoChannel
        PROVE  /\ flow'[r2.from].step = "waiting"
               /\ flow'[r2.from].original.refresh = r2.token
    <3>1. r2 \in wire /\ r2 # request
      BY <1>2, <2>4 DEF Timeout
    <3>2. flow[r2.from].step = "waiting" /\ flow[r2.from].original.refresh = r2.token
      BY <2>4, <3>1 DEF Links, RequestsAwaited
    <3>3. r2.from # ch
      BY <3>1, <3>2
    <3> QED BY <2>1, <3>2, <3>3
  <2> QED BY <2>1, <2>3, <2>4 DEF Links, PhaseType, RequestsAwaited
<1>3. CASE ~Timeout(ch) /\ ~(Send(ch) /\ ~(flow[ch].rejected \/ flow[ch].original.refresh = NoToken))
  <2>1. flow[ch].step \notin {"none", "waiting"} /\ UNCHANGED <<phase, wire>>
    BY <1>3 DEF FlowStep, Prepare, PrepareFails, Send, CommitRotation, RotationFails, Quota,
                CommitQuota, DropQuota, At, flightVars, server
  <2>2. flow'[ch].step # "none" /\ flow' = [flow EXCEPT ![ch] = flow'[ch]]
    BY <1>0, <1>3 DEF FlowStep, Prepare, PrepareFails, Send, CommitRotation, RotationFails, Quota,
                      CommitQuota, DropQuota, Goto, Flows
  <2> QED BY <1>0, <2>1, <2>2, LinksLocal
<1> QED BY <1>1, <1>2, <1>3

LEMMA ServerLinks ==
    ASSUME Assumptions, TypeInv, Links, Server
    PROVE  Links'
<1> USE DEF TypeInv, DataType
<1>1. PICK request \in wire :
        (\E refresh \in Pairs : ServerRotates(request, refresh)) \/ ServerRejects(request)
  BY DEF Server
<1>2. wire' = wire \ {request} /\ phase' = phase
  BY <1>1 DEF ServerRotates, ServerRejects, flightVars
<1>3. CASE request.from = NoChannel
  <2>1. flow' = flow
    BY <1>1, <1>3 DEF ServerRotates, ServerRejects, Deliver
  <2> QED BY <1>2, <2>1 DEF Links, PhaseType, FlowWorks, RequestsAwaited
<1>4. CASE request.from # NoChannel
  <2> DEFINE ch == request.from
  <2>1. ch \in Channels /\ flow[ch].step = "waiting" /\ flow[ch] \in Flows
        /\ flow[ch].original.refresh = request.token
    BY <1>4 DEF Links, RequestsAwaited
  <2>2. /\ flow'[ch].step \in {"received", "quota"}
        /\ \A c2 \in Channels : c2 # ch => flow'[c2] = flow[c2]
    <3>1. ASSUME NEW refresh \in Pairs, ServerRotates(request, refresh) PROVE <2>2
      <4>1. PICK target : flow' = [flow EXCEPT ![ch] = [flow[ch] EXCEPT !.step = "received",
                              !.seen = issued + 1, !.target = target]]
        BY <1>4, <3>1 DEF ServerRotates, Deliver
      <4> HIDE DEF ch
      <4> QED BY <2>1, <4>1 DEF Flows
    <3>2. CASE ServerRejects(request)
      <4>1. flow' = [flow EXCEPT ![ch] = [flow[ch] EXCEPT !.step = "quota", !.rejected = TRUE]]
        BY <1>4, <3>2 DEF ServerRejects, Deliver
      <4> HIDE DEF ch
      <4> QED BY <2>1, <4>1 DEF Flows
    <3> QED BY <1>1, <3>1, <3>2
  <2>4. FlowWorks'
    BY <1>2, <2>1, <2>2 DEF Links, FlowWorks
  <2>5. ASSUME NEW r2 \in wire', r2.from # NoChannel
        PROVE  /\ flow'[r2.from].step = "waiting"
               /\ flow'[r2.from].original.refresh = r2.token
    <3>1. r2 \in wire /\ r2 # request
      BY <1>2, <2>5
    <3>2. flow[r2.from].step = "waiting" /\ flow[r2.from].original.refresh = r2.token
      BY <2>5, <3>1 DEF Links, RequestsAwaited
    <3>3. r2.from # ch
      BY <2>1, <3>1, <3>2
    <3> QED BY <2>2, <2>5, <3>1, <3>2, <3>3
  <2> QED BY <1>2, <2>4, <2>5 DEF Links, PhaseType, RequestsAwaited
<1> QED BY <1>3, <1>4

\* Other writers touch neither flows nor requests.
LEMMA WritersLinks == ASSUME Links, Writers PROVE Links'
BY DEF Writers, Login, AddToken, Export, Import, ImportMerge, UpdateTags, Remove,
       flightVars, server, Links, PhaseType, FlowWorks, RequestsAwaited

\* What a call does to tasks: at most, it begins one.
LEMMA CallPhase ==
    ASSUME PhaseType, Flight!Call
    PROVE  PhaseType' /\ \A ch \in Channels : phase'[ch] # phase[ch] => phase'[ch] = "working"
<1>1. CASE UNCHANGED phase
  BY <1>1 DEF PhaseType
<1>2. ASSUME NEW ch \in Channels, phase' = [phase EXCEPT ![ch] = "working"]
      PROVE  PhaseType' /\ \A c2 \in Channels : phase'[c2] # phase[c2] => phase'[c2] = "working"
  BY <1>2 DEF PhaseType, Flight!Phases
<1> QED BY <1>1, <1>2 DEF Flight!Call, Flight!Run, Flight!Look, Flight!Wake, Flight!Cancel

LEMMA TaskLinks ==
    ASSUME Assumptions, TypeInv, Links,
           \/ Request \/ Crash \/ UNCHANGED vars
           \/ \E ch \in Channels : Return(ch) \/ PanicIn(ch) \/ EndTask(ch)
    PROVE  Links'
<1> USE DEF TypeInv, DataType
<1>0. NoFlow.step = "none" /\ Start.step = "prepare"
  BY DEF NoFlow, Start
<1>1. CASE Request
  <2>1. PhaseType' /\ \A ch \in Channels : phase'[ch] # phase[ch] => phase'[ch] = "working"
    BY <1>1, CallPhase DEF Request, Links
  <2>2. \A ch \in Channels : flow'[ch] = IF phase[ch] # "working" /\ phase'[ch] = "working"
                                         THEN Start ELSE flow[ch]
    BY <1>1 DEF Request
  <2>3. FlowWorks'
    BY <1>0, <2>1, <2>2 DEF Links, FlowWorks
  <2>4. ASSUME NEW request \in wire, request.from # NoChannel
        PROVE  /\ flow'[request.from].step = "waiting"
               /\ flow'[request.from].original.refresh = request.token
    <3>1. /\ request.from \in Channels /\ flow[request.from].step = "waiting"
          /\ flow[request.from].original.refresh = request.token
      BY <2>4 DEF Links, RequestsAwaited
    <3>2. phase[request.from] = "working"
      BY <3>1 DEF Links, FlowWorks
    <3> QED BY <2>2, <3>1, <3>2
  <2> QED BY <1>1, <2>1, <2>3, <2>4 DEF Request, server, Links, RequestsAwaited
<1>2. CASE Crash
  <2>1. \A request \in wire' : request.from = NoChannel
    BY <1>2, OrphanedType DEF Crash
  <2>2. PhaseType' /\ FlowWorks'
    BY <1>0, <1>2 DEF Crash, PhaseType, Flight!Phases, FlowWorks
  <2> QED BY <2>1, <2>2 DEF Links, RequestsAwaited
<1>3. CASE UNCHANGED vars
  BY <1>3 DEF vars, flightVars, server, Links, PhaseType, FlowWorks, RequestsAwaited
<1>4. ASSUME NEW ch \in Channels, Return(ch) \/ PanicIn(ch) PROVE Links'
  <2>1. /\ phase[ch] = "working" /\ phase' = [phase EXCEPT ![ch] = "unwinding"]
        /\ flow' = [flow EXCEPT ![ch] = NoFlow]
    BY <1>4 DEF Return, PanicIn, Flight!Publish, Flight!Panic
  <2>2. PhaseType' /\ FlowWorks'
    BY <1>0, <2>1 DEF Links, PhaseType, Flight!Phases, FlowWorks
  <2>3. ASSUME NEW request \in wire', request.from # NoChannel
        PROVE  request \in wire /\ request.from # ch
    <3>1. CASE Return(ch)
      <4>1. request \in wire /\ flow[ch].step = "done"
        BY <2>3, <3>1 DEF Return, server
      <4> QED BY <2>3, <4>1 DEF Links, RequestsAwaited
    <3>2. CASE PanicIn(ch)
      BY <2>3, <3>2, OrphanedType DEF PanicIn
    <3> QED BY <1>4, <3>1, <3>2
  <2>4. ASSUME NEW request \in wire', request.from # NoChannel
        PROVE  /\ flow'[request.from].step = "waiting"
               /\ flow'[request.from].original.refresh = request.token
    BY <2>1, <2>3, <2>4 DEF Links, RequestsAwaited
  <2> QED BY <2>2, <2>4 DEF Links, RequestsAwaited
<1>5. ASSUME NEW ch \in Channels, EndTask(ch) PROVE Links'
  <2>1. /\ phase[ch] \in {"unwinding", "removed"} /\ flow' = flow /\ wire' = wire
        /\ \E p \in {"removed", "closed"} : phase' = [phase EXCEPT ![ch] = p]
    BY <1>5 DEF EndTask, Flight!RemoveFlight, Flight!DropSender, server
  <2>2. PhaseType' /\ FlowWorks'
    BY <2>1 DEF Links, PhaseType, Flight!Phases, FlowWorks
  <2> QED BY <2>1, <2>2 DEF Links, RequestsAwaited
<1> QED BY <1>1, <1>2, <1>3, <1>4, <1>5

-----------------------------------------------------------------------------
(* The status.                                                             *)

\* Backups and flows carry the status of the access token they carry.
StatusInv ==
    /\ StatusIsOwn
    /\ \A backup \in backups : backup.seen = backup.creds.access
    /\ \A ch \in Channels :
          flow[ch].step \in {"send", "waiting", "received", "quota", "quotaDone"} =>
              flow[ch].seen = flow[ch].target.access

\* The stored status follows the stored access token through every critical
\* section of a flow.
LEMMA StatusFlow ==
    ASSUME Assumptions, TypeInv, StatusInv, NEW ch \in Channels, FlowStep(ch)
    PROVE  StatusInv'
<1> USE DEF TypeInv, DataType
<1>0. flow[ch] \in Flows /\ (Exists => account \in Accounts /\ account.seen = account.creds.access)
  BY DEF StatusInv, StatusIsOwn, Exists
<1>1. backups' = backups
  BY DEF FlowStep, Prepare, PrepareFails, Send, Timeout, CommitRotation, RotationFails, Quota,
         CommitQuota, DropQuota, imports
<1>2. StatusIsOwn'
  <2>1. CASE CommitRotation(ch) \/ RotationFails(ch)
    <3>1. flow[ch].seen = flow[ch].target.access
      BY <2>1 DEF CommitRotation, RotationFails, At, StatusInv
    <3> QED BY <1>0, <2>1, <3>1
            DEF CommitRotation, RotationFails, Rotated, StatusIsOwn, Holds, Exists, Accounts
  <2>2. CASE CommitQuota(ch)
    <3>1. flow[ch].seen = flow[ch].target.access
      BY <2>2 DEF CommitQuota, At, StatusInv
    <3> QED BY <1>0, <2>2, <3>1 DEF CommitQuota, StatusIsOwn, Holds, Exists, Accounts
  <2>3. CASE Prepare(ch) \/ PrepareFails(ch) \/ Send(ch) \/ Timeout(ch) \/ Quota(ch) \/ DropQuota(ch)
    BY <1>0, <2>3 DEF Prepare, PrepareFails, Send, Timeout, Quota, DropQuota, StatusIsOwn, Exists
  <2> QED BY <2>1, <2>2, <2>3 DEF FlowStep
<1>3. \A c2 \in Channels \ {ch} : flow'[c2] = flow[c2]
  BY DEF FlowStep, Prepare, PrepareFails, Send, Timeout, CommitRotation, RotationFails, Quota,
         CommitQuota, DropQuota, Goto
<1>4. flow'[ch].step \in {"send", "waiting", "received", "quota", "quotaDone"} =>
          flow'[ch].seen = flow'[ch].target.access
  <2>1. CASE Prepare(ch)
    BY <1>0, <2>1 DEF Prepare, Goto, Flows
  <2>2. CASE Quota(ch)
    BY <1>0, <2>2 DEF Quota, At, StatusInv, Flows
  <2>3. CASE Send(ch) \/ Timeout(ch) \/ CommitRotation(ch)
    BY <1>0, <2>3 DEF Send, Timeout, CommitRotation, Goto, At, StatusInv, Flows
  <2>4. CASE PrepareFails(ch) \/ RotationFails(ch) \/ CommitQuota(ch) \/ DropQuota(ch)
    BY <1>0, <2>4 DEF PrepareFails, RotationFails, CommitQuota, DropQuota, Goto, Flows
  <2> QED BY <2>1, <2>2, <2>3, <2>4 DEF FlowStep
<1> QED BY <1>1, <1>2, <1>3, <1>4 DEF StatusInv

\* An answer brings a pair and its status together.
LEMMA StatusServer ==
    ASSUME Assumptions, TypeInv, Links, StatusInv, Server
    PROVE  StatusInv'
<1> USE DEF TypeInv, DataType
<1>1. UNCHANGED <<account, backups>>
  BY DEF Server, ServerRotates, ServerRejects, imports
<1>2. ASSUME NEW ch \in Channels, flow'[ch] # flow[ch]
      PROVE  flow'[ch].seen = flow'[ch].target.access
  <2>1. PICK request \in wire :
          (\E refresh \in Pairs : ServerRotates(request, refresh)) \/ ServerRejects(request)
    BY DEF Server
  <2>2. request.from # NoChannel /\ request.from = ch
    BY <1>2, <2>1 DEF ServerRotates, ServerRejects, Deliver
  <2>3. flow[ch] \in Flows /\ flow[ch].seen = flow[ch].target.access
    BY <2>2 DEF Links, RequestsAwaited, StatusInv
  <2>4. CASE ServerRejects(request)
    <3>1. flow' = [flow EXCEPT ![ch] = [flow[ch] EXCEPT !.step = "quota", !.rejected = TRUE]]
      BY <2>2, <2>4 DEF ServerRejects, Deliver
    <3> QED BY <2>3, <3>1 DEF Flows
  <2>5. ASSUME NEW refresh \in Pairs, ServerRotates(request, refresh)
        PROVE  flow'[ch].seen = flow'[ch].target.access
    <3> DEFINE target == [access |-> issued + 1, refresh |-> refresh, expiry |-> AsReceived]
    <3>1. flow' = [flow EXCEPT ![ch] = [flow[ch] EXCEPT !.step = "received",
                      !.seen = issued + 1, !.target = target]]
      BY <2>2, <2>5 DEF ServerRotates, Deliver
    <3>2. target.access = issued + 1
      OBVIOUS
    <3> HIDE DEF target
    <3> QED BY <2>3, <3>1, <3>2 DEF Flows
  <2> QED BY <2>1, <2>4, <2>5
<1>3. \A ch \in Channels :
          flow'[ch].step \in {"send", "waiting", "received", "quota", "quotaDone"} =>
              flow'[ch].seen = flow'[ch].target.access
  BY <1>2 DEF StatusInv
<1> QED BY <1>1, <1>3 DEF StatusInv, StatusIsOwn, Exists

LEMMA StatusWriters ==
    ASSUME Assumptions, TypeInv, StatusInv, Writers
    PROVE  StatusInv'
<1> USE DEF TypeInv, DataType
<1>0. flow' = flow /\ (Exists => account \in Accounts /\ account.seen = account.creds.access)
  BY DEF Writers, Login, AddToken, Export, Import, ImportMerge, UpdateTags, Remove,
         StatusInv, StatusIsOwn, Exists
<1>1. ASSUME NEW creds, NEW seen, Supersede(creds, seen), seen = creds.access
      PROVE  StatusIsOwn'
  BY <1>0, <1>1 DEF Supersede, StatusIsOwn, Exists, Accounts
<1>2. CASE Login
  BY <1>0, <1>1, <1>2 DEF Login, Pair, imports, StatusInv
<1>3. CASE AddToken
  BY <1>0, <1>1, <1>3 DEF AddToken, Pair, imports, StatusInv
<1>4. ASSUME NEW backup \in backups, Import(backup) PROVE StatusInv'
  <2>1. PICK imported \in Creds :
          imported.access = backup.creds.access /\ Supersede(imported, backup.seen)
    BY <1>4, ImportedCreds
  <2>2. backup.seen = imported.access
    BY <2>1 DEF StatusInv
  <2> QED BY <1>0, <1>1, <1>4, <2>1, <2>2 DEF Import, StatusInv
<1>5. CASE ImportMerge
  <2>1. CASE UNCHANGED <<account, archived, restored>>
    BY <1>0, <1>5, <2>1 DEF ImportMerge, StatusInv, StatusIsOwn, Exists
  <2>2. CASE ~UNCHANGED <<account, archived, restored>>
    <3>1. PICK creds \in Creds : MergesInto(creds)
      BY <1>5, <2>2, MergedCreds
    <3>2. account'.seen = account'.creds.access
      BY <1>0, <3>1 DEF MergesInto, SameTokens, Accounts
    <3> QED BY <1>0, <1>5, <3>2 DEF ImportMerge, StatusInv, StatusIsOwn
  <2> QED BY <2>1, <2>2
<1>6. CASE Export \/ Remove \/ \E tags \in SUBSET Tags : UpdateTags(tags)
  BY <1>0, <1>6 DEF Export, Remove, UpdateTags, imports, StatusInv, StatusIsOwn, Exists, Accounts
<1> QED BY <1>2, <1>3, <1>4, <1>5, <1>6 DEF Writers

LEMMA StatusTask ==
    ASSUME TypeInv, StatusInv,
           \/ Request \/ Crash \/ UNCHANGED vars
           \/ \E ch \in Channels : Return(ch) \/ PanicIn(ch) \/ EndTask(ch)
    PROVE  StatusInv'
<1>0. flow \in [Channels -> Flows]
  BY DEF TypeInv, DataType
<1>1. UNCHANGED <<account, backups>> /\ \A ch \in Channels : flow'[ch] \in {flow[ch], NoFlow, Start}
  <2>1. CASE Request \/ Crash \/ UNCHANGED vars
    BY <2>1 DEF Request, Crash, vars, imports
  <2>2. ASSUME NEW ch \in Channels, Return(ch) \/ PanicIn(ch) \/ EndTask(ch) PROVE <1>1
    BY <1>0, <2>2 DEF Return, PanicIn, EndTask, imports
  <2> QED BY <2>1, <2>2
<1>2. NoFlow.step = "none" /\ Start.step = "prepare"
  BY DEF NoFlow, Start
<1> QED BY <1>1, <1>2 DEF StatusInv, StatusIsOwn, Exists

-----------------------------------------------------------------------------
(* The theorems.                                                           *)

IInv == TypeInv /\ Links

LEMMA IInvInit == Init => IInv
BY AssumptionsHold, TypeInit, LinksInit DEF IInv

LEMMA IInvStep == IInv /\ [Next]_vars => IInv'
<1> SUFFICES ASSUME TypeInv, Links, [Next]_vars PROVE TypeInv' /\ Links'
  BY DEF IInv
<1> USE AssumptionsHold
<1>1. ASSUME NEW ch \in Channels, FlowStep(ch) PROVE TypeInv' /\ Links'
  BY <1>1, FlowType, FlowLinks
<1>2. CASE Server
  BY <1>2, ServerType, ServerLinks DEF Links
<1>3. CASE Writers
  BY <1>3, WritersType, WritersLinks
<1>4. CASE \/ Request \/ Crash \/ UNCHANGED vars
           \/ \E ch \in Channels : Return(ch) \/ PanicIn(ch) \/ EndTask(ch)
  BY <1>4, TaskType, TaskLinks
<1> QED BY <1>1, <1>2, <1>3, <1>4 DEF Next

LEMMA Invariance == Spec => []IInv
BY IInvInit, IInvStep, PTL DEF Spec

\* The record, the flows and the requests stay well formed, and every request
\* somebody waits for is the one its flow sent.
THEOREM TypeCorrect == Spec => []TypeOK
<1>1. IInv => TypeOK
  BY DEF IInv, TypeInv, DataType, Flows, Links, FlowWorks, RequestsAwaited, TypeOK
<1> QED BY <1>1, Invariance, PTL

\* For any number of callers and any mix of logins, imports, edits, removals,
\* failed saves, crashes and late answers, the status that is stored was observed
\* with the access token that is stored.
THEOREM StatusCorrect == Spec => []StatusIsOwn
<1>1. Init => StatusInv
  BY DEF Init, StatusInv, StatusIsOwn, Pair, NoFlow
<1>2. IInv /\ StatusInv /\ [Next]_vars => StatusInv'
  <2> SUFFICES ASSUME TypeInv, Links, StatusInv, [Next]_vars PROVE StatusInv'
    BY DEF IInv
  <2> QED BY AssumptionsHold, StatusFlow, StatusServer, StatusWriters, StatusTask DEF Next
<1>3. StatusInv => StatusIsOwn
  BY DEF StatusInv
<1> QED BY <1>1, <1>2, <1>3, Invariance, PTL DEF Spec

\* A flow's late result neither revives an account, nor changes a label, nor
\* replaces credentials the flow did not send.
THEOREM LateResultsCorrect == Spec => LateResultsYield
<1>1. ASSUME IInv, NEW ch \in Channels, FlowStep(ch), account' # account
      PROVE  /\ Exists /\ account' # NoAccount
             /\ account'.tags = account.tags
             /\ account'.creds # account.creds => account.creds = flow[ch].original
  <2>1. CommitRotation(ch) \/ RotationFails(ch) \/ CommitQuota(ch)
    BY <1>1 DEF FlowStep, Prepare, PrepareFails, Send, Timeout, Quota, DropQuota
  <2>2. Exists /\ account \in Accounts
    BY <1>1, <2>1 DEF CommitRotation, RotationFails, CommitQuota, Holds, Exists, IInv, TypeInv,
                      DataType
  <2>3. \/ account' = Rotated(ch) /\ Holds(flow[ch].original)
        \/ account' = [account EXCEPT !.rejected = flow[ch].rejected, !.seen = flow[ch].seen]
    BY <1>1, <2>1 DEF CommitRotation, RotationFails, CommitQuota
  <2>4. account' # NoAccount
    <3>1. /\ flow[ch].target \in Creds /\ flow[ch].rejected \in BOOLEAN
          /\ flow[ch].seen \in Pairs
      BY <1>1, <2>1 DEF CommitRotation, RotationFails, CommitQuota, At, IInv, TypeInv, DataType,
                        FlowShape, Flows
    <3>2. account' \in Accounts
      BY <2>2, <2>3, <3>1 DEF Rotated, Accounts
    <3> QED BY <3>2, AssumptionsHold DEF Assumptions
  <2>5. account'.tags = account.tags
    BY <2>2, <2>3 DEF Rotated, Accounts
  <2>6. account'.creds # account.creds => account.creds = flow[ch].original
    BY <2>2, <2>3 DEF Rotated, Holds, Accounts
  <2> QED BY <2>2, <2>4, <2>5, <2>6
<1>2. IInv /\ [Next]_vars =>
        [\A ch \in Channels : FlowStep(ch) /\ account' # account =>
            /\ Exists /\ account' # NoAccount
            /\ account'.tags = account.tags
            /\ account'.creds # account.creds => account.creds = flow[ch].original]_vars
  BY <1>1
<1> QED BY <1>2, Invariance, PTL DEF Spec, LateResultsYield
=============================================================================
