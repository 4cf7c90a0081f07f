--------------------- MODULE CredentialStoreFiles_proofs ---------------------
(***************************************************************************)
(* Proofs about CredentialStore: what the files hold when a save replaces  *)
(* the primary, what they hold when it is complete, and that they behave   *)
(* as one register if only crashes and failed writes disturb them.         *)
(***************************************************************************)
EXTENDS CredentialStore_proofs

-----------------------------------------------------------------------------
(* A save is read back.                                                    *)

\* The journal that is read does not replay over the record.
NotReplayed(record) ==
    LET recovery == Journal(credentials, history)
    IN  recovery # Unreadable => ~Interrupted(record, recovery)

\* While no file is damaged, nothing that was written before the primary will
\* shadow the record in flight once the primary holds it.
NothingShadows ==
    /\ primary # Unreadable
    /\ op.step \in {"save.archiveNext", "save.runtime", "save.primary"} /\ op.changed =>
          credentials # Unreadable /\ credentials.record = op.record
    /\ op.step \in {"save.runtime", "save.primary"} /\ ~op.changed => NotReplayed(op.record)
    /\ op.step = "save.primary" => runtime = RuntimeOf(op.record)

LEMMA ShadowInit == ASSUME Assumptions PROVE Init => NothingShadows
BY DEF Init, NothingShadows, Idle, Supplied, Assumptions

LEMMA ShadowStep ==
    ASSUME Assumptions, TypeInv, NothingShadows, [Next]_vars, "damage" \notin mishaps'
    PROVE  NothingShadows'
<1> USE DEF TypeInv
<1>0. /\ Supplied \subseteq Records
      /\ Unreadable \notin Records
      /\ Unreadable \notin Envelopes
      /\ Unreadable # NoFile
  BY DEF Supplied, Assumptions
<1>a. ASSUME op'.step \notin {"save.archiveNext", "save.runtime", "save.primary"},
             primary' # Unreadable
      PROVE  NothingShadows'
  BY <1>a DEF NothingShadows
<1>d. ASSUME Done PROVE op'.step = "idle"
  BY <1>d DEF Done, Idle
<1>c. ASSUME NEW step \in Steps, Continue(step)
      PROVE  /\ op'.step = step
             /\ op'.record = op.record
             /\ op'.changed = op.changed
  BY <1>c DEF Continue, Operations, TypeOK
<1>1. ASSUME NEW record \in Supplied, BeginSave(record) PROVE NothingShadows'
  <2> DEFINE previous == IF primary = NoFile THEN NoFile ELSE Loaded
             changed  == previous = NoFile \/ previous.cred # record.cred
             recovery == Journal(credentials, history)
  <2>1. primary' # Unreadable
    BY <1>1 DEF BeginSave, files, NothingShadows
  <2>2. CASE changed
    <3>1. op'.step \in {"save.journal", "save.archivePrevious"}
      BY <1>1, <2>2 DEF BeginSave, Begin
    <3> QED BY <1>a, <2>1, <3>1
  <2>3. CASE ~changed
    <3>1. op'.step = "save.runtime" /\ op'.record = record /\ ~op'.changed
      BY <1>1, <2>3 DEF BeginSave, Begin
    <3>2. primary \in Records
      BY <1>0, <2>3 DEF NothingShadows, TypeOK
    <3>3. ReadBase(primary, credentials, history).cred = record.cred
      <4>1. Loaded # Unreadable /\ Loaded.cred = record.cred
        BY <1>0, <1>1, <2>3, <3>2 DEF BeginSave
      <4> QED BY <4>1, LoadedType
    <3>4. NotReplayed(record)
      <4>1. CASE recovery # Unreadable /\ Interrupted(primary, recovery)
        <5>1. ReadBase(primary, credentials, history) = Replay(primary, recovery)
          BY <1>0, <3>2, <4>1 DEF ReadBase, Assumptions
        <5>2. Replay(primary, recovery).cred = recovery.record.cred
          BY <3>2 DEF Replay, Records
        <5> QED BY <3>3, <5>1, <5>2 DEF NotReplayed, Interrupted
      <4>2. CASE ~(recovery # Unreadable /\ Interrupted(primary, recovery))
        <5>1. ReadBase(primary, credentials, history) = primary
          BY <1>0, <3>2, <4>2 DEF ReadBase, Assumptions
        <5> QED BY <3>3, <4>2, <5>1 DEF NotReplayed, Interrupted
      <4> QED BY <4>1, <4>2
    <3>5. NotReplayed(record)'
      BY <1>1, <3>4 DEF BeginSave, files, NotReplayed
    <3> QED BY <2>1, <3>1, <3>5 DEF NothingShadows
  <2> QED BY <2>2, <2>3
<1>2. ASSUME SaveArchivePrevious PROVE NothingShadows'
  BY <1>2, <1>a, <1>c DEF SaveArchivePrevious, Steps, NothingShadows
<1>3. ASSUME SaveJournal PROVE NothingShadows'
  <2>1. op'.step = "save.archiveNext" /\ op'.record = op.record /\ op'.changed
    BY <1>3, <1>c DEF SaveJournal, Steps, OpShape, At
  <2>2. OpEnvelope \in Envelopes /\ OpEnvelope.record = op.record
    <3>1. op.record \in Records /\ op.previous \in Records \cup {NoFile}
      BY <1>3 DEF SaveJournal, OpShape, At, TypeOK, Operations
    <3>2. \A r \in Records : r.cred \in Creds
      BY DEF Records
    <3> QED BY <3>1, <3>2 DEF OpEnvelope, Envelope, Envelopes
  <2> QED BY <1>0, <1>3, <2>1, <2>2 DEF SaveJournal, NothingShadows
<1>4. ASSUME SaveArchiveNext PROVE NothingShadows'
  <2>1. op'.step = "save.runtime" /\ op'.record = op.record /\ op'.changed /\ op.changed
    BY <1>4, <1>c DEF SaveArchiveNext, Steps, OpShape, At
  <2> QED BY <1>4, <2>1 DEF SaveArchiveNext, At, NothingShadows
<1>5. ASSUME SaveWriteRuntime PROVE NothingShadows'
  <2>1. op'.step = "save.primary" /\ op'.record = op.record /\ op'.changed = op.changed
    BY <1>5, <1>c DEF SaveWriteRuntime, Steps
  <2> QED BY <1>5, <2>1 DEF SaveWriteRuntime, At, NothingShadows, NotReplayed
<1>6. ASSUME SaveWritePrimary PROVE NothingShadows'
  <2>1. primary' \in Records
    BY <1>6 DEF SaveWritePrimary, OpShape, At
  <2>2. op'.step \in {"save.prune", "idle"}
    BY <1>6, <1>c, <1>d DEF SaveWritePrimary, Steps
  <2> QED BY <1>0, <1>a, <2>1, <2>2
<1>7. ASSUME SavePrune \/ SaveRuntimeVerified \/ Abandon PROVE NothingShadows'
  BY <1>7, <1>a, <1>d DEF SavePrune, SaveRuntimeVerified, Abandon, files, NothingShadows
<1>8. ASSUME NEW expected \in Creds, BeginPrepare(expected) PROVE NothingShadows'
  BY <1>8, <1>a DEF BeginPrepare, Begin, files, NothingShadows
<1>9. ASSUME PrepareArchive PROVE NothingShadows'
  BY <1>9, <1>a, <1>c DEF PrepareArchive, Steps, NothingShadows
<1>10. ASSUME PrepareWritePrimary PROVE NothingShadows'
  <2>1. primary' \in Records
    BY <1>10 DEF PrepareWritePrimary, OpShape, At
  <2> QED BY <1>0, <1>10, <1>a, <1>d, <2>1 DEF PrepareWritePrimary
<1>11. ASSUME NEW record \in Supplied, NEW verified \in BOOLEAN,
              BeginSaveRuntime(record, verified)
       PROVE  NothingShadows'
  BY <1>11, <1>a DEF BeginSaveRuntime, Begin, files, NothingShadows
<1>12. ASSUME SaveRuntimeWrite PROVE NothingShadows'
  <2>1. op'.step \in {"runtime.verified", "idle"}
    BY <1>12, <1>c, <1>d DEF SaveRuntimeWrite, Steps
  <2> QED BY <1>12, <1>a, <2>1 DEF SaveRuntimeWrite, NothingShadows
<1>13. ASSUME Remove PROVE NothingShadows'
  BY <1>0, <1>13, <1>a DEF Remove, At
<1>14. ASSUME NEW record \in Supplied, ExternalWrite(record) PROVE NothingShadows'
  <2>1. primary' # Unreadable
    BY <1>0, <1>14 DEF ExternalWrite
  <2> QED BY <1>14, <2>1 DEF ExternalWrite, NothingShadows, NotReplayed
<1>15. ASSUME Damage PROVE FALSE
  BY <1>15 DEF Damage
<1>16. ASSUME UNCHANGED vars PROVE NothingShadows'
  BY <1>16 DEF vars, files, NothingShadows, NotReplayed
<1> QED
  BY <1>1, <1>2, <1>3, <1>4, <1>5, <1>6, <1>7, <1>8, <1>9, <1>10, <1>11, <1>12, <1>13,
     <1>14, <1>15, <1>16
  DEF Next, Save, PrepareRefresh, SaveRuntime, Environment

\* The record that replaces the primary is read back whole.
LEMMA ReadBack ==
    ASSUME Assumptions, TypeInv, NothingShadows, SaveWritePrimary
    PROVE  Loaded' = op.record
<1> USE DEF TypeInv
<1>1. op.record \in Records /\ op.record # Unreadable /\ op.record # NoFile
  BY DEF SaveWritePrimary, OpShape, At, Assumptions
<1>2. NotReplayed(op.record)
  <2>1. CASE op.changed
    <3>1. credentials # Unreadable /\ credentials.record = op.record
      BY <2>1 DEF SaveWritePrimary, At, NothingShadows
    <3>2. Journal(credentials, history) = credentials
      BY <3>1 DEF Journal
    <3> QED BY <3>1, <3>2 DEF NotReplayed, Interrupted
  <2>2. CASE ~op.changed
    BY <2>2 DEF SaveWritePrimary, At, NothingShadows
  <2> QED BY <2>1, <2>2
<1>3. ReadBase(op.record, credentials, history) = op.record
  BY <1>1, <1>2 DEF ReadBase, NotReplayed
<1>4. runtime = RuntimeOf(op.record)
  BY DEF SaveWritePrimary, At, NothingShadows
<1>5. Overlay(op.record, runtime) = op.record
  <2>1. runtime.rt = op.record.rt
    BY <1>4 DEF RuntimeOf
  <2>2. [op.record EXCEPT !.rt = runtime.rt] = op.record
    BY <1>1, <2>1 DEF Records
  <2> QED BY <2>2 DEF Overlay
<1>6. Loaded' = Load(op.record, credentials, history, runtime)
  BY DEF SaveWritePrimary, Loaded
<1> QED BY <1>1, <1>3, <1>5, <1>6 DEF Load

\* Unless a file is damaged, what a save wrote is what the next read returns:
\* the journal, the archived generations and the runtime snapshot shadow nothing.
THEOREM ReadYourWritesCorrect == Spec => ReadYourWrites
<1> DEFINE Inv == TypeInv /\ ("damage" \notin mishaps => NothingShadows)
           Good == SaveWritePrimary /\ "damage" \notin mishaps => Loaded' = op.record
<1>1. Init => Inv
  BY AssumptionsHold, TypeInit, ShadowInit
<1>2. Inv /\ [Next]_vars => Inv'
  <2> SUFFICES ASSUME Inv, [Next]_vars PROVE Inv'
    OBVIOUS
  <2>1. "damage" \notin mishaps' => "damage" \notin mishaps
    BY MishapsStay
  <2> QED BY <2>1, AssumptionsHold, TypeStep, ShadowStep
<1>3. Inv => Good
  BY AssumptionsHold, ReadBack
<1>4. Inv => [Good]_vars
  BY <1>3
<1> HIDE DEF Inv
<1>5. Spec => []Inv
  BY <1>1, <1>2, PTL DEF Spec
<1> QED BY <1>4, <1>5, PTL DEF ReadYourWrites

-----------------------------------------------------------------------------
(* A completed rotation is held by three copies.                           *)

\* Until its archived copy is written, a pair that replaces another is not in
\* the history; from then on it is the newest there.  If superseded is not
\* empty, no one else has written the primary.
HeldThrice ==
    /\ op.step \in {"save.archivePrevious", "save.journal"} /\ op.previous # NoFile =>
          op.record.cred # op.previous.cred
    /\ op.step \in {"save.archivePrevious", "save.journal", "save.archiveNext"}
          /\ op.previous # NoFile => ~Archived(history, op.record.cred)
    /\ op.step \in {"save.archiveNext", "save.runtime", "save.primary", "save.prune"}
          /\ op.changed =>
          /\ op.record.cred = acked
          /\ op.previous = NoFile => superseded = <<>>
          /\ credentials # Unreadable => credentials.record.cred = acked
    /\ op.step \in {"save.runtime", "save.primary", "save.prune"} /\ op.changed
          /\ op.previous # NoFile =>
          history # <<>> /\ history[Len(history)].record.cred = acked
    /\ op.step = "save.prune" /\ superseded # <<>> /\ primary \in Records =>
          primary.cred = acked

LEMMA HeldInit == ASSUME Assumptions PROVE Init => HeldThrice
BY DEF Init, HeldThrice, Idle

LEMMA HeldStep ==
    ASSUME Assumptions, TypeInv, HeldThrice, [Next]_vars
    PROVE  HeldThrice'
<1> USE DEF TypeInv
<1>0. /\ Supplied \subseteq Records
      /\ Loaded \in Records \cup {Unreadable}
      /\ NoFile \notin Records
      /\ Unreadable \notin Records
      /\ \A r \in Records : r.cred \in Creds
      /\ history \in Seq(Envelopes)
  BY LoadedType DEF Supplied, Assumptions, Records, TypeOK
<1>a. ASSUME op'.step \notin {"save.archivePrevious", "save.journal", "save.archiveNext",
                              "save.runtime", "save.primary", "save.prune"}
      PROVE  HeldThrice'
  BY <1>a DEF HeldThrice
<1>d. ASSUME Done PROVE op'.step = "idle"
  BY <1>d DEF Done, Idle
<1>c. ASSUME NEW step \in Steps, Continue(step)
      PROVE  /\ op'.step = step
             /\ op'.record = op.record
             /\ op'.previous = op.previous
             /\ op'.changed = op.changed
  BY <1>c DEF Continue, Operations, TypeOK
<1>1. ASSUME NEW record \in Supplied, BeginSave(record) PROVE HeldThrice'
  <2> DEFINE previous == IF primary = NoFile THEN NoFile ELSE Loaded
             changed  == previous = NoFile \/ previous.cred # record.cred
             step     == IF ~changed THEN "save.runtime"
                         ELSE IF previous = NoFile THEN "save.journal" ELSE "save.archivePrevious"
  <2>1. op' = [step |-> step, record |-> record, previous |-> previous,
               changed |-> changed, verified |-> FALSE]
    BY <1>1 DEF BeginSave, Begin
  <2>2. changed /\ previous # NoFile => ~Archived(history, record.cred)
    BY <1>1 DEF BeginSave, StaleSave
  <2>3. history' = history
    BY <1>1 DEF BeginSave, files
  <2>4. Archived(history, record.cred)' <=> Archived(history, record.cred)
    BY <2>3 DEF Archived
  <2> HIDE DEF previous
  <2>5. CASE changed
    BY <2>1, <2>2, <2>3, <2>5 DEF HeldThrice, Archived
  <2>6. CASE ~changed
    BY <2>1, <2>6 DEF HeldThrice
  <2> QED BY <2>5, <2>6
<1>2. ASSUME SaveArchivePrevious PROVE HeldThrice'
  <2>1. op'.step = "save.journal" /\ op'.record = op.record /\ op'.previous = op.previous
    BY <1>2, <1>c DEF SaveArchivePrevious, Steps
  <2>2. op.previous \in Records /\ op.previous # NoFile
    BY <1>0, <1>2 DEF SaveArchivePrevious, OpShape
  <2>3. op.record.cred # op.previous.cred /\ ~Archived(history, op.record.cred)
    BY <1>2, <2>2 DEF SaveArchivePrevious, At, HeldThrice
  <2> DEFINE e == Envelope(op.previous, NoCred)
  <2>4. e \in Envelopes /\ e.record = op.previous
    BY <2>2 DEF Envelope, Envelopes
  <2>5. ~Archived(history', op.record.cred)
    <3> HIDE DEF e
    <3>1. history' = Archive(history, e)
      BY <1>2 DEF SaveArchivePrevious, e
    <3>2. \A i \in 1 .. Len(history') :
             history'[i] = e \/ \E j \in 1 .. Len(history) : history'[i] = history[j]
      BY <1>0, <2>4, <3>1, ArchiveContents
    <3> QED BY <2>3, <2>4, <3>2 DEF Archived
  <2> QED BY <2>1, <2>3, <2>5 DEF HeldThrice, Archived
<1>3. ASSUME SaveJournal PROVE HeldThrice'
  <2>1. /\ op'.step = "save.archiveNext" /\ op'.record = op.record
        /\ op'.previous = op.previous /\ op'.changed
    BY <1>3, <1>c DEF SaveJournal, Steps, OpShape, At
  <2>2. OpEnvelope.record = op.record
    BY DEF OpEnvelope, Envelope
  <2>3. op.previous # NoFile => ~Archived(history', op.record.cred)
    BY <1>3 DEF SaveJournal, At, HeldThrice
  <2>4. op.previous = NoFile => superseded' = <<>>
    BY <1>3 DEF SaveJournal
  <2> QED BY <1>3, <2>1, <2>2, <2>3, <2>4 DEF SaveJournal, HeldThrice, Archived
<1>4. ASSUME SaveArchiveNext PROVE HeldThrice'
  <2>1. /\ op'.step = "save.runtime" /\ op'.record = op.record
        /\ op'.previous = op.previous /\ op'.changed /\ op.changed
    BY <1>4, <1>c DEF SaveArchiveNext, Steps, OpShape, At
  <2>2. /\ op.record.cred = acked
        /\ op.previous = NoFile => superseded = <<>>
        /\ credentials # Unreadable => credentials.record.cred = acked
        /\ op.previous # NoFile => ~Archived(history, op.record.cred)
    BY <1>4, <2>1 DEF SaveArchiveNext, At, HeldThrice
  <2>3. ASSUME op.previous # NoFile
        PROVE  history' # <<>> /\ history'[Len(history')].record.cred = acked
    <3>1. OpEnvelope.record = op.record
      BY DEF OpEnvelope, Envelope
    <3>2. history' = Append(history, OpEnvelope)
      BY <1>4, <2>2, <2>3, <3>1 DEF SaveArchiveNext, Archive
    <3>3. Len(history') = Len(history) + 1 /\ history'[Len(history) + 1] = OpEnvelope
      BY <1>0, <3>2
    <3>4. Len(history) \in Nat
      BY <1>0
    <3> QED BY <2>2, <3>1, <3>3, <3>4
  <2> QED BY <1>4, <2>1, <2>2, <2>3 DEF SaveArchiveNext, ghosts, HeldThrice
<1>5. ASSUME SaveWriteRuntime PROVE HeldThrice'
  <2>1. /\ op'.step = "save.primary" /\ op'.record = op.record
        /\ op'.previous = op.previous /\ op'.changed = op.changed
    BY <1>5, <1>c DEF SaveWriteRuntime, Steps
  <2> QED BY <1>5, <2>1 DEF SaveWriteRuntime, At, ghosts, HeldThrice
<1>6. ASSUME SaveWritePrimary PROVE HeldThrice'
  <2>1. CASE op.changed
    <3>1. /\ op'.step = "save.prune" /\ op'.record = op.record
          /\ op'.previous = op.previous /\ op'.changed
      BY <1>6, <1>c, <2>1 DEF SaveWritePrimary, Steps
    <3> QED BY <1>6, <2>1, <3>1 DEF SaveWritePrimary, At, HeldThrice
  <2>2. CASE ~op.changed
    BY <1>6, <1>a, <1>d, <2>2 DEF SaveWritePrimary
  <2> QED BY <2>1, <2>2
<1>7. ASSUME SavePrune \/ PrepareWritePrimary \/ SaveRuntimeVerified \/ Abandon PROVE HeldThrice'
  BY <1>7, <1>a, <1>d DEF SavePrune, PrepareWritePrimary, SaveRuntimeVerified, Abandon
<1>8. ASSUME NEW expected \in Creds, BeginPrepare(expected) PROVE HeldThrice'
  BY <1>8, <1>a DEF BeginPrepare, Begin
<1>9. ASSUME PrepareArchive PROVE HeldThrice'
  BY <1>9, <1>a, <1>c DEF PrepareArchive, Steps
<1>10. ASSUME NEW record \in Supplied, NEW verified \in BOOLEAN,
              BeginSaveRuntime(record, verified)
       PROVE  HeldThrice'
  BY <1>10, <1>a DEF BeginSaveRuntime, Begin
<1>11. ASSUME SaveRuntimeWrite PROVE HeldThrice'
  <2>1. op'.step \in {"runtime.verified", "idle"}
    BY <1>11, <1>c, <1>d DEF SaveRuntimeWrite, Steps
  <2> QED BY <1>a, <2>1
<1>12. ASSUME Remove PROVE HeldThrice'
  BY <1>12, <1>a DEF Remove, At
<1>13. ASSUME NEW record \in Supplied, ExternalWrite(record) PROVE HeldThrice'
  BY <1>13 DEF ExternalWrite, HeldThrice, Archived
<1>14. ASSUME Damage PROVE HeldThrice'
  BY <1>0, <1>14 DEF Damage, HeldThrice, Archived
<1>15. ASSUME UNCHANGED vars PROVE HeldThrice'
  BY <1>15 DEF vars, files, ghosts, HeldThrice, Archived
<1> QED
  BY <1>1, <1>2, <1>3, <1>4, <1>5, <1>6, <1>7, <1>8, <1>9, <1>10, <1>11, <1>12, <1>13,
     <1>14, <1>15
  DEF Next, Save, PrepareRefresh, SaveRuntime, Environment

\* Pruning keeps the newest generation.
LEMMA PruneKeepsNewest ==
    ASSUME NEW S, NEW h \in Seq(S), h # <<>>, Assumptions
    PROVE  Prune(h) # <<>> /\ Prune(h)[Len(Prune(h))] = h[Len(h)]
<1> USE DEF Assumptions
<1>1. CASE Len(h) > HistoryLimit
  <2> DEFINE first == Len(h) - HistoryLimit + 1
             kept == SubSeq(h, first, Len(h))
  <2>1. /\ Len(h) \in Nat
        /\ first \in 1 .. Len(h)
        /\ \A i \in first .. Len(h) : h[i] \in S
    BY <1>1
  <2>2. /\ Len(kept) = Len(h) - first + 1
        /\ \A i \in 1 .. Len(h) - first + 1 : kept[i] = h[first + i - 1]
    BY <2>1, SubSeqProperties
  <2>3. Len(kept) = HistoryLimit /\ kept[HistoryLimit] = h[Len(h)]
    BY <2>1, <2>2
  <2>4. kept # <<>>
    BY <2>3
  <2> QED BY <1>1, <2>3, <2>4 DEF Prune
<1>2. CASE ~(Len(h) > HistoryLimit)
  BY <1>2 DEF Prune
<1> QED BY <1>1, <1>2

\* Each of the three copies suffices.
LEMMA CopySuffices ==
    ASSUME Assumptions, TypeInv, HeldThrice, SavePrune, superseded # <<>>, primary \in Records
    PROVE  /\ ReadBase(Unreadable, credentials, history').cred = acked
           /\ ReadBase(primary, Unreadable, history').cred = acked
           /\ ReadBase(Unreadable, Unreadable, history').cred = acked
<1> USE DEF TypeInv
<1>1. /\ op.changed
      /\ op.previous # NoFile
      /\ credentials # Unreadable => credentials.record.cred = acked
      /\ primary.cred = acked
      /\ history # <<>> /\ history[Len(history)].record.cred = acked
  BY DEF SavePrune, At, OpShape, HeldThrice
<1> DEFINE newest == history'[Len(history')]
<1>2. history \in Seq(Envelopes) /\ history' = Prune(history)
  BY DEF SavePrune, TypeOK
<1>3. history' # <<>> /\ newest = history[Len(history)]
  BY <1>1, <1>2, PruneKeepsNewest
<1>4. newest # Unreadable /\ newest.record.cred = acked
  <2>1. history[Len(history)] \in Envelopes
    BY <1>1, <1>2
  <2> QED BY <1>1, <1>3, <2>1 DEF Assumptions
<1> HIDE DEF newest
<1>5. Journal(Unreadable, history') = newest
  BY <1>3 DEF Journal, newest
<1>6. Journal(credentials, history') # Unreadable
      /\ Journal(credentials, history').record.cred = acked
  <2>1. CASE credentials = Unreadable
    BY <1>4, <1>5, <2>1
  <2>2. CASE credentials # Unreadable
    BY <1>1, <2>2 DEF Journal
  <2> QED BY <2>1, <2>2
<1>7. primary # NoFile /\ primary # Unreadable /\ Unreadable # NoFile
  BY DEF Assumptions
<1>8. ReadBase(Unreadable, credentials, history').cred = acked
  BY <1>6, <1>7 DEF ReadBase
<1>9. ReadBase(Unreadable, Unreadable, history').cred = acked
  BY <1>4, <1>5, <1>7 DEF ReadBase
<1>10. ReadBase(primary, Unreadable, history').cred = acked
  BY <1>1, <1>4, <1>5, <1>7 DEF ReadBase, Interrupted
<1> QED BY <1>8, <1>9, <1>10

\* Whatever is damaged after a rotation completes, a copy that is left gives
\* the generation the server issued last.
THEOREM SurvivesDamagedFilesCorrect == Spec => SurvivesDamagedFiles
<1> DEFINE Inv == TypeInv /\ HeldThrice
           Good == SavePrune /\ superseded # <<>> /\ primary \in Records =>
                     /\ ReadBase(Unreadable, credentials, history').cred = acked
                     /\ ReadBase(primary, Unreadable, history').cred = acked
                     /\ ReadBase(Unreadable, Unreadable, history').cred = acked
<1>1. Init => Inv
  BY AssumptionsHold, TypeInit, HeldInit
<1>2. Inv /\ [Next]_vars => Inv'
  BY AssumptionsHold, TypeStep, HeldStep
<1>3. Inv => [Good]_vars
  BY AssumptionsHold, CopySuffices
<1> HIDE DEF Inv
<1>4. Spec => []Inv
  BY <1>1, <1>2, PTL DEF Spec
<1> QED BY <1>3, <1>4, PTL DEF SurvivesDamagedFiles

-----------------------------------------------------------------------------
(* The files of an existing account implement one register.                *)

\* s is what the newest members of the history h are about, in order.
Ends(h, s) ==
    /\ Len(s) <= Len(h)
    /\ \A i \in 1 .. Len(s) : h[Len(h) - Len(s) + i].record.cred = s[i]

\* Nothing but the store touches the files.
Undisturbed ==
    /\ primary \in Records
    /\ foreign = {}
    /\ mishaps = {}

\* The replaced generations that the register remembers are the newest in the
\* history, but for the current one where that is archived already.
Remembers ==
    /\ Len(superseded) <= HistoryLimit - 1
    /\ \/ Ends(history, superseded) /\ ~Archived(history, acked)
       \/ Ends(history, Append(superseded, acked))
    /\ op.step \in {"save.archivePrevious", "save.journal"} =>
          op.previous # NoFile /\ op.previous.cred = acked
    /\ op.step \in {"save.journal", "save.runtime", "save.primary", "save.prune"}
          /\ op.changed => Ends(history, Append(superseded, acked))

RegisterInv == TypeInv /\ KeptInv /\ HeldThrice /\ Undisturbed /\ Remembers

LEMMA EndsArchived ==
    ASSUME NEW h \in Seq(Envelopes), NEW s \in Seq(Creds), Ends(h, s)
    PROVE  \A i \in 1 .. Len(s) : Archived(h, s[i])
<1> SUFFICES ASSUME NEW i \in 1 .. Len(s) PROVE Archived(h, s[i])
  OBVIOUS
<1>1. Len(h) - Len(s) + i \in 1 .. Len(h)
  BY DEF Ends
<1> QED BY <1>1 DEF Ends, Archived

LEMMA EndsAppend ==
    ASSUME NEW h \in Seq(Envelopes), NEW s \in Seq(Creds), NEW e \in Envelopes,
           NEW c \in Creds, c = e.record.cred, Ends(h, s)
    PROVE  Ends(Append(h, e), Append(s, c))
<1>1. Len(Append(h, e)) = Len(h) + 1 /\ Len(Append(s, c)) = Len(s) + 1
  OBVIOUS
<1>2. ASSUME NEW i \in 1 .. Len(s) + 1
      PROVE  Append(h, e)[Len(h) - Len(s) + i].record.cred = Append(s, c)[i]
  <2>1. CASE i = Len(s) + 1
    BY <2>1
  <2>2. CASE i # Len(s) + 1
    <3>1. i \in 1 .. Len(s) /\ Len(h) - Len(s) + i \in 1 .. Len(h)
      BY <2>2 DEF Ends
    <3>2. Append(h, e)[Len(h) - Len(s) + i] = h[Len(h) - Len(s) + i] /\ Append(s, c)[i] = s[i]
      BY <3>1
    <3> QED BY <3>1, <3>2 DEF Ends
  <2> QED BY <2>1, <2>2
<1>3. \A i \in 1 .. Len(s) + 1 : (Len(h) + 1) - (Len(s) + 1) + i = Len(h) - Len(s) + i
  OBVIOUS
<1>4. Len(s) + 1 <= Len(h) + 1
  BY DEF Ends
<1> HIDE DEF Ends
<1>5. \A i \in 1 .. Len(s) + 1 :
        Append(h, e)[(Len(h) + 1) - (Len(s) + 1) + i].record.cred = Append(s, c)[i]
  BY <1>2, <1>3
<1> QED BY <1>1, <1>4, <1>5 DEF Ends

LEMMA EndsPrune ==
    ASSUME NEW h \in Seq(Envelopes), NEW s \in Seq(Creds), Ends(h, s),
           Len(s) <= HistoryLimit, Assumptions
    PROVE  Ends(Prune(h), s)
<1> USE DEF Assumptions
<1>1. CASE Len(h) > HistoryLimit
  <2> DEFINE first == Len(h) - HistoryLimit + 1
             kept == SubSeq(h, first, Len(h))
  <2>1. /\ Len(h) \in Nat
        /\ first \in 1 .. Len(h)
        /\ \A i \in first .. Len(h) : h[i] \in Envelopes
    BY <1>1
  <2>2. /\ Len(kept) = HistoryLimit
        /\ \A i \in 1 .. HistoryLimit : kept[i] = h[first + i - 1]
    BY <2>1, SubSeqProperties
  <2> HIDE DEF kept
  <2>3. ASSUME NEW i \in 1 .. Len(s)
        PROVE  kept[HistoryLimit - Len(s) + i] = h[Len(h) - Len(s) + i]
    <3>1. HistoryLimit - Len(s) + i \in 1 .. HistoryLimit
      OBVIOUS
    <3>2. first + (HistoryLimit - Len(s) + i) - 1 = Len(h) - Len(s) + i
      BY <2>1
    <3> QED BY <2>2, <3>1, <3>2
  <2>4. Ends(kept, s)
    BY <2>2, <2>3 DEF Ends
  <2> QED BY <1>1, <2>4 DEF Prune, kept
<1>2. CASE ~(Len(h) > HistoryLimit)
  BY <1>2 DEF Prune
<1> QED BY <1>1, <1>2

LEMMA EndsRecent ==
    ASSUME NEW h \in Seq(Envelopes), NEW s \in Seq(Creds), Ends(h, s), Assumptions
    PROVE  Ends(h, Recent(s)) /\ Len(Recent(s)) <= HistoryLimit - 1
<1> USE DEF Assumptions
<1>1. CASE Len(s) > HistoryLimit - 1
  <2> DEFINE first == Len(s) - HistoryLimit + 2
             kept == SubSeq(s, first, Len(s))
  <2>1. /\ Len(s) \in Nat /\ Len(h) \in Nat
        /\ first \in 1 .. Len(s) + 1
        /\ \A i \in first .. Len(s) : s[i] \in Creds
    BY <1>1
  <2>2. /\ Len(kept) = HistoryLimit - 1
        /\ \A i \in 1 .. HistoryLimit - 1 : kept[i] = s[first + i - 1]
    BY <2>1, SubSeqProperties
  <2> HIDE DEF kept
  <2>3. ASSUME NEW i \in 1 .. HistoryLimit - 1
        PROVE  h[Len(h) - (HistoryLimit - 1) + i].record.cred = kept[i]
    <3>1. first + i - 1 \in 1 .. Len(s)
      BY <2>1
    <3>2. Len(h) - Len(s) + (first + i - 1) = Len(h) - (HistoryLimit - 1) + i
      BY <2>1
    <3> QED BY <2>2, <3>1, <3>2 DEF Ends
  <2>4. Ends(h, kept)
    BY <1>1, <2>1, <2>2, <2>3 DEF Ends
  <2> QED BY <1>1, <2>2, <2>4 DEF Recent, kept
<1>2. CASE ~(Len(s) > HistoryLimit - 1)
  BY <1>2 DEF Recent
<1> QED BY <1>1, <1>2

\* Archiving the current generation, where it is not, puts it at the end.
LEMMA EndsArchive ==
    ASSUME NEW h \in Seq(Envelopes), NEW s \in Seq(Creds), NEW e \in Envelopes,
           NEW c \in Creds, c = e.record.cred,
           \/ Ends(h, s) /\ ~Archived(h, c)
           \/ Ends(h, Append(s, c))
    PROVE  Ends(Archive(h, e), Append(s, c))
<1>1. CASE Ends(h, s) /\ ~Archived(h, c)
  BY <1>1, EndsAppend DEF Archive
<1>2. CASE Ends(h, Append(s, c))
  <2>1. Append(s, c) \in Seq(Creds) /\ Len(Append(s, c)) = Len(s) + 1
        /\ Append(s, c)[Len(s) + 1] = c /\ Len(s) + 1 \in 1 .. Len(s) + 1
    OBVIOUS
  <2>2. Archived(h, c)
    BY <1>2, <2>1, EndsArchived
  <2> QED BY <1>2, <2>2 DEF Archive
<1> QED BY <1>1, <1>2

\* What is read is the acknowledged generation, with the labels of the primary.
LEMMA ReadIsRegister ==
    ASSUME Assumptions, RegisterInv
    PROVE  /\ Loaded \in Records
           /\ Loaded.cred = acked
           /\ Loaded.label = primary.label
<1> USE DEF RegisterInv, TypeInv
<1> DEFINE recovery == Journal(credentials, history)
           base == ReadBase(primary, credentials, history)
<1>1. /\ primary \in Records /\ primary # NoFile /\ primary # Unreadable
      /\ foreign = {}
  BY DEF Undisturbed, Assumptions
<1>2. Loaded \in Records /\ Loaded.cred = acked
  BY <1>1, KeptIsRead, LoadedType DEF LastAcknowledgedOrForeign, KeptInv
<1>3. base \in Records /\ base.label = primary.label
  <2>1. base \in {primary, Replay(primary, recovery)}
    BY <1>1 DEF ReadBase
  <2>2. Replay(primary, recovery).label = primary.label
    BY <1>1 DEF Replay, Records
  <2>3. base \in Records
    BY <1>2, LoadedType DEF Assumptions
  <2> QED BY <2>1, <2>2, <2>3
<1>4. Loaded = Overlay(base, runtime) /\ base # Unreadable
  BY <1>2, <1>3 DEF Loaded, Load, Assumptions
<1> HIDE DEF base
<1>5. Overlay(base, runtime).label = base.label
  BY <1>3 DEF Overlay, Records
<1> QED BY <1>2, <1>3, <1>4, <1>5

LEMMA RegisterInvInit == ASSUME Assumptions PROVE AccountInit => RegisterInv
<1> SUFFICES ASSUME AccountInit PROVE RegisterInv
  OBVIOUS
<1>1. Init /\ primary # NoFile
  BY DEF AccountInit
<1>2. TypeInv /\ KeptInv /\ HeldThrice
  BY <1>1, TypeInit, KeptInit, HeldInit
<1>3. Undisturbed
  BY <1>1 DEF Init, Undisturbed, Supplied
<1>4. Remembers
  <2>1. /\ history = <<>> /\ superseded = <<>> /\ op.step = "idle"
    BY <1>1 DEF Init, Idle
  <2>2. Ends(history, superseded) /\ ~Archived(history, acked)
    BY <2>1 DEF Ends, Archived
  <2> QED BY <2>1, <2>2 DEF Remembers, Assumptions
<1> QED BY <1>2, <1>3, <1>4 DEF RegisterInv

LEMMA UndisturbedStep ==
    ASSUME Assumptions, RegisterInv, [Next]_vars, Faults \subseteq {"crash"}
    PROVE  Undisturbed'
<1> USE DEF RegisterInv, TypeInv
<1>1. /\ primary # NoFile
      /\ "external" \notin Faults /\ "damage" \notin Faults /\ "remove" \notin Faults
      /\ "relogin" \notin Faults
  BY DEF Undisturbed, Assumptions
<1>2. ASSUME NEW record \in Supplied, BeginSave(record) PROVE Undisturbed'
  BY <1>1, <1>2 DEF BeginSave, files, Undisturbed
<1>3. ASSUME SaveWritePrimary \/ PrepareWritePrimary PROVE Undisturbed'
  BY <1>3 DEF SaveWritePrimary, PrepareWritePrimary, OpShape, At, ghosts, Undisturbed
<1>4. ASSUME Remove \/ (\E record \in Supplied : ExternalWrite(record)) \/ Damage PROVE FALSE
  BY <1>1, <1>4 DEF Remove, ExternalWrite, Damage
<1>5. ASSUME \/ SaveArchivePrevious \/ SaveJournal \/ SaveArchiveNext \/ SaveWriteRuntime
             \/ SavePrune \/ (\E expected \in Creds : BeginPrepare(expected)) \/ PrepareArchive
             \/ SaveRuntime \/ Abandon \/ UNCHANGED vars
      PROVE  Undisturbed'
  BY <1>5 DEF SaveArchivePrevious, SaveJournal, SaveArchiveNext, SaveWriteRuntime, SavePrune,
              BeginPrepare, PrepareArchive, SaveRuntime, BeginSaveRuntime, SaveRuntimeWrite,
              SaveRuntimeVerified, Abandon, vars, files, ghosts, Undisturbed
<1> QED
  BY <1>2, <1>3, <1>4, <1>5 DEF Next, Save, PrepareRefresh, Environment

LEMMA RemembersStep ==
    ASSUME Assumptions, RegisterInv, [Next]_vars, Faults \subseteq {"crash"}
    PROVE  Remembers'
<1> USE DEF RegisterInv, TypeInv
<1>0. /\ history \in Seq(Envelopes) /\ superseded \in Seq(Creds) /\ acked \in Creds
      /\ Loaded \in Records /\ Loaded.cred = acked
      /\ primary # NoFile
      /\ Append(superseded, acked) \in Seq(Creds)
      /\ Len(superseded) \in Nat
  <2>1. Loaded \in Records /\ Loaded.cred = acked
    BY ReadIsRegister
  <2>2. acked \in Creds
    BY <2>1 DEF Records
  <2> QED BY <2>1, <2>2 DEF TypeOK, Undisturbed, Assumptions
<1>a. ASSUME op'.step \notin {"save.archivePrevious", "save.journal", "save.runtime",
                              "save.primary", "save.prune"},
             UNCHANGED <<history, acked, superseded>>
      PROVE  Remembers'
  BY <1>a DEF Remembers
<1>b. ASSUME NEW e \in Envelopes, e.record.cred = acked, history' = Archive(history, e)
      PROVE  Ends(history', Append(superseded, acked))
  <2>1. \/ Ends(history, superseded) /\ ~Archived(history, acked)
        \/ Ends(history, Append(superseded, acked))
    BY DEF Remembers
  <2> QED BY <1>0, <1>b, <2>1, EndsArchive
<1>c. ASSUME NEW step \in Steps, Continue(step)
      PROVE  /\ op'.step = step /\ op'.changed = op.changed
             /\ op'.record = op.record /\ op'.previous = op.previous
  BY <1>c DEF Continue, Operations, TypeOK
<1>d. ASSUME Done PROVE op'.step = "idle"
  BY <1>d DEF Done, Idle
<1>1. ASSUME NEW record \in Supplied, BeginSave(record) PROVE Remembers'
  <2>1. /\ op'.previous = Loaded /\ Loaded # NoFile
        /\ op'.step \in {"save.runtime", "save.archivePrevious"}
        /\ op'.step = "save.runtime" => ~op'.changed
    BY <1>0, <1>1 DEF BeginSave, Begin, Assumptions
  <2>2. UNCHANGED <<history, acked, superseded>>
    BY <1>1 DEF BeginSave, files
  <2> QED BY <1>0, <2>1, <2>2 DEF Remembers
<1>2. ASSUME SaveArchivePrevious PROVE Remembers'
  <2>1. /\ op.previous \in Records /\ op.previous # NoFile /\ op.previous.cred = acked
    BY <1>2 DEF SaveArchivePrevious, At, OpShape, Remembers
  <2>2. Envelope(op.previous, NoCred) \in Envelopes
        /\ Envelope(op.previous, NoCred).record = op.previous
    BY <2>1 DEF Envelope, Envelopes
  <2>3. Ends(history', Append(superseded, acked))
    BY <1>2, <1>b, <2>1, <2>2 DEF SaveArchivePrevious
  <2>4. op'.step = "save.journal" /\ op'.previous = op.previous
    BY <1>2, <1>c DEF SaveArchivePrevious, Steps
  <2> QED BY <1>2, <2>1, <2>3, <2>4 DEF SaveArchivePrevious, ghosts, Remembers
<1>3. ASSUME SaveJournal PROVE Remembers'
  <2>1. /\ op.previous # NoFile /\ op.previous.cred = acked
        /\ Ends(history, Append(superseded, acked))
        /\ ~Archived(history, op.record.cred)
    BY <1>3 DEF SaveJournal, At, OpShape, Remembers, HeldThrice
  <2>2. superseded' = Recent(Append(superseded, acked)) /\ acked' = op.record.cred
        /\ history' = history
    BY <1>3, <2>1 DEF SaveJournal
  <2>3. Ends(history, Recent(Append(superseded, acked)))
        /\ Len(Recent(Append(superseded, acked))) <= HistoryLimit - 1
    BY <1>0, <2>1, EndsRecent
  <2>4. op'.step = "save.archiveNext"
    BY <1>3, <1>c DEF SaveJournal, Steps
  <2> QED BY <2>1, <2>2, <2>3, <2>4 DEF Remembers
<1>4. ASSUME SaveArchiveNext PROVE Remembers'
  <2>1. op.record \in Records /\ op.previous \in Records \cup {NoFile} /\ op.record.cred = acked
    BY <1>4 DEF SaveArchiveNext, At, OpShape, TypeOK, Operations, HeldThrice
  <2>2. OpEnvelope \in Envelopes /\ OpEnvelope.record = op.record
    BY <2>1 DEF OpEnvelope, Envelope, Envelopes, Records
  <2>3. Ends(history', Append(superseded, acked))
    BY <1>4, <1>b, <2>1, <2>2 DEF SaveArchiveNext
  <2>4. op'.step = "save.runtime"
    BY <1>4, <1>c DEF SaveArchiveNext, Steps
  <2> QED BY <1>4, <2>3, <2>4 DEF SaveArchiveNext, ghosts, Remembers
<1>5. ASSUME SaveWriteRuntime PROVE Remembers'
  <2>1. op'.step = "save.primary" /\ op'.changed = op.changed
    BY <1>5, <1>c DEF SaveWriteRuntime, Steps
  <2> QED BY <1>5, <2>1 DEF SaveWriteRuntime, At, ghosts, Remembers
<1>6. ASSUME SaveWritePrimary PROVE Remembers'
  <2>1. CASE op.changed
    <3>1. op'.step = "save.prune"
      BY <1>6, <1>c, <2>1 DEF SaveWritePrimary, Steps
    <3> QED BY <1>6, <2>1, <3>1 DEF SaveWritePrimary, At, Remembers
  <2>2. CASE ~op.changed
    BY <1>6, <1>a, <1>d, <2>2 DEF SaveWritePrimary
  <2> QED BY <2>1, <2>2
<1>7. ASSUME SavePrune PROVE Remembers'
  <2>1. Ends(history, Append(superseded, acked))
    BY <1>7 DEF SavePrune, At, OpShape, Remembers
  <2>2. Len(Append(superseded, acked)) <= HistoryLimit
    BY <1>0 DEF Remembers, Assumptions
  <2>3. Ends(Prune(history), Append(superseded, acked))
    BY <1>0, <2>1, <2>2, EndsPrune
  <2> QED BY <1>7, <1>d, <2>3 DEF SavePrune, ghosts, Remembers
<1>8. ASSUME NEW expected \in Creds, BeginPrepare(expected) PROVE Remembers'
  BY <1>8, <1>a DEF BeginPrepare, Begin, files, ghosts
<1>9. ASSUME PrepareArchive PROVE Remembers'
  <2>1. op.record \in Records /\ op.record.cred = acked
    BY <1>9 DEF PrepareArchive, At, OpShape, KeptInv, InFlightKept, Undisturbed
  <2>2. Envelope(op.record, NoCred) \in Envelopes
        /\ Envelope(op.record, NoCred).record = op.record
    BY <2>1 DEF Envelope, Envelopes
  <2>3. Ends(history', Append(superseded, acked))
    BY <1>9, <1>b, <2>1, <2>2 DEF PrepareArchive
  <2>4. op'.step = "prepare.primary"
    BY <1>9, <1>c DEF PrepareArchive, Steps
  <2> QED BY <1>9, <2>3, <2>4 DEF PrepareArchive, ghosts, Remembers
<1>10. ASSUME PrepareWritePrimary \/ SaveRuntimeVerified \/ Abandon PROVE Remembers'
  BY <1>10, <1>a, <1>d DEF PrepareWritePrimary, SaveRuntimeVerified, Abandon, files, ghosts
<1>11. ASSUME NEW record \in Supplied, NEW verified \in BOOLEAN,
              BeginSaveRuntime(record, verified)
       PROVE  Remembers'
  BY <1>11, <1>a DEF BeginSaveRuntime, Begin, files, ghosts
<1>12. ASSUME SaveRuntimeWrite PROVE Remembers'
  <2>1. op'.step \in {"runtime.verified", "idle"}
    BY <1>12, <1>c, <1>d DEF SaveRuntimeWrite, Steps
  <2> QED BY <1>12, <1>a, <2>1 DEF SaveRuntimeWrite, ghosts
<1>13. ASSUME Remove \/ (\E record \in Supplied : ExternalWrite(record)) \/ Damage PROVE FALSE
  BY <1>13 DEF Remove, ExternalWrite, Damage
<1>14. ASSUME UNCHANGED vars PROVE Remembers'
  BY <1>14 DEF vars, files, ghosts, Remembers
<1> QED
  BY <1>1, <1>2, <1>3, <1>4, <1>5, <1>6, <1>7, <1>8, <1>9, <1>10, <1>11, <1>12, <1>13,
     <1>14
  DEF Next, Save, PrepareRefresh, SaveRuntime, Environment

\* The state of the register under the refinement mapping of CredentialStore.
RegisterState == <<Loaded.cred, Loaded.label, superseded>>

LEMMA RegisterInit == ASSUME Assumptions, AccountInit PROVE Register!Init
<1>1. RegisterInv
  BY RegisterInvInit
<1>2. superseded = <<>>
  BY DEF AccountInit, Init
<1> QED BY <1>1, <1>2, ReadIsRegister DEF Register!Init, Records

\* The journal is where a rotation takes effect; the write of the primary is
\* where the labels do; every other step leaves the register alone.
LEMMA RegisterStep ==
    ASSUME Assumptions, RegisterInv, RegisterInv', [Next]_vars, Faults \subseteq {"crash"}
    PROVE  Register!Next \/ UNCHANGED RegisterState
<1> USE DEF RegisterInv, TypeInv
<1>0. /\ Loaded.cred = acked /\ Loaded.label = primary.label
      /\ Loaded'.cred = acked' /\ Loaded'.label = primary'.label
  <2>1. Loaded.cred = acked /\ Loaded.label = primary.label
    BY ReadIsRegister
  <2>2. Assumptions'
    BY DEF Assumptions, Supplied, Records, Envelopes, Runtimes
  <2>3. (Loaded.cred = acked /\ Loaded.label = primary.label)'
    BY <2>2, ReadIsRegister, PTL
  <2> QED BY <2>1, <2>3
<1>a. ASSUME UNCHANGED <<primary, acked, superseded>>
      PROVE  UNCHANGED RegisterState
  BY <1>0, <1>a DEF RegisterState
<1>1. ASSUME SaveJournal PROVE Register!Next
  <2> DEFINE c == op.record.cred
  <2>1. /\ op.previous # NoFile /\ op.previous.cred = acked
        /\ Ends(history, Append(superseded, acked))
        /\ ~Archived(history, c) /\ c # acked
    BY <1>1 DEF SaveJournal, At, OpShape, Remembers, HeldThrice
  <2>2. /\ c \in Creds /\ acked \in Creds /\ superseded \in Seq(Creds)
        /\ history \in Seq(Envelopes)
    BY <1>1, <2>1 DEF SaveJournal, At, OpShape, Records, Operations, TypeOK
  <2>3. \A i \in 1 .. Len(superseded) : c # superseded[i]
    <3> DEFINE s == Append(superseded, acked)
    <3>1. s \in Seq(Creds) /\ Ends(history, s)
      BY <2>1, <2>2
    <3>2. \A i \in 1 .. Len(superseded) : i \in 1 .. Len(s) /\ s[i] = superseded[i]
      BY <2>2
    <3> HIDE DEF s
    <3>3. \A i \in 1 .. Len(s) : Archived(history, s[i])
      BY <2>2, <3>1, EndsArchived
    <3> QED BY <2>1, <3>2, <3>3
  <2>4. superseded' = Recent(Append(superseded, acked)) /\ acked' = c /\ primary' = primary
    BY <1>1, <2>1 DEF SaveJournal
  <2>5. Recent(Append(superseded, acked)) = Register!Latest(Append(superseded, acked))
    <3>1. \A n \in Nat : n - HistoryLimit + 2 = n - (HistoryLimit - 1) + 1
      BY DEF Assumptions
    <3>2. Len(Append(superseded, acked)) \in Nat
      BY <2>2
    <3> QED BY <3>1, <3>2 DEF Recent, Register!Latest
  <2>6. Register!Rotate(c)
    BY <1>0, <2>1, <2>3, <2>4, <2>5 DEF Register!Rotate
  <2> QED BY <2>2, <2>6 DEF Register!Next
<1>2. ASSUME SaveWritePrimary \/ PrepareWritePrimary PROVE Register!Next
  <2>1. primary'.label \in Labels
    BY DEF Undisturbed, Records
  <2>2. UNCHANGED <<acked, superseded>>
    BY <1>2 DEF SaveWritePrimary, PrepareWritePrimary, ghosts
  <2>3. Register!Relabel(primary'.label)
    BY <1>0, <2>2 DEF Register!Relabel
  <2> QED BY <2>1, <2>3 DEF Register!Next
<1>3. ASSUME Remove \/ (\E record \in Supplied : ExternalWrite(record)) \/ Damage PROVE FALSE
  BY <1>3 DEF Remove, ExternalWrite, Damage
<1>4. ASSUME \/ (\E record \in Supplied : BeginSave(record))
             \/ SaveArchivePrevious \/ SaveArchiveNext \/ SaveWriteRuntime
             \/ SavePrune \/ (\E expected \in Creds : BeginPrepare(expected)) \/ PrepareArchive
             \/ SaveRuntime \/ Abandon \/ UNCHANGED vars
      PROVE  UNCHANGED RegisterState
  BY <1>4, <1>a
  DEF BeginSave, SaveArchivePrevious, SaveArchiveNext, SaveWriteRuntime, SavePrune,
      BeginPrepare, PrepareArchive, SaveRuntime, BeginSaveRuntime, SaveRuntimeWrite,
      SaveRuntimeVerified, Abandon, vars, files, ghosts
<1> QED
  BY <1>1, <1>2, <1>3, <1>4 DEF Next, Save, PrepareRefresh, Environment

\* An existing account behaves as one register, for every set of generations
\* and labels and every history limit: a commit that a crash or a failed write
\* cuts anywhere has happened or has not.
THEOREM RegisterImplemented ==
    ASSUME Faults \subseteq {"crash"}
    PROVE  AccountSpec => ImplementsRegister
<1>1. AccountInit => RegisterInv
  BY AssumptionsHold, RegisterInvInit
<1>2. RegisterInv /\ [Next]_vars => RegisterInv'
  <2> SUFFICES ASSUME RegisterInv, [Next]_vars PROVE RegisterInv'
    OBVIOUS
  <2>1. TypeInv' /\ HeldThrice'
    BY AssumptionsHold, TypeStep, HeldStep DEF RegisterInv
  <2>2. Undisturbed' /\ Remembers'
    BY AssumptionsHold, UndisturbedStep, RemembersStep
  <2>3. KeptInv'
    BY <2>2, AssumptionsHold, KeptStep DEF RegisterInv, Undisturbed
  <2> QED BY <2>1, <2>2, <2>3 DEF RegisterInv
<1>3. AccountInit => Register!Init
  BY AssumptionsHold, RegisterInit
<1>4. RegisterInv /\ RegisterInv' /\ [Next]_vars => [Register!Next]_RegisterState
  BY AssumptionsHold, RegisterStep
<1>5. RegisterInv /\ RegisterInv' /\ [Next]_vars
        => [Register!Next]_<<Loaded.cred, Loaded.label, superseded>>
  BY <1>4 DEF RegisterState
<1> QED
  BY <1>1, <1>2, <1>3, <1>5, PTL
  DEF AccountSpec, ImplementsRegister, Register!Spec, Register!regvars

-----------------------------------------------------------------------------
(* What the environment must not do for the two statements of the sources   *)
(* that it can refute.                                                      *)

\* With every other fault, a journalled pair is the one that is read as long as
\* no login is saved over an interrupted commit and no file is damaged.
THEOREM JournalledReadCorrect ==
    ASSUME "relogin" \notin Faults
    PROVE  Spec => []JournalledPairIsRead
<1> DEFINE Inv == TypeInv /\ "relogin" \notin mishaps /\ (mishaps = {} => KeptInv)
<1>1. Init => Inv
  <2>1. Init => mishaps = {}
    BY DEF Init
  <2> QED BY <2>1, AssumptionsHold, TypeInit, KeptInit
<1>2. Inv /\ [Next]_vars => Inv'
  <2> SUFFICES ASSUME Inv, [Next]_vars PROVE Inv'
    OBVIOUS
  <2>1. mishaps' = {} => mishaps = {}
    BY MishapsStay
  <2>2. "relogin" \notin mishaps'
    BY DEF Next, Save, PrepareRefresh, SaveRuntime, Environment, BeginSave, SaveArchivePrevious,
           SaveJournal, SaveArchiveNext, SaveWriteRuntime, SaveWritePrimary, SavePrune,
           BeginPrepare, PrepareArchive, PrepareWritePrimary, BeginSaveRuntime,
           SaveRuntimeWrite, SaveRuntimeVerified, Abandon, Remove, ExternalWrite, Damage,
           ghosts, vars
  <2> QED BY <2>1, <2>2, AssumptionsHold, TypeStep, KeptStep
<1>3. Inv => JournalledPairIsRead
  <2>1. Inv /\ "damage" \notin mishaps => mishaps = {}
    BY DEF TypeInv, TypeOK
  <2> QED BY <2>1, AssumptionsHold, KeptIsRead DEF JournalledPairIsRead, KeptInv
<1> HIDE DEF Inv
<1> QED BY <1>1, <1>2, <1>3, PTL DEF Spec

\* No commit has passed its journal, or the one in flight has nothing to journal.
BeforeJournal ==
    \/ op.step \notin {"save.archiveNext", "save.runtime", "save.primary", "save.prune"}
    \/ op.step \in {"save.runtime", "save.primary"} /\ ~op.changed

\* A commit has archived its generation, and has not pruned yet.
AfterArchive ==
    \/ op.step = "save.prune"
    \/ op.step \in {"save.runtime", "save.primary"} /\ op.changed

\* While nothing cuts a commit and no other program writes, the primary's
\* generation is the journalled and an archived one, so that only a commit adds
\* to the history, and it adds one generation, the newest.
HistoryKept ==
    /\ ~AfterArchive => Len(history) <= HistoryLimit
    /\ BeforeJournal /\ primary \in Records =>
          /\ credentials # Unreadable => credentials.record.cred = primary.cred
          /\ history = <<>> \/ Archived(history, primary.cred)
    /\ op.step \in {"prepare.archive", "prepare.primary"} =>
          primary \in Records /\ op.record.cred = primary.cred
    /\ op.step \in {"save.runtime", "save.primary"} /\ ~op.changed =>
          primary \in Records /\ op.record.cred = primary.cred
    /\ op.step = "save.archivePrevious" => primary \in Records /\ op.previous.cred = primary.cred
    /\ op.step = "save.archiveNext" \/ AfterArchive =>
          credentials # Unreadable /\ credentials.record.cred = op.record.cred
    /\ AfterArchive =>
          /\ Archived(history, op.record.cred)
          /\ \/ Len(history) <= HistoryLimit
             \/ /\ Len(history) = HistoryLimit + 1
                /\ history[Len(history)].record.cred = op.record.cred
    /\ op.step = "save.prune" => primary \in Records /\ primary.cred = op.record.cred

\* Archiving adds nothing, or the new generation as the newest.
LEMMA ArchiveEnd ==
    ASSUME NEW h \in Seq(Envelopes), NEW e \in Envelopes
    PROVE  /\ Archived(Archive(h, e), e.record.cred)
           /\ \A c : Archived(h, c) => Archived(Archive(h, e), c)
           /\ \/ Archive(h, e) = h
              \/ /\ Len(Archive(h, e)) = Len(h) + 1
                 /\ Archive(h, e)[Len(h) + 1] = e
<1>1. CASE Archived(h, e.record.cred)
  BY <1>1 DEF Archive
<1>2. CASE ~Archived(h, e.record.cred)
  <2> DEFINE g == Append(h, e)
  <2>1. /\ Archive(h, e) = g
        /\ Len(h) \in Nat /\ Len(g) = Len(h) + 1 /\ g[Len(h) + 1] = e
        /\ \A i \in 1 .. Len(h) : g[i] = h[i]
    BY <1>2 DEF Archive
  <2>2. Len(h) + 1 \in 1 .. Len(g) /\ \A i \in 1 .. Len(h) : i \in 1 .. Len(g)
    BY <2>1
  <2> HIDE DEF g
  <2>3. Archived(g, e.record.cred) /\ \A c : Archived(h, c) => Archived(g, c)
    BY <2>1, <2>2 DEF Archived
  <2> QED BY <2>1, <2>3
<1> QED BY <1>1, <1>2

\* Pruning keeps to the limit, and keeps the newest when it removes any.
LEMMA PruneLength ==
    ASSUME NEW h \in Seq(Envelopes), Assumptions
    PROVE  /\ Len(Prune(h)) <= HistoryLimit
           /\ Len(h) <= HistoryLimit => Prune(h) = h
           /\ Len(h) > HistoryLimit => Archived(Prune(h), h[Len(h)].record.cred)
<1> USE DEF Assumptions
<1>1. CASE Len(h) > HistoryLimit
  <2> DEFINE first == Len(h) - HistoryLimit + 1
             kept == SubSeq(h, first, Len(h))
  <2>1. /\ Len(h) \in Nat
        /\ first \in 1 .. Len(h)
        /\ \A i \in first .. Len(h) : h[i] \in Envelopes
    BY <1>1
  <2>2. Len(kept) = Len(h) - first + 1
    BY <2>1, SubSeqProperties
  <2>3. Len(kept) = HistoryLimit /\ Prune(h) = kept
    BY <1>1, <2>1, <2>2 DEF Prune
  <2>4. h # <<>>
    BY <1>1
  <2>5. kept[HistoryLimit] = h[Len(h)] /\ HistoryLimit \in 1 .. Len(kept)
    BY <2>3, <2>4, PruneKeepsNewest
  <2> HIDE DEF kept
  <2> QED BY <1>1, <2>1, <2>3, <2>5 DEF Archived
<1>2. CASE ~(Len(h) > HistoryLimit)
  BY <1>2 DEF Prune
<1> QED BY <1>1, <1>2

LEMMA HistoryInit == ASSUME Assumptions PROVE Init => HistoryKept
<1> SUFFICES ASSUME Init PROVE HistoryKept
  OBVIOUS
<1>1. op.step = "idle" /\ history = <<>> /\ credentials = Unreadable /\ Len(history) = 0
  BY DEF Init, Idle
<1> QED BY <1>1 DEF HistoryKept, AfterArchive, BeforeJournal, Assumptions

\* Nothing is replayed over the primary, and nothing overlays its generation.
LEMMA LoadedIsPrimary ==
    ASSUME Assumptions, TypeInv, GenerationKept, HistoryKept, BeforeJournal, primary \in Records
    PROVE  Loaded \in Records /\ Loaded.cred = primary.cred
<1> USE DEF TypeInv
<1> DEFINE recovery == Journal(credentials, history)
           base == ReadBase(primary, credentials, history)
<1>1. primary # NoFile /\ primary # Unreadable /\ primary.cred \in Creds
  BY DEF Assumptions, Records
<1>2. ~(recovery # Unreadable /\ Interrupted(primary, recovery))
  <2>1. CASE credentials = Unreadable
    <3>1. recovery # Unreadable => recovery.previous = NoCred
      BY <2>1, JournalType DEF GenerationKept
    <3> QED BY <1>1, <3>1 DEF Interrupted, Assumptions
  <2>2. CASE credentials # Unreadable
    <3>1. recovery = credentials /\ credentials.record.cred = primary.cred
      BY <2>2, JournalType DEF HistoryKept
    <3> QED BY <3>1 DEF Interrupted
  <2> QED BY <2>1, <2>2
<1>3. base = primary
  BY <1>1, <1>2 DEF ReadBase
<1>4. Loaded = Overlay(primary, runtime)
  BY <1>1, <1>3 DEF Loaded, Load
<1>5. Overlay(primary, runtime).cred = primary.cred
  BY DEF Overlay, Records
<1>6. Loaded # Unreadable
  BY <1>1, <1>3, LoadedType
<1> QED BY <1>4, <1>5, <1>6, LoadedType

LEMMA HistoryStep ==
    ASSUME Assumptions, TypeInv, GenerationKept, HistoryKept, [Next]_vars,
           Faults \subseteq {"remove"}
    PROVE  HistoryKept'
<1> USE DEF TypeInv
<1>0. /\ Supplied \subseteq Records
      /\ NoFile \notin Records
      /\ Unreadable \notin Records
      /\ Unreadable # NoFile
      /\ history \in Seq(Envelopes)
      /\ Len(history) \in Nat
      /\ HistoryLimit \in Nat \ {0}
  BY DEF Supplied, Assumptions, TypeOK
<1>d. ASSUME Done PROVE op'.step = "idle"
  BY <1>d DEF Done, Idle
<1>c. ASSUME NEW step \in Steps, Continue(step)
      PROVE  /\ op'.step = step
             /\ op'.record = op.record
             /\ op'.previous = op.previous
             /\ op'.changed = op.changed
  BY <1>c DEF Continue, Operations, TypeOK
<1>b. ASSUME BeforeJournal, primary \in Records
      PROVE  Loaded \in Records /\ Loaded.cred = primary.cred
  BY <1>b, LoadedIsPrimary
<1>l. ASSUME ~AfterArchive PROVE Len(history) <= HistoryLimit
  BY <1>l DEF HistoryKept
<1>1. ASSUME NEW record \in Supplied, BeginSave(record) PROVE HistoryKept'
  <2> DEFINE previous == IF primary = NoFile THEN NoFile ELSE Loaded
             changed  == previous = NoFile \/ previous.cred # record.cred
             step     == IF ~changed THEN "save.runtime"
                         ELSE IF previous = NoFile THEN "save.journal" ELSE "save.archivePrevious"
  <2>1. /\ op'.step = step /\ op'.record = record /\ op'.previous = previous
        /\ op'.changed = changed
    BY <1>1 DEF BeginSave, Begin
  <2>2. op.step = "idle" /\ BeforeJournal /\ ~AfterArchive /\ UNCHANGED files
    BY <1>1 DEF BeginSave, At, BeforeJournal, AfterArchive
  <2>3. primary \in Records \/ primary = NoFile
    BY DEF GenerationKept, TypeOK
  <2>4. previous # NoFile => primary \in Records /\ previous.cred = primary.cred
    BY <1>0, <1>b, <2>2, <2>3
  <2> HIDE DEF previous
  <2>5. CASE changed /\ previous = NoFile
    BY <2>1, <2>2, <2>5 DEF HistoryKept, BeforeJournal, AfterArchive, files, Archived
  <2>6. CASE changed /\ previous # NoFile
    BY <2>1, <2>2, <2>4, <2>6 DEF HistoryKept, BeforeJournal, AfterArchive, files, Archived
  <2>7. CASE ~changed
    BY <2>1, <2>2, <2>4, <2>7 DEF HistoryKept, BeforeJournal, AfterArchive, files, Archived
  <2> QED BY <2>5, <2>6, <2>7
<1>2. ASSUME SaveArchivePrevious PROVE HistoryKept'
  <2> DEFINE e == Envelope(op.previous, NoCred)
  <2>1. op'.step = "save.journal" /\ history' = Archive(history, e)
        /\ UNCHANGED <<primary, credentials>>
    BY <1>2, <1>c DEF SaveArchivePrevious, Steps
  <2>2. op.previous \in Records /\ primary \in Records /\ op.previous.cred = primary.cred
    BY <1>2 DEF SaveArchivePrevious, OpShape, At, HistoryKept
  <2>3. e \in Envelopes /\ e.record.cred = primary.cred
    BY <2>2 DEF Envelope, Envelopes
  <2>4. BeforeJournal /\ ~AfterArchive
    BY <1>2 DEF SaveArchivePrevious, At, BeforeJournal, AfterArchive
  <2> HIDE DEF e
  <2>5. Archived(history', primary.cred) /\ Len(history') <= HistoryLimit
    <3>1. CASE history = <<>>
      <4>1. Len(history) = 0
        BY <3>1
      <4>2. /\ Archived(Archive(history, e), e.record.cred)
            /\ \/ Archive(history, e) = history
               \/ Len(Archive(history, e)) = Len(history) + 1
        BY <1>0, <2>3, ArchiveEnd
      <4>3. Archived(history', primary.cred)
        BY <2>1, <2>3, <4>2
      <4>4. Len(history') = 0 \/ Len(history') = 1
        BY <2>1, <4>1, <4>2
      <4>5. Len(history') <= HistoryLimit
        BY <4>4 DEF Assumptions
      <4> QED BY <4>3, <4>5
    <3>2. CASE history # <<>>
      BY <1>l, <2>1, <2>2, <2>3, <2>4, <3>2 DEF HistoryKept, Archive
    <3> QED BY <3>1, <3>2
  <2> QED BY <2>1, <2>2, <2>4, <2>5 DEF HistoryKept, BeforeJournal, AfterArchive, Archived
<1>3. ASSUME SaveJournal PROVE HistoryKept'
  <2>1. /\ op'.step = "save.archiveNext" /\ op'.record = op.record
        /\ credentials' = OpEnvelope /\ history' = history
    BY <1>3, <1>c DEF SaveJournal, Steps
  <2>2. op.record \in Records
    BY <1>3 DEF SaveJournal, OpShape, At
  <2>3. OpEnvelope.record = op.record /\ OpEnvelope # Unreadable
    <3>1. OpEnvelope.record = op.record
      BY DEF OpEnvelope, Envelope
    <3>2. OpEnvelope \in Envelopes
      BY <1>0, <2>2 DEF OpEnvelope, Envelope, Envelopes, Records, Operations, TypeOK
    <3> QED BY <3>1, <3>2 DEF Assumptions
  <2>4. Len(history) <= HistoryLimit
    BY <1>l, <1>3 DEF SaveJournal, At, AfterArchive
  <2> QED BY <2>1, <2>3, <2>4 DEF HistoryKept, BeforeJournal, AfterArchive
<1>4. ASSUME SaveArchiveNext PROVE HistoryKept'
  <2>1. /\ op'.step = "save.runtime" /\ op'.record = op.record /\ op'.changed
        /\ op.record \in Records
        /\ history' = Archive(history, OpEnvelope) /\ UNCHANGED credentials
    BY <1>4, <1>c DEF SaveArchiveNext, Steps, OpShape, At
  <2>2. OpEnvelope.record = op.record /\ OpEnvelope \in Envelopes
    <3>1. OpEnvelope.record = op.record
      BY DEF OpEnvelope, Envelope
    <3>2. OpEnvelope \in Envelopes
      BY <1>0, <2>1 DEF OpEnvelope, Envelope, Envelopes, Records, Operations, TypeOK
    <3> QED BY <3>1, <3>2
  <2>3. /\ Len(history) <= HistoryLimit
        /\ credentials # Unreadable /\ credentials.record.cred = op.record.cred
    BY <1>4 DEF SaveArchiveNext, At, AfterArchive, HistoryKept
  <2>4. /\ Archived(history', op.record.cred)
        /\ \/ Len(history') <= HistoryLimit
           \/ /\ Len(history') = HistoryLimit + 1
              /\ history'[Len(history')].record.cred = op.record.cred
    BY <1>0, <2>1, <2>2, <2>3, ArchiveEnd
  <2> QED BY <2>1, <2>3, <2>4 DEF HistoryKept, BeforeJournal, AfterArchive, Archived
<1>5. ASSUME SaveWriteRuntime PROVE HistoryKept'
  <2>1. op'.step = "save.primary" /\ op'.record = op.record /\ op'.changed = op.changed
        /\ op.step = "save.runtime" /\ UNCHANGED <<primary, credentials, history>>
    BY <1>5, <1>c DEF SaveWriteRuntime, Steps, At
  <2>2. AfterArchive' = AfterArchive /\ BeforeJournal' = BeforeJournal
    BY <2>1 DEF AfterArchive, BeforeJournal
  <2> QED BY <2>1, <2>2 DEF HistoryKept, Archived
<1>6. ASSUME SaveWritePrimary PROVE HistoryKept'
  <2>1. op.step = "save.primary" /\ op.record \in Records /\ primary' = op.record
        /\ UNCHANGED <<credentials, history>>
    BY <1>6 DEF SaveWritePrimary, At, OpShape
  <2>2. CASE op.changed
    <3>1. op'.step = "save.prune" /\ op'.record = op.record
      BY <1>6, <1>c, <2>2 DEF SaveWritePrimary, Steps
    <3>2. AfterArchive /\ AfterArchive' /\ ~BeforeJournal'
      BY <2>1, <2>2, <3>1 DEF AfterArchive, BeforeJournal
    <3> QED BY <2>1, <3>1, <3>2 DEF HistoryKept, Archived
  <2>3. CASE ~op.changed
    <3>1. op'.step = "idle"
      BY <1>6, <1>d, <2>3 DEF SaveWritePrimary
    <3>2. BeforeJournal /\ ~AfterArchive /\ ~AfterArchive'
      BY <2>1, <2>3, <3>1 DEF AfterArchive, BeforeJournal
    <3>3. primary \in Records /\ op.record.cred = primary.cred
      BY <2>1, <2>3 DEF HistoryKept
    <3> QED BY <2>1, <3>1, <3>2, <3>3 DEF HistoryKept, AfterArchive, BeforeJournal, Archived
  <2> QED BY <2>2, <2>3
<1>7. ASSUME SavePrune PROVE HistoryKept'
  <2>1. op.step = "save.prune" /\ AfterArchive /\ op'.step = "idle" /\ history' = Prune(history)
        /\ UNCHANGED <<primary, credentials>>
    BY <1>7, <1>d DEF SavePrune, At, AfterArchive
  <2>2. /\ primary \in Records /\ primary.cred = op.record.cred
        /\ credentials # Unreadable /\ credentials.record.cred = op.record.cred
        /\ Archived(history, op.record.cred)
        /\ \/ Len(history) <= HistoryLimit
           \/ /\ Len(history) = HistoryLimit + 1
              /\ history[Len(history)].record.cred = op.record.cred
    BY <2>1 DEF HistoryKept
  <2>3. Archived(history', primary.cred) /\ Len(history') <= HistoryLimit
    BY <1>0, <2>1, <2>2, PruneLength
  <2> QED BY <2>1, <2>2, <2>3 DEF HistoryKept, AfterArchive, BeforeJournal, Archived
<1>8. ASSUME NEW expected \in Creds, BeginPrepare(expected) PROVE HistoryKept'
  <2>1. /\ op.step = "idle" /\ BeforeJournal /\ ~AfterArchive
        /\ op'.step = "prepare.archive" /\ op'.record = Loaded
        /\ UNCHANGED files /\ Loaded # Unreadable
    BY <1>8 DEF BeginPrepare, Begin, At, BeforeJournal, AfterArchive
  <2>2. primary \in Records
    BY <1>0, <2>1, LoadedType DEF GenerationKept, TypeOK, Loaded, Load, ReadBase
  <2>3. op'.record.cred = primary.cred
    BY <1>b, <2>1, <2>2
  <2> QED BY <2>1, <2>2, <2>3 DEF HistoryKept, AfterArchive, BeforeJournal, files, Archived
<1>9. ASSUME PrepareArchive PROVE HistoryKept'
  <2> DEFINE e == Envelope(op.record, NoCred)
  <2>1. op.step = "prepare.archive" /\ BeforeJournal /\ ~AfterArchive /\ op.record \in Records
        /\ op'.step = "prepare.primary" /\ op'.record = op.record
        /\ history' = Archive(history, e) /\ UNCHANGED <<primary, credentials>>
    BY <1>9, <1>c DEF PrepareArchive, Steps, At, OpShape, BeforeJournal, AfterArchive
  <2>2. primary \in Records /\ op.record.cred = primary.cred
    BY <2>1 DEF HistoryKept
  <2>3. e \in Envelopes /\ e.record.cred = primary.cred
    BY <2>1, <2>2 DEF Envelope, Envelopes, Assumptions, TypeOK
  <2> HIDE DEF e
  <2>4. Archived(history', primary.cred) /\ Len(history') <= HistoryLimit
    <3>1. CASE history = <<>>
      <4>1. Len(history) = 0
        BY <3>1
      <4>2. /\ Archived(Archive(history, e), e.record.cred)
            /\ \/ Archive(history, e) = history
               \/ Len(Archive(history, e)) = Len(history) + 1
        BY <1>0, <2>3, ArchiveEnd
      <4>3. Archived(history', primary.cred)
        BY <2>1, <2>3, <4>2
      <4>4. Len(history') = 0 \/ Len(history') = 1
        BY <2>1, <4>1, <4>2
      <4>5. Len(history') <= HistoryLimit
        BY <4>4 DEF Assumptions
      <4> QED BY <4>3, <4>5
    <3>2. CASE history # <<>>
      BY <1>l, <2>1, <2>2, <2>3, <3>2 DEF HistoryKept, Archive
    <3> QED BY <3>1, <3>2
  <2> QED BY <2>1, <2>2, <2>4 DEF HistoryKept, BeforeJournal, AfterArchive, Archived
<1>10. ASSUME PrepareWritePrimary PROVE HistoryKept'
  <2>1. op.step = "prepare.primary" /\ BeforeJournal /\ ~AfterArchive /\ op.record \in Records
        /\ op'.step = "idle" /\ primary' = op.record /\ UNCHANGED <<credentials, history>>
    BY <1>10, <1>d DEF PrepareWritePrimary, At, OpShape, BeforeJournal, AfterArchive
  <2>2. primary \in Records /\ op.record.cred = primary.cred
    BY <2>1 DEF HistoryKept
  <2> QED BY <2>1, <2>2 DEF HistoryKept, BeforeJournal, AfterArchive, Archived
<1>11. ASSUME \/ \E record \in Supplied, verified \in BOOLEAN : BeginSaveRuntime(record, verified)
              \/ SaveRuntimeWrite
              \/ SaveRuntimeVerified
              \/ UNCHANGED vars
       PROVE  HistoryKept'
  <2>1. UNCHANGED <<primary, credentials, history>>
    BY <1>11 DEF BeginSaveRuntime, SaveRuntimeWrite, SaveRuntimeVerified, vars, files
  <2>2. CASE UNCHANGED op
    BY <2>1, <2>2 DEF HistoryKept, BeforeJournal, AfterArchive, Archived
  <2>3. CASE ~UNCHANGED op
    <3>1. /\ op.step \in {"idle", "runtime.write", "runtime.verified"}
          /\ op'.step \in {"idle", "runtime.write", "runtime.verified"}
      BY <1>11, <1>c, <1>d, <2>3
      DEF BeginSaveRuntime, SaveRuntimeWrite, SaveRuntimeVerified, vars, At, Begin, Steps
    <3> QED BY <2>1, <3>1 DEF HistoryKept, BeforeJournal, AfterArchive, Archived
  <2> QED BY <2>2, <2>3
<1>12. ASSUME Remove PROVE HistoryKept'
  <2>1. op.step = "idle" /\ primary' = NoFile /\ UNCHANGED <<credentials, history, op>>
    BY <1>12 DEF Remove, At
  <2> QED BY <1>0, <2>1 DEF HistoryKept, BeforeJournal, AfterArchive, Archived
<1>13. ASSUME Abandon \/ (\E record \in Supplied : ExternalWrite(record)) \/ Damage PROVE FALSE
  BY <1>13 DEF Abandon, ExternalWrite, Damage
<1> QED
  BY <1>1, <1>2, <1>3, <1>4, <1>5, <1>6, <1>7, <1>8, <1>9, <1>10, <1>11, <1>12, <1>13
  DEF Next, Save, PrepareRefresh, SaveRuntime, Environment

\* "Up to eight immutable generations" is true, for any limit, while nothing
\* cuts a commit, damages a file or writes the primary but the store: removing
\* an account and adding it again is harmless.
THEOREM HistoryBoundedCorrect ==
    ASSUME Faults \subseteq {"remove"}
    PROVE  Spec => []HistoryBounded
<1> DEFINE Inv == TypeInv /\ mishaps = {} /\ KeptInv /\ HistoryKept
<1>1. Init => Inv
  <2>1. Init => mishaps = {}
    BY DEF Init
  <2> QED BY <2>1, AssumptionsHold, TypeInit, KeptInit, HistoryInit
<1>2. Inv /\ [Next]_vars => Inv'
  <2> SUFFICES ASSUME Inv, [Next]_vars PROVE Inv'
    OBVIOUS
  <2>1. mishaps' = {}
    BY DEF Next, Save, PrepareRefresh, SaveRuntime, Environment, BeginSave, SaveArchivePrevious,
           SaveJournal, SaveArchiveNext, SaveWriteRuntime, SaveWritePrimary, SavePrune,
           BeginPrepare, PrepareArchive, PrepareWritePrimary, BeginSaveRuntime,
           SaveRuntimeWrite, SaveRuntimeVerified, Abandon, Remove, ExternalWrite, Damage,
           ghosts, vars
  <2>2. TypeInv' /\ KeptInv'
    BY <2>1, AssumptionsHold, TypeStep, KeptStep
  <2>3. HistoryKept'
    BY AssumptionsHold, HistoryStep DEF KeptInv
  <2> QED BY <2>1, <2>2, <2>3
<1>3. Inv => HistoryBounded
  BY DEF HistoryKept, HistoryBounded, AfterArchive, At
<1> HIDE DEF Inv
<1> QED BY <1>1, <1>2, <1>3, PTL DEF Spec
=============================================================================
