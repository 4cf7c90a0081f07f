----------------------- MODULE CredentialStore_proofs -----------------------
(***************************************************************************)
(* Proofs about CredentialStore, for every set of generations and labels,  *)
(* every history limit and every set of faults.                            *)
(***************************************************************************)
EXTENDS CredentialStore, SequenceTheorems, TLAPS

TypeInv == TypeOK /\ OpShape

Assumptions ==
    /\ HistoryLimit \in Nat \ {0}
    /\ Backup \in Supplied \cup {Unreadable}
    /\ NoCred \notin Creds
    /\ NoFile \notin Records \cup Envelopes
    /\ Unreadable \notin Records \cup Envelopes
    /\ Unreadable # NoFile

LEMMA AssumptionsHold == Assumptions
BY HistoryLimitAssumption, BackupAssumption, DistinctAssumption DEF Assumptions

-----------------------------------------------------------------------------
(* The helpers.                                                            *)

\* Archiving keeps the type, and adds nothing but the new envelope.
LEMMA ArchiveContents ==
    ASSUME NEW h \in Seq(Envelopes), NEW e \in Envelopes
    PROVE  /\ Archive(h, e) \in Seq(Envelopes)
           /\ \A i \in 1 .. Len(Archive(h, e)) :
                Archive(h, e)[i] = e \/ \E j \in 1 .. Len(h) : Archive(h, e)[i] = h[j]
<1>1. CASE Archived(h, e.record.cred)
  BY <1>1 DEF Archive
<1>2. CASE ~Archived(h, e.record.cred)
  BY <1>2 DEF Archive
<1> QED BY <1>1, <1>2

\* Pruning keeps the type and invents no generation.
LEMMA PruneContents ==
    ASSUME NEW S, NEW h \in Seq(S), Assumptions
    PROVE  /\ Prune(h) \in Seq(S)
           /\ \A i \in 1 .. Len(Prune(h)) : \E j \in 1 .. Len(h) : Prune(h)[i] = h[j]
<1> USE DEF Assumptions
<1>1. CASE Len(h) > HistoryLimit
  <2> DEFINE first == Len(h) - HistoryLimit + 1
  <2>1. /\ Len(h) \in Nat
        /\ first \in 1 .. Len(h)
        /\ \A i \in first .. Len(h) : h[i] \in S
    BY <1>1
  <2>2. /\ SubSeq(h, first, Len(h)) \in Seq(S)
        /\ Len(SubSeq(h, first, Len(h))) = Len(h) - first + 1
        /\ \A i \in 1 .. Len(h) - first + 1 : SubSeq(h, first, Len(h))[i] = h[first + i - 1]
    BY <2>1, SubSeqProperties
  <2>3. \A i \in 1 .. Len(h) - first + 1 : first + i - 1 \in 1 .. Len(h)
    BY <2>1
  <2> QED BY <1>1, <2>2, <2>3 DEF Prune
<1>2. CASE ~(Len(h) > HistoryLimit)
  BY <1>2 DEF Prune
<1> QED BY <1>1, <1>2

LEMMA RecentType ==
    ASSUME NEW S, NEW s \in Seq(S), Assumptions
    PROVE  Recent(s) \in Seq(S)
<1> USE DEF Assumptions
<1>1. CASE Len(s) > HistoryLimit - 1
  <2> DEFINE first == Len(s) - HistoryLimit + 2
  <2>1. /\ Len(s) \in Nat
        /\ first \in Int
        /\ \A i \in first .. Len(s) : s[i] \in S
    BY <1>1
  <2>2. SubSeq(s, first, Len(s)) \in Seq(S)
    BY <2>1, SubSeqProperties
  <2> QED BY <1>1, <2>2 DEF Recent
<1>2. CASE ~(Len(s) > HistoryLimit - 1)
  BY <1>2 DEF Recent
<1> QED BY <1>1, <1>2

LEMMA JournalType ==
    ASSUME Assumptions, TypeOK
    PROVE  /\ Journal(credentials, history) \in Envelopes \cup {Unreadable}
           /\ credentials # Unreadable => Journal(credentials, history) = credentials
           /\ credentials = Unreadable /\ Journal(credentials, history) # Unreadable =>
                \E i \in 1 .. Len(history) : Journal(credentials, history) = history[i]
BY DEF Journal, TypeOK

\* What is read is a record, or nothing; the runtime overlay keeps its
\* generation.
LEMMA LoadedType ==
    ASSUME Assumptions, TypeOK
    PROVE  /\ ReadBase(primary, credentials, history) \in Records \cup {Unreadable}
           /\ Loaded \in Records \cup {Unreadable}
           /\ Loaded = Unreadable <=> ReadBase(primary, credentials, history) = Unreadable
           /\ Loaded # Unreadable =>
                Loaded.cred = ReadBase(primary, credentials, history).cred
<1> DEFINE recovery == Journal(credentials, history)
           base == ReadBase(primary, credentials, history)
<1>1. recovery \in Envelopes \cup {Unreadable}
  BY JournalType
<1>2. base \in Records \cup {Unreadable}
  <2>1. ASSUME recovery # Unreadable, primary \in Records
        PROVE  Replay(primary, recovery) \in Records
    BY <1>1, <2>1 DEF Replay, Records, Envelopes, Runtimes
  <2>2. ASSUME recovery # Unreadable PROVE recovery.record \in Records
    BY <1>1, <2>2 DEF Envelopes
  <2>3. Backup \in Records \cup {Unreadable}
    BY DEF Assumptions, Supplied
  <2> QED BY <1>1, <2>1, <2>2, <2>3 DEF ReadBase, TypeOK, Assumptions
<1>3. ASSUME base # Unreadable
      PROVE  Overlay(base, runtime) \in Records /\ Overlay(base, runtime).cred = base.cred
  BY <1>2, <1>3 DEF Overlay, Records, TypeOK
<1>4. Unreadable \notin Records
  BY DEF Assumptions
<1> HIDE DEF base
<1> QED BY <1>2, <1>3, <1>4 DEF Loaded, Load, base

-----------------------------------------------------------------------------
(* Type correctness, with what each step of an operation carries.          *)

LEMMA TypeInit == ASSUME Assumptions PROVE Init => TypeInv
<1> SUFFICES ASSUME Init PROVE TypeInv
  OBVIOUS
<1>1. Idle \in Operations
  BY DEF Idle, Operations, Steps
<1>2. Supplied \subseteq Records
  BY DEF Supplied
<1>3. primary \in Records => primary.cred \in Creds
  BY DEF Records
<1>4. NoFile \notin Records
  BY DEF Assumptions
<1>5. TypeOK
  <2>1. acked \in Creds \cup {NoCred}
    BY <1>2, <1>3, <1>4 DEF Init
  <2>2. mishaps = {}
    BY DEF Init
  <2> QED BY <1>1, <1>2, <2>1, <2>2 DEF Init, TypeOK
<1>6. OpShape
  BY DEF Init, OpShape, At, Idle
<1> QED BY <1>5, <1>6 DEF TypeInv

LEMMA TypeStep == ASSUME Assumptions, TypeInv, [Next]_vars PROVE TypeInv'
<1> USE DEF TypeInv
<1>0. /\ Loaded \in Records \cup {Unreadable}
      /\ Supplied \subseteq Records
      /\ Idle \in Operations
      /\ Unreadable \notin Records
      /\ NoFile \notin Records
      /\ \A r \in Records : r.cred \in Creds /\ RuntimeOf(r) \in [cred : Creds, rt : Runtimes]
  BY LoadedType DEF Supplied, Idle, Operations, Steps, Assumptions, RuntimeOf, Records
<1>a. ASSUME NEW step \in Steps, NEW record \in Records,
             NEW previous \in Records \cup {NoFile},
             NEW changed \in BOOLEAN, NEW verified \in BOOLEAN,
             Begin(step, record, previous, changed, verified)
      PROVE  op' \in Operations
  BY <1>a DEF Begin, Operations
<1>b. ASSUME NEW step \in Steps, Continue(step)
      PROVE  /\ op' \in Operations
             /\ op'.step = step
             /\ op'.record = op.record
             /\ op'.previous = op.previous
             /\ op'.changed = op.changed
  BY <1>b DEF Continue, Operations, TypeOK
<1>c. ASSUME Done PROVE op' \in Operations /\ OpShape'
  BY <1>0, <1>c DEF Done, OpShape, At, Idle
<1>1. ASSUME NEW record \in Supplied, BeginSave(record) PROVE TypeInv'
  <2> DEFINE previous == IF primary = NoFile THEN NoFile ELSE Loaded
             changed  == previous = NoFile \/ previous.cred # record.cred
             step     == IF ~changed THEN "save.runtime"
                         ELSE IF previous = NoFile THEN "save.journal" ELSE "save.archivePrevious"
  <2>1. previous \in Records \cup {NoFile} /\ step \in Steps /\ changed \in BOOLEAN
    BY <1>0, <1>1 DEF BeginSave, Steps
  <2>2. Begin(step, record, previous, changed, FALSE)
    BY <1>1 DEF BeginSave
  <2>3. op' \in Operations
    BY <1>0, <1>a, <2>1, <2>2
  <2>4. OpShape'
    BY <1>0, <2>1, <2>2 DEF Begin, OpShape, At
  <2> HIDE DEF previous, changed, step
  <2> QED BY <1>1, <2>3, <2>4 DEF BeginSave, TypeOK, files, ghosts
<1>2. ASSUME SaveArchivePrevious PROVE TypeInv'
  <2>1. Envelope(op.previous, NoCred) \in Envelopes
    BY <1>2 DEF SaveArchivePrevious, OpShape, Envelope, Envelopes
  <2>2. history' \in Seq(Envelopes)
    BY <1>2, <2>1, ArchiveContents DEF SaveArchivePrevious, TypeOK
  <2>3. op' \in Operations /\ OpShape'
    BY <1>2, <1>b DEF SaveArchivePrevious, Steps, OpShape, At
  <2> QED BY <1>2, <2>2, <2>3 DEF SaveArchivePrevious, TypeOK, ghosts
<1>3. ASSUME SaveJournal \/ SaveArchiveNext
      PROVE  OpEnvelope \in Envelopes
  <2>1. op.record \in Records /\ op.previous \in Records \cup {NoFile}
    BY <1>3 DEF SaveJournal, SaveArchiveNext, OpShape, At, TypeOK, Operations
  <2> QED BY <1>0, <2>1 DEF OpEnvelope, Envelope, Envelopes
<1>4. ASSUME SaveJournal PROVE TypeInv'
  <2>1. op.record \in Records /\ op.previous \in Records \cup {NoFile}
    BY <1>4 DEF SaveJournal, OpShape, At, TypeOK, Operations
  <2>2. superseded' \in Seq(Creds)
    <3>1. CASE op.previous = NoFile
      BY <1>4, <3>1, EmptySeq DEF SaveJournal
    <3>2. CASE op.previous # NoFile
      <4>1. superseded \in Seq(Creds) /\ op.previous.cred \in Creds
        BY <1>0, <2>1, <3>2 DEF TypeOK
      <4>2. Append(superseded, op.previous.cred) \in Seq(Creds)
        BY <4>1
      <4>3. Recent(Append(superseded, op.previous.cred)) \in Seq(Creds)
        BY <4>2, RecentType
      <4> QED BY <1>4, <3>2, <4>3 DEF SaveJournal
    <3> QED BY <3>1, <3>2
  <2>3. op' \in Operations /\ OpShape'
    BY <1>4, <1>b DEF SaveJournal, Steps, OpShape, At
  <2> QED BY <1>0, <1>3, <1>4, <2>1, <2>2, <2>3 DEF SaveJournal, TypeOK
<1>5. ASSUME SaveArchiveNext PROVE TypeInv'
  <2>1. history' \in Seq(Envelopes)
    BY <1>3, <1>5, ArchiveContents DEF SaveArchiveNext, TypeOK
  <2>2. op' \in Operations /\ OpShape'
    BY <1>5, <1>b DEF SaveArchiveNext, Steps, OpShape, At
  <2> QED BY <1>5, <2>1, <2>2 DEF SaveArchiveNext, TypeOK, ghosts
<1>6. ASSUME SaveWriteRuntime PROVE TypeInv'
  <2>1. op' \in Operations /\ OpShape'
    BY <1>6, <1>b DEF SaveWriteRuntime, Steps, OpShape, At
  <2>2. op.record \in Records
    BY <1>6 DEF SaveWriteRuntime, OpShape, At
  <2> QED BY <1>0, <1>6, <2>1, <2>2 DEF SaveWriteRuntime, TypeOK, ghosts
<1>7. ASSUME SaveWritePrimary PROVE TypeInv'
  <2>1. op.record \in Records
    BY <1>7 DEF SaveWritePrimary, OpShape, At
  <2>2. op' \in Operations /\ OpShape'
    <3>1. CASE op.changed
      BY <1>7, <1>b, <2>1, <3>1 DEF SaveWritePrimary, Steps, OpShape, At
    <3>2. CASE ~op.changed
      BY <1>7, <1>c, <3>2 DEF SaveWritePrimary
    <3> QED BY <3>1, <3>2
  <2> QED BY <1>7, <2>1, <2>2 DEF SaveWritePrimary, TypeOK
<1>8. ASSUME SavePrune PROVE TypeInv'
  BY <1>8, <1>c, PruneContents DEF SavePrune, TypeOK, ghosts
<1>9. ASSUME NEW expected \in Creds, BeginPrepare(expected) PROVE TypeInv'
  <2>1. op' \in Operations
    BY <1>0, <1>9, <1>a DEF BeginPrepare, Steps
  <2>2. OpShape'
    BY <1>0, <1>9 DEF BeginPrepare, Begin, OpShape, At
  <2> QED BY <1>9, <2>1, <2>2 DEF BeginPrepare, TypeOK, files, ghosts
<1>10. ASSUME PrepareArchive PROVE TypeInv'
  <2>1. Envelope(op.record, NoCred) \in Envelopes
    BY <1>10 DEF PrepareArchive, OpShape, At, Envelope, Envelopes
  <2>2. history' \in Seq(Envelopes)
    BY <1>10, <2>1, ArchiveContents DEF PrepareArchive, TypeOK
  <2>3. op' \in Operations /\ OpShape'
    BY <1>10, <1>b DEF PrepareArchive, Steps, OpShape, At
  <2> QED BY <1>10, <2>2, <2>3 DEF PrepareArchive, TypeOK, ghosts
<1>11. ASSUME PrepareWritePrimary PROVE TypeInv'
  BY <1>11, <1>c DEF PrepareWritePrimary, OpShape, At, TypeOK, ghosts
<1>12. ASSUME NEW record \in Supplied, NEW verified \in BOOLEAN,
              BeginSaveRuntime(record, verified)
       PROVE  TypeInv'
  <2>1. op' \in Operations
    BY <1>0, <1>12, <1>a DEF BeginSaveRuntime, Steps
  <2>2. OpShape'
    BY <1>0, <1>12 DEF BeginSaveRuntime, Begin, OpShape, At
  <2> QED BY <1>12, <2>1, <2>2 DEF BeginSaveRuntime, TypeOK, files, ghosts
<1>13. ASSUME SaveRuntimeWrite PROVE TypeInv'
  <2>1. op.record \in Records
    BY <1>13 DEF SaveRuntimeWrite, OpShape, At
  <2>2. op' \in Operations /\ OpShape'
    <3>1. CASE op.verified
      BY <1>13, <1>b, <3>1 DEF SaveRuntimeWrite, Steps, OpShape, At
    <3>2. CASE ~op.verified
      BY <1>13, <1>c, <3>2 DEF SaveRuntimeWrite
    <3> QED BY <3>1, <3>2
  <2> QED BY <1>0, <1>13, <2>1, <2>2 DEF SaveRuntimeWrite, TypeOK, ghosts
<1>14. ASSUME SaveRuntimeVerified PROVE TypeInv'
  <2>1. op.record \in Records
    BY <1>14 DEF SaveRuntimeVerified, OpShape, At
  <2> QED BY <1>0, <1>14, <1>c, <2>1 DEF SaveRuntimeVerified, TypeOK, ghosts
<1>15. ASSUME Abandon PROVE TypeInv'
  BY <1>15, <1>c DEF Abandon, TypeOK, files, ghosts
<1>16. ASSUME Remove PROVE TypeInv'
  BY <1>16, EmptySeq DEF Remove, TypeOK, OpShape, At
<1>17. ASSUME NEW record \in Supplied, ExternalWrite(record) PROVE TypeInv'
  BY <1>0, <1>17, EmptySeq DEF ExternalWrite, TypeOK, OpShape, At
<1>18. ASSUME Damage PROVE TypeInv'
  BY <1>18 DEF Damage, TypeOK, OpShape, At, ghosts
<1>19. ASSUME UNCHANGED vars PROVE TypeInv'
  BY <1>19 DEF vars, files, ghosts, TypeOK, OpShape, At
<1> QED
  BY <1>1, <1>2, <1>4, <1>5, <1>6, <1>7, <1>8, <1>9, <1>10, <1>11, <1>12, <1>13,
     <1>14, <1>15, <1>16, <1>17, <1>18, <1>19
  DEF Next, Save, PrepareRefresh, SaveRuntime, Environment

\* Every file holds a value of its own kind whatever the faults.
THEOREM TypeCorrect == Spec => [](TypeOK /\ OpShape)
<1>1. Init => TypeInv
  BY AssumptionsHold, TypeInit
<1>2. TypeInv /\ [Next]_vars => TypeInv'
  BY AssumptionsHold, TypeStep
<1> QED BY <1>1, <1>2, PTL DEF Spec, TypeInv

-----------------------------------------------------------------------------
(* The runtime fields that are read belong to the generation that is read. *)

LEMMA LoadedBound ==
    ASSUME Assumptions, TypeInv, RecordsBound
    PROVE  Loaded # Unreadable => AboutItself(Loaded)
<1> DEFINE recovery == Journal(credentials, history)
           base == ReadBase(primary, credentials, history)
<1>1. recovery \in Envelopes \cup {Unreadable}
  BY JournalType DEF TypeInv
<1>2. recovery # Unreadable => AboutItself(recovery.record)
  BY JournalType DEF TypeInv, RecordsBound
<1>3. Backup # Unreadable => AboutItself(Backup)
  BY DEF Assumptions, Supplied, AboutItself
<1>4. base \in Records \cup {Unreadable}
  BY LoadedType DEF TypeInv
<1>5. base # Unreadable => AboutItself(base)
  <2>1. CASE recovery # Unreadable /\ primary \in Records /\ Interrupted(primary, recovery)
    <3>1. base = Replay(primary, recovery)
      BY <2>1 DEF ReadBase, Assumptions
    <3>2. base.cred = recovery.record.cred /\ base.rt.status = recovery.record.rt.status
          /\ base.rt.error = NoCred
      BY <2>1, <3>1 DEF Replay, Records
    <3> QED BY <1>2, <2>1, <3>2 DEF AboutItself
  <2>2. CASE ~(recovery # Unreadable /\ primary \in Records /\ Interrupted(primary, recovery))
    <3>1. base \in {primary, Backup, Unreadable} \/
          (recovery # Unreadable /\ base = recovery.record)
      BY <2>2 DEF ReadBase, TypeInv, TypeOK, Assumptions
    <3>2. base = primary /\ base # Unreadable => primary \in Records
      BY <1>4
    <3> QED BY <1>2, <1>3, <3>1, <3>2 DEF RecordsBound
  <2> QED BY <2>1, <2>2
<1>6. base # Unreadable => AboutItself(Overlay(base, runtime))
  <2> SUFFICES ASSUME base # Unreadable PROVE AboutItself(Overlay(base, runtime))
    OBVIOUS
  <2>1. CASE runtime # Unreadable /\ runtime.cred = base.cred
    <3>1. Overlay(base, runtime).cred = base.cred /\ Overlay(base, runtime).rt = runtime.rt
      BY <1>4, <2>1 DEF Overlay, Records
    <3> QED BY <2>1, <3>1 DEF RecordsBound, AboutItself
  <2>2. CASE ~(runtime # Unreadable /\ runtime.cred = base.cred)
    BY <1>5, <2>2 DEF Overlay
  <2> QED BY <2>1, <2>2
<1> HIDE DEF base
<1> QED BY <1>6 DEF Loaded, Load, base

LEMMA BoundInit == ASSUME Assumptions PROVE Init => RecordsBound
BY DEF Init, RecordsBound, Supplied, AboutItself, Idle, Assumptions

LEMMA BoundStep ==
    ASSUME Assumptions, TypeInv, RecordsBound, [Next]_vars
    PROVE  RecordsBound'
<1> USE DEF TypeInv
<1>0. /\ Loaded \in Records => AboutItself(Loaded)
      /\ \A r \in Supplied : AboutItself(r)
      /\ Unreadable \notin Records
      /\ NoFile \notin Records
  BY LoadedType, LoadedBound DEF Supplied, AboutItself, Assumptions
<1>a. ASSUME \/ UNCHANGED op
             \/ Done
             \/ \E step \in Steps : Continue(step)
      PROVE  /\ op'.record \in Records => AboutItself(op'.record)
             /\ op'.previous \in Records => AboutItself(op'.previous)
  BY <1>0, <1>a DEF Done, Idle, Continue, TypeOK, Operations, RecordsBound
<1>b. ASSUME NEW e \in Envelopes, AboutItself(e.record), history' = Archive(history, e)
      PROVE  \A i \in 1 .. Len(history') : AboutItself(history'[i].record)
  <2> DEFINE h == Archive(history, e)
  <2>1. history \in Seq(Envelopes)
    BY DEF TypeOK
  <2>2. \A i \in 1 .. Len(h) : h[i] = e \/ \E j \in 1 .. Len(history) : h[i] = history[j]
    BY <2>1, ArchiveContents
  <2>3. \A i \in 1 .. Len(h) : AboutItself(h[i].record)
    <3> HIDE DEF h
    <3> QED BY <1>b, <2>2 DEF RecordsBound
  <2> QED BY <1>b, <2>3
<1>c. ASSUME NEW r \in Records, AboutItself(r) PROVE AboutItself(RuntimeOf(r))
  BY <1>c DEF RuntimeOf, AboutItself
<1>1. ASSUME NEW record \in Supplied, BeginSave(record) PROVE RecordsBound'
  <2>1. op'.record = record /\ op'.previous \in {NoFile, Loaded}
    BY <1>1 DEF BeginSave, Begin
  <2> QED BY <1>0, <1>1, <2>1 DEF BeginSave, RecordsBound, files
<1>2. ASSUME SaveArchivePrevious PROVE RecordsBound'
  <2>1. /\ Envelope(op.previous, NoCred) \in Envelopes
        /\ AboutItself(Envelope(op.previous, NoCred).record)
    BY <1>2 DEF SaveArchivePrevious, OpShape, Envelope, Envelopes, RecordsBound
  <2>2. \A i \in 1 .. Len(history') : AboutItself(history'[i].record)
    BY <1>2, <1>b, <2>1 DEF SaveArchivePrevious
  <2>3. \E step \in Steps : Continue(step)
    BY <1>2 DEF SaveArchivePrevious, Steps
  <2> QED BY <1>2, <1>a, <2>2, <2>3 DEF SaveArchivePrevious, RecordsBound
<1>3. ASSUME SaveJournal \/ SaveArchiveNext
      PROVE  OpEnvelope \in Envelopes /\ AboutItself(OpEnvelope.record)
  <2>1. op.record \in Records /\ op.previous \in Records \cup {NoFile}
    BY <1>3 DEF SaveJournal, SaveArchiveNext, OpShape, At, TypeOK, Operations
  <2>2. op.previous # NoFile => op.previous.cred \in Creds
    BY <2>1 DEF Records
  <2> QED BY <2>1, <2>2 DEF OpEnvelope, Envelope, Envelopes, RecordsBound
<1>4. ASSUME SaveJournal PROVE RecordsBound'
  <2>1. \E step \in Steps : Continue(step)
    BY <1>4 DEF SaveJournal, Steps
  <2> QED BY <1>3, <1>4, <1>a, <2>1 DEF SaveJournal, RecordsBound
<1>5. ASSUME SaveArchiveNext PROVE RecordsBound'
  <2>1. \A i \in 1 .. Len(history') : AboutItself(history'[i].record)
    BY <1>3, <1>5, <1>b DEF SaveArchiveNext
  <2>2. \E step \in Steps : Continue(step)
    BY <1>5 DEF SaveArchiveNext, Steps
  <2> QED BY <1>5, <1>a, <2>1, <2>2 DEF SaveArchiveNext, RecordsBound
<1>6. ASSUME SaveWriteRuntime PROVE RecordsBound'
  <2>1. AboutItself(RuntimeOf(op.record))
    BY <1>6, <1>c DEF SaveWriteRuntime, OpShape, At, RecordsBound
  <2>2. \E step \in Steps : Continue(step)
    BY <1>6 DEF SaveWriteRuntime, Steps
  <2> QED BY <1>6, <1>a, <2>1, <2>2 DEF SaveWriteRuntime, RecordsBound
<1>7. ASSUME SaveWritePrimary PROVE RecordsBound'
  <2>1. Done \/ \E step \in Steps : Continue(step)
    BY <1>7 DEF SaveWritePrimary, Steps
  <2> QED BY <1>7, <1>a, <2>1 DEF SaveWritePrimary, RecordsBound
<1>8. ASSUME SavePrune PROVE RecordsBound'
  <2>1. \A i \in 1 .. Len(history') : AboutItself(history'[i].record)
    BY <1>8, PruneContents DEF SavePrune, TypeOK, RecordsBound
  <2> QED BY <1>8, <1>a, <2>1 DEF SavePrune, RecordsBound
<1>9. ASSUME NEW expected \in Creds, BeginPrepare(expected) PROVE RecordsBound'
  BY <1>0, <1>9 DEF BeginPrepare, Begin, RecordsBound, files
<1>10. ASSUME PrepareArchive PROVE RecordsBound'
  <2>1. /\ Envelope(op.record, NoCred) \in Envelopes
        /\ AboutItself(Envelope(op.record, NoCred).record)
    BY <1>10 DEF PrepareArchive, OpShape, At, Envelope, Envelopes, RecordsBound
  <2>2. \A i \in 1 .. Len(history') : AboutItself(history'[i].record)
    BY <1>10, <1>b, <2>1 DEF PrepareArchive
  <2>3. \E step \in Steps : Continue(step)
    BY <1>10 DEF PrepareArchive, Steps
  <2> QED BY <1>10, <1>a, <2>2, <2>3 DEF PrepareArchive, RecordsBound
<1>11. ASSUME PrepareWritePrimary PROVE RecordsBound'
  BY <1>11, <1>a DEF PrepareWritePrimary, RecordsBound
<1>12. ASSUME NEW record \in Supplied, NEW verified \in BOOLEAN,
              BeginSaveRuntime(record, verified)
       PROVE  RecordsBound'
  BY <1>0, <1>12 DEF BeginSaveRuntime, Begin, RecordsBound, files
<1>13. ASSUME SaveRuntimeWrite PROVE RecordsBound'
  <2>1. AboutItself(RuntimeOf(op.record))
    BY <1>13, <1>c DEF SaveRuntimeWrite, OpShape, At, RecordsBound
  <2>2. Done \/ \E step \in Steps : Continue(step)
    BY <1>13 DEF SaveRuntimeWrite, Steps
  <2> QED BY <1>13, <1>a, <2>1, <2>2 DEF SaveRuntimeWrite, RecordsBound
<1>14. ASSUME SaveRuntimeVerified PROVE RecordsBound'
  BY <1>14, <1>a DEF SaveRuntimeVerified, RecordsBound
<1>15. ASSUME Abandon PROVE RecordsBound'
  BY <1>15, <1>a DEF Abandon, RecordsBound, files
<1>16. ASSUME Remove PROVE RecordsBound'
  BY <1>0, <1>16 DEF Remove, RecordsBound
<1>17. ASSUME NEW record \in Supplied, ExternalWrite(record) PROVE RecordsBound'
  BY <1>0, <1>17 DEF ExternalWrite, RecordsBound
<1>18. ASSUME Damage PROVE RecordsBound'
  BY <1>0, <1>18 DEF Damage, RecordsBound
<1>19. ASSUME UNCHANGED vars PROVE RecordsBound'
  BY <1>19 DEF vars, files, RecordsBound
<1> QED
  BY <1>1, <1>2, <1>4, <1>5, <1>6, <1>7, <1>8, <1>9, <1>10, <1>11, <1>12, <1>13,
     <1>14, <1>15, <1>16, <1>17, <1>18, <1>19
  DEF Next, Save, PrepareRefresh, SaveRuntime, Environment

\* No crash, re-login, external write, removal or damaged file makes an old
\* generation's status or rejected-refresh marker apply to a newer one.
THEOREM RuntimeBoundCorrect == Spec => []RuntimeBound
<1>1. Init => TypeInv /\ RecordsBound
  BY AssumptionsHold, TypeInit, BoundInit
<1>2. TypeInv /\ RecordsBound /\ [Next]_vars => (TypeInv /\ RecordsBound)'
  BY AssumptionsHold, TypeStep, BoundStep
<1>3. TypeInv /\ RecordsBound => RuntimeBound
  BY AssumptionsHold, LoadedBound DEF RuntimeBound, AboutItself
<1> QED BY <1>1, <1>2, <1>3, PTL DEF Spec

-----------------------------------------------------------------------------
(* No acknowledged generation is lost while every rotation is prepared.    *)

KeptInv == GenerationKept /\ InFlightKept

\* What is read is the acknowledged generation or another program's.
LEMMA KeptIsRead ==
    ASSUME Assumptions, TypeInv, GenerationKept
    PROVE  LastAcknowledgedOrForeign
<1> DEFINE recovery == Journal(credentials, history)
           base == ReadBase(primary, credentials, history)
<1> SUFFICES ASSUME primary # NoFile
             PROVE  Loaded # Unreadable /\ Loaded.cred \in {acked} \cup foreign
  BY DEF LastAcknowledgedOrForeign
<1>0. recovery \in Envelopes \cup {Unreadable}
  BY JournalType DEF TypeInv
<1>1. primary \in Records /\ primary # Unreadable
  BY DEF GenerationKept, TypeInv, TypeOK
<1>2. base # Unreadable /\ base.cred \in {acked} \cup foreign
  <2>1. CASE recovery # Unreadable /\ Interrupted(primary, recovery)
    <3>1. base = Replay(primary, recovery)
      BY <1>1, <2>1 DEF ReadBase
    <3>2. base \in Records /\ base.cred = recovery.record.cred
      <4>1. recovery.record \in Records
        BY <1>0, <2>1 DEF Envelopes
      <4> HIDE DEF base, recovery
      <4>2. recovery.record.cred \in Creds /\ recovery.record.rt.status \in Creds
        BY <4>1 DEF Records, Runtimes
      <4>3. Replay(primary, recovery) \in Records
        BY <1>1, <4>2 DEF Replay, Records, Runtimes
      <4>4. Replay(primary, recovery).cred = recovery.record.cred
        BY <1>1 DEF Replay, Records
      <4> QED BY <3>1, <4>3, <4>4
    <3>3. credentials # Unreadable
      <4> SUFFICES ASSUME credentials = Unreadable PROVE FALSE
        OBVIOUS
      <4>1. recovery.previous = NoCred
        BY <2>1, JournalType DEF GenerationKept, TypeInv
      <4> QED BY <1>1, <2>1, <4>1 DEF Interrupted, Records, Assumptions
    <3>4. recovery.record.cred = acked
      BY <3>3, JournalType DEF GenerationKept, TypeInv
    <3> QED BY <3>2, <3>4 DEF Assumptions
  <2>2. CASE ~(recovery # Unreadable /\ Interrupted(primary, recovery))
    <3>1. base = primary
      BY <1>1, <2>2 DEF ReadBase
    <3>2. CASE credentials # Unreadable /\ primary.cred = credentials.previous
      <4>1. recovery = credentials
        BY <3>2, JournalType DEF TypeInv
      <4>2. primary.cred = acked
        BY <2>2, <3>2, <4>1 DEF Interrupted, GenerationKept
      <4> QED BY <1>1, <3>1, <4>2
    <3>3. CASE ~(credentials # Unreadable /\ primary.cred = credentials.previous)
      BY <1>1, <3>1, <3>3 DEF GenerationKept
    <3> QED BY <3>2, <3>3
  <2> QED BY <2>1, <2>2
<1> QED BY <1>2, LoadedType DEF TypeInv

LEMMA KeptInit == ASSUME Assumptions PROVE Init => KeptInv
<1> SUFFICES ASSUME Init PROVE KeptInv
  OBVIOUS
<1>1. primary # Unreadable /\ (primary \in Records => primary.cred = acked)
  BY DEF Init, Supplied, Assumptions
<1> QED BY <1>1 DEF Init, KeptInv, GenerationKept, InFlightKept, Idle

LEMMA MishapsStay == ASSUME TypeInv, [Next]_vars PROVE mishaps \subseteq mishaps'
BY DEF Next, Save, PrepareRefresh, SaveRuntime, Environment, BeginSave, SaveArchivePrevious,
       SaveJournal, SaveArchiveNext, SaveWriteRuntime, SaveWritePrimary, SavePrune, BeginPrepare,
       PrepareArchive, PrepareWritePrimary, BeginSaveRuntime, SaveRuntimeWrite,
       SaveRuntimeVerified, Abandon, Remove, ExternalWrite, Damage, ghosts, vars

LEMMA KeptStep ==
    ASSUME Assumptions, TypeInv, KeptInv, [Next]_vars, mishaps' = {}
    PROVE  KeptInv'
<1> USE DEF TypeInv, KeptInv
<1>0. /\ LastAcknowledgedOrForeign
      /\ Loaded \in Records \cup {Unreadable}
      /\ Supplied \subseteq Records
      /\ Unreadable \notin Records
      /\ NoFile \notin Records
      /\ \A r \in Records : r.cred \in Creds
  BY KeptIsRead, LoadedType DEF Supplied, Assumptions, Records
<1>i. ASSUME Done PROVE InFlightKept'
  BY <1>i DEF Done, Idle, InFlightKept
<1>c. ASSUME NEW step \in Steps, Continue(step)
      PROVE  /\ op'.step = step
             /\ op'.record = op.record
             /\ op'.previous = op.previous
             /\ op'.changed = op.changed
  BY <1>c DEF Continue, Operations, TypeOK
<1>a. ASSUME NEW e \in Envelopes, e.previous = NoCred, history' = Archive(history, e),
             UNCHANGED credentials
      PROVE  credentials' = Unreadable =>
               \A i \in 1 .. Len(history') : history'[i].previous = NoCred
  <2> DEFINE h == Archive(history, e)
  <2>1. history \in Seq(Envelopes) /\ e \in Envelopes
    BY <1>a DEF TypeOK
  <2>2. \A i \in 1 .. Len(h) : h[i] = e \/ \E j \in 1 .. Len(history) : h[i] = history[j]
    BY <2>1, ArchiveContents
  <2>3. credentials = Unreadable => \A i \in 1 .. Len(h) : h[i].previous = NoCred
    <3> HIDE DEF h
    <3> QED BY <1>a, <2>2 DEF GenerationKept
  <2> QED BY <1>a, <2>3
<1>1. ASSUME NEW record \in Supplied, BeginSave(record) PROVE KeptInv'
  <2> DEFINE previous == IF primary = NoFile THEN NoFile ELSE Loaded
             changed  == previous = NoFile \/ previous.cred # record.cred
             step     == IF ~changed THEN "save.runtime"
                         ELSE IF previous = NoFile THEN "save.journal" ELSE "save.archivePrevious"
  <2>1. op' = [step |-> step, record |-> record, previous |-> previous,
               changed |-> changed, verified |-> FALSE]
    BY <1>1 DEF BeginSave, Begin
  <2>2. changed /\ previous # NoFile => Reconciled
    BY <1>1 DEF BeginSave
  <2>3. GenerationKept'
    BY <1>1 DEF BeginSave, files, ghosts, GenerationKept
  <2>4. primary = NoFile => primary \notin Records
    BY <1>0
  <2>5. CASE ~changed
    <3>1. primary # NoFile /\ record.cred = Loaded.cred
      BY <2>5
    <3>2. record.cred \in {acked} \cup foreign
      BY <1>0, <3>1 DEF LastAcknowledgedOrForeign
    <3> QED BY <1>1, <2>1, <2>3, <2>5, <3>2 DEF BeginSave, ghosts, InFlightKept
  <2>6. CASE changed /\ previous = NoFile
    <3>1. primary = NoFile
      BY <1>0, <1>1, <2>6 DEF BeginSave
    <3>2. op'.step = "save.journal"
      BY <2>1, <2>6
    <3> QED BY <1>1, <2>3, <2>4, <3>1, <3>2 DEF BeginSave, files, InFlightKept
  <2>7. CASE changed /\ previous # NoFile
    <3>1. op'.step = "save.archivePrevious" /\ op'.previous = Loaded /\ Loaded # NoFile
      BY <2>1, <2>7
    <3>2. primary.cred = Loaded.cred
      BY <2>2, <2>7 DEF Reconciled
    <3> QED BY <1>1, <2>3, <3>1, <3>2 DEF BeginSave, files, InFlightKept
  <2> QED BY <2>5, <2>6, <2>7
<1>2. ASSUME SaveArchivePrevious PROVE KeptInv'
  <2>1. Envelope(op.previous, NoCred) \in Envelopes /\ Envelope(op.previous, NoCred).previous = NoCred
    BY <1>2 DEF SaveArchivePrevious, OpShape, Envelope, Envelopes
  <2>2. GenerationKept'
    BY <1>2, <1>a, <2>1 DEF SaveArchivePrevious, ghosts, GenerationKept
  <2>3. op'.step = "save.journal" /\ op'.previous = op.previous
    BY <1>2, <1>c DEF SaveArchivePrevious, Steps
  <2> QED BY <1>2, <2>2, <2>3 DEF SaveArchivePrevious, At, ghosts, InFlightKept
<1>3. ASSUME SaveJournal PROVE KeptInv'
  <2>1. op.record \in Records /\ op.previous \in Records \cup {NoFile}
    BY <1>3 DEF SaveJournal, OpShape, At, TypeOK, Operations
  <2>2. /\ credentials' \in Envelopes
        /\ credentials'.record = op.record
        /\ op.previous # NoFile => credentials'.previous = op.previous.cred
    BY <1>0, <1>3, <2>1 DEF SaveJournal, OpEnvelope, Envelope, Envelopes
  <2>3. credentials' # Unreadable
    BY <2>2 DEF Assumptions
  <2>4. primary \in Records =>
          \/ primary.cred \in foreign
          \/ op.previous # NoFile /\ primary.cred = op.previous.cred
    BY <1>3 DEF SaveJournal, At, InFlightKept
  <2>5. GenerationKept'
    BY <1>3, <2>2, <2>3, <2>4 DEF SaveJournal, GenerationKept
  <2>6. op'.step = "save.archiveNext" /\ op'.record = op.record /\ op'.changed
    BY <1>3, <1>c DEF SaveJournal, Steps, OpShape, At
  <2> QED BY <1>3, <2>3, <2>5, <2>6 DEF SaveJournal, InFlightKept
<1>4. ASSUME SaveArchiveNext PROVE KeptInv'
  <2>1. credentials # Unreadable /\ op.changed /\ op.record.cred = acked
    BY <1>4 DEF SaveArchiveNext, At, OpShape, InFlightKept
  <2>2. op'.step = "save.runtime" /\ op'.record = op.record /\ op'.changed = op.changed
    BY <1>4, <1>c DEF SaveArchiveNext, Steps
  <2> QED BY <1>4, <2>1, <2>2 DEF SaveArchiveNext, ghosts, GenerationKept, InFlightKept
<1>5. ASSUME SaveWriteRuntime PROVE KeptInv'
  <2>1. op'.step = "save.primary" /\ op'.record = op.record /\ op'.changed = op.changed
    BY <1>5, <1>c DEF SaveWriteRuntime, Steps
  <2> QED BY <1>5, <2>1 DEF SaveWriteRuntime, At, ghosts, GenerationKept, InFlightKept
<1>6. ASSUME SaveWritePrimary PROVE KeptInv'
  <2>1. op.record \in Records
    BY <1>6 DEF SaveWritePrimary, OpShape, At
  <2>2. CASE op.changed
    <3>1. credentials # Unreadable /\ op.record.cred = acked
      BY <1>6, <2>2 DEF SaveWritePrimary, At, InFlightKept
    <3>2. op'.step = "save.prune"
      BY <1>6, <1>c, <2>2 DEF SaveWritePrimary, Steps
    <3> QED BY <1>0, <1>6, <2>1, <3>1, <3>2 DEF SaveWritePrimary, GenerationKept, InFlightKept
  <2>3. CASE ~op.changed
    <3>1. op.record.cred \in {acked} \cup foreign
      BY <1>6, <2>3 DEF SaveWritePrimary, At, InFlightKept
    <3>2. InFlightKept'
      BY <1>6, <1>i, <2>3 DEF SaveWritePrimary
    <3> QED BY <1>0, <1>6, <2>1, <2>3, <3>1, <3>2 DEF SaveWritePrimary, GenerationKept
  <2> QED BY <2>2, <2>3
<1>7. ASSUME SavePrune PROVE KeptInv'
  BY <1>7, <1>i DEF SavePrune, At, ghosts, GenerationKept, InFlightKept
<1>8. ASSUME NEW expected \in Creds, BeginPrepare(expected) PROVE KeptInv'
  <2>1. primary # NoFile
    BY <1>8 DEF BeginPrepare, Loaded, Load, ReadBase, Assumptions
  <2>2. Loaded.cred \in {acked} \cup foreign
    BY <1>0, <2>1 DEF LastAcknowledgedOrForeign
  <2> QED BY <1>8, <2>2 DEF BeginPrepare, Begin, files, ghosts, GenerationKept, InFlightKept
<1>9. ASSUME PrepareArchive PROVE KeptInv'
  <2>1. Envelope(op.record, NoCred) \in Envelopes /\ Envelope(op.record, NoCred).previous = NoCred
    BY <1>9 DEF PrepareArchive, OpShape, At, Envelope, Envelopes
  <2>2. GenerationKept'
    BY <1>9, <1>a, <2>1 DEF PrepareArchive, ghosts, GenerationKept
  <2>3. op'.step = "prepare.primary" /\ op'.record = op.record
    BY <1>9, <1>c DEF PrepareArchive, Steps
  <2> QED BY <1>9, <2>2, <2>3 DEF PrepareArchive, At, ghosts, InFlightKept
<1>10. ASSUME PrepareWritePrimary PROVE KeptInv'
  <2>1. op.record \in Records /\ op.record.cred \in {acked} \cup foreign
    BY <1>10 DEF PrepareWritePrimary, OpShape, At, InFlightKept
  <2>2. InFlightKept'
    BY <1>10, <1>i DEF PrepareWritePrimary
  <2> QED BY <1>0, <1>10, <2>1, <2>2 DEF PrepareWritePrimary, ghosts, GenerationKept
<1>11. ASSUME NEW record \in Supplied, NEW verified \in BOOLEAN,
              BeginSaveRuntime(record, verified)
       PROVE  KeptInv'
  BY <1>11 DEF BeginSaveRuntime, Begin, files, ghosts, GenerationKept, InFlightKept
<1>12. ASSUME SaveRuntimeWrite PROVE KeptInv'
  <2>1. GenerationKept'
    BY <1>12 DEF SaveRuntimeWrite, ghosts, GenerationKept
  <2>2. CASE op.verified
    <3>1. op'.step = "runtime.verified"
      BY <1>12, <1>c, <2>2 DEF SaveRuntimeWrite, Steps
    <3> QED BY <2>1, <3>1 DEF InFlightKept
  <2>3. CASE ~op.verified
    BY <1>12, <1>i, <2>1, <2>3 DEF SaveRuntimeWrite
  <2> QED BY <2>2, <2>3
<1>13. ASSUME SaveRuntimeVerified PROVE KeptInv'
  BY <1>13, <1>i DEF SaveRuntimeVerified, ghosts, GenerationKept
<1>14. ASSUME Abandon PROVE KeptInv'
  BY <1>14, <1>i DEF Abandon, files, ghosts, GenerationKept
<1>15. ASSUME Remove PROVE KeptInv'
  BY <1>0, <1>15 DEF Remove, At, Assumptions, GenerationKept, InFlightKept
<1>16. ASSUME NEW record \in Supplied, ExternalWrite(record) PROVE KeptInv'
  <2>1. record \in Records /\ record # Unreadable
    BY <1>0
  <2> QED BY <1>16, <2>1 DEF ExternalWrite, GenerationKept, InFlightKept
<1>17. ASSUME Damage PROVE KeptInv'
  BY <1>17 DEF Damage
<1>18. ASSUME UNCHANGED vars PROVE KeptInv'
  BY <1>18 DEF vars, files, ghosts, GenerationKept, InFlightKept
<1> QED
  BY <1>1, <1>2, <1>3, <1>4, <1>5, <1>6, <1>7, <1>8, <1>9, <1>10, <1>11, <1>12, <1>13,
     <1>14, <1>15, <1>16, <1>17, <1>18
  DEF Next, Save, PrepareRefresh, SaveRuntime, Environment

\* A pair that reached the journal is the one that is read, however often and
\* wherever commits are interrupted, unless another program wrote since.
THEOREM NoGenerationLostCorrect == Spec => []NoGenerationLost
<1>1. Init => TypeInv /\ (mishaps = {} => KeptInv)
  BY AssumptionsHold, TypeInit, KeptInit
<1>2. TypeInv /\ (mishaps = {} => KeptInv) /\ [Next]_vars => (TypeInv /\ (mishaps = {} => KeptInv))'
  <2> SUFFICES ASSUME TypeInv, mishaps = {} => KeptInv, [Next]_vars
               PROVE  TypeInv' /\ (mishaps' = {} => KeptInv')
    OBVIOUS
  <2>1. mishaps' = {} => mishaps = {}
    BY MishapsStay
  <2> QED BY <2>1, AssumptionsHold, TypeStep, KeptStep
<1>3. TypeInv /\ (mishaps = {} => KeptInv) => NoGenerationLost
  BY AssumptionsHold, KeptIsRead DEF NoGenerationLost, KeptInv
<1> QED BY <1>1, <1>2, <1>3, PTL DEF Spec
=============================================================================
