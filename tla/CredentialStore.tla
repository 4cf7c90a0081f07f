--------------------------- MODULE CredentialStore ---------------------------
(***************************************************************************)
(* The crash-safe credential store of one account: credential_store.rs.    *)
(*                                                                         *)
(* An account is kept in a primary file and in a private state directory:  *)
(*   <id>.json                        primary                              *)
(*   .state/<id>/credentials.json     credentials   (the journal)          *)
(*   .state/<id>/history/<fp>.json    history       (oldest mtime first)   *)
(*   .state/<id>/runtime.json         runtime                              *)
(*   .state/<id>/last_verified.json   lastVerified                         *)
(* Every file is replaced atomically and synced, so one durable write is   *)
(* one action.  An operation is the sequence of its durable writes; the    *)
(* process may stop, or the write may fail, between any two of them.  The  *)
(* callers hold the account lock, so at most one operation is in flight.   *)
(*                                                                         *)
(* A record is abstracted to the credential generation its fingerprint     *)
(* names (cred), the fields that are neither credentials nor runtime state *)
(* (label) and the runtime fields.  A runtime field is abstracted to the   *)
(* generation it was observed for, which is what the store must not mix.   *)
(***************************************************************************)
EXTENDS Naturals, Sequences

CONSTANTS
    Creds,          \* credential generations (fingerprints)
    Rejectable,     \* generations whose refresh the server may reject
    Labels,         \* values of tags, check-in data, profile, ...
    HistoryLimit,   \* HISTORY_LIMIT
    Backup,         \* the .bak a previous release left; nothing here writes it
    Faults,         \* what the environment does: see FaultKinds
    NoFile,         \* the file does not exist
    Unreadable,     \* the file is missing or does not hold a valid value
    NoCred

\* "relogin": a login or import saves over an account whose last commit was
\* interrupted.  The refresh flow never does, it calls prepare_refresh first.
FaultKinds == {"crash", "external", "damage", "remove", "relogin"}

Runtimes  == [status : Creds, error : Creds \cup {NoCred}]
Records   == [cred : Creds, label : Labels, rt : Runtimes]
Envelopes == [record : Records, previous : Creds \cup {NoCred}]

\* The records callers pass: their status and error describe the generation
\* they carry (apply_payload, refresh_account_token_once).
Supplied == {record \in Records : /\ record.rt.status = record.cred
                                  /\ \/ record.rt.error = NoCred
                                     \/ /\ record.cred \in Rejectable
                                        /\ record.rt.error = record.cred}

ASSUME HistoryLimitAssumption == HistoryLimit \in Nat \ {0}
ASSUME RejectableAssumption == Rejectable \subseteq Creds
ASSUME BackupAssumption == Backup \in Supplied \cup {Unreadable}
ASSUME FaultsAssumption == Faults \subseteq FaultKinds
ASSUME DistinctAssumption ==
    /\ NoCred \notin Creds
    /\ NoFile \notin Records \cup Envelopes
    /\ Unreadable \notin Records \cup Envelopes
    /\ Unreadable # NoFile

VARIABLES
    primary,        \* <id>.json
    credentials,    \* credentials.json
    history,        \* history/*.json, in the order of their mtimes
    runtime,        \* runtime.json
    lastVerified,   \* the generation in last_verified.json
    op,             \* the operation in flight, and its next durable write
    acked,          \* history variable: the last generation a save journalled
    foreign,        \* history variable: generations other programs wrote to
                    \* the primary since a save last replaced it
    superseded,     \* history variable: the generations that acked replaced,
                    \* the most recent last, at most HistoryLimit - 1
    mishaps         \* history variable: whether a login was saved over an
                    \* interrupted commit, and whether a file was damaged

files == <<primary, credentials, history, runtime, lastVerified>>
ghosts == <<acked, foreign, superseded, mishaps>>
vars == <<files, op, ghosts>>

-----------------------------------------------------------------------------
(* Reading: journal, read_base, load.                                      *)

\* envelope(record, previous)
Envelope(record, previous) == [record |-> record, previous |-> previous]

\* history/<fp>.json exists
Archived(h, c) == \E i \in 1 .. Len(h) : h[i].record.cred = c

\* journal(): credentials.json, or else the newest archived generation
Journal(j, h) ==
    IF j # Unreadable THEN j
    ELSE IF h = <<>> THEN Unreadable ELSE h[Len(h)]

\* The journal was written and the primary was not: its predecessor is the
\* generation the primary still holds.
Interrupted(p, recovery) ==
    /\ recovery.record.cred # p.cred
    /\ recovery.previous = p.cred

\* Mutant: the rejected-refresh marker of the primary survives.
ReplayKeepingError(p, recovery) ==
    [p EXCEPT !.cred = recovery.record.cred,
              !.rt.status = recovery.record.rt.status]

\* Mutant: the whole journalled record is taken.
ReplayWholeRecord(p, recovery) == recovery.record

\* Take the credential fields and the status from the journal, keep the rest.
Replay(p, recovery) ==
    [p EXCEPT !.cred = recovery.record.cred,
              !.rt = [status |-> recovery.record.rt.status, error |-> NoCred]]

ReadBase(p, j, h) ==
    LET recovery == Journal(j, h)
    IN  CASE p = NoFile -> Unreadable
          [] p = Unreadable /\ recovery = Unreadable -> Backup
          [] p = Unreadable /\ recovery # Unreadable -> recovery.record
          [] OTHER -> IF recovery # Unreadable /\ Interrupted(p, recovery)
                      THEN Replay(p, recovery) ELSE p

\* runtime.json overlays the record of its own generation only
Overlay(base, r) ==
    IF r # Unreadable /\ r.cred = base.cred THEN [base EXCEPT !.rt = r.rt] ELSE base

Load(p, j, h, r) ==
    LET base == ReadBase(p, j, h)
    IN  IF base = Unreadable THEN Unreadable ELSE Overlay(base, r)

Loaded == Load(primary, credentials, history, runtime)

-----------------------------------------------------------------------------
(* Writing: archive and prune_history.                                     *)

Archive(h, e) == IF Archived(h, e.record.cred) THEN h ELSE Append(h, e)

\* Mutant: the newest files go.
PruneNewest(h) == IF Len(h) > HistoryLimit THEN SubSeq(h, 1, HistoryLimit) ELSE h

\* Remove the oldest files beyond the limit.
Prune(h) ==
    IF Len(h) > HistoryLimit THEN SubSeq(h, Len(h) - HistoryLimit + 1, Len(h)) ELSE h

\* The most recent HistoryLimit - 1 members of s.
Recent(s) ==
    IF Len(s) > HistoryLimit - 1
    THEN SubSeq(s, Len(s) - HistoryLimit + 2, Len(s)) ELSE s

-----------------------------------------------------------------------------
(* Operations.  op.step names the next durable write.                      *)

Idle == [step |-> "idle", record |-> NoFile, previous |-> NoFile,
         changed |-> FALSE, verified |-> FALSE]

Begin(step, record, previous, changed, verified) ==
    op' = [step |-> step, record |-> record, previous |-> previous,
           changed |-> changed, verified |-> verified]

At(step) == op.step = step
Continue(step) == op' = [op EXCEPT !.step = step]
Done == op' = Idle

\* commit_with refuses a changed pair whose generation is archived
StaleSave(previous, record) ==
    previous # NoFile /\ Archived(history, record.cred)

\* The primary holds the generation that is read.
Reconciled == primary \in Records /\ primary.cred = Loaded.cred

\* commit_with, up to its first write.  A refused save changes nothing.
BeginSave(record) ==
    /\ At("idle")
    /\ primary = NoFile \/ Loaded # Unreadable
    /\ LET previous == IF primary = NoFile THEN NoFile ELSE Loaded
           changed  == previous = NoFile \/ previous.cred # record.cred
       IN  /\ changed /\ previous # NoFile => Reconciled \/ "relogin" \in Faults
           /\ ~(changed /\ StaleSave(previous, record))
           /\ Begin(IF ~changed THEN "save.runtime"
                    ELSE IF previous = NoFile THEN "save.journal" ELSE "save.archivePrevious",
                    record, previous, changed, FALSE)
           /\ mishaps' = IF changed /\ previous # NoFile /\ ~Reconciled
                        THEN mishaps \cup {"relogin"} ELSE mishaps
    /\ UNCHANGED <<files, acked, foreign, superseded>>

SaveArchivePrevious ==
    /\ At("save.archivePrevious")
    /\ history' = Archive(history, Envelope(op.previous, NoCred))
    /\ Continue("save.journal")
    /\ UNCHANGED <<primary, credentials, runtime, lastVerified, ghosts>>

\* Mutant: the journal does not name its predecessor.
OpEnvelopeWithoutPrevious == Envelope(op.record, NoCred)

OpEnvelope ==
    Envelope(op.record, IF op.previous = NoFile THEN NoCred ELSE op.previous.cred)

\* The first write after a rotated pair was received.
SaveJournal ==
    /\ At("save.journal")
    /\ credentials' = OpEnvelope
    /\ acked' = op.record.cred
    /\ superseded' = IF op.previous = NoFile THEN <<>>
                     ELSE Recent(Append(superseded, op.previous.cred))
    /\ Continue("save.archiveNext")
    /\ UNCHANGED <<primary, history, runtime, lastVerified, foreign, mishaps>>

SaveArchiveNext ==
    /\ At("save.archiveNext")
    /\ history' = Archive(history, OpEnvelope)
    /\ Continue("save.runtime")
    /\ UNCHANGED <<primary, credentials, runtime, lastVerified, ghosts>>

\* Mutant: the whole record, credentials included.
RuntimeOfWholeRecord(record) == record

\* write_runtime
RuntimeOf(record) == [cred |-> record.cred, rt |-> record.rt]

\* Mutant: only changed credentials supersede the runtime snapshot.
SaveWriteRuntimeIfChanged ==
    /\ At("save.runtime")
    /\ runtime' = IF op.changed THEN RuntimeOf(op.record) ELSE runtime
    /\ Continue("save.primary")
    /\ UNCHANGED <<primary, credentials, history, lastVerified, ghosts>>

SaveWriteRuntime ==
    /\ At("save.runtime")
    /\ runtime' = RuntimeOf(op.record)
    /\ Continue("save.primary")
    /\ UNCHANGED <<primary, credentials, history, lastVerified, ghosts>>

SaveWritePrimary ==
    /\ At("save.primary")
    /\ primary' = op.record
    /\ foreign' = IF op.changed THEN {} ELSE foreign
    /\ IF op.changed THEN Continue("save.prune") ELSE Done
    /\ UNCHANGED <<credentials, history, runtime, lastVerified, acked, superseded, mishaps>>

SavePrune ==
    /\ At("save.prune")
    /\ history' = Prune(history)
    /\ Done
    /\ UNCHANGED <<primary, credentials, runtime, lastVerified, ghosts>>

\* prepare_refresh: prove the storage writable before a remote rotation.
BeginPrepare(expected) ==
    /\ At("idle")
    /\ Loaded # Unreadable
    /\ Loaded.cred = expected
    /\ Begin("prepare.archive", Loaded, NoFile, FALSE, FALSE)
    /\ UNCHANGED <<files, ghosts>>

PrepareArchive ==
    /\ At("prepare.archive")
    /\ history' = Archive(history, Envelope(op.record, NoCred))
    /\ Continue("prepare.primary")
    /\ UNCHANGED <<primary, credentials, runtime, lastVerified, ghosts>>

\* Reconcile an interrupted commit.
PrepareWritePrimary ==
    /\ At("prepare.primary")
    /\ primary' = op.record
    /\ Done
    /\ UNCHANGED <<credentials, history, runtime, lastVerified, ghosts>>

\* save_runtime: a result for another generation is dropped.
BeginSaveRuntime(record, verified) ==
    /\ At("idle")
    /\ LET base == ReadBase(primary, credentials, history)
       IN  base # Unreadable /\ base.cred = record.cred
    /\ Begin("runtime.write", record, NoFile, FALSE, verified)
    /\ UNCHANGED <<files, ghosts>>

SaveRuntimeWrite ==
    /\ At("runtime.write")
    /\ runtime' = RuntimeOf(op.record)
    /\ IF op.verified THEN Continue("runtime.verified") ELSE Done
    /\ UNCHANGED <<primary, credentials, history, lastVerified, ghosts>>

SaveRuntimeVerified ==
    /\ At("runtime.verified")
    /\ lastVerified' = op.record.cred
    /\ Done
    /\ UNCHANGED <<primary, credentials, history, runtime, ghosts>>

\* The process stops, or the next durable write fails and `?` returns.
Abandon ==
    /\ "crash" \in Faults
    /\ ~At("idle")
    /\ Done
    /\ UNCHANGED <<files, ghosts>>

\* delete_account_file: only the primary goes.
Remove ==
    /\ "remove" \in Faults
    /\ At("idle")
    /\ primary # NoFile
    /\ primary' = NoFile
    /\ foreign' = {}
    /\ superseded' = <<>>
    /\ UNCHANGED <<credentials, history, runtime, lastVerified, op, acked, mishaps>>

\* Another program, or the user, replaces the primary.
ExternalWrite(record) ==
    /\ "external" \in Faults
    /\ primary' = record
    /\ foreign' = foreign \cup {record.cred}
    /\ superseded' = <<>>
    /\ UNCHANGED <<credentials, history, runtime, lastVerified, op, acked, mishaps>>

\* A file no longer holds what was written to it.
Damage ==
    /\ "damage" \in Faults
    /\ \/ /\ primary \in Records
          /\ primary' = Unreadable
          /\ UNCHANGED <<credentials, runtime>>
       \/ /\ credentials # Unreadable
          /\ credentials' = Unreadable
          /\ UNCHANGED <<primary, runtime>>
       \/ /\ runtime # Unreadable
          /\ runtime' = Unreadable
          /\ UNCHANGED <<primary, credentials>>
    /\ mishaps' = mishaps \cup {"damage"}
    /\ UNCHANGED <<history, lastVerified, op, acked, foreign, superseded>>

-----------------------------------------------------------------------------
\* No account yet, or one written by a release that kept the primary only.
Init ==
    /\ primary \in Supplied \cup {NoFile}
    /\ credentials = Unreadable
    /\ history = <<>>
    /\ runtime = Unreadable
    /\ lastVerified = NoCred
    /\ op = Idle
    /\ acked = IF primary = NoFile THEN NoCred ELSE primary.cred
    /\ foreign = {}
    /\ superseded = <<>>
    /\ mishaps = {}

Save ==
    \/ \E record \in Supplied : BeginSave(record)
    \/ SaveArchivePrevious
    \/ SaveJournal
    \/ SaveArchiveNext
    \/ SaveWriteRuntime
    \/ SaveWritePrimary
    \/ SavePrune

PrepareRefresh ==
    \/ \E expected \in Creds : BeginPrepare(expected)
    \/ PrepareArchive
    \/ PrepareWritePrimary

SaveRuntime ==
    \/ \E record \in Supplied, verified \in BOOLEAN : BeginSaveRuntime(record, verified)
    \/ SaveRuntimeWrite
    \/ SaveRuntimeVerified

Environment ==
    \/ Abandon
    \/ Remove
    \/ \E record \in Supplied : ExternalWrite(record)
    \/ Damage

Next == Save \/ PrepareRefresh \/ SaveRuntime \/ Environment

Spec == Init /\ [][Next]_vars

\* The account exists already.
AccountInit == Init /\ primary # NoFile
AccountSpec == AccountInit /\ [][Next]_vars

-----------------------------------------------------------------------------
(* Properties.                                                             *)

Steps == {"idle", "save.archivePrevious", "save.journal", "save.archiveNext",
          "save.runtime", "save.primary", "save.prune", "prepare.archive",
          "prepare.primary", "runtime.write", "runtime.verified"}

Operations == [step : Steps, record : Records \cup {NoFile},
               previous : Records \cup {NoFile},
               changed : BOOLEAN, verified : BOOLEAN]

\* Every file holds a value of its own kind, or nothing readable.
TypeOK ==
    /\ primary \in Records \cup {NoFile, Unreadable}
    /\ credentials \in Envelopes \cup {Unreadable}
    /\ history \in Seq(Envelopes)
    /\ runtime \in [cred : Creds, rt : Runtimes] \cup {Unreadable}
    /\ lastVerified \in Creds \cup {NoCred}
    /\ op \in Operations
    /\ acked \in Creds \cup {NoCred}
    /\ foreign \subseteq Creds
    /\ superseded \in Seq(Creds)
    /\ mishaps \subseteq {"relogin", "damage"}

LastAcknowledgedOrForeign ==
    primary # NoFile => Loaded # Unreadable /\ Loaded.cred \in {acked} \cup foreign

\* However a commit is interrupted, and whoever else writes the primary, the
\* generation that is read is the last one a save made durable or one another
\* program wrote since.  Holds until a login is saved over an interrupted commit,
\* which prepare_refresh never does, or a file is damaged.
NoGenerationLost == mishaps = {} => LastAcknowledgedOrForeign

\* The same without that premise: "the first write after receiving a rotated
\* pair ... is durable before optional metadata, quota, primary-file or index
\* operations" (credential_store.rs).  Two interrupted logins in a row refute it.
JournalledPairIsRead == "damage" \notin mishaps => LastAcknowledgedOrForeign

\* The status and the rejected-refresh marker that are read were observed for
\* the generation that is read, in every state a crash or damage can leave:
\* an old failure never blocks or downgrades a new login.
RuntimeBound ==
    Loaded # Unreadable =>
        /\ Loaded.rt.status = Loaded.cred
        /\ Loaded.rt.error \in {NoCred, Loaded.cred}

\* Unless a file is damaged, a save that reaches its primary write is read back
\* whole: no older journal, runtime snapshot or archived generation shadows any
\* of its fields.
ReadYourWrites ==
    [][SaveWritePrimary /\ "damage" \notin mishaps => Loaded' = op.record]_vars

\* When a rotation completes, its generation is read back even if any of the
\* files that hold it are damaged afterwards: each of the three copies suffices.
SurvivesDamagedFiles ==
    [][SavePrune /\ superseded # <<>> /\ primary \in Records =>
          /\ ReadBase(Unreadable, credentials, history').cred = acked
          /\ ReadBase(primary, Unreadable, history').cred = acked
          /\ ReadBase(Unreadable, Unreadable, history').cred = acked]_vars

\* What the operation in flight carries, step by step.
OpShape ==
    /\ ~At("idle") => op.record \in Records
    /\ At("idle") => op = Idle
    /\ At("save.archivePrevious") => op.previous \in Records
    /\ op.step \in {"save.archivePrevious", "save.journal", "save.archiveNext", "save.prune"}
        => op.changed

\* Every record in every file, and in flight, is about its own generation.
AboutItself(record) ==
    record.rt.status = record.cred /\ record.rt.error \in {NoCred, record.cred}

RecordsBound ==
    /\ primary \in Records => AboutItself(primary)
    /\ credentials # Unreadable => AboutItself(credentials.record)
    /\ \A i \in 1 .. Len(history) : AboutItself(history[i].record)
    /\ runtime # Unreadable => AboutItself(runtime)
    /\ op.record \in Records => AboutItself(op.record)
    /\ op.previous \in Records => AboutItself(op.previous)

\* Where the generation that is read comes from.  Before the first journal,
\* no archived generation names a predecessor; afterwards the primary holds
\* the journalled generation, its predecessor, or another program's.
GenerationKept ==
    /\ primary # Unreadable
    /\ credentials = Unreadable => \A i \in 1 .. Len(history) : history[i].previous = NoCred
    /\ credentials # Unreadable => acked = credentials.record.cred
    /\ primary \in Records =>
          \/ primary.cred \in {acked} \cup foreign
          \/ credentials # Unreadable /\ primary.cred = credentials.previous

\* The commit in flight began on the generation the primary holds, and the
\* record in flight is the one that is read.
InFlightKept ==
    /\ op.step \in {"save.archivePrevious", "save.journal"} /\ primary \in Records =>
          \/ primary.cred \in foreign
          \/ op.previous # NoFile /\ primary.cred = op.previous.cred
    /\ op.step \in {"save.archiveNext", "save.prune"} => credentials # Unreadable
    /\ op.step \in {"save.archiveNext", "save.runtime", "save.primary"} /\ op.changed =>
          credentials # Unreadable /\ op.record.cred = acked
    /\ op.step \in {"save.runtime", "save.primary"} /\ ~op.changed =>
          op.record.cred \in {acked} \cup foreign
    /\ op.step \in {"prepare.archive", "prepare.primary"} =>
          op.record.cred \in {acked} \cup foreign

\* The files of an existing account behave as one register: a commit that a
\* crash cuts anywhere has happened or has not, it keeps the labels, and the
\* last HistoryLimit - 1 replaced generations are refused.
Register == INSTANCE CredentialRegister WITH
    cred <- Loaded.cred, label <- Loaded.label, recent <- superseded,
    Remembered <- HistoryLimit - 1

ImplementsRegister == Register!Spec

\* docs/account-storage-reliability.md: "history/: up to eight immutable
\* generations".
HistoryBounded == At("idle") => Len(history) <= HistoryLimit
=============================================================================
