# C.le.console: verification of the account core and the gateway's processes

This directory holds TLA+ specifications of C.le.console's account-keeping
logic, TLC configurations that model-check them, and TLAPS proofs of the results
that matter most. Source paths below are relative to the repository root; `M/`
stands for `src-tauri/src/modules/`.

C.le.console is a Tauri desktop program that keeps logins for several AI
services, refreshes their one-use tokens, and starts side programs that serve
requests with them. What it can least afford is to lose a token pair it has just
received: the server has already invalidated the previous one, so the account is
gone. Most of the models are about that; one is about the processes of the gateway that
serves with the accounts.

## 1. The system

```
 React windows (src/)                 other programs, official clients
      | Tauri commands                        | write the same files
      v                                       v
 desktop core (src-tauri/src/modules) ---> account files, indexes, SQLite
      |   \ HTTP                              ^
      |    `--> OAuth and quota servers       |
      | child processes, local HTTP           |
      v                                       |
 sidecars: cle-cliproxy (Go), agent2api (Rust), jimeng-api, claude-cli-proxy
```

Windows call commands concurrently; background tasks (token keeper, automatic
check-in, wake-up schedulers) call the same functions. Locks are per module and
are not held over an `await`. Files are replaced atomically; nothing is atomic
over two files.

### Inventory

| Component | State | Operations | What is hard | What makes it correct |
|---|---|---|---|---|
| Credential store, `M/credential_store.rs` | per account: primary, journal, history, runtime, last_verified | load, save, prepare_refresh, save_runtime, prune | up to six durable writes per save and a crash or failure between any two; other writers; damaged files | no acknowledged pair is lost; status belongs to the pair it was seen for; saves read back whole; replaced pairs stay out |
| Single flight, `M/account_singleflight.rs` | registry of running flights, a watch channel each | run; worker, guard | callers cancelled, workers that panic, wake-ups lost or out of order | one worker per key, nobody waits for ever, entries do not outlive their task |
| WorkBuddy accounts, `M/workbuddy_account.rs`, `M/workbuddy_oauth.rs` | account record, account index, the server's valid tokens | refresh (3 critical sections), upsert, add token, import, export, tags, remove | every other operation runs between two critical sections of a refresh; requests time out after they took effect | a received pair is kept, late answers yield, an old failure blocks no new login |
| Automatic check-in, `M/workbuddy_auto_checkin.rs` | settings and schedules file, running flag, log | cycle, scheduler, save settings, migrate | midnight during a cycle, settings saved during a cycle, partial failures, a flag left behind | one cycle at a time, no false or lost mark, every account is checked in |
| Account index, `M/workbuddy_account.rs` | index file, `.bak`, detail files, one lock | list, login, import, labels, remove | index and detail change in two writes; a damaged index, an unreadable detail; ids derived from a uid or an email | the list can be read, no incomplete list is written, no removed account comes back, nobody's account is taken over |
| Index repair of older providers, `M/account_index_repair.rs` | their index file | rebuild | | |
| Multi-model API gateway, `M/multi_model_api.rs` | configuration file, sidecar and helper processes, lifecycle and repair lock, the watchdog's counters | save, enable, repair, restore, watchdog | four kinds of task start and stop it from their own copy of the configuration; starts that fail halfway; processes that die or outlive the application | one sidecar, no stray helper, a stop is complete, commands return, it serves again |
| Atomic writes, `M/atomic_write.rs` | target, temporary and `.bak` file | write, private write, parse with restore | crash between rename and copy | a reader gets the old or the new content |
| Claude accounts, `M/claude_account.rs` | account record, credentials owned by the CLI | refresh token, refresh quota | two kinds of flight for one account, each saving the record it loaded | no marker or pair erased by the other flight |
| Token keeper, `M/provider_token_keeper.rs` | per-account backoff, scan schedule | tick, scan, refresh, reset | reset during a scan, a bound on refreshes per tick | no account starves, backoff respected |
| Codex wake-up scheduler, `M/codex_wakeup_scheduler.rs` | tasks, running marks, last run | tick, run now, run all, start-up runs | a task run twice, marks left by a panic | one run at a time, nothing due is skipped |
| Agent provider bridge, `M/agent_provider_bridge.rs` | child process, cached quotas and pools | ensure, start, stop, refresh | stop during start, a process that dies | at most one child, cache of the living child |
| Pending logins, `M/oauth_pending_state.rs`, `M/oauth_server.rs` | one pending login per provider, callback server | start, complete, cancel, restore | completing a login that was replaced; expiry | a callback completes its own login only |
| Codex local API service, `M/codex_local_access.rs` | service process, account pool, statistics | start, stop, route | restart while requests run | |
| Quota cache, `M/quota_cache.rs` | one JSON file | read, write | last writer wins | |
| Client instances, `M/instance_store.rs`, `M/process.rs` | instance list, operating system processes | start, find, stop | depends on the platform | |
| WebDAV synchronisation, `M/webdav_sync.rs` | remote and local snapshot | push, pull | | |
| Local WebSocket, web report, network egress, other providers, command line (`crates/`), React interface | | | | |
| Go proxy, `sidecars/cle-cliproxy` (own part and vendored CLIProxyAPI) | account pool, cooldowns | select, refresh, retry | | |
| Agent2API, Jimeng and Claude CLI proxies | vendored | | | |

`PROJECT.json` lists every component with its status, and every hazard with the
line where it bites and the properties that cover it.

## 2. The modules

| Module | Models | Extends or instantiates |
|---|---|---|
| `CredentialRegister` | what the store promises: one register per account | |
| `CredentialStore` | the five files and the durable writes of each operation | refines `CredentialRegister` |
| `SingleFlight` | registry, tasks, channels, callers | |
| `AccountRefresh` | one WorkBuddy account, its refresh flow and every other writer | instantiates `SingleFlight`; takes the store as the register |
| `AutoCheckin` | the automatic check-in | |
| `AccountSet` | what the account files promise: a set of accounts | |
| `AccountIndex` | index, copy and detail files, and the single writes of each operation | refines `AccountSet` |
| `GatewayLifecycle` | the gateway's processes, its configuration file, and the tasks that start and stop it | |
| `*_proofs` | theorems and their proofs | the module of the same name or its first proofs, `TLAPS` |
| `MC*` | instances for TLC | |

The account modules fit together by refinement rather than in one product: the run
`store_crash` shows that `CredentialStore`'s files behave as
`CredentialRegister`, and `AccountRefresh` uses that register (one step per
save, replaced pairs refused). `AccountRefresh` instantiates `SingleFlight` whole,
with its calls and tasks, so a change of `SingleFlight` shows in its runs. `AccountIndex`
takes the detail file of an account as one object, which is what `CredentialStore` shows of
its five files, and adds the file beside them. `GatewayLifecycle` shares no state with the
account modules but the credentials it copies into its configuration, which it leaves out.

### CredentialStore

State: the five files of one account, and `op`, the operation in progress with
the step it has reached. The rest are history variables: `acked` (the last
generation whose save is durable), `foreign` (what other programs wrote),
`superseded`, `mishaps`.

A record is a generation (what `fingerprint` hashes), a label (everything that
is neither credential nor runtime) and its runtime fields, each abstracted to
the generation it was observed for: mixing them up is the error to look for.

`commit_with` (credential_store.rs:328-375) becomes `BeginSave`,
`SaveArchivePrevious`, `SaveJournal`, `SaveArchiveNext`, `SaveWriteRuntime`,
`SaveWritePrimary`, `SavePrune`, one action per durable write;
`prepare_refresh` and `save_runtime` are split the same way. `Load`, `ReadBase`,
`Replay`, `Overlay` translate the reading side. `Abandon` is a failed write or
the end of the process. `ExternalWrite`, `Damage` and `Remove` are the
environment, each switched on by `Faults`. Callers hold the account lock, so one
operation runs at a time; readers do not, and see every intermediate state.

### SingleFlight

`flights` is the registry. `phase` is what a task does next: working,
unwinding (the result is published or the work panicked), removed (the guard has
run), closed (the sender is dropped): the order in which Rust drops the guard
and the captured sender. A caller looks at the channel, parks, wakes, or is
dropped. Channels are used again when nobody holds them, which makes the model
finite without limiting the number of calls.

### AccountRefresh

`refresh_account_token_once` (workbuddy_account.rs:560-637) is `Prepare`,
`Send`, the server, `CommitRotation`, `Quota`, `CommitQuota`: three critical
sections of the account lock and the requests between them. `wire` holds requests the
server has not processed; `Timeout` leaves the request behind, so the server may
still consume the token. `valid` is what the server accepts. `Login`, `AddToken`,
`Export`, `Import`, `ImportMerge`, `UpdateTags`, `Remove` are the other writers;
`Crash` ends all tasks and leaves files and requests. `PrepareFails`, `RotationFails` and
`DropQuota` are the ends of a critical section whose save fails; a save that fails halfway
leaves what `CredentialStore` says it leaves, the old pair or, from the journal on, the new one.

What the store compares is `fingerprint` (credential_store.rs:69), here the two tokens and
`expiry`, which stands for the rest. The rest matters because `apply_payload` computes the expiry of the
refresh token anew (workbuddy_account.rs:412-419) on every import and login. `AsReceived` is
what a pair has when it is received, any other member of `Expiries` what it may become: the same
tokens with another expiry are other credentials to `same_credentials` and to `Accepts`, the
store's refusal of what is in its history while something else is stored. The history is not
pruned here, unlike in `CredentialStore`: the model is about backups that are among the last
`HISTORY_LIMIT` generations, which only `OldBackupRefused` and `RotationKeptByImports` rest on. An import chooses the expiry twice, in
`Import` and in `ImportMerge`, and either half may be refused.

`seen` is the access token the stored status was observed with. Three history variables: `spent`,
the tokens whose next pair the flow received and did not fail to save; `lost`, the tokens sent in a request whose answer
will not be stored, because the client timed out, the work panicked, the process ended or the
save failed before its journal; and `restored`, the tokens an import put in the place of others.

### AutoCheckin

`config` is the file, `running` the flag, `cycle[r]` the cycle of the scheduler
or a window, with its own copy of the file from `Begin` to `Finish`. Each request
is one step in which the server answers and another in which the answer is
handled, so midnight can fall between. `Save` writes what the settings window
sends: settings without schedules. A day has `MaxMinute + 1` minutes. The
scheduler's delays (30 seconds, or a doubling retry) are left to the
interleaving.

### AccountIndex

State: the index, its copy (`.json.bak`), the detail files with whom each is for, and for each
caller its job with its copy of the index. An index is good, garbled or missing. Ids are named
by what they are derived from, the uid or else the email, as `upsert_account` (434-520) derives
them by a hash; an account thus may come to have another email than the one its id is from.
`Login` is `upsert_account` up to its first write: it loads the index, finds the account by
`Matches` (the first in the index's order, which is left open) and keeps the index it has read.
`WriteDetail`, `Load`, `Backup`, `WriteIndex`, `Delete` are the single writes and reads that
follow, in the code's order, which differs: a login reads the index before it writes the
detail file, a change of labels after, and a removal writes the index first. An import is a
login and then a change of labels under the lock taken anew; each record of a file is a job. A
check-in writes the detail file only. Failed writes, crashes (`Restart`), damage to the index
and details that cannot be read for a while may fall between any two steps.

### GatewayLifecycle

State: the configuration file, the processes of the operating system, `runtime` (the
children in `RuntimeState`), `starting` (the children a start holds in its local variables), the
two locks, the watchdog's counters, and each task's stage and copy of the configuration. A
configuration is its flag, its port and the helpers it needs.

`start_runtime` (multi_model_api.rs:2166-2426) becomes `Enter`, `Creds`, `Stop`, `Launch`,
`StartWeb`, `StartCli`, `StartSidecar`, `Ready`, with `GiveUp` for the ends that kill what was
started, and `Return` for what each caller does next. The stop of `apply_config` goes through
`Enter`, `Stop` and `Launch`. `SaveConfig` is a window, `Restore` the start-up, `AskRepair` to
`LeaveRepair` is `diagnose_and_repair`, `Wake`, `Hydrate`, `Probe` is a round of the watchdog.
Every one of them works on the copy it has loaded. `Bind` and `Die` are the operating system;
`Restart` ends the application and leaves its children, as nothing calls `shutdown`. The
watchdog's clock counts its own intervals of 15 seconds, and may run late.

## 3. Runs

| Run | Instance | Shows |
|---|---|---|
| `store_faults` | 2 generations, one of them rejectable, history limit 1, every fault | `TypeOK`, `NoGenerationLost`, `RuntimeBound`, `ReadYourWrites` |
| `store_crash` | 4 generations, 2 labels, history limit 3, symmetric; crashes and failed writes | `SurvivesDamagedFiles`, and the refinement `ImplementsRegister` |
| `single_flight` | 2 keys, 2 callers, 3 channels, fair | registry, one worker, results, both liveness properties |
| `refresh_edits` | 1 caller, 1 task, 3 pairs, 1 backup, 2 expiries; logins, tags, imports, failed saves, crashes | `RotationKept`, `OldBackupRefused`, `TokenLives`, `RejectedTokenIsDead`, `StatusIsOwn`, `LateResultsYield` |
| `refresh_replaced` | 2 callers, 2 tasks, 2 pairs, 2 expiries; logins, tokens, removal, failed saves, crashes, panics; fair | `TypeOK`, `OneRotation`, `EveryRefreshReturns` |
| `auto_checkin` | 2 accounts, one window, 2 days of 2 minutes, 3 settings, 2 saves, 2 faults; fair | all of section AutoCheckin's properties |
| `account_index` | 2 callers, 2 uids, 1 email, 3 jobs, 2 faults | all of section AccountIndex's properties, with the refinement `ImplementsSet` |
| `gateway` | 1 window, 1 repair pass, watchdog and restore, 2 ports, 3 configurations, 1 save, 1 repair, 1 fault; fair | all of section GatewayLifecycle's properties |
| `store_relogin`, `store_history`, `refresh_add_token`, `gateway_stop` | | violations, see section 6 |

What the properties say, in the words of the code:

- `NoGenerationLost`: what is read is the last pair a save made durable, or
  one another program wrote since, however a commit was interrupted.
- `RuntimeBound`: a status or a rejected-refresh marker that is read was recorded
  for the pair that is read.
- `ReadYourWrites`: no journal, runtime snapshot or archived copy shadows a field
  of a completed save.
- `SurvivesDamagedFiles`: after a rotation, the primary, the journal and the history each
  suffice to read the pair.
- `ImplementsRegister`: every durable write of the store is a `Rotate`, a
  `Relabel` or nothing, seen through `Load`.
- `RegistryNamesLiveTasks`, `OneWorkPerKey`, `ResultReachesWaiters`: an entry is
  removed by the task that made it, no key has two workers, and a published
  result is never reported as an interruption.
- `RotationKept`: a refresh token whose next pair was received comes back through an import
  only; no login, label edit or removal between the critical sections has that effect.
  (A token added by hand does: finding 3.)
- `OldBackupRefused`: and an import brings it back only under another fingerprint. As long as no
  account is removed, what was exported is what is stored or is in the history, so the store
  refuses it as it was exported.
- `TokenLives`: an account holds a token the server refuses only if an answer was lost (`lost`
  above), an import put the token there, or the answer is in the hands of a flow. In
  particular the store never refuses a pair that a flow has received, and no login or edit
  makes the flow drop a pair the account needs. (Except finding 3, again.)
- `StatusIsOwn`: the stored status was observed with the stored access token. It does not speak of the
  quota (section 5).
- `RejectedTokenIsDead`: a marker that stops refreshes is about a token the server
  really refuses.
- `LateResultsYield`: a flow's late answer revives no account, changes no label,
  and replaces only the credentials the flow sent.
- `OneCycle`, `MarkMeansCheckedIn`, `SchedulesFitWindow`, `TodaysMarksKept`,
  `EveryAccountCheckedIn`: cycles exclude each other and clear the flag; a mark
  for today is true; the file is consistent whoever wrote last; no cycle loses a
  mark; and while it stays enabled, everyone is checked in.
- `ListSucceeds`: unless the index is damaged from outside, it never names an account
  without a file, so that the list, which fails as a whole on one, can be read.
- `NothingDropped`: an index that is written names every account with a file but the one
  being removed, whatever was damaged or unreadable when it was loaded.
- `UidKept`: an account whose uid is known keeps it, however logins are matched.
- `ImplementsSet`: an account appears only through a login under way and disappears only
  through a removal under way; labels and the rest of an import bring none back.
- `OneSidecar`, `NoStrayHelper`: whatever starts interleave or fail, one run of the application
  never has two sidecars, and no CLI helper lives that the application has lost.
- `StopIsComplete`: when a window's stop has returned with success, nothing of the gateway is
  left on its ports, and no sidecar or CLI helper of this run anywhere.
- `OneWebPerPort`: a web helper is started on a port where no other listens, though failed starts
  and restarts leave helpers behind and configurations change ports. `start_claude_web_helper` (1754)
  takes any answer on the port for its own child's.
- `LocksFollowFlows`: each lock is held by exactly the flow that took it, while that flow goes on.
- `CommandsReturn`, `ServesAgain`: no command waits for ever for a lock, and an enabled
  gateway answers again with its helpers once faults and edits are over, from whichever stale
  copy it was last started.

### Bounds, and why they are enough

- *Generations.* Two generations let a pair be replaced, return, and carry
  the other's status; with a history limit of 1 every rotation prunes. `store_crash`
  uses more generations, so that the register's memory of replaced pairs is not trivial.
- *Channels.* A channel returns to the pool when nobody holds it. Three channels for two
  callers allow a stale task, its successor and one for another key.
- *Backups, expiries.* One backup: a property speaks of one backup at a time, and `backups` is
  read by imports only. Two expiries: the one a pair is received with and another; a third
  would be as different from both as the second. A new pair needs no choice, as its tokens differ from all others.
- *Tasks.* `refresh_edits` has one: that two never work at once is what
  `OneWorkPerKey` and `OneRotation` check with two.
- *Pairs.* Three pairs: the one sent, the one received, and one from a login between or
  after them. Two suffice where the run's questions are about removal and liveness.
- *Days and minutes.* Two days give one midnight, which may fall between any two
  steps; a second midnight adds nothing, as a cycle's date is set once and marks of
  earlier days are all alike. Two minutes give a window's first and last minute, and a
  schedule that is not yet due.
- *Saves, faults.* Two saves enable the check-in and change its window in one behaviour. Two
  faults cover a failed request followed by a failed write or a restart.
- *Index.* Two uids that share an email, and the email alone, give every way a login may match
  (own, ambiguous, derived id only). Three jobs are a login, a removal of the account and a third job
  between the two steps of either; two faults are a crash and a damaged file.
- *Gateway.* Each kind of task once: two tasks in the same code differ only in what they do
  after it. The configurations are a stopped one, one the restore can adopt, and one on another
  port with CLI helpers. One fault anywhere, from any of the leftovers of an earlier run.
  `MaxPid` is never reached: at most three processes of this run live beside three of an
  earlier one, and a start holds no more.

`CredentialStore` has no bound but the history limit; `AccountRefresh` is bounded by
`MaxPairs`, and the others by their `Max` constants. The proofs hold for every
value of all of them.

### Fairness

Safety runs assume none. `FairSpec` in each module assumes weak fairness of

- `SingleFlight`: callers that are ready are polled, work ends (each request has a
  30-second timeout), and a task runs to its end. Not of callers' arrival or cancellation.
- `AccountRefresh`: each step of a flow and each task's end. A step that waits for the
  account lock is enabled, as the lock is held for single steps only. The server
  owes nothing: `Timeout` ends the wait.
- `AutoCheckin`: the scheduler starts a cycle when it may (its loop never returns,
  lines 720-764), a cycle goes on, time passes. Faults are finite, so retries get their
  chance. The last modelled day does not end; for a real day `EveryAccountCheckedIn` says
  that enough time left in the day is all that is missing.
- `GatewayLifecycle`: a start under way goes on (each of its waits has a time limit), a free lock is
  taken by a task that waits for it (tokio's mutex queues them), the repair pass and the
  watchdog run on, and a process that was started binds its port or exits. Weak fairness of a task that
  waits suffices because the locks are free again and again and few wait. Nobody has to
  save or to repair, and no fault has to happen.
- `AccountIndex` claims nothing about liveness: its jobs are synchronous functions.

## 4. Proofs

Every theorem holds for all values of the constants that satisfy the module's named
assumptions (distinct model values, positive limits, settings that `validate_config` accepts).

**`CredentialStore_proofs`**: `TypeCorrect`, `RuntimeBoundCorrect`,
`NoGenerationLostCorrect`. `RuntimeBound` is not inductive: a later read may
take its base from the history. `RecordsBound` states the same of every record in
every file and in flight, and is. `NoGenerationLost` needs to know where the pair
that is read comes from: `GenerationKept` (the primary holds the
journalled generation, its predecessor, or another program's) and `InFlightKept`
(what the operation in progress has read is still so). The case that makes the
argument delicate is a journal whose predecessor is not the primary's generation, which
`mishaps` isolates.

**`CredentialStoreFiles_proofs`** (extends the last): `ReadYourWritesCorrect`,
`SurvivesDamagedFilesCorrect`, `RegisterImplemented`. `NothingShadows` says of a save in flight that the
journal is its own, or will not replay over its record, and that the runtime snapshot is its own.
`HeldThrice` says that a pair which replaces another is nowhere in the history until it becomes
its newest member. The refinement assumes that only crashes and failed writes
disturb the files (`Faults \subseteq {"crash"}`), as `store_crash` does. `Remembers` keeps the
generations the register remembers at the end of the history, in order, and the current one
after them as soon as it is archived: so pruning, which removes the oldest, cannot make a
replaced generation acceptable again. Then `SaveJournal` is `Rotate`, a write of
the primary is `Relabel`, and every other step is a stutter.

Its last section turns two findings around and proves what the environment must not do for the
sentences they refute to be true. `JournalledReadCorrect`: without a login saved over an
interrupted commit (`"relogin" \notin Faults`), a journalled pair is always the one that is read.
`HistoryBoundedCorrect`: if accounts are removed and nothing else goes wrong, the history keeps
to its limit between operations. Its invariant `HistoryKept` says that the primary's generation is
the journalled and an archived one, so only a commit adds to the history, and adds one generation, its newest; hence at
most one more than the limit from that step to the pruning.

**`SingleFlight_proofs`**: `TypeCorrect`, `RegistryCorrect`, `OneWorkCorrect`, `ResultsDelivered`.
With the types, `RegistryNamesLiveTasks` is inductive: an entry and the task that will
remove it determine each other, so two tasks for one key would be two entries.

**`AccountRefresh_proofs`**: `TypeCorrect`, `StatusCorrect`, `LateResultsCorrect`. The
invariant links the two modules' states: a flow exists exactly while its task
works, and a request somebody waits for carries its flow's token. `StatusInv` says
`StatusIsOwn` of every place a status may come from: the record, the backups and what a flow
carries. It lasts because the third critical section compares with the pair the flow ended with.

**`AccountRefreshTokens_proofs`**: `OneRotationCorrect`, `RejectedCorrect`, `OldBackupCorrect`,
`RotationKeptCorrect`, `RotationKeptByImports`, `TokenLivesCorrect`. `OneFlight` says that whoever works has the
account's entry. `TokensIssued` says that no token anywhere is from the future, so a pair the server issues
differs from all there are. `RejectionsTrue` extends `RejectedTokenIsDead` to backups, imports and
flows; a dead token stays dead because only new ones become valid. `BackupsArchived` is `OldBackupRefused`
with what makes it last: every save that replaces credentials archives them.
`RotationsKept` follows a token from the account to the flow: what a flow has sent is the stored
token, or has left the account and comes back through an import only (`FlowKept`).
`TokenLives` becomes inductive as `TokensLive`: the stored token is valid, lost or restored, or its answer
is in a flow's hand; a received one is valid or lost; and a request nobody waits for carries a lost one. It needs
`PairsFresh`, that a received pair is in no record, history or backup, so that the store cannot
refuse it. Both leave out access tokens added by hand (`"tokenOnly" \notin Events`).
`RotationKeptByImports` drops the exception for imports, where it may be dropped: if a recomputed expiry is always
what it was (`Expiries = {AsReceived}`) and no account is removed, the history refuses every
restored pair, and a spent token never returns. No run checks it, as `refresh_edits` has two expiries.

**`AutoCheckin_proofs`**: `TypeCorrect`, `OneCycleCorrect`, `MarksTrue`,
`SchedulesFit`, `MarksKept`. The file is replaced by a cycle's copy, so
the invariant says of each copy what the theorems say of the file (`CopySound`), and of each
answer that it is true of the day it will be marked with (`AnswerTrue`).
`TodaysMarksKept` needs `CopyCurrent`: the copy has all of today's marks in the
file, since no other cycle runs, and none later than the cycle's date, so that a mark in an
older date's name cannot overwrite one of today.

**`AccountIndex_proofs`**: `TypeCorrect`, `ListCorrect`, `NothingDroppedCorrect`,
`UidKeptCorrect`, `SetImplemented`. `ListSucceeds` says something of the files; to last, the same
must hold of the copies that are going to be written. `Held`: who is between two writes has
the lock. `Covered` and `Named`: a copy misses no account but the one its job is about, and misses
that one exactly when the job is a removal. `Fresh`: unless the index was damaged, neither it nor a copy
names any other account. `UidKept` needs `Owned`: an account whose id is a uid has that
uid, so a login that matched nobody and takes the account with the derived id cannot find a
stranger's there.
`SetImplemented` maps each step to a step of `AccountSet` or a stutter.

**`GatewayLifecycle_proofs`**: `TypeCorrect`, `OneSidecarCorrect`, `HelpersKnown`,
`StopCompletes`, `OneWebCorrect`, `LocksCorrect`. `OneSidecar` is not inductive. `Known` is: every sidecar and CLI helper of this
run is in `runtime` or `starting`. With `Held` (who is inside a start holds the lifecycle
lock, so there is one) and `Released` (only a start in progress has children of its own; `Held` also says at which
stages the two records are empty), two sidecars would be two children. `OneWebPerPort` needs
`WebPortFree`, that the port is free from the launch that frees it to the start of the helper, which holds
because `Held` leaves nobody else to start one in between, and `WebsListen`, that a helper which
is alive listens, so that the launch sees it. `LocksFollowFlows` is inductive with the types;
it is the part of `CommandsReturn` that is not about fairness: a flow that waits for a lock waits for one that goes on.

**Only model-checked**: the liveness properties (`EveryCallReturns`,
`EveryFlightLands`, `EveryRefreshReturns`, `EveryAccountCheckedIn`, `CommandsReturn`,
`ServesAgain`), as liveness under fairness is beyond this prover. Every invariant and every
action property of the passing runs is proved, and so are both refinements (`RegisterImplemented` for
the instances `store_crash` checks: crashes and failed writes). The violated properties of
`store_relogin` and `store_history` are proved under the conditions above; those of
`refresh_add_token` and `gateway_stop` have no such condition that the code could meet.

## 5. What is left out

- *Store*: the `legacy_gateway.json` snapshot, path and permission checks. A durable write
  is one step (temporary file, sync, rename). An unlocked reader is modelled as reading all
  files at one instant; one that reads the primary and the journal two commits apart is not.
- *Refresh*: the account index (which is `AccountIndex`), several accounts at once, the local client's own login, poisoning of the account lock.
  `payload_from_import_value` and other parsing is abstracted to which fields a
  payload has. `update_checkin_info` is a label edit like `UpdateTags`. The quota is not modelled. A save of another
  writer that fails is no step; one that fails after its journal would be the step itself.
- *Check-in*: the one-time migration of the web view's settings, the log file, exact delays,
  accounts that come and go. `perform_checkin` asks for the status, checks in and asks again; that is
  one step of the server, so midnight between them, which turns a success into a refusal, does not show.
- *Index*: that the copy is not written when the current index cannot be read (188), summaries, the readers that take no lock (`list_accounts` may return an empty list
  while an account is removed), a uid that is blank but present, and
  `import_workbuddy_from_local`, which removes placeholder accounts it has chosen from an
  unlocked list (commands/workbuddy.rs:104).
- *Gateway*: what a configuration holds besides its flag, port and helpers, so the loss of
  somebody's edits by a save of a whole stale copy (2183, 3471, 5509) does not show but in the
  flag and the port. Commands that import or synchronise accounts and then
  call `apply_config` are windows that save. Starting a web helper and its listening are one step
  (1774-1792), so that a helper which is alive listens is an assumption. `ensure_claude_cli_routes`
  (2181) may add CLI helpers to the configuration that is started; here they are fixed. An error of the
  operating system when a child is asked for its state (2336, 2373) leaves the children; here
  `GiveUp` always kills them. The sidecar's own behaviour (Go), and the order of
  several CLI helpers.
- *Everything else* in the inventory: planned (section 7), or vendored, or plain input
  and output, as `PROJECT.json` says for each.

*An old backup may replace a newer pair.* docs/account-storage-reliability.md:24-25 says that
"archived credential pairs cannot overwrite a newer saved generation". The store refuses an
archived *fingerprint*, and an import gives the pair another one whenever the expiry of its refresh
token comes out differently: when the server states it beside the tokens, as a lifetime from now,
or for a login that was refreshed since (`auth_raw` keeps the first answer's). Then the import
is accepted, the account holds a token the server has replaced, and its next refresh is rejected. `refresh_edits`
reaches these states; they are the ones `restored` excepts in `RotationKept` and `TokenLives`, and
`OldBackupRefused` and `RotationKeptByImports` say when they cannot occur. For the same reason the second
half of an import may be refused after the first has changed the credentials, and a flow may
drop its result as of an earlier login although nobody logged in (`DropQuota`).

Behaviours the code has that no property forbids, as nothing in the
repository promises otherwise:

- A running check-in cycle writes back the whole configuration it read, so settings
  saved meanwhile are undone (workbuddy_auto_checkin.rs:673). A window that
  disables the check-in during a cycle finds it enabled again.
- Saving the settings drops today's marks; accounts are then asked again, and the server
  answers that they are checked in.
- After `HISTORY_LIMIT` rotations a delayed writer's pair is no longer recognised.
- An account removed and added again keeps its archived copies with their old times,
  so the wrong one may be pruned.
- After a login or a rotation, the quota, the usage and the quota error of the credentials before
  stay in the record until the next successful query (409-411, 426-428, 587-597). The status does not.
- An old backup imported after its account was removed is accepted.
- One uid may have two accounts, one with the id from its email and one from its uid; and an
  account found by its derived id may have another email by now, so a login with the old email
  and no uid replaces its credentials (workbuddy_account.rs:469).
- After the index is damaged, its copy may name an account removed since; the list then
  fails, and the next save keeps the name (153).
- A web helper is leaked when the launch files cannot be written a second time
  (multi_model_api.rs:2253), until a start or a stop frees its port (`OneWebPerPort`); an adopted sidecar stays on its port when the configuration moves to another; the
  death of an adopted helper goes unnoticed; the watchdog restarts a gateway that a repair pass
  has just restarted, as it does not probe again after its wait (5569).
- A Tokio task dropped before its first poll leaves its entry; that happens at shutdown only.

## 6. Findings

1. `store_relogin`. Two logins in a row, each stopped between its journal and its
   primary write, leave a journal whose predecessor is not the primary's generation. `read_base`
   ignores it, and the pair before both is read. The comment at
   credential_store.rs:359 says the journal write makes a received pair durable.
   The refresh flow is not affected, as `prepare_refresh` reconciles first.
2. `store_history`. `prepare_refresh` archives without pruning, so the history
   exceeds the "up to eight" of docs/account-storage-reliability.md when the primary was
   replaced from outside and the refresh then fails.
3. `refresh_add_token`. Adding an access token during a refresh changes the fingerprint, the flow
   takes it for a new login and drops the received pair, and the account keeps a refresh token
   that the server has already replaced.
4. `gateway_stop`. `diagnose_and_repair` loads the configuration once (multi_model_api.rs:3432) and starts the
   sidecar from that copy, although a window has stopped the gateway meanwhile; its
   report says of a disabled service that it is checked and not started (3794). The
   watchdog has the same window between its load and its restart.

## 7. Plan

Modules, in this order, each with one run that combines its questions:

1. `ClaudeRefresh`: token and quota flights of one account, each a `SingleFlight` of its own,
   and a marker one of them may erase. It instantiates `SingleFlight` with two keys.
2. `WakeupScheduler`: due times, running marks, start-up runs, a panic in a run.
3. `TokenKeeper`, `BridgeLifecycle`, `AtomicWrite`, `PendingLogin`, as far as they show something new.

Every safety property of the present runs is proved; each new module gets its own proofs.

## 8. Running

```
tlc -config MCAutoCheckin.cfg MCAutoCheckin.tla
tlapm AutoCheckin_proofs.tla
```

| Configuration | Module | | Configuration | Module |
|---|---|---|---|---|
| `MCStoreFaults`, `MCStoreCrash`, `MCStoreRelogin`, `MCStoreHistory` | `MCCredentialStore` | | `MCSingleFlight` | `MCSingleFlight` |
| `MCRefreshEdits`, `MCRefreshReplaced`, `MCRefreshAddToken` | `MCAccountRefresh` | | `MCAutoCheckin` | `MCAutoCheckin` |
| `MCAccountIndex` | `MCAccountIndex` | | `MCGateway`, `MCGatewayStop` | `MCGatewayLifecycle` |

A definition preceded by a comment `Mutant:` is a wrong version of the definition after
it. Substituted for that definition, it violates the property `PROJECT.json`
names, under the run's own configuration: each property is sensitive to an error in the code it is about.
