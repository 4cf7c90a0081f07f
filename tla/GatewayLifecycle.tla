-------------------------- MODULE GatewayLifecycle --------------------------
(***************************************************************************)
(* The multi-model API gateway's processes: multi_model_api.rs.            *)
(*                                                                         *)
(* The gateway is a sidecar process on a configured port, with a helper    *)
(* for Claude Web and helpers for the Claude CLI.  Four kinds of task      *)
(* start and stop them: a window that saves a configuration, the repair    *)
(* pass, the restore at start-up, and the watchdog.  Each works on its own *)
(* copy of the configuration file.  A lifecycle lock is held over a whole  *)
(* stop and start; a repair lock keeps repair passes apart.  The file has  *)
(* no lock at all.                                                         *)
(*                                                                         *)
(* The application never stops the sidecar when it ends (shutdown has no   *)
(* caller), so a new run finds the last one's processes and may adopt      *)
(* them.  What a configuration says beyond its flag, its port and the      *)
(* helpers it needs is left out.                                           *)
(***************************************************************************)
EXTENDS Integers

CONSTANTS
    Windows,        \* callers of save_config and set_enabled
    Repairers,      \* callers of diagnose_and_repair
    Watchdog,
    Restorer,
    Nobody,         \* the holder of a free lock
    Ports,
    Configs,        \* the configurations a window may save
    MaxPid,         \* bound: processes alive at once
    MaxSaves,       \* bound: configurations saved by windows
    MaxRepairs,     \* bound: repair passes
    MaxFaults       \* bound: dying processes, failed steps, restarts of the application

Tasks == Windows \cup Repairers \cup {Watchdog, Restorer}
Pids == 1..MaxPid
NoPid == 0

ASSUME TaskAssumption ==
    /\ Windows \cap Repairers = {}
    /\ {Watchdog, Restorer} \cap (Windows \cup Repairers) = {}
    /\ Watchdog # Restorer
    /\ Nobody \notin Tasks
ASSUME ConfigAssumption ==
    Configs \subseteq [on : BOOLEAN, port : Ports, helpers : SUBSET {"web", "cli"}]
ASSUME BoundAssumption == MaxPid \in Nat /\ MaxSaves \in Nat /\ MaxRepairs \in Nat /\ MaxFaults \in Nat

VARIABLES
    file,           \* the configuration file
    cfg,            \* each task's copy of it, NoCopy when it has dropped it
    pc,             \* each task's place in its flow
    proc,           \* the operating system's processes
    runtime,        \* RuntimeState: the children the application owns
    starting,       \* the children a start in progress holds
    lifecycle,      \* the holder of the lifecycle lock
    repair,         \* the holder of the repair lock
    heal,           \* SelfHealRuntime
    stopped,        \* a window's stop has returned, and none has saved since
    saves, repairs, faults  \* how many are left

locks == <<lifecycle, repair>>
caller == <<cfg, locks, heal>>
edits == <<saves, repairs>>
budget == <<edits, faults>>
vars == <<file, cfg, pc, proc, runtime, starting, locks, heal, stopped, budget>>

Dead == [kind |-> "none"]
\* up: it listens.  mine: this run of the application has started it.
Processes == [kind : {"sidecar", "web", "cli"}, port : Ports, up : BOOLEAN, mine : BOOLEAN]
Children == [child : Pids \cup {NoPid}, helpers : SUBSET Pids]
NoChildren == [child |-> NoPid, helpers |-> {}]

\* The watchdog's times, in seconds.
Interval == 15
Cooldown == 30
MaxCooldown == 300
Threshold == 3
Least(m, n) == IF m < n THEN m ELSE n

\* watchdog_restart_delay, in the watchdog's intervals: doubled four times.
Doubled == <<1, 2, 4, 8, 16>>
Delay(failures) ==
    Least(Cooldown * Doubled[Least(failures, 4) + 1], MaxCooldown) \div Interval

\* failures and restartFailures matter up to the threshold and the exponent's cap.
Health == [failures : 0..Threshold, restartFailures : 0..4,
           wait : 0..(MaxCooldown \div Interval)]
Healthy == [failures |-> 0, restartFailures |-> 0, wait |-> 0]
Failing(h) == [h EXCEPT !.failures = Least(@ + 1, Threshold)]
RestartFailed(h) ==
    LET failures == Least(h.restartFailures + 1, 4)
    IN  [h EXCEPT !.restartFailures = failures, !.wait = Delay(failures)]

Starting == {"creds", "stop", "launch", "web", "cli", "spawn", "ready"}
Stages == Starting \cup {"idle", "sleep", "boot", "restored", "hydrate", "probe",
                         "queue", "fix", "enter", "verify"}
At(t, stage) == t \in Tasks /\ pc[t] = stage
Goto(t, stage) == pc' = [pc EXCEPT ![t] = stage]
NoCopy == CHOOSE c \in Configs : TRUE
Drop(t) == cfg' = [cfg EXCEPT ![t] = NoCopy]

Alive == {p \in Pids : proc[p] # Dead}
Listening(kind, port) ==
    {p \in Alive : proc[p].kind = kind /\ proc[p].port = port /\ proc[p].up}
\* probe_sidecar_health, probe_gateway: some sidecar answers on the port.
Answers(port) == Listening("sidecar", port) # {}

Killed(pids) == [p \in Pids |-> IF p \in pids THEN Dead ELSE proc[p]]
Members(children) == children.helpers \cup ({children.child} \ {NoPid})
Fault == faults > 0 /\ faults' = faults - 1
NoFault == faults' = faults

-----------------------------------------------------------------------------
(* Start and stop, under the lifecycle lock: start_runtime, apply_config.  *)

\* Mutant: the lock is not waited for.
EnterUnlocked(t) ==
    /\ At(t, "enter")
    /\ lifecycle' = t
    /\ Goto(t, IF cfg[t].on THEN "creds" ELSE "stop")
    /\ UNCHANGED <<file, cfg, proc, runtime, starting, repair, heal, stopped, budget>>

Enter(t) ==
    /\ At(t, "enter")
    /\ lifecycle = Nobody
    /\ lifecycle' = t
    /\ Goto(t, IF cfg[t].on THEN "creds" ELSE "stop")
    /\ UNCHANGED <<file, cfg, proc, runtime, starting, repair, heal, stopped, budget>>

\* Mutant: a start that fails keeps the lock.
ReturnHolding(t, ok) ==
    /\ lifecycle' = IF ok THEN Nobody ELSE lifecycle
    /\ Goto(t, IF t \in Windows THEN "idle"
               ELSE IF t \in Repairers THEN "verify"
               ELSE IF t = Watchdog THEN "sleep" ELSE "restored")
    /\ repair' = IF t = Watchdog THEN Nobody ELSE repair
    /\ heal' = IF t # Watchdog THEN heal ELSE IF ok THEN Healthy ELSE RestartFailed(heal)
    /\ IF t \in Repairers THEN UNCHANGED cfg ELSE Drop(t)

\* The lock is released and the caller goes on: a window returns, the
\* repair pass probes again, the watchdog records the outcome.
Return(t, ok) ==
    /\ lifecycle' = Nobody
    /\ Goto(t, IF t \in Windows THEN "idle"
               ELSE IF t \in Repairers THEN "verify"
               ELSE IF t = Watchdog THEN "sleep" ELSE "restored")
    /\ repair' = IF t = Watchdog THEN Nobody ELSE repair
    /\ heal' = IF t # Watchdog THEN heal ELSE IF ok THEN Healthy ELSE RestartFailed(heal)
    /\ IF t \in Repairers THEN UNCHANGED cfg ELSE Drop(t)

\* Rotated credentials are saved with the rest of the caller's copy.
Creds(t) ==
    /\ At(t, "creds")
    /\ \/ /\ file' \in {file, cfg[t]}
          /\ Goto(t, "stop")
          /\ NoFault
          /\ UNCHANGED caller
       \/ Fault /\ Return(t, FALSE) /\ UNCHANGED file
    /\ UNCHANGED <<proc, runtime, starting, stopped, edits>>

\* Mutant: only the sidecar is stopped.
StopSidecar(t) ==
    /\ At(t, "stop")
    /\ proc' = Killed({runtime.child})
    /\ runtime' = NoChildren
    /\ Goto(t, "launch")
    /\ UNCHANGED <<file, caller, starting, stopped, budget>>

\* stop_runtime_locked
Stop(t) ==
    /\ At(t, "stop")
    /\ proc' = Killed(Members(runtime))
    /\ runtime' = NoChildren
    /\ Goto(t, "launch")
    /\ UNCHANGED <<file, caller, starting, stopped, budget>>

\* The restore may leave a sidecar alone that already answers.  Not when an
\* account needs a bridge (has_workbuddy), which is left open here: for the
\* Claude CLI's it depends on whether that program is found.
Adoptable(t) ==
    /\ t = Restorer
    /\ Answers(cfg[t].port)
    /\ "web" \in cfg[t].helpers => Listening("web", cfg[t].port) # {}

\* Mutant: only the sidecar's port is freed.
OccupantsSidecar(c) == Listening("sidecar", c.port)

\* kill_port_processes: a stop frees the helper's port too, a start frees it
\* only for a helper of its own.
Occupants(c) ==
    Listening("sidecar", c.port)
        \cup (IF c.on /\ "web" \notin c.helpers THEN {} ELSE Listening("web", c.port))

Launch(t) ==
    /\ At(t, "launch")
    /\ \/ Fault /\ Return(t, FALSE) /\ UNCHANGED <<proc, stopped>>
       \/ /\ ~cfg[t].on
          /\ proc' = Killed(Occupants(cfg[t]))
          /\ stopped' = TRUE
          /\ Return(t, TRUE) /\ NoFault
       \/ /\ cfg[t].on /\ Adoptable(t)
          /\ Return(t, TRUE) /\ NoFault
          /\ UNCHANGED <<proc, stopped>>
       \/ /\ cfg[t].on
          /\ proc' = Killed(Occupants(cfg[t]))
          /\ Goto(t, "web") /\ NoFault
          /\ UNCHANGED <<caller, stopped>>
    /\ UNCHANGED <<file, runtime, starting, edits>>

\* A child that has exited keeps its number while the start holds it.
Free == Pids \ (Alive \cup Members(starting))
NextPid == CHOOSE p \in Free : TRUE

\* A new process; only a sidecar is not yet up when its start returns.
Spawn(kind, t) ==
    /\ Free # {}
    /\ proc' = [proc EXCEPT ![NextPid] = [kind |-> kind, port |-> cfg[t].port,
                                          up |-> kind # "sidecar", mine |-> TRUE]]

AddHelper == starting' = [starting EXCEPT !.helpers = @ \cup {NextPid}]

\* start_claude_web_helper: without it the start fails.
StartWeb(t) ==
    /\ At(t, "web")
    /\ \/ Fault /\ Return(t, FALSE) /\ UNCHANGED <<proc, starting>>
       \/ /\ NoFault
          /\ Goto(t, "cli")
          /\ IF "web" \in cfg[t].helpers
             THEN Spawn("web", t) /\ AddHelper
             ELSE UNCHANGED <<proc, starting>>
          /\ UNCHANGED caller
    /\ UNCHANGED <<file, runtime, stopped, edits>>

\* start_claude_cli_helper: the start goes on without it, with launch files
\* written anew.  If that write fails, the start returns and drops its
\* children; dropping does not end a web helper.
StartCli(t) ==
    /\ At(t, "cli")
    /\ \/ /\ NoFault
          /\ Goto(t, "spawn")
          /\ \/ "cli" \in cfg[t].helpers /\ Spawn("cli", t) /\ AddHelper
             \/ UNCHANGED <<proc, starting>>
          /\ UNCHANGED caller
       \/ /\ "cli" \in cfg[t].helpers
          /\ Fault /\ Return(t, FALSE)
          /\ starting' = NoChildren
          /\ UNCHANGED proc
    /\ UNCHANGED <<file, runtime, stopped, edits>>

\* Mutant: only the sidecar is killed.
GiveUpSidecar(t) ==
    /\ proc' = Killed({starting.child})
    /\ starting' = NoChildren
    /\ Return(t, FALSE)

\* The start gives up: what it has started is killed.
GiveUp(t) ==
    /\ proc' = Killed(Members(starting))
    /\ starting' = NoChildren
    /\ Return(t, FALSE)

StartSidecar(t) ==
    /\ At(t, "spawn")
    /\ \/ Fault /\ GiveUp(t)
       \/ /\ Spawn("sidecar", t) /\ NoFault
          /\ starting' = [starting EXCEPT !.child = NextPid]
          /\ Goto(t, "ready")
          /\ UNCHANGED caller
    /\ UNCHANGED <<file, runtime, stopped, edits>>

\* Ready: the port answers and the sidecar has not exited.  An exit ends the
\* wait, and so does the time limit.
Ready(t) ==
    /\ At(t, "ready")
    /\ LET exited == proc[starting.child] = Dead
       IN  \/ /\ ~exited /\ Answers(cfg[t].port)
              /\ runtime' = starting
              /\ starting' = NoChildren
              /\ Return(t, TRUE) /\ NoFault
              /\ UNCHANGED proc
           \/ /\ IF exited THEN NoFault ELSE Fault
              /\ GiveUp(t)
              /\ UNCHANGED runtime
    /\ UNCHANGED <<file, stopped, edits>>

Start(t) ==
    Creds(t) \/ Stop(t) \/ Launch(t) \/ StartWeb(t) \/ StartCli(t) \/ StartSidecar(t) \/ Ready(t)

-----------------------------------------------------------------------------
(* The callers.                                                            *)

\* save_config, and set_enabled with the configuration it has loaded: what a
\* window saves may be as old as the page it shows.
SaveConfig(w) ==
    /\ At(w, "idle") /\ saves > 0
    /\ \E c \in Configs :
          /\ file' = c
          /\ cfg' = [cfg EXCEPT ![w] = c]
    /\ saves' = saves - 1
    /\ stopped' = FALSE
    /\ Goto(w, "enter")
    /\ UNCHANGED <<proc, runtime, starting, locks, heal, repairs, faults>>

\* restore
Restore ==
    /\ At(Restorer, "boot")
    /\ cfg' = [cfg EXCEPT ![Restorer] = file]
    /\ Goto(Restorer, IF file.on THEN "enter" ELSE "restored")
    /\ UNCHANGED <<file, proc, runtime, starting, locks, heal, stopped, budget>>

AskRepair(r) ==
    /\ At(r, "idle") /\ repairs > 0
    /\ repairs' = repairs - 1
    /\ Goto(r, "queue")
    /\ UNCHANGED <<file, cfg, proc, runtime, starting, locks, heal, stopped, saves, faults>>

\* Mutant: the watchdog restarts the gateway without the repair lock.
TakeRepairUnlocked(t) ==
    /\ At(t, "queue")
    /\ IF t = Watchdog
       THEN Goto(t, "enter") /\ UNCHANGED <<cfg, repair>>
       ELSE /\ repair = Nobody /\ repair' = t
            /\ Goto(t, "fix") /\ cfg' = [cfg EXCEPT ![t] = file]
    /\ UNCHANGED <<file, proc, runtime, starting, lifecycle, heal, stopped, budget>>

\* The repair pass loads the file under the repair lock; the watchdog has
\* loaded it before.
TakeRepair(t) ==
    /\ At(t, "queue")
    /\ repair = Nobody
    /\ repair' = t
    /\ IF t = Watchdog
       THEN Goto(t, "enter") /\ UNCHANGED cfg
       ELSE Goto(t, "fix") /\ cfg' = [cfg EXCEPT ![t] = file]
    /\ UNCHANGED <<file, proc, runtime, starting, lifecycle, heal, stopped, budget>>

LeaveRepair(r) == repair' = Nobody /\ Goto(r, "idle") /\ Drop(r)

\* Keys and credentials are repaired in the copy, which is saved whole; new
\* xAI credentials restart the gateway without a probe.
Fix(r) ==
    /\ At(r, "fix")
    /\ \/ /\ ~cfg[r].on
          /\ file' \in {file, cfg[r]}
          /\ NoFault
          /\ LeaveRepair(r)
       \/ /\ cfg[r].on
          /\ \/ file' \in {file, cfg[r]} /\ Goto(r, "probe")
             \/ file' = cfg[r] /\ Goto(r, "enter")
          /\ NoFault
          /\ UNCHANGED <<cfg, repair>>
       \/ Fault /\ LeaveRepair(r) /\ UNCHANGED file
    /\ UNCHANGED <<proc, runtime, starting, lifecycle, heal, stopped, edits>>

RepairProbe(r) ==
    /\ At(r, "probe") /\ r \in Repairers
    /\ \/ Answers(cfg[r].port) /\ Goto(r, "verify") /\ NoFault
       \/ Goto(r, "enter") /\ IF Answers(cfg[r].port) THEN Fault ELSE NoFault
    /\ UNCHANGED <<file, cfg, proc, runtime, starting, locks, heal, stopped, edits>>

Verify(r) ==
    /\ At(r, "verify")
    /\ \/ Answers(cfg[r].port) /\ heal' = Healthy /\ NoFault
       \/ heal' = Failing(heal) /\ IF Answers(cfg[r].port) THEN Fault ELSE NoFault
    /\ LeaveRepair(r)
    /\ UNCHANGED <<file, proc, runtime, starting, lifecycle, stopped, edits>>

\* Mutant: a deadline that has passed is subtracted from.
WakeLate ==
    /\ At(Watchdog, "sleep") /\ At(Restorer, "restored")
    /\ heal' = [heal EXCEPT !.wait = @ - 1]
    /\ IF file.on
       THEN cfg' = [cfg EXCEPT ![Watchdog] = file] /\ Goto(Watchdog, "hydrate")
       ELSE UNCHANGED <<cfg, pc>>
    /\ UNCHANGED <<file, proc, runtime, starting, locks, stopped, budget>>

\* The watchdog wakes after an interval, or later than its next restart.
Wake ==
    /\ At(Watchdog, "sleep") /\ At(Restorer, "restored")
    /\ \E wait \in {0, heal.wait - 1} \cap Nat : heal' = [heal EXCEPT !.wait = wait]
    /\ IF file.on
       THEN cfg' = [cfg EXCEPT ![Watchdog] = file] /\ Goto(Watchdog, "hydrate")
       ELSE UNCHANGED <<cfg, pc>>
    /\ UNCHANGED <<file, proc, runtime, starting, locks, stopped, budget>>

\* New Antigravity credentials are saved with the rest of the copy.
Hydrate ==
    /\ At(Watchdog, "hydrate")
    /\ file' \in {file, cfg[Watchdog]}
    /\ Goto(Watchdog, "probe")
    /\ UNCHANGED <<cfg, proc, runtime, starting, locks, heal, stopped, budget>>

\* Mutant: the helpers are not looked at.
SoundSidecar == Answers(cfg[Watchdog].port)

\* A helper of ours has exited, or the gateway does not answer.
Sound == runtime.helpers \subseteq Alive /\ Answers(cfg[Watchdog].port)

Sleep == Goto(Watchdog, "sleep") /\ Drop(Watchdog)

\* The third failure in a row, and any after it, asks for a restart unless
\* the last one was too recent.
Probe ==
    /\ At(Watchdog, "probe")
    /\ \/ Sound /\ heal' = Healthy /\ Sleep /\ NoFault
       \/ /\ IF Sound THEN Fault ELSE NoFault
          /\ LET h == Failing(heal)
             IN  IF h.failures < Threshold \/ h.wait > 0
                 THEN heal' = h /\ Sleep
                 ELSE /\ heal' = [h EXCEPT !.wait = Delay(h.restartFailures)]
                      /\ Goto(Watchdog, "queue")
                      /\ UNCHANGED cfg
    /\ UNCHANGED <<file, proc, runtime, starting, locks, stopped, edits>>

-----------------------------------------------------------------------------
(* The operating system.                                                   *)

\* A starting sidecar binds its port, or exits when the port is taken.
Bind(p) ==
    /\ p \in Alive /\ ~proc[p].up
    /\ proc' = [proc EXCEPT ![p] =
                  IF Answers(proc[p].port) THEN Dead ELSE [@ EXCEPT !.up = TRUE]]
    /\ UNCHANGED <<file, cfg, pc, runtime, starting, locks, heal, stopped, budget>>

Die(p) ==
    /\ p \in Alive
    /\ proc' = Killed({p})
    /\ Fault
    /\ UNCHANGED <<file, cfg, pc, runtime, starting, locks, heal, stopped, edits>>

InitialStage ==
    [t \in Tasks |-> IF t = Watchdog THEN "sleep" ELSE IF t = Restorer THEN "boot" ELSE "idle"]

\* The application ends and starts again; its children live on.
Restart ==
    /\ Fault
    /\ pc' = InitialStage
    /\ cfg' = [t \in Tasks |-> NoCopy]
    /\ proc' = [p \in Pids |-> IF p \in Alive THEN [proc[p] EXCEPT !.mine = FALSE] ELSE Dead]
    /\ runtime' = NoChildren
    /\ starting' = NoChildren
    /\ lifecycle' = Nobody
    /\ repair' = Nobody
    /\ heal' = Healthy
    /\ UNCHANGED <<file, stopped, edits>>

\* What an earlier run has left, if anything.
Leftover ==
    LET Old(kind) == [kind |-> kind, port |-> file.port, up |-> TRUE, mine |-> FALSE]
    IN  [p \in Pids |-> IF p = 1 THEN Old("sidecar")
                        ELSE IF p = 2 /\ "web" \in file.helpers THEN Old("web")
                        ELSE IF p = 3 /\ "cli" \in file.helpers THEN Old("cli")
                        ELSE Dead]

Init ==
    /\ file \in Configs
    /\ cfg = [t \in Tasks |-> NoCopy]
    /\ pc = InitialStage
    /\ \/ proc = [p \in Pids |-> Dead]
       \/ file.on /\ proc = Leftover
    /\ runtime = NoChildren
    /\ starting = NoChildren
    /\ lifecycle = Nobody
    /\ repair = Nobody
    /\ heal = Healthy
    /\ stopped = FALSE
    /\ saves = MaxSaves
    /\ repairs = MaxRepairs
    /\ faults = MaxFaults

WatchdogStep == Wake \/ Hydrate \/ Probe
RepairStep(r) == Fix(r) \/ RepairProbe(r) \/ Verify(r)

Next ==
    \/ \E t \in Tasks : Enter(t) \/ Start(t)
    \/ \E w \in Windows : SaveConfig(w)
    \/ \E r \in Repairers : AskRepair(r) \/ RepairStep(r)
    \/ \E t \in Repairers \cup {Watchdog} : TakeRepair(t)
    \/ Restore \/ WatchdogStep \/ Restart
    \/ \E p \in Pids : Bind(p) \/ Die(p)

Spec == Init /\ [][Next]_vars

\* Tasks run on, and a lock that stays free is taken by one that waits (tokio
\* queues them).  Nobody must save or ask for a repair; no fault must happen.
Fairness ==
    /\ WF_vars(\E t \in Tasks : Start(t))
    /\ \A t \in Tasks : WF_vars(Enter(t))
    /\ \A r \in Repairers : WF_vars(RepairStep(r))
    /\ \A t \in Repairers \cup {Watchdog} : WF_vars(TakeRepair(t))
    /\ WF_vars(Restore) /\ WF_vars(WatchdogStep)
    /\ WF_vars(\E p \in Pids : Bind(p))

FairSpec == Spec /\ Fairness

-----------------------------------------------------------------------------
(* Properties                                                              *)

(* Every copy, stage, process, lock and counter is well formed. *)
TypeOK ==
    /\ file \in Configs
    /\ cfg \in [Tasks -> Configs]
    /\ pc \in [Tasks -> Stages]
    /\ proc \in [Pids -> Processes \cup {Dead}]
    /\ runtime \in Children
    /\ starting \in Children
    /\ lifecycle \in Tasks \cup {Nobody}
    /\ repair \in Tasks \cup {Nobody}
    /\ heal \in Health
    /\ stopped \in BOOLEAN
    /\ saves \in 0..MaxSaves
    /\ repairs \in 0..MaxRepairs
    /\ faults \in 0..MaxFaults

Ours(kind) == {p \in Alive : proc[p].kind = kind /\ proc[p].mine}

(* However saves, repairs, the watchdog and failing starts interleave, one *)
(* run of the application never has two sidecars alive, on one port or on  *)
(* two: start_runtime stops the old one, and ends its own when it fails.   *)
OneSidecar == \A p, q \in Ours("sidecar") : p = q

(* Between starts every CLI helper alive is one the application knows of:  *)
(* it listens on a port of its own that no later start frees.              *)
NoStrayHelper == lifecycle = Nobody => Ours("cli") \subseteq runtime.helpers

(* No two web helpers listen on one port, though a start that fails drops  *)
(* one without ending it, a restart leaves one behind and one outlives the *)
(* change of its port: a start takes whatever answers on the helper's port *)
(* for the helper it has started, so the port must be free.                *)
OneWebPerPort == \A port \in Ports : \A p, q \in Listening("web", port) : p = q

(* No lock outlives the flow that took it, however the flow ends, and each *)
(* is held as long as the flow goes on.  Whoever holds the lifecycle lock  *)
(* waits for none, so no two flows wait for each other.                    *)
Repairing(t) ==
    \/ t \in Repairers /\ pc[t] \in Starting \cup {"fix", "probe", "enter", "verify"}
    \/ t = Watchdog /\ pc[t] \in Starting \cup {"enter"}
LocksFollowFlows ==
    \A t \in Tasks :
        /\ lifecycle = t <=> pc[t] \in Starting
        /\ repair = t <=> Repairing(t)

(* When a window's stop returns with success, no process of the gateway is *)
(* left, this run's or an older one's on the configured port; but for a    *)
(* web helper a failed start has left on another port.                     *)
StopIsComplete ==
    [][\A w \in Windows, port \in Ports :
          ~stopped /\ stopped' /\ pc[w] = "launch" /\ pc'[w] = "idle" /\ cfg[w].port = port =>
              /\ Ours("sidecar")' = {} /\ Ours("cli")' = {}
              /\ Listening("sidecar", port)' = {} /\ Listening("web", port)' = {}]_vars

(* Every save and every repair pass returns, whoever holds the locks: again *)
(* and again none is under way.                                            *)
CommandsReturn == []<>(\A t \in Windows \cup Repairers : pc[t] = "idle")

(* Once faults and edits are over, a gateway that the file enables answers *)
(* on the file's port, with the helpers it was started with alive: the     *)
(* watchdog recovers it, whichever stale copy it was last started from.    *)
Recovered == file.on => Answers(file.port) /\ runtime.helpers \subseteq Alive
ServesAgain == <>[]Recovered

(* Once a window's stop has returned with success, and until a window      *)
(* saves again, a repair pass starts no sidecar: it reports the service as *)
(* disabled, checked and not started (multi_model_api.rs:3790-3798).       *)
RepairLeavesStopped ==
    [][\A r \in Repairers : stopped /\ pc[r] = "spawn" => pc'[r] # "ready"]_vars
=============================================================================
