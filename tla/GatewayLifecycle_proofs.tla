----------------------- MODULE GatewayLifecycle_proofs ----------------------
(***************************************************************************)
(* Proofs about GatewayLifecycle, for any windows, repairers, ports and    *)
(* configurations: types, the one sidecar, the helpers the application     *)
(* knows, what a stop leaves behind, the one web helper to a port, and who *)
(* holds the locks.                                                        *)
(*                                                                         *)
(* All but the first and the last rest on who holds which child.  A task   *)
(* inside a start holds the lifecycle lock; every sidecar and CLI helper   *)
(* of this run is a child of the runtime or of the start in progress; and  *)
(* each stage says which of the two may have children.                     *)
(***************************************************************************)
EXTENDS GatewayLifecycle, TLAPS

LEMMA AssumptionsHold ==
    /\ Windows \cap Repairers = {}
    /\ {Watchdog, Restorer} \cap (Windows \cup Repairers) = {}
    /\ Watchdog # Restorer
    /\ Nobody \notin Tasks
    /\ Configs \subseteq [on : BOOLEAN, port : Ports, helpers : SUBSET {"web", "cli"}]
    /\ MaxPid \in Nat /\ MaxSaves \in Nat /\ MaxRepairs \in Nat /\ MaxFaults \in Nat
BY TaskAssumption, ConfigAssumption, BoundAssumption

LEMMA DelayType ==
    ASSUME NEW f \in 0..4
    PROVE  Delay(f) \in 0..(MaxCooldown \div Interval)
<1>1. Doubled[Least(f, 4) + 1] \in Nat
    BY DEF Least, Doubled
<1>. QED
    BY <1>1 DEF Delay, Least, Cooldown, MaxCooldown, Interval

LEMMA HealthTypes ==
    ASSUME NEW h \in Health
    PROVE  /\ Healthy \in Health
           /\ Failing(h) \in Health
           /\ RestartFailed(h) \in Health
<1>1. Healthy \in Health
    BY DEF Healthy, Health, Threshold, MaxCooldown, Interval
<1>2. Failing(h) \in Health
    BY DEF Failing, Health, Threshold, Least
<1>3. RestartFailed(h) \in Health
  <2>1. Least(h.restartFailures + 1, 4) \in 0..4
      BY DEF Least, Health
  <2>. QED
      BY <2>1, DelayType DEF RestartFailed, Health
<1>. QED
    BY <1>1, <1>2, <1>3

LEMMA NoCopyType == ASSUME TypeOK PROVE NoCopy \in Configs
BY DEF NoCopy, TypeOK

LEMMA DeadType == Dead \notin Processes
BY DEF Dead, Processes

LEMMA NextPidType ==
    ASSUME Free # {}
    PROVE  NextPid \in Free /\ NextPid \in Pids /\ NextPid # NoPid /\ proc[NextPid] = Dead
<1>1. NextPid \in Free
    BY DEF NextPid
<1>. QED
    BY <1>1, AssumptionsHold DEF Free, Alive, Pids, NoPid

LEMMA KilledType ==
    ASSUME TypeOK, NEW pids
    PROVE  Killed(pids) \in [Pids -> Processes \cup {Dead}]
BY DEF Killed, TypeOK

LEMMA ConfigType ==
    ASSUME TypeOK, NEW t \in Tasks
    PROVE  cfg[t] \in Configs /\ cfg[t].port \in Ports
BY AssumptionsHold DEF TypeOK

LEMMA SpawnType ==
    ASSUME TypeOK, NEW t \in Tasks, NEW kind \in {"sidecar", "web", "cli"}, Spawn(kind, t)
    PROVE  /\ proc' \in [Pids -> Processes \cup {Dead}]
           /\ NextPid \in Pids
<1>1. Free # {} /\ NextPid \in Pids
    BY NextPidType DEF Spawn
<1>2. [kind |-> kind, port |-> cfg[t].port, up |-> kind # "sidecar", mine |-> TRUE] \in Processes
    BY ConfigType DEF Processes
<1>. QED
    BY <1>1, <1>2 DEF Spawn, TypeOK

LEMMA GotoType ==
    ASSUME TypeOK, NEW t \in Tasks, NEW stage \in Stages, Goto(t, stage)
    PROVE  pc' \in [Tasks -> Stages]
BY DEF Goto, TypeOK

LEMMA DropType ==
    ASSUME TypeOK, NEW t \in Tasks, Drop(t)
    PROVE  cfg' \in [Tasks -> Configs]
BY NoCopyType DEF Drop, TypeOK

LEMMA ReturnType ==
    ASSUME TypeOK, NEW t \in Tasks, NEW ok \in BOOLEAN, Return(t, ok)
    PROVE  /\ cfg' \in [Tasks -> Configs]
           /\ pc' \in [Tasks -> Stages]
           /\ lifecycle' \in Tasks \cup {Nobody}
           /\ repair' \in Tasks \cup {Nobody}
           /\ heal' \in Health
<1>1. cfg' \in [Tasks -> Configs]
    BY DropType DEF Return, TypeOK
<1>2. pc' \in [Tasks -> Stages]
    BY GotoType DEF Return, Stages
<1>3. heal' \in Health
    BY HealthTypes DEF Return, TypeOK
<1>. QED
    BY <1>1, <1>2, <1>3 DEF Return, TypeOK

LEMMA FaultsType ==
    ASSUME TypeOK, Fault \/ NoFault
    PROVE  faults' \in 0..MaxFaults
BY AssumptionsHold DEF Fault, NoFault, TypeOK

LEMMA StartType ==
    ASSUME TypeOK, NEW t \in Tasks, Start(t)
    PROVE  TypeOK'
<1>. USE ConfigType, FaultsType
<1>0. NoChildren \in Children
    BY DEF NoChildren, Children
<1>1. CASE Creds(t)
  <2>1. file' \in Configs
      BY <1>1 DEF Creds, TypeOK
  <2>2. CASE Return(t, FALSE)
      BY <1>1, <2>1, <2>2, ReturnType DEF Creds, TypeOK, edits
  <2>3. CASE Goto(t, "stop") /\ UNCHANGED caller
      BY <1>1, <2>1, <2>3, GotoType DEF Creds, TypeOK, edits, caller, locks, Stages, Starting
  <2>. QED
      BY <1>1, <2>2, <2>3 DEF Creds
<1>2. CASE Stop(t)
    BY <1>0, <1>2, KilledType, GotoType
    DEF Stop, TypeOK, edits, caller, locks, budget, Stages, Starting
<1>3. CASE Launch(t)
  <2>1. proc' \in [Pids -> Processes \cup {Dead}] /\ stopped' \in BOOLEAN /\ faults' \in 0..MaxFaults
      BY <1>3, KilledType DEF Launch, TypeOK
  <2>2. CASE \E ok \in BOOLEAN : Return(t, ok)
      BY <1>3, <2>1, <2>2, ReturnType DEF Launch, TypeOK, edits
  <2>3. CASE Goto(t, "web") /\ UNCHANGED caller
      BY <1>3, <2>1, <2>3, GotoType DEF Launch, TypeOK, edits, caller, locks, Stages, Starting
  <2>. QED
      BY <1>3, <2>2, <2>3 DEF Launch, caller
<1>4. CASE StartWeb(t)
  <2>1. faults' \in 0..MaxFaults
      BY <1>4 DEF StartWeb
  <2>2. CASE Return(t, FALSE) /\ UNCHANGED <<proc, starting>>
      BY <1>4, <2>1, <2>2, ReturnType DEF StartWeb, TypeOK, edits
  <2>3. CASE Goto(t, "cli") /\ UNCHANGED caller /\ UNCHANGED <<proc, starting>>
      BY <1>4, <2>1, <2>3, GotoType DEF StartWeb, TypeOK, edits, caller, locks, Stages, Starting
  <2>4. CASE Goto(t, "cli") /\ UNCHANGED caller /\ Spawn("web", t) /\ AddHelper
    <3>1. starting' \in Children
        BY <2>4, SpawnType DEF AddHelper, Children, TypeOK
    <3>. QED
        BY <1>4, <2>1, <2>4, <3>1, SpawnType, GotoType
        DEF StartWeb, TypeOK, edits, caller, locks, Stages, Starting
  <2>. QED
      BY <1>4, <2>2, <2>3, <2>4 DEF StartWeb
<1>5. CASE StartCli(t)
  <2>1. faults' \in 0..MaxFaults
      BY <1>5 DEF StartCli
  <2>2. CASE Return(t, FALSE) /\ starting' = NoChildren /\ UNCHANGED proc
      BY <1>0, <1>5, <2>1, <2>2, ReturnType DEF StartCli, TypeOK, edits
  <2>3. CASE Goto(t, "spawn") /\ UNCHANGED caller /\ UNCHANGED <<proc, starting>>
      BY <1>5, <2>1, <2>3, GotoType DEF StartCli, TypeOK, edits, caller, locks, Stages, Starting
  <2>4. CASE Goto(t, "spawn") /\ UNCHANGED caller /\ Spawn("cli", t) /\ AddHelper
    <3>1. starting' \in Children
        BY <2>4, SpawnType DEF AddHelper, Children, TypeOK
    <3>. QED
        BY <1>5, <2>1, <2>4, <3>1, SpawnType, GotoType
        DEF StartCli, TypeOK, edits, caller, locks, Stages, Starting
  <2>. QED
      BY <1>5, <2>2, <2>3, <2>4 DEF StartCli
<1>6. CASE StartSidecar(t)
  <2>1. faults' \in 0..MaxFaults
      BY <1>6 DEF StartSidecar
  <2>2. CASE GiveUp(t)
      BY <1>0, <1>6, <2>1, <2>2, ReturnType, KilledType DEF GiveUp, StartSidecar, TypeOK, edits
  <2>3. CASE /\ Goto(t, "ready") /\ UNCHANGED caller /\ Spawn("sidecar", t)
             /\ starting' = [starting EXCEPT !.child = NextPid]
    <3>1. starting' \in Children
        BY <2>3, SpawnType DEF Children, TypeOK
    <3>. QED
        BY <1>6, <2>1, <2>3, <3>1, SpawnType, GotoType
        DEF StartSidecar, TypeOK, edits, caller, locks, Stages, Starting
  <2>. QED
      BY <1>6, <2>2, <2>3 DEF StartSidecar, caller
<1>7. CASE Ready(t)
  <2>1. faults' \in 0..MaxFaults
      BY <1>7 DEF Ready
  <2>2. CASE GiveUp(t) /\ UNCHANGED runtime
      BY <1>0, <1>7, <2>1, <2>2, ReturnType, KilledType DEF GiveUp, Ready, TypeOK, edits
  <2>3. CASE /\ Return(t, TRUE) /\ runtime' = starting /\ starting' = NoChildren
             /\ UNCHANGED proc
      BY <1>0, <1>7, <2>1, <2>3, ReturnType DEF Ready, TypeOK, edits
  <2>. QED
      BY <1>7, <2>2, <2>3 DEF Ready
<1>. QED
    BY <1>1, <1>2, <1>3, <1>4, <1>5, <1>6, <1>7 DEF Start

LEMMA LeaveType ==
    ASSUME TypeOK, NEW r \in Tasks, LeaveRepair(r)
    PROVE  /\ cfg' \in [Tasks -> Configs]
           /\ pc' \in [Tasks -> Stages]
           /\ repair' \in Tasks \cup {Nobody}
BY DropType, GotoType DEF LeaveRepair, Stages

LEMMA RepairType ==
    ASSUME TypeOK, NEW r \in Repairers, AskRepair(r) \/ RepairStep(r)
    PROVE  TypeOK'
<1>. USE ConfigType, FaultsType
<1>0. r \in Tasks
    BY DEF Tasks
<1>1. CASE AskRepair(r)
    BY <1>0, <1>1, GotoType, AssumptionsHold DEF AskRepair, TypeOK, locks, Stages
<1>2. CASE Fix(r)
  <2>1. file' \in Configs /\ faults' \in 0..MaxFaults
      BY <1>0, <1>2 DEF Fix, TypeOK
  <2>2. CASE LeaveRepair(r)
      BY <1>0, <1>2, <2>1, <2>2, LeaveType DEF Fix, TypeOK, edits
  <2>3. CASE UNCHANGED <<cfg, repair>> /\ \E stage \in {"probe", "enter"} : Goto(r, stage)
      BY <1>0, <1>2, <2>1, <2>3, GotoType DEF Fix, TypeOK, edits, Stages
  <2>. QED
      BY <1>2, <2>2, <2>3 DEF Fix
<1>3. CASE RepairProbe(r)
  <2>1. faults' \in 0..MaxFaults /\ \E stage \in {"verify", "enter"} : Goto(r, stage)
      BY <1>3 DEF RepairProbe
  <2>. QED
      BY <1>0, <1>3, <2>1, GotoType DEF RepairProbe, TypeOK, edits, locks, Stages
<1>4. CASE Verify(r)
  <2>1. faults' \in 0..MaxFaults /\ heal' \in Health
      BY <1>4, HealthTypes DEF Verify, TypeOK
  <2>. QED
      BY <1>0, <1>4, <2>1, LeaveType DEF Verify, TypeOK, edits
<1>. QED
    BY <1>1, <1>2, <1>3, <1>4 DEF RepairStep

LEMMA WatchdogType ==
    ASSUME TypeOK, WatchdogStep
    PROVE  TypeOK'
<1>. USE ConfigType, FaultsType
<1>0. Watchdog \in Tasks
    BY DEF Tasks
<1>1. CASE Wake
  <2>1. heal' \in Health
    <3>1. PICK wait \in {0, heal.wait - 1} \cap Nat : heal' = [heal EXCEPT !.wait = wait]
        BY <1>1 DEF Wake
    <3>2. wait \in 0..(MaxCooldown \div Interval)
        BY DEF TypeOK, Health, MaxCooldown, Interval
    <3>. QED
        BY <3>1, <3>2 DEF TypeOK, Health
  <2>2. cfg' \in [Tasks -> Configs] /\ pc' \in [Tasks -> Stages]
      BY <1>0, <1>1, GotoType DEF Wake, TypeOK, Stages
  <2>. QED
      BY <1>1, <2>1, <2>2 DEF Wake, TypeOK, locks, budget, edits
<1>2. CASE Hydrate
    BY <1>0, <1>2, GotoType DEF Hydrate, TypeOK, locks, budget, edits, Stages
<1>3. CASE Probe
  <2>1. faults' \in 0..MaxFaults
      BY <1>3 DEF Probe
  <2>2. CASE Sleep /\ heal' \in {Healthy, Failing(heal)}
      BY <1>0, <1>3, <2>1, <2>2, HealthTypes, DropType, GotoType
      DEF Probe, Sleep, TypeOK, locks, edits, Stages
  <2>3. CASE /\ Goto(Watchdog, "queue") /\ UNCHANGED cfg
             /\ heal' = [Failing(heal) EXCEPT !.wait = Delay(Failing(heal).restartFailures)]
    <3>1. heal' \in Health
        BY <2>3, HealthTypes, DelayType DEF TypeOK, Health
    <3>. QED
        BY <1>0, <1>3, <2>1, <2>3, <3>1, GotoType DEF Probe, TypeOK, locks, edits, Stages
  <2>. QED
      BY <1>3, <2>2, <2>3 DEF Probe
<1>. QED
    BY <1>1, <1>2, <1>3 DEF WatchdogStep

LEMMA ProcessType ==
    ASSUME TypeOK, NEW p \in Pids, Bind(p) \/ Die(p)
    PROVE  TypeOK'
<1>1. CASE Bind(p)
  <2>1. proc[p] \in Processes
      BY <1>1 DEF Bind, Alive, TypeOK
  <2>2. [proc[p] EXCEPT !.up = TRUE] \in Processes
      BY <2>1 DEF Processes
  <2>. QED
      BY <1>1, <2>2 DEF Bind, TypeOK, locks, budget, edits
<1>2. CASE Die(p)
    BY <1>2, KilledType, FaultsType DEF Die, TypeOK, locks, edits
<1>. QED
    BY <1>1, <1>2

LEMMA TypeInit == Init => TypeOK
<1>. SUFFICES ASSUME Init PROVE TypeOK
    OBVIOUS
<1>1. NoCopy \in Configs
    BY DEF Init, NoCopy
<1>2. proc \in [Pids -> Processes \cup {Dead}]
  <2>1. file.port \in Ports
      BY AssumptionsHold DEF Init
  <2>2. \A kind \in {"sidecar", "web", "cli"} :
            [kind |-> kind, port |-> file.port, up |-> TRUE, mine |-> FALSE] \in Processes
      BY <2>1 DEF Processes
  <2>3. Leftover \in [Pids -> Processes \cup {Dead}]
      BY <2>2 DEF Leftover
  <2>. QED
      BY <2>3 DEF Init
<1>3. pc \in [Tasks -> Stages]
    BY DEF Init, InitialStage, Stages
<1>4. heal \in Health
    BY DEF Init, Healthy, Health, Threshold, MaxCooldown, Interval
<1>5. cfg \in [Tasks -> Configs]
    BY <1>1 DEF Init
<1>6. runtime \in Children /\ starting \in Children
    BY DEF Init, NoChildren, Children
<1>7. saves \in 0..MaxSaves /\ repairs \in 0..MaxRepairs /\ faults \in 0..MaxFaults
    BY AssumptionsHold DEF Init
<1>8. /\ file \in Configs /\ stopped \in BOOLEAN
      /\ lifecycle \in Tasks \cup {Nobody} /\ repair \in Tasks \cup {Nobody}
    BY DEF Init
<1>. QED
    BY <1>2, <1>3, <1>4, <1>5, <1>6, <1>7, <1>8 DEF TypeOK

LEMMA TypeNext == TypeOK /\ [Next]_vars => TypeOK'
<1>. SUFFICES ASSUME TypeOK, [Next]_vars PROVE TypeOK'
    OBVIOUS
<1>. USE ConfigType
<1>1. CASE \E t \in Tasks : Enter(t)
    BY <1>1, GotoType DEF Enter, TypeOK, Stages, Starting, budget, edits
<1>2. CASE \E t \in Tasks : Start(t)
    BY <1>2, StartType
<1>3. CASE \E w \in Windows : SaveConfig(w)
  <2>1. PICK w \in Windows : SaveConfig(w)
      BY <1>3
  <2>2. w \in Tasks
      BY DEF Tasks
  <2>3. pc' \in [Tasks -> Stages]
      BY <2>1, <2>2, GotoType DEF SaveConfig, Stages
  <2>4. file' \in Configs /\ cfg' \in [Tasks -> Configs]
      BY <2>1, <2>2 DEF SaveConfig, TypeOK
  <2>5. saves' \in 0..MaxSaves
      BY <2>1, AssumptionsHold DEF SaveConfig, TypeOK
  <2>. QED
      BY <2>1, <2>3, <2>4, <2>5 DEF SaveConfig, TypeOK, locks
<1>4. CASE \E r \in Repairers : AskRepair(r) \/ RepairStep(r)
    BY <1>4, RepairType
<1>5. CASE \E t \in Repairers \cup {Watchdog} : TakeRepair(t)
    BY <1>5, GotoType DEF TakeRepair, TypeOK, Tasks, Stages, budget, edits
<1>6. CASE Restore
    BY <1>6, GotoType DEF Restore, TypeOK, Tasks, Stages, locks, budget, edits
<1>7. CASE WatchdogStep
    BY <1>7, WatchdogType
<1>8. CASE Restart
  <2>1. proc' \in [Pids -> Processes \cup {Dead}]
    <3>1. \A p \in Alive : [proc[p] EXCEPT !.mine = FALSE] \in Processes
        BY DEF Alive, TypeOK, Processes
    <3>. QED
        BY <1>8, <3>1 DEF Restart
  <2>2. pc' \in [Tasks -> Stages]
      BY <1>8 DEF Restart, InitialStage, Stages
  <2>. QED
      BY <1>8, <2>1, <2>2, NoCopyType, HealthTypes, FaultsType
      DEF Restart, TypeOK, NoChildren, Children, edits
<1>9. CASE \E p \in Pids : Bind(p) \/ Die(p)
    BY <1>9, ProcessType
<1>10. CASE UNCHANGED vars
    BY <1>10 DEF vars, TypeOK, locks, budget, edits
<1>. QED
    BY <1>1, <1>2, <1>3, <1>4, <1>5, <1>6, <1>7, <1>8, <1>9, <1>10 DEF Next

(* Every copy, stage, process, lock and counter stays well formed. *)
THEOREM TypeCorrect == Spec => []TypeOK
BY TypeInit, TypeNext, PTL DEF Spec

-----------------------------------------------------------------------------
(* Who holds which child.                                                  *)

\* Every sidecar and CLI helper of this run is known to somebody.
Known ==
    /\ Ours("sidecar") \subseteq {runtime.child, starting.child}
    /\ Ours("cli") \subseteq runtime.helpers \cup starting.helpers

\* What is so while the holder of the lifecycle lock is at a stage.
Holding(stage) ==
    /\ stage \in {"launch", "web", "cli", "spawn", "ready"} => runtime = NoChildren
    /\ stage \in {"creds", "stop", "launch", "web"} => starting = NoChildren
    /\ stage \in {"cli", "spawn"} => starting.child = NoPid
    /\ stage \in {"launch", "web", "cli"} => Ours("cli") = {}

Held == \A t \in Tasks : pc[t] \in Starting => lifecycle = t /\ Holding(pc[t])

\* Only a start in progress has children that the runtime has not.
Released == starting = NoChildren \/ \E t \in Tasks : pc[t] \in Starting

IInv == TypeOK /\ Known /\ Held /\ Released

LEMMA OursType == ASSUME NEW kind PROVE Ours(kind) \subseteq Pids /\ NoPid \notin Ours(kind)
BY AssumptionsHold DEF Ours, Alive, Pids, NoPid

LEMMA OursKilled ==
    ASSUME NEW pids, proc' = Killed(pids), NEW kind
    PROVE  Ours(kind)' \subseteq Ours(kind) \ pids
BY DEF Ours, Alive, Killed

LEMMA OursKept ==
    ASSUME UNCHANGED proc, NEW kind
    PROVE  Ours(kind)' = Ours(kind)
BY DEF Ours, Alive

LEMMA OursSpawned ==
    ASSUME TypeOK, NEW t \in Tasks, NEW new \in {"sidecar", "web", "cli"}, Spawn(new, t)
    PROVE  \A kind : Ours(kind)' \subseteq IF kind = new THEN Ours(kind) \cup {NextPid} ELSE Ours(kind)
<1>1. NextPid \in Pids /\ proc[NextPid] = Dead
    BY NextPidType DEF Spawn
<1>2. /\ proc'[NextPid].kind = new
      /\ \A p \in Pids \ {NextPid} : proc'[p] = proc[p]
    BY <1>1 DEF Spawn, TypeOK
<1>. QED
    BY <1>2 DEF Ours, Alive

\* A start that goes on to a stage of its own.
LEMMA Advance ==
    ASSUME IInv, TypeOK', NEW t \in Tasks, pc[t] \in Starting, NEW stage \in Starting,
           Goto(t, stage), lifecycle' = lifecycle, Known', Holding(stage)'
    PROVE  IInv'
<1>1. lifecycle = t /\ lifecycle # Nobody
    BY AssumptionsHold DEF IInv, Held
<1>2. \A u \in Tasks : pc'[u] \in Starting => u = t /\ pc'[u] = stage
  <2>. SUFFICES ASSUME NEW u \in Tasks, pc'[u] \in Starting PROVE u = t /\ pc'[u] = stage
      OBVIOUS
  <2>1. CASE u = t
      BY <2>1 DEF Goto, IInv, TypeOK
  <2>2. CASE u # t
    <3>1. pc[u] \in Starting
        BY <2>2 DEF Goto, IInv, TypeOK
    <3>. QED
        BY <1>1, <2>2, <3>1 DEF IInv, Held
  <2>. QED
      BY <2>1, <2>2
<1>3. Held'
  <2>. SUFFICES ASSUME NEW u \in Tasks, pc'[u] \in Starting
                PROVE  lifecycle' = u /\ Holding(pc[u])'
      BY DEF Held
  <2>. QED
      BY <1>1, <1>2 DEF Holding
<1>4. pc'[t] \in Starting
    BY DEF Goto, IInv, TypeOK
<1>. QED
    BY <1>3, <1>4 DEF IInv, Released

\* A start that returns.
LEMMA Back ==
    ASSUME IInv, TypeOK', NEW t \in Tasks, pc[t] \in Starting, NEW ok \in BOOLEAN,
           Return(t, ok), Known', starting' = NoChildren
    PROVE  IInv'
<1>1. lifecycle = t
    BY DEF IInv, Held
<1>2. \A u \in Tasks : pc'[u] \notin Starting
  <2>1. pc'[t] \notin Starting
      BY DEF Return, Goto, IInv, TypeOK, Starting
  <2>2. \A u \in Tasks \ {t} : pc'[u] = pc[u]
      BY DEF Return, Goto, IInv, TypeOK
  <2>. QED
      BY <1>1, <2>1, <2>2 DEF IInv, Held
<1>. QED
    BY <1>2 DEF IInv, Held, Released

\* A step outside any start.
LEMMA Outside ==
    ASSUME IInv, TypeOK', UNCHANGED <<runtime, starting, lifecycle>>,
           \A kind : Ours(kind)' \subseteq Ours(kind),
           \A u \in Tasks : pc[u] \in Starting \/ pc'[u] \in Starting => pc'[u] = pc[u]
    PROVE  IInv'
<1>1. Known'
    BY DEF IInv, Known
<1>2. Held'
  <2>. SUFFICES ASSUME NEW u \in Tasks, pc'[u] \in Starting
                PROVE  lifecycle' = u /\ Holding(pc[u])'
      BY DEF Held
  <2>1. pc'[u] = pc[u] /\ lifecycle = u /\ Holding(pc[u])
      BY DEF IInv, Held
  <2>. QED
      BY <2>1 DEF Holding
<1>. QED
    BY <1>1, <1>2 DEF IInv, Released

LEMMA HeldStart ==
    ASSUME IInv, TypeOK', NEW t \in Tasks, Start(t)
    PROVE  IInv'
<1>0. /\ TypeOK /\ Known
      /\ pc[t] \in Starting => Holding(pc[t])
    BY DEF IInv, Held
<1>1. CASE Creds(t)
  <2>1. pc[t] = "creds" /\ pc[t] \in Starting /\ starting' = NoChildren /\ UNCHANGED <<proc, runtime>>
      BY <1>0, <1>1 DEF Creds, At, Starting, Holding
  <2>2. Known'
      BY <1>0, <1>1, <2>1, OursKept DEF Creds, Known
  <2>3. CASE Return(t, FALSE)
      BY <2>1, <2>2, <2>3, Back
  <2>4. CASE Goto(t, "stop") /\ UNCHANGED caller
    <3>1. Holding("stop")'
        BY <2>1 DEF Holding
    <3>. QED
        BY <2>1, <2>2, <2>4, <3>1, Advance DEF caller, locks, Starting
  <2>. QED
      BY <1>1, <2>3, <2>4 DEF Creds
<1>2. CASE Stop(t)
  <2>1. /\ pc[t] = "stop" /\ pc[t] \in Starting /\ Goto(t, "launch") /\ lifecycle' = lifecycle
        /\ starting = NoChildren /\ starting' = NoChildren /\ runtime' = NoChildren
        /\ proc' = Killed(Members(runtime))
      BY <1>0, <1>2 DEF Stop, At, Starting, Holding, caller, locks
  <2>2. Ours("sidecar")' = {} /\ Ours("cli")' = {}
    <3>1. Ours("sidecar") \subseteq Members(runtime) /\ Ours("cli") \subseteq Members(runtime)
        BY <1>0, <2>1, OursType DEF Known, NoChildren, Members
    <3>. QED
        BY <2>1, <3>1, OursKilled
  <2>. QED
      BY <2>1, <2>2, Advance DEF Known, Holding, Starting
<1>3. CASE Launch(t)
  <2>1. /\ pc[t] = "launch" /\ pc[t] \in Starting
        /\ runtime = NoChildren /\ starting = NoChildren
        /\ UNCHANGED <<runtime, starting>> /\ Ours("cli") = {}
      BY <1>0, <1>3 DEF Launch, At, Starting, Holding
  <2>2. \A kind : Ours(kind)' \subseteq Ours(kind)
      BY <1>3, OursKept, OursKilled DEF Launch
  <2>3. Known'
      BY <1>0, <2>1, <2>2 DEF Known
  <2>4. CASE \E ok \in BOOLEAN : Return(t, ok)
      BY <2>1, <2>3, <2>4, Back
  <2>5. CASE Goto(t, "web") /\ UNCHANGED caller
    <3>1. Holding("web")'
        BY <2>1, <2>2 DEF Holding
    <3>. QED
        BY <2>1, <2>3, <2>5, <3>1, Advance DEF caller, locks, Starting
  <2>. QED
      BY <1>3, <2>4, <2>5 DEF Launch, caller
<1>4. CASE StartWeb(t)
  <2>1. /\ pc[t] = "web" /\ pc[t] \in Starting /\ UNCHANGED runtime
        /\ runtime = NoChildren /\ starting = NoChildren /\ Ours("cli") = {}
      BY <1>0, <1>4 DEF StartWeb, At, Starting, Holding
  <2>2. CASE Return(t, FALSE) /\ UNCHANGED <<proc, starting>>
    <3>1. Known'
        BY <1>0, <2>1, <2>2, OursKept DEF Known
    <3>. QED
        BY <2>1, <2>2, <3>1, Back
  <2>3. CASE /\ Goto(t, "cli") /\ UNCHANGED caller
             /\ \/ UNCHANGED <<proc, starting>>
                \/ Spawn("web", t) /\ AddHelper
    <3>1. Ours("sidecar")' \subseteq Ours("sidecar") /\ Ours("cli")' = {}
        BY <1>0, <2>1, <2>3, OursKept, OursSpawned
    <3>2. starting'.child = NoPid
        BY <2>1, <2>3 DEF AddHelper, NoChildren
    <3>3. Known' /\ Holding("cli")'
        BY <1>0, <2>1, <3>1, <3>2 DEF Known, Holding, NoChildren
    <3>. QED
        BY <2>1, <2>3, <3>3, Advance DEF caller, locks, Starting
  <2>. QED
      BY <1>4, <2>2, <2>3 DEF StartWeb
<1>5. CASE StartCli(t)
  <2>1. /\ pc[t] = "cli" /\ pc[t] \in Starting /\ UNCHANGED runtime
        /\ runtime = NoChildren /\ starting.child = NoPid /\ Ours("cli") = {}
        /\ Ours("sidecar") = {}
      BY <1>0, <1>5, OursType DEF StartCli, At, Starting, Holding, Known, NoChildren
  <2>2. CASE Return(t, FALSE) /\ starting' = NoChildren /\ UNCHANGED proc
    <3>1. Known'
        BY <1>0, <2>1, <2>2, OursKept DEF Known
    <3>. QED
        BY <2>1, <2>2, <3>1, Back
  <2>3. CASE Goto(t, "spawn") /\ UNCHANGED caller /\ UNCHANGED <<proc, starting>>
    <3>1. Known' /\ Holding("spawn")'
        BY <2>1, <2>3, OursKept DEF Known, Holding
    <3>. QED
        BY <2>1, <2>3, <3>1, Advance DEF caller, locks, Starting
  <2>4. CASE Goto(t, "spawn") /\ UNCHANGED caller /\ Spawn("cli", t) /\ AddHelper
    <3>1. Ours("sidecar")' = {} /\ Ours("cli")' \subseteq {NextPid}
        BY <1>0, <2>1, <2>4, OursSpawned
    <3>2. starting'.child = NoPid /\ NextPid \in starting'.helpers
        BY <1>0, <2>1, <2>4 DEF AddHelper, TypeOK, Children
    <3>3. Known' /\ Holding("spawn")'
        BY <2>1, <3>1, <3>2 DEF Known, Holding
    <3>. QED
        BY <2>1, <2>4, <3>3, Advance DEF caller, locks, Starting
  <2>. QED
      BY <1>5, <2>2, <2>3, <2>4 DEF StartCli
<1>6. CASE StartSidecar(t)
  <2>1. /\ pc[t] = "spawn" /\ pc[t] \in Starting /\ UNCHANGED runtime
        /\ runtime = NoChildren /\ starting.child = NoPid
        /\ Ours("sidecar") = {} /\ Ours("cli") \subseteq starting.helpers
      BY <1>0, <1>6, OursType DEF StartSidecar, At, Starting, Holding, Known, NoChildren
  <2>2. CASE GiveUp(t)
    <3>1. Ours("sidecar")' = {} /\ Ours("cli")' = {} /\ starting' = NoChildren /\ Return(t, FALSE)
        BY <2>1, <2>2, OursKilled DEF GiveUp, Members
    <3>. QED
        BY <2>1, <3>1, Back DEF Known
  <2>3. CASE /\ Goto(t, "ready") /\ UNCHANGED caller /\ Spawn("sidecar", t)
             /\ starting' = [starting EXCEPT !.child = NextPid]
    <3>1. Ours("sidecar")' \subseteq {NextPid} /\ Ours("cli")' \subseteq Ours("cli")
        BY <1>0, <2>1, <2>3, OursSpawned
    <3>2. starting'.child = NextPid /\ starting'.helpers = starting.helpers
        BY <1>0, <2>3 DEF TypeOK, Children
    <3>3. Known' /\ Holding("ready")'
        BY <2>1, <3>1, <3>2 DEF Known, Holding
    <3>. QED
        BY <2>1, <2>3, <3>3, Advance DEF caller, locks, Starting
  <2>. QED
      BY <1>6, <2>2, <2>3 DEF StartSidecar, caller
<1>7. CASE Ready(t)
  <2>1. /\ pc[t] = "ready" /\ pc[t] \in Starting /\ runtime = NoChildren
        /\ Ours("sidecar") \subseteq Members(starting) /\ Ours("cli") \subseteq Members(starting)
        /\ Ours("sidecar") \subseteq {starting.child} /\ Ours("cli") \subseteq starting.helpers
      BY <1>0, <1>7, OursType DEF Ready, At, Starting, Holding, Known, NoChildren, Members
  <2>2. CASE GiveUp(t) /\ UNCHANGED runtime
    <3>1. Ours("sidecar")' = {} /\ Ours("cli")' = {} /\ starting' = NoChildren /\ Return(t, FALSE)
        BY <2>1, <2>2, OursKilled DEF GiveUp
    <3>. QED
        BY <2>1, <3>1, Back DEF Known
  <2>3. CASE /\ Return(t, TRUE) /\ runtime' = starting /\ starting' = NoChildren
             /\ UNCHANGED proc
    <3>1. Known'
        BY <2>1, <2>3, OursKept DEF Known
    <3>. QED
        BY <2>1, <2>3, <3>1, Back
  <2>. QED
      BY <1>7, <2>2, <2>3 DEF Ready
<1>. QED
    BY <1>1, <1>2, <1>3, <1>4, <1>5, <1>6, <1>7 DEF Start

LEMMA HeldInit == Init => IInv
<1>. SUFFICES ASSUME Init PROVE IInv
    OBVIOUS
<1>1. TypeOK
    BY TypeInit
<1>2. Ours("sidecar") = {} /\ Ours("cli") = {}
    BY DEF Init, Leftover, Ours, Alive
<1>3. Held
    BY DEF Held, Init, InitialStage, Starting
<1>. QED
    BY <1>1, <1>2, <1>3 DEF IInv, Known, Released, Init

LEMMA HeldNext == IInv /\ [Next]_vars => IInv'
<1>. SUFFICES ASSUME IInv, [Next]_vars PROVE IInv'
    OBVIOUS
<1>0. TypeOK /\ TypeOK'
    BY TypeNext DEF IInv
<1>1. CASE \E t \in Tasks : Enter(t)
  <2>1. PICK t \in Tasks : Enter(t)
      BY <1>1
  <2>2. /\ lifecycle = Nobody /\ lifecycle' = t /\ lifecycle' # Nobody
        /\ starting = NoChildren /\ UNCHANGED <<proc, runtime, starting>>
        /\ pc' = [pc EXCEPT ![t] = IF cfg[t].on THEN "creds" ELSE "stop"]
    <3>1. \A u \in Tasks : pc[u] \notin Starting
        BY <2>1, AssumptionsHold DEF Enter, IInv, Held
    <3>. QED
        BY <2>1, <3>1, AssumptionsHold DEF Enter, Goto, IInv, Released
  <2>3. Known'
      BY <2>2, OursKept DEF IInv, Known
  <2>4. \A u \in Tasks : pc[u] \notin Starting
      BY <2>2, AssumptionsHold DEF IInv, Held
  <2>5. Holding("creds")' /\ Holding("stop")'
      BY <2>2 DEF Holding
  <2>6. Held'
    <3>. SUFFICES ASSUME NEW u \in Tasks, pc'[u] \in Starting
                  PROVE  lifecycle' = u /\ Holding(pc[u])'
        BY DEF Held
    <3>1. u = t /\ pc'[u] \in {"creds", "stop"}
        BY <1>0, <2>2, <2>4 DEF TypeOK
    <3>. QED
        BY <2>2, <2>5, <3>1
  <2>. QED
      BY <1>0, <2>2, <2>3, <2>6 DEF IInv, Released
<1>2. CASE \E t \in Tasks : Start(t)
    BY <1>0, <1>2, HeldStart
<1>3. CASE \E w \in Windows : SaveConfig(w)
  <2>1. PICK w \in Windows : SaveConfig(w)
      BY <1>3
  <2>2. \A u \in Tasks : pc[u] \in Starting \/ pc'[u] \in Starting => pc'[u] = pc[u]
      BY <1>0, <2>1 DEF SaveConfig, At, Goto, TypeOK, Starting
  <2>. QED
      BY <1>0, <2>1, <2>2, OursKept, Outside DEF SaveConfig, locks
<1>4. CASE \E r \in Repairers : AskRepair(r) \/ RepairStep(r)
  <2>1. PICK r \in Repairers : AskRepair(r) \/ RepairStep(r)
      BY <1>4
  <2>2. UNCHANGED <<proc, runtime, starting, lifecycle>>
      BY <2>1 DEF AskRepair, RepairStep, Fix, RepairProbe, Verify, locks
  <2>3. /\ \E stage \in {"idle", "queue", "probe", "enter", "verify"} : Goto(r, stage)
        /\ pc[r] \notin Starting
      BY <2>1 DEF AskRepair, RepairStep, Fix, RepairProbe, Verify, LeaveRepair, At, Starting
  <2>4. \A u \in Tasks : pc[u] \in Starting \/ pc'[u] \in Starting => pc'[u] = pc[u]
      BY <1>0, <2>3 DEF Goto, TypeOK, Starting
  <2>. QED
      BY <1>0, <2>2, <2>4, OursKept, Outside
<1>5. CASE \E t \in Repairers \cup {Watchdog} : TakeRepair(t)
  <2>1. PICK t \in Repairers \cup {Watchdog} : TakeRepair(t)
      BY <1>5
  <2>2. \A u \in Tasks : pc[u] \in Starting \/ pc'[u] \in Starting => pc'[u] = pc[u]
      BY <1>0, <2>1 DEF TakeRepair, At, Goto, TypeOK, Starting
  <2>. QED
      BY <1>0, <2>1, <2>2, OursKept, Outside DEF TakeRepair
<1>6. CASE Restore
  <2>1. \A u \in Tasks : pc[u] \in Starting \/ pc'[u] \in Starting => pc'[u] = pc[u]
      BY <1>0, <1>6 DEF Restore, At, Goto, TypeOK, Starting
  <2>. QED
      BY <1>0, <1>6, <2>1, OursKept, Outside DEF Restore, locks
<1>7. CASE WatchdogStep
  <2>1. UNCHANGED <<proc, runtime, starting, lifecycle>>
      BY <1>7 DEF WatchdogStep, Wake, Hydrate, Probe, locks
  <2>2. \A u \in Tasks : pc[u] \in Starting \/ pc'[u] \in Starting => pc'[u] = pc[u]
      BY <1>0, <1>7 DEF WatchdogStep, Wake, Hydrate, Probe, Sleep, At, Goto, TypeOK, Starting
  <2>. QED
      BY <1>0, <2>1, <2>2, OursKept, Outside
<1>8. CASE Restart
  <2>1. Ours("sidecar")' = {} /\ Ours("cli")' = {}
      BY <1>0, <1>8 DEF Restart, Ours, Alive, TypeOK, Processes, Dead
  <2>2. \A u \in Tasks : pc'[u] \notin Starting
      BY <1>8 DEF Restart, InitialStage, Starting
  <2>. QED
      BY <1>0, <1>8, <2>1, <2>2 DEF Restart, IInv, Known, Held, Released
<1>9. CASE \E p \in Pids : Bind(p) \/ Die(p)
  <2>1. PICK p \in Pids : Bind(p) \/ Die(p)
      BY <1>9
  <2>2. \A kind : Ours(kind)' \subseteq Ours(kind)
    <3>1. CASE Bind(p)
      <4>1. \/ proc'[p] = Dead
            \/ proc'[p].kind = proc[p].kind /\ proc'[p].mine = proc[p].mine
          BY <1>0, <3>1 DEF Bind, Alive, TypeOK, Processes
      <4>. QED
          BY <1>0, <3>1, <4>1 DEF Bind, Ours, Alive, TypeOK
    <3>2. CASE Die(p)
        BY <3>2, OursKilled DEF Die
    <3>. QED
        BY <2>1, <3>1, <3>2
  <2>. QED
      BY <1>0, <2>1, <2>2, Outside DEF Bind, Die, locks
<1>10. CASE UNCHANGED vars
    BY <1>0, <1>10, OursKept, Outside DEF vars, locks
<1>. QED
    BY <1>1, <1>2, <1>3, <1>4, <1>5, <1>6, <1>7, <1>8, <1>9, <1>10 DEF Next

LEMMA Invariance == Spec => []IInv
BY HeldInit, HeldNext, PTL DEF Spec

(* One run of the application never has two sidecars: the one of a start   *)
(* in progress exists only while the runtime has none.                     *)
THEOREM OneSidecarCorrect == Spec => []OneSidecar
<1>1. IInv => OneSidecar
  <2>. SUFFICES ASSUME IInv, NEW p \in Ours("sidecar"), NEW q \in Ours("sidecar")
                PROVE  p = q
      BY DEF OneSidecar
  <2>1. p \in {runtime.child, starting.child} /\ q \in {runtime.child, starting.child}
      BY DEF IInv, Known
  <2>2. p # NoPid /\ q # NoPid
      BY OursType
  <2>3. starting.child = NoPid \/ runtime.child = NoPid
    <3>1. CASE starting = NoChildren
        BY <3>1 DEF NoChildren
    <3>2. CASE \E t \in Tasks : pc[t] \in Starting
        BY <3>2 DEF IInv, Held, Holding, Starting, NoChildren
    <3>. QED
        BY <3>1, <3>2 DEF IInv, Released
  <2>. QED
      BY <2>1, <2>2, <2>3
<1>. QED
    BY <1>1, Invariance, PTL

(* Between starts every CLI helper alive is one the runtime holds.         *)
THEOREM HelpersKnown == Spec => []NoStrayHelper
<1>1. IInv => NoStrayHelper
  <2>. SUFFICES ASSUME IInv, lifecycle = Nobody PROVE Ours("cli") \subseteq runtime.helpers
      BY DEF NoStrayHelper
  <2>1. starting = NoChildren
      BY AssumptionsHold DEF IInv, Held, Released
  <2>. QED
      BY <2>1 DEF IInv, Known, NoChildren
<1>. QED
    BY <1>1, Invariance, PTL

(* A stop that returns with success leaves no process of the gateway.      *)
THEOREM StopCompletes == Spec => StopIsComplete
<1>1. IInv /\ [Next]_vars =>
        [\A w \in Windows, port \in Ports :
          ~stopped /\ stopped' /\ pc[w] = "launch" /\ pc'[w] = "idle" /\ cfg[w].port = port =>
              /\ Ours("sidecar")' = {} /\ Ours("cli")' = {}
              /\ Listening("sidecar", port)' = {} /\ Listening("web", port)' = {}]_vars
  <2>. SUFFICES ASSUME IInv, Next, NEW w \in Windows, NEW port \in Ports,
                       ~stopped, stopped', pc[w] = "launch", pc'[w] = "idle", cfg[w].port = port
                PROVE  /\ Ours("sidecar")' = {} /\ Ours("cli")' = {}
                       /\ Listening("sidecar", port)' = {} /\ Listening("web", port)' = {}
      OBVIOUS
  <2>. w \in Tasks /\ TypeOK
      BY DEF Tasks, IInv
  <2>1. PICK t \in Tasks : Launch(t)
    <3>1. \E t \in Tasks : Start(t)
        BY DEF Next, Enter, SaveConfig, AskRepair, RepairStep, Fix, RepairProbe, Verify,
               TakeRepair, Restore, WatchdogStep, Wake, Hydrate, Probe, Restart, Bind, Die
    <3>. QED
        BY <3>1 DEF Start, Creds, Stop, StartWeb, StartCli, StartSidecar, Ready
  <2>2. t = w
      BY <2>1 DEF Launch, At, IInv, Held, Starting
  <2>3. ~cfg[w].on /\ proc' = Killed(Occupants(cfg[w]))
      BY <2>1, <2>2 DEF Launch
  <2>4. Occupants(cfg[w]) = Listening("sidecar", port) \cup Listening("web", port)
      BY <2>3 DEF Occupants
  <2>5. Listening("sidecar", port)' = {} /\ Listening("web", port)' = {}
      BY <2>3, <2>4 DEF Killed, Listening, Alive
  <2>6. Ours("sidecar") = {} /\ Ours("cli") = {}
      BY OursType DEF IInv, Known, Held, Holding, Starting, NoChildren
  <2>. QED
      BY <2>3, <2>5, <2>6, OursKilled
<1>. QED
    BY <1>1, Invariance, PTL DEF Spec, StopIsComplete

-----------------------------------------------------------------------------
(* One web helper to a port.  A web helper always listens, so a start has  *)
(* freed its port of every one, and nobody else starts one before it does. *)

Webs == {p \in Pids : proc[p].kind = "web"}
WebsListen == \A p \in Webs : proc[p].up

\* Between the two stages of one start.
WebPortFree ==
    \A t \in Tasks :
        pc[t] = "web" /\ "web" \in cfg[t].helpers => Listening("web", cfg[t].port) = {}

WebInv == WebsListen /\ WebPortFree /\ OneWebPerPort

\* A step that starts no web helper.
NoNewWeb ==
    \A p \in Webs' : p \in Webs /\ proc'[p].port = proc[p].port /\ proc'[p].up = proc[p].up

LEMMA ListeningWebs ==
    ASSUME NEW port
    PROVE  /\ Listening("web", port) = {p \in Webs : proc[p].port = port /\ proc[p].up}
           /\ Listening("web", port)' = {p \in Webs' : proc'[p].port = port /\ proc'[p].up}
BY DEF Listening, Alive, Webs, Dead

LEMMA KeptNoNewWeb == ASSUME UNCHANGED proc PROVE NoNewWeb
BY DEF NoNewWeb, Webs

LEMMA KilledNoNewWeb == ASSUME NEW pids, proc' = Killed(pids) PROVE NoNewWeb
BY DEF NoNewWeb, Webs, Killed, Dead

LEMMA SpawnedNoNewWeb ==
    ASSUME TypeOK, NEW t \in Tasks, NEW kind \in {"sidecar", "cli"}, Spawn(kind, t)
    PROVE  NoNewWeb
<1>1. NextPid \in Pids
    BY NextPidType DEF Spawn
<1>2. proc'[NextPid].kind # "web" /\ \A p \in Pids \ {NextPid} : proc'[p] = proc[p]
    BY <1>1 DEF Spawn, TypeOK
<1>. QED
    BY <1>2 DEF NoNewWeb, Webs

\* A step that starts no web helper, and after which nobody is newly about to.
LEMMA WebFewer ==
    ASSUME WebInv, NoNewWeb,
           \A t \in Tasks : pc'[t] = "web" => pc[t] = "web" /\ cfg'[t] = cfg[t]
    PROVE  WebInv'
<1>1. \A port : Listening("web", port)' \subseteq Listening("web", port)
    BY ListeningWebs DEF NoNewWeb
<1>2. WebsListen'
    BY DEF WebInv, WebsListen, NoNewWeb
<1>3. WebPortFree'
    BY <1>1 DEF WebInv, WebPortFree
<1>4. OneWebPerPort'
    BY <1>1 DEF WebInv, OneWebPerPort
<1>. QED
    BY <1>2, <1>3, <1>4 DEF WebInv

\* Where a step takes its task, and whose copies it leaves alone.
LEMMA ElsewhereNotWeb ==
    ASSUME TypeOK, NEW t \in Tasks, NEW stage \in Stages \ {"web"}, Goto(t, stage),
           \A u \in Tasks \ {t} : cfg'[u] = cfg[u]
    PROVE  \A u \in Tasks : pc'[u] = "web" => pc[u] = "web" /\ cfg'[u] = cfg[u]
BY DEF Goto, TypeOK

LEMMA ReturnNotWeb ==
    ASSUME TypeOK, NEW t \in Tasks, NEW ok \in BOOLEAN, Return(t, ok)
    PROVE  \A u \in Tasks : pc'[u] = "web" => pc[u] = "web" /\ cfg'[u] = cfg[u]
<1>1. PICK stage \in {"idle", "verify", "sleep", "restored"} : Goto(t, stage)
    BY DEF Return
<1>2. \A u \in Tasks \ {t} : cfg'[u] = cfg[u]
    BY DEF Return, Drop, TypeOK
<1>. QED
    BY <1>1, <1>2, ElsewhereNotWeb DEF Stages

\* The launch frees the port, and nobody else is at the next stage.
LEMMA WebLaunched ==
    ASSUME IInv, WebInv, NEW t \in Tasks, Launch(t), Goto(t, "web"), UNCHANGED caller,
           cfg[t].on, proc' = Killed(Occupants(cfg[t]))
    PROVE  WebInv'
<1>1. NoNewWeb
    BY KilledNoNewWeb
<1>2. \A port : Listening("web", port)' \subseteq Listening("web", port)
    BY <1>1, ListeningWebs DEF NoNewWeb
<1>3. \A u \in Tasks : pc'[u] = "web" => u = t
    BY DEF Launch, At, Goto, IInv, TypeOK, Held, Starting
<1>4. "web" \in cfg[t].helpers => Listening("web", cfg[t].port)' = {}
  <2>1. "web" \in cfg[t].helpers => Listening("web", cfg[t].port) \subseteq Occupants(cfg[t])
      BY DEF Occupants
  <2>2. \A p \in Webs' : p \notin Occupants(cfg[t])
      BY DEF Killed, Webs, Dead
  <2>. QED
      BY <1>2, <2>1, <2>2, ListeningWebs DEF caller
<1>5. WebsListen' /\ WebPortFree' /\ OneWebPerPort'
    BY <1>1, <1>2, <1>3, <1>4
    DEF WebInv, WebsListen, WebPortFree, OneWebPerPort, NoNewWeb, caller
<1>. QED
    BY <1>5 DEF WebInv

\* The one start of a web helper, on the port the launch has freed.
LEMMA WebStarted ==
    ASSUME IInv, WebInv, NEW t \in Tasks, At(t, "web"), "web" \in cfg[t].helpers,
           Spawn("web", t), Goto(t, "cli"), UNCHANGED caller
    PROVE  WebInv'
<1>. TypeOK
    BY DEF IInv
<1>1. NextPid \in Pids
    BY NextPidType DEF Spawn
<1>2. /\ proc'[NextPid].kind = "web" /\ proc'[NextPid].port = cfg[t].port /\ proc'[NextPid].up
      /\ \A p \in Pids \ {NextPid} : proc'[p] = proc[p]
    BY <1>1 DEF Spawn, TypeOK
<1>3. WebsListen'
    BY <1>2 DEF WebInv, WebsListen, Webs
<1>4. \A u \in Tasks : pc'[u] # "web"
    BY DEF At, Goto, IInv, TypeOK, Held, Starting
<1>5. Listening("web", cfg[t].port) = {}
    BY DEF At, WebInv, WebPortFree
<1>6. OneWebPerPort'
  <2>. SUFFICES ASSUME NEW port \in Ports,
                       NEW p \in Listening("web", port)', NEW q \in Listening("web", port)'
                PROVE  p = q
      BY DEF OneWebPerPort
  <2>1. /\ p \in Webs' /\ proc'[p].port = port /\ proc'[p].up
        /\ q \in Webs' /\ proc'[q].port = port /\ proc'[q].up
      BY ListeningWebs
  <2>2. CASE port = cfg[t].port
    <3>1. \A r \in Webs' : proc'[r].port = port /\ proc'[r].up => r = NextPid
        BY <1>2, <1>5, <2>2, ListeningWebs DEF Webs
    <3>. QED
        BY <2>1, <3>1
  <2>3. CASE port # cfg[t].port
    <3>1. p \in Listening("web", port) /\ q \in Listening("web", port)
        BY <1>2, <2>1, <2>3, ListeningWebs DEF Webs
    <3>. QED
        BY <3>1 DEF WebInv, OneWebPerPort
  <2>. QED
      BY <2>2, <2>3
<1>. QED
    BY <1>3, <1>4, <1>6 DEF WebInv, WebPortFree

LEMMA WebStart ==
    ASSUME IInv, WebInv, NEW t \in Tasks, Start(t)
    PROVE  WebInv'
<1>. TypeOK
    BY DEF IInv
<1>1. CASE NoNewWeb /\ \E ok \in BOOLEAN : Return(t, ok)
    BY <1>1, ReturnNotWeb, WebFewer
<1>2. CASE NoNewWeb /\ UNCHANGED caller /\ \E stage \in Starting \ {"web"} : Goto(t, stage)
    BY <1>2, ElsewhereNotWeb, WebFewer DEF caller, Stages
<1>3. CASE Creds(t)
    BY <1>1, <1>2, <1>3, KeptNoNewWeb DEF Creds, Starting
<1>4. CASE Stop(t)
    BY <1>2, <1>4, KilledNoNewWeb DEF Stop, Starting
<1>5. CASE Launch(t)
  <2>1. NoNewWeb
      BY <1>5, KeptNoNewWeb, KilledNoNewWeb DEF Launch
  <2>2. CASE \E ok \in BOOLEAN : Return(t, ok)
      BY <1>1, <2>1, <2>2
  <2>3. CASE Goto(t, "web") /\ UNCHANGED caller /\ cfg[t].on /\ proc' = Killed(Occupants(cfg[t]))
      BY <1>5, <2>3, WebLaunched
  <2>. QED
      BY <1>5, <2>2, <2>3 DEF Launch, caller
<1>6. CASE StartWeb(t)
  <2>1. CASE "web" \in cfg[t].helpers /\ Spawn("web", t) /\ Goto(t, "cli") /\ UNCHANGED caller
      BY <1>6, <2>1, WebStarted DEF StartWeb
  <2>2. CASE UNCHANGED proc
      BY <1>1, <1>2, <1>6, <2>2, KeptNoNewWeb DEF StartWeb, Starting
  <2>. QED
      BY <1>6, <2>1, <2>2 DEF StartWeb
<1>7. CASE StartCli(t)
  <2>1. NoNewWeb
      BY <1>7, KeptNoNewWeb, SpawnedNoNewWeb DEF StartCli
  <2>. QED
      BY <1>1, <1>2, <1>7, <2>1 DEF StartCli, Starting
<1>8. CASE StartSidecar(t)
  <2>1. NoNewWeb
      BY <1>8, KilledNoNewWeb, SpawnedNoNewWeb DEF StartSidecar, GiveUp
  <2>. QED
      BY <1>1, <1>2, <1>8, <2>1 DEF StartSidecar, GiveUp, Starting
<1>9. CASE Ready(t)
  <2>1. NoNewWeb
      BY <1>9, KeptNoNewWeb, KilledNoNewWeb DEF Ready, GiveUp
  <2>. QED
      BY <1>1, <1>9, <2>1 DEF Ready, GiveUp
<1>. QED
    BY <1>3, <1>4, <1>5, <1>6, <1>7, <1>8, <1>9 DEF Start

LEMMA WebInit == Init => WebInv
<1>. SUFFICES ASSUME Init PROVE WebInv
    OBVIOUS
<1>1. \A p \in Webs : p = 2 /\ proc[p].up
    BY DEF Init, Leftover, Webs, Dead
<1>2. \A t \in Tasks : pc[t] # "web"
    BY DEF Init, InitialStage
<1>3. OneWebPerPort
    BY <1>1, ListeningWebs DEF OneWebPerPort
<1>. QED
    BY <1>1, <1>2, <1>3 DEF WebInv, WebsListen, WebPortFree

LEMMA WebNext == IInv /\ WebInv /\ [Next]_vars => WebInv'
<1>. SUFFICES ASSUME IInv, WebInv, [Next]_vars PROVE WebInv'
    OBVIOUS
<1>0. TypeOK
    BY DEF IInv
<1>1. CASE \E t \in Tasks : Start(t)
    BY <1>1, WebStart
<1>2. CASE \E t \in Tasks, stage \in Stages \ {"web"} :
             /\ Goto(t, stage) /\ UNCHANGED proc
             /\ \A u \in Tasks \ {t} : cfg'[u] = cfg[u]
    BY <1>0, <1>2, ElsewhereNotWeb, KeptNoNewWeb, WebFewer
<1>3. CASE \E t \in Tasks : Enter(t)
    BY <1>2, <1>3 DEF Enter, Stages, Starting
<1>4. CASE \E w \in Windows : SaveConfig(w)
    BY <1>0, <1>2, <1>4 DEF SaveConfig, Tasks, TypeOK, Stages, Starting
<1>5. CASE \E r \in Repairers : AskRepair(r) \/ RepairStep(r)
  <2>1. PICK r \in Repairers : AskRepair(r) \/ RepairStep(r)
      BY <1>5
  <2>2. /\ r \in Tasks /\ UNCHANGED proc
        /\ \E stage \in {"idle", "queue", "probe", "enter", "verify"} : Goto(r, stage)
        /\ \A u \in Tasks \ {r} : cfg'[u] = cfg[u]
      BY <1>0, <2>1
      DEF AskRepair, RepairStep, Fix, RepairProbe, Verify, LeaveRepair, Drop, TypeOK, Tasks
  <2>. QED
      BY <1>2, <2>2 DEF Stages, Starting
<1>6. CASE \E t \in Repairers \cup {Watchdog} : TakeRepair(t)
    BY <1>0, <1>2, <1>6 DEF TakeRepair, Tasks, TypeOK, Stages, Starting
<1>7. CASE Restore
    BY <1>0, <1>2, <1>7 DEF Restore, Tasks, TypeOK, Stages, Starting
<1>8. CASE WatchdogStep
  <2>1. \/ /\ UNCHANGED proc
           /\ \E stage \in {"hydrate", "probe", "queue", "sleep"} : Goto(Watchdog, stage)
           /\ \A u \in Tasks \ {Watchdog} : cfg'[u] = cfg[u]
        \/ UNCHANGED <<proc, pc, cfg>>
      BY <1>0, <1>8 DEF WatchdogStep, Wake, Hydrate, Probe, Sleep, Drop, TypeOK
  <2>2. CASE UNCHANGED <<proc, pc, cfg>>
      BY <2>2, KeptNoNewWeb, WebFewer
  <2>. QED
      BY <1>2, <2>1, <2>2 DEF Tasks, Stages, Starting
<1>9. CASE Restart
  <2>1. \A p \in Pids : /\ proc'[p].kind = proc[p].kind
                        /\ proc[p].kind = "web" => /\ proc'[p].port = proc[p].port
                                                   /\ proc'[p].up = proc[p].up
      BY <1>0, <1>9 DEF Restart, Alive, TypeOK, Processes, Dead
  <2>2. \A t \in Tasks : pc'[t] # "web"
      BY <1>9 DEF Restart, InitialStage
  <2>. QED
      BY <2>1, <2>2, WebFewer DEF NoNewWeb, Webs
<1>10. CASE \E p \in Pids : Bind(p)
  <2>1. PICK p \in Pids : Bind(p)
      BY <1>10
  <2>2. proc[p].kind # "web" /\ \A q \in Pids \ {p} : proc'[q] = proc[q]
      BY <1>0, <2>1 DEF Bind, Alive, Webs, WebInv, WebsListen, TypeOK
  <2>3. proc'[p].kind # "web"
      BY <1>0, <2>1, <2>2 DEF Bind, Alive, TypeOK, Processes, Dead
  <2>. QED
      BY <2>1, <2>2, <2>3, WebFewer DEF Bind, NoNewWeb, Webs
<1>11. CASE \E p \in Pids : Die(p)
    BY <1>11, KilledNoNewWeb, WebFewer DEF Die
<1>12. CASE UNCHANGED vars
    BY <1>12, KeptNoNewWeb, WebFewer DEF vars
<1>. QED
    BY <1>1, <1>3, <1>4, <1>5, <1>6, <1>7, <1>8, <1>9, <1>10, <1>11, <1>12 DEF Next

(* No two web helpers listen on one port, for any ports, configurations    *)
(* and faults: a start frees the port of its own web helper, whoever left  *)
(* one there, and it holds the lifecycle lock until its helper is started. *)
THEOREM OneWebCorrect == Spec => []OneWebPerPort
<1>1. WebInv => OneWebPerPort
    BY DEF WebInv
<1>2. Spec => []WebInv
    BY WebInit, WebNext, Invariance, PTL DEF Spec
<1>. QED
    BY <1>1, <1>2, PTL

-----------------------------------------------------------------------------
(* The locks.                                                              *)

Locks == TypeOK /\ LocksFollowFlows

\* A step of one task: the locks it leaves match its new stage.
LEMMA LocksStep ==
    ASSUME Locks, TypeOK', NEW t \in Tasks, NEW stage \in Stages, Goto(t, stage),
           \/ lifecycle' = lifecycle /\ (pc[t] \in Starting <=> stage \in Starting)
           \/ lifecycle = Nobody /\ lifecycle' = t /\ stage \in Starting
           \/ lifecycle = t /\ lifecycle' = Nobody /\ stage \notin Starting,
           \/ repair' = repair /\ (Repairing(t) <=> Repairing(t)')
           \/ repair = Nobody /\ repair' = t /\ Repairing(t)'
           \/ repair = t /\ repair' = Nobody /\ ~Repairing(t)'
    PROVE  Locks'
<1>1. pc'[t] = stage /\ \A u \in Tasks \ {t} : pc'[u] = pc[u]
    BY DEF Goto, Locks, TypeOK
<1>2. \A u \in Tasks : lifecycle' = u <=> pc'[u] \in Starting
    BY <1>1, AssumptionsHold DEF Locks, LocksFollowFlows
<1>3. \A u \in Tasks \ {t} : Repairing(u)' <=> Repairing(u)
    BY <1>1 DEF Repairing
<1>4. \A u \in Tasks : repair' = u <=> Repairing(u)'
    BY <1>3, AssumptionsHold DEF Locks, LocksFollowFlows
<1>. QED
    BY <1>2, <1>4 DEF Locks, LocksFollowFlows

\* A start that goes on keeps its locks.
LEMMA LocksKept ==
    ASSUME Locks, TypeOK', NEW t \in Tasks, pc[t] \in Starting, NEW stage \in Starting,
           Goto(t, stage), UNCHANGED locks
    PROVE  Locks'
<1>1. pc'[t] = stage
    BY DEF Goto, Locks, TypeOK
<1>2. Repairing(t) <=> Repairing(t)'
    BY <1>1 DEF Repairing
<1>. QED
    BY <1>2, LocksStep DEF locks, Stages

LEMMA LocksReturned ==
    ASSUME Locks, TypeOK', NEW t \in Tasks, pc[t] \in Starting, NEW ok \in BOOLEAN, Return(t, ok)
    PROVE  Locks'
<1>. DEFINE stage == IF t \in Windows THEN "idle"
                     ELSE IF t \in Repairers THEN "verify"
                     ELSE IF t = Watchdog THEN "sleep" ELSE "restored"
<1>1. Goto(t, stage) /\ stage \in Stages \ Starting
    BY DEF Return, Stages, Starting
<1>2. pc'[t] = stage
    BY <1>1 DEF Goto, Locks, TypeOK
<1>3. lifecycle = t /\ lifecycle' = Nobody
    BY DEF Return, Locks, LocksFollowFlows
<1>4. CASE t = Watchdog
  <2>1. Repairing(t) /\ repair' = Nobody
      BY <1>4 DEF Repairing, Return
  <2>2. repair = t
      BY <2>1 DEF Locks, LocksFollowFlows
  <2>3. ~Repairing(t)'
      BY <1>2, <1>4, AssumptionsHold DEF Repairing, Starting
  <2>. QED
      BY <1>1, <1>3, <2>1, <2>2, <2>3, LocksStep
<1>5. CASE t \in Repairers
  <2>1. Repairing(t) /\ Repairing(t)' /\ repair' = repair
      BY <1>2, <1>5, AssumptionsHold DEF Repairing, Return
  <2>. QED
      BY <1>1, <1>3, <2>1, LocksStep
<1>6. CASE t # Watchdog /\ t \notin Repairers
  <2>1. ~Repairing(t) /\ ~Repairing(t)' /\ repair' = repair
      BY <1>6 DEF Repairing, Return
  <2>. QED
      BY <1>1, <1>3, <2>1, LocksStep
<1>. QED
    BY <1>4, <1>5, <1>6

LEMMA LocksStart ==
    ASSUME Locks, TypeOK', NEW t \in Tasks, Start(t)
    PROVE  Locks'
<1>1. pc[t] \in Starting
    BY DEF Start, Creds, Stop, Launch, StartWeb, StartCli, StartSidecar, Ready, At, Starting
<1>2. \/ \E ok \in BOOLEAN : Return(t, ok)
      \/ UNCHANGED locks /\ \E stage \in Starting : Goto(t, stage)
    BY DEF Start, Creds, Stop, Launch, StartWeb, StartCli, StartSidecar, Ready, GiveUp,
           caller, Starting
<1>. QED
    BY <1>1, <1>2, LocksKept, LocksReturned

LEMMA LocksRepair ==
    ASSUME Locks, TypeOK', NEW r \in Repairers, AskRepair(r) \/ RepairStep(r)
    PROVE  Locks'
<1>. r \in Tasks /\ r # Watchdog
    BY AssumptionsHold DEF Tasks
<1>1. \A stage \in Stages : Goto(r, stage) => pc'[r] = stage
    BY DEF Goto, Locks, TypeOK
<1>2. CASE AskRepair(r)
  <2>1. ~Repairing(r) /\ ~Repairing(r)'
      BY <1>1, <1>2 DEF AskRepair, At, Repairing, Starting, Stages
  <2>. QED
      BY <1>2, <2>1, LocksStep DEF AskRepair, At, locks, Starting, Stages
<1>3. CASE LeaveRepair(r) /\ pc[r] \in {"fix", "verify"} /\ lifecycle' = lifecycle
  <2>1. repair = r
      BY <1>3 DEF Repairing, Locks, LocksFollowFlows
  <2>2. ~Repairing(r)'
      BY <1>1, <1>3 DEF LeaveRepair, Repairing, Starting, Stages
  <2>. QED
      BY <1>3, <2>1, <2>2, LocksStep DEF LeaveRepair, Starting, Stages
<1>4. CASE /\ \E stage \in {"probe", "enter", "verify"} : Goto(r, stage)
           /\ pc[r] \in {"fix", "probe"} /\ UNCHANGED <<lifecycle, repair>>
  <2>1. Repairing(r) /\ Repairing(r)'
      BY <1>1, <1>4 DEF Repairing, Stages
  <2>. QED
      BY <1>4, <2>1, LocksStep DEF Starting, Stages
<1>5. CASE RepairStep(r)
    BY <1>3, <1>4, <1>5 DEF RepairStep, Fix, RepairProbe, Verify, At, locks
<1>. QED
    BY <1>2, <1>5

LEMMA LocksInit == Init => Locks
<1>. SUFFICES ASSUME Init PROVE LocksFollowFlows
    BY TypeInit DEF Locks
<1>1. \A t \in Tasks : pc[t] \in {"idle", "sleep", "boot"}
    BY DEF Init, InitialStage
<1>. QED
    BY <1>1, AssumptionsHold DEF LocksFollowFlows, Repairing, Starting, Init

LEMMA LocksNext == Locks /\ [Next]_vars => Locks'
<1>. SUFFICES ASSUME Locks, [Next]_vars PROVE Locks'
    OBVIOUS
<1>0. TypeOK /\ TypeOK'
    BY TypeNext DEF Locks
<1>1. CASE \E t \in Tasks : Enter(t)
  <2>1. PICK t \in Tasks : Enter(t)
      BY <1>1
  <2>2. PICK stage \in {"creds", "stop"} : Goto(t, stage)
      BY <2>1 DEF Enter
  <2>3. pc'[t] = stage /\ pc[t] = "enter" /\ repair' = repair
      BY <1>0, <2>1, <2>2 DEF Enter, At, Goto, TypeOK
  <2>4. Repairing(t) <=> Repairing(t)'
      BY <2>3 DEF Repairing, Starting
  <2>. QED
      BY <1>0, <2>1, <2>2, <2>3, <2>4, LocksStep DEF Enter, Starting, Stages
<1>2. CASE \E t \in Tasks : Start(t)
    BY <1>0, <1>2, LocksStart
<1>3. CASE \E w \in Windows : SaveConfig(w)
  <2>1. PICK w \in Windows : SaveConfig(w)
      BY <1>3
  <2>2. w \in Tasks /\ w # Watchdog /\ w \notin Repairers
      BY AssumptionsHold DEF Tasks
  <2>3. ~Repairing(w) /\ ~Repairing(w)'
      BY <2>2 DEF Repairing
  <2>. QED
      BY <1>0, <2>1, <2>2, <2>3, LocksStep DEF SaveConfig, At, locks, Starting, Stages
<1>4. CASE \E r \in Repairers : AskRepair(r) \/ RepairStep(r)
    BY <1>0, <1>4, LocksRepair
<1>5. CASE \E t \in Repairers \cup {Watchdog} : TakeRepair(t)
  <2>1. PICK t \in Repairers \cup {Watchdog} : TakeRepair(t)
      BY <1>5
  <2>2. t \in Tasks
      BY DEF Tasks
  <2>3. PICK stage \in {"enter", "fix"} : Goto(t, stage) /\ (t = Watchdog => stage = "enter")
      BY <2>1 DEF TakeRepair
  <2>4. Repairing(t)'
      BY <1>0, <2>2, <2>3 DEF Repairing, Goto, TypeOK
  <2>. QED
      BY <1>0, <2>1, <2>2, <2>3, <2>4, LocksStep DEF TakeRepair, At, Starting, Stages
<1>6. CASE Restore
  <2>1. Restorer \in Tasks /\ ~Repairing(Restorer) /\ ~Repairing(Restorer)'
      BY AssumptionsHold DEF Repairing, Tasks
  <2>. QED
      BY <1>0, <1>6, <2>1, LocksStep DEF Restore, At, locks, Starting, Stages
<1>7. CASE WatchdogStep
  <2>1. /\ UNCHANGED locks /\ pc[Watchdog] \in {"sleep", "hydrate", "probe"}
        /\ \/ UNCHANGED pc
           \/ \E stage \in {"hydrate", "probe", "queue", "sleep"} : Goto(Watchdog, stage)
      BY <1>7 DEF WatchdogStep, Wake, Hydrate, Probe, Sleep, At
  <2>2. Watchdog \in Tasks /\ Watchdog \notin Repairers
      BY AssumptionsHold DEF Tasks
  <2>3. CASE UNCHANGED pc
      BY <1>0, <2>1, <2>3 DEF locks, Locks, LocksFollowFlows, Repairing
  <2>4. CASE \E stage \in {"hydrate", "probe", "queue", "sleep"} : Goto(Watchdog, stage)
    <3>1. PICK stage \in {"hydrate", "probe", "queue", "sleep"} : Goto(Watchdog, stage)
        BY <2>4
    <3>2. ~Repairing(Watchdog) /\ ~Repairing(Watchdog)'
        BY <1>0, <2>1, <2>2, <3>1 DEF Repairing, Goto, TypeOK, Starting
    <3>. QED
        BY <1>0, <2>1, <2>2, <3>1, <3>2, LocksStep DEF locks, Starting, Stages
  <2>. QED
      BY <2>1, <2>3, <2>4
<1>8. CASE Restart
  <2>1. /\ \A t \in Tasks : pc'[t] \in {"idle", "sleep", "boot"}
        /\ lifecycle' = Nobody /\ repair' = Nobody
      BY <1>8 DEF Restart, InitialStage
  <2>. QED
      BY <1>0, <2>1, AssumptionsHold DEF Locks, LocksFollowFlows, Repairing, Starting
<1>9. CASE \E p \in Pids : Bind(p) \/ Die(p)
    BY <1>0, <1>9 DEF Bind, Die, locks, Locks, LocksFollowFlows, Repairing
<1>10. CASE UNCHANGED vars
    BY <1>0, <1>10 DEF vars, locks, Locks, LocksFollowFlows, Repairing
<1>. QED
    BY <1>1, <1>2, <1>3, <1>4, <1>5, <1>6, <1>7, <1>8, <1>9, <1>10 DEF Next

(* For any tasks, configurations and faults, each lock is held by exactly  *)
(* the flow that has taken it, and only while that flow goes on.           *)
THEOREM LocksCorrect == Spec => []LocksFollowFlows
<1>1. Spec => []Locks
    BY LocksInit, LocksNext, PTL DEF Spec
<1>2. Locks => LocksFollowFlows
    BY DEF Locks
<1>. QED
    BY <1>1, <1>2, PTL
=============================================================================
