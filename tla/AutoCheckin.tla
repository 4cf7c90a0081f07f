---------------------------- MODULE AutoCheckin -----------------------------
(***************************************************************************)
(* Automatic daily check-in: workbuddy_auto_checkin.rs.                    *)
(*                                                                         *)
(* A cycle copies the configuration, gives every account a minute of the   *)
(* day, asks the server account by account, marks those that are checked   *)
(* in, and writes its copy back.  The scheduler starts cycles for ever; a  *)
(* window may start one too, forced, and may save new settings at any      *)
(* time.  One process-wide flag keeps cycles apart; the file lock covers   *)
(* single reads and writes only, so settings are saved between a cycle's   *)
(* read and its write, and midnight passes between its requests.           *)
(*                                                                         *)
(* The scheduler's delays and its wake-up (716-764) are left to the        *)
(* interleaving: a cycle may start whenever none runs.  The log file and   *)
(* the streak stored with the account decide nothing here.                 *)
(***************************************************************************)
EXTENDS Integers

CONSTANTS
    Accounts,
    NoAccount,
    Scheduler,      \* the background task
    Windows,        \* the callers of run_workbuddy_auto_checkin_now
    Settings,       \* what a window may save: [enabled, start, end]
    Default,        \* the settings while there is no file
    MaxDay,         \* bound: the days that pass
    MaxMinute,      \* bound: the last minute of a day
    MaxSaves,       \* bound: saves by the window
    MaxFaults       \* bound: failed requests and writes, and crashes

ASSUME AccountAssumption == NoAccount \notin Accounts
ASSUME RunnerAssumption == Scheduler \notin Windows
ASSUME ClockAssumption == MaxDay \in Nat \ {0} /\ MaxMinute \in Nat
ASSUME BoundAssumption == MaxSaves \in Nat /\ MaxFaults \in Nat
\* validate_config
ASSUME SettingsAssumption ==
    /\ Default \in Settings
    /\ Settings \subseteq [enabled : BOOLEAN, start : 0..MaxMinute, end : 0..MaxMinute]
    /\ \A s \in Settings : s.start <= s.end

VARIABLES
    config,         \* the file: its settings, and each account's schedule
    running,        \* IS_CHECKIN_RUNNING
    cycle,          \* each runner's cycle, with its copy of the file
    credited,       \* the server: the last day the account was checked in
    day, minute,    \* the clock, in the server's time zone
    saves, faults   \* how many are left

vars == <<config, running, cycle, credited, day, minute, saves, faults>>

Runners == Windows \cup {Scheduler}
Days == 1..MaxDay
Minutes == 0..MaxMinute

\* Day 0 is no day: an account without a schedule, a schedule without a mark.
Schedules == [date : Days \cup {0}, minute : Minutes, last : Days \cup {0}]
NoSchedule == [date |-> 0, minute |-> 0, last |-> 0]
Configs == [set : Settings, schedules : [Accounts -> Schedules]]

\* What the settings window saves has no schedules.
Unscheduled(s) == [set |-> s, schedules |-> [a \in Accounts |-> NoSchedule]]

Idle == [at |-> "idle", config |-> Unscheduled(Default), today |-> 0,
         todo |-> {}, account |-> NoAccount, reply |-> "none"]

Steps == {"idle", "read", "scheduled", "ask", "status", "perform", "performed",
          "recheck", "rechecked", "finish"}
Replies == {"none", "checked", "open", "inactive", "success", "refused", "error"}
Cycles == [at : Steps, config : Configs, today : Days \cup {0}, todo : SUBSET Accounts,
           account : Accounts \cup {NoAccount}, reply : Replies]

-----------------------------------------------------------------------------
(* A cycle.                                                                *)

Fault == faults > 0 /\ faults' = faults - 1

\* The cycle returns; its CheckinGuard clears the flag.
End(r) ==
    /\ cycle' = [cycle EXCEPT ![r] = Idle]
    /\ running' = FALSE

\* Mutant: the flag is not looked at.
BeginAlways(r) ==
    /\ cycle[r].at = "idle"
    /\ config.set.enabled \/ r \in Windows
    /\ running' = TRUE
    /\ cycle' = [cycle EXCEPT ![r] = [Idle EXCEPT !.at = "read", !.config = config]]
    /\ UNCHANGED <<config, credited, day, minute, saves, faults>>

\* One that finds the flag set, or the scheduler's with the check-in
\* disabled, returns and changes nothing.
Begin(r) ==
    /\ cycle[r].at = "idle"
    /\ ~running
    /\ config.set.enabled \/ r \in Windows
    /\ running' = TRUE
    /\ cycle' = [cycle EXCEPT ![r] = [Idle EXCEPT !.at = "read", !.config = config]]
    /\ UNCHANGED <<config, credited, day, minute, saves, faults>>

\* The schedule is of today and fits the window.
Current(s, set) == s.date = day /\ s.minute \in set.start .. set.end

\* Mutant: a new schedule has no mark.
RescheduleUnmarked(s, at) == [date |-> day, minute |-> at, last |-> 0]

\* A new schedule for today; today's mark stays.
Reschedule(s, at) ==
    [date |-> day, minute |-> at, last |-> IF s.last = day THEN day ELSE 0]

\* ensure_account_schedules, pick being what the random numbers are.
Ensure(c, pick) ==
    [c EXCEPT !.schedules = [a \in Accounts |->
        IF Current(@[a], c.set) THEN @[a] ELSE Reschedule(@[a], pick[a])]]

Schedule(r) ==
    /\ cycle[r].at = "read"
    /\ \E pick \in [Accounts -> cycle[r].config.set.start .. cycle[r].config.set.end] :
          LET c == Ensure(cycle[r].config, pick)
          IN  \/ /\ cycle' = [cycle EXCEPT ![r].at = "scheduled", ![r].config = c]
                 /\ config' = IF c = cycle[r].config THEN config ELSE c
                 /\ UNCHANGED <<running, faults>>
              \/ /\ c # cycle[r].config
                 /\ Fault
                 /\ End(r)
                 /\ UNCHANGED config
    /\ UNCHANGED <<credited, day, minute, saves>>

\* Mutant: an account is due from the minute after its own.
DueLater(s) == s.last # day /\ s.date = day /\ minute > s.minute

Due(s) == s.last # day /\ s.date = day /\ minute >= s.minute

\* Mutant: without targets the cycle goes on.
TargetAlways(r) ==
    /\ cycle[r].at = "scheduled"
    /\ LET todo == {a \in Accounts : r \in Windows \/ Due(cycle[r].config.schedules[a])}
       IN  cycle' = [cycle EXCEPT ![r].at = "ask", ![r].today = day, ![r].todo = todo]
    /\ UNCHANGED <<config, running, credited, day, minute, saves, faults>>

\* The date is read again: midnight may have passed since the schedules.
Target(r) ==
    /\ cycle[r].at = "scheduled"
    /\ LET todo == {a \in Accounts : r \in Windows \/ Due(cycle[r].config.schedules[a])}
       IN  \/ /\ todo = {}
              /\ End(r)
           \/ /\ todo # {}
              /\ cycle' = [cycle EXCEPT ![r].at = "ask", ![r].today = day, ![r].todo = todo]
              /\ UNCHANGED running
    /\ UNCHANGED <<config, credited, day, minute, saves, faults>>

Answered(r, a, at, reply) ==
    cycle' = [cycle EXCEPT ![r].at = at, ![r].account = a, ![r].reply = reply]

\* What the server says of the account now, or a failure.
Ask(r, a, at) ==
    /\ \/ /\ Answered(r, a, at, IF credited[a] = day THEN "checked" ELSE "open")
          /\ UNCHANGED faults
       \/ /\ credited[a] # day
          /\ Fault
          /\ Answered(r, a, at, "inactive")
       \/ /\ Fault
          /\ Answered(r, a, at, "error")
    /\ UNCHANGED <<config, running, credited, day, minute, saves>>

\* get_checkin_status
Status(r) ==
    /\ cycle[r].at = "ask"
    /\ \E a \in cycle[r].todo : Ask(r, a, "status")

\* Mutant: the date is read when the answer is handled.
MarkNow(c, a, today) == [c EXCEPT !.schedules[a].last = day]

\* mark_schedule_checked
Mark(c, a, today) == [c EXCEPT !.schedules[a].last = today]

\* The loop goes on, with or without a mark for the account.
Continue(r, marked) ==
    LET me == cycle[r]
        todo == me.todo \ {me.account}
    IN  cycle' = [cycle EXCEPT ![r] = [me EXCEPT
            !.config = IF marked THEN Mark(@, me.account, me.today) ELSE @,
            !.todo = todo,
            !.at = IF todo = {} THEN "finish" ELSE "ask",
            !.account = NoAccount,
            !.reply = "none"]]

AfterStatus(r) ==
    /\ cycle[r].at = "status"
    /\ \/ /\ cycle[r].reply = "open"
          /\ cycle' = [cycle EXCEPT ![r].at = "perform"]
       \/ /\ cycle[r].reply # "open"
          /\ Continue(r, cycle[r].reply = "checked")
    /\ UNCHANGED <<config, running, credited, day, minute, saves, faults>>

\* perform_checkin: the day is credited or not, and the answer is success
\* only if the status it asks for afterwards confirms it.
Perform(r) ==
    /\ cycle[r].at = "perform"
    /\ LET a == cycle[r].account
       IN  \/ /\ credited' = [credited EXCEPT ![a] = day]
              /\ Answered(r, a, "performed", "success")
              /\ UNCHANGED faults
           \/ /\ credited[a] = day
              /\ Answered(r, a, "performed", "refused")
              /\ UNCHANGED <<credited, faults>>
           \/ /\ Fault
              /\ \E reply \in {"refused", "error"} : Answered(r, a, "performed", reply)
              /\ credited' \in {credited, [credited EXCEPT ![a] = day]}
    /\ UNCHANGED <<config, running, day, minute, saves>>

AfterPerform(r) ==
    /\ cycle[r].at = "performed"
    /\ \/ /\ cycle[r].reply = "refused"
          /\ cycle' = [cycle EXCEPT ![r].at = "recheck"]
       \/ /\ cycle[r].reply # "refused"
          /\ Continue(r, cycle[r].reply = "success")
    /\ UNCHANGED <<config, running, credited, day, minute, saves, faults>>

\* The status once more, after a refusal.
Recheck(r) ==
    /\ cycle[r].at = "recheck"
    /\ Ask(r, cycle[r].account, "rechecked")

AfterRecheck(r) ==
    /\ cycle[r].at = "rechecked"
    /\ Continue(r, cycle[r].reply = "checked")
    /\ UNCHANGED <<config, running, credited, day, minute, saves, faults>>

\* Mutant: the marks are put into the file that is there.
FinishMerging(r) ==
    /\ cycle[r].at = "finish"
    /\ End(r)
    /\ \/ /\ config' = [config EXCEPT !.schedules = cycle[r].config.schedules]
          /\ UNCHANGED faults
       \/ /\ Fault
          /\ UNCHANGED config
    /\ UNCHANGED <<credited, day, minute, saves>>

\* The copy, with its marks, replaces the file; the write may fail.
Finish(r) ==
    /\ cycle[r].at = "finish"
    /\ End(r)
    /\ \/ /\ config' = cycle[r].config
          /\ UNCHANGED faults
       \/ /\ Fault
          /\ UNCHANGED config
    /\ UNCHANGED <<credited, day, minute, saves>>

-----------------------------------------------------------------------------
(* Its surroundings.                                                       *)

\* save_workbuddy_auto_checkin_config: the settings window has read the file
\* earlier, and drops the schedules (WorkbuddyAutoCheckinConfigModal.tsx:116).
Save(s) ==
    /\ saves > 0
    /\ saves' = saves - 1
    /\ config' = Unscheduled(s)
    /\ UNCHANGED <<running, cycle, credited, day, minute, faults>>

\* checkin_workbuddy, the official client or a telephone.
CheckInElsewhere(a) ==
    /\ credited' = [credited EXCEPT ![a] = day]
    /\ UNCHANGED <<config, running, cycle, day, minute, saves, faults>>

Tick ==
    /\ \/ /\ minute < MaxMinute
          /\ minute' = minute + 1
          /\ UNCHANGED day
       \/ /\ minute = MaxMinute
          /\ day < MaxDay
          /\ minute' = 0
          /\ day' = day + 1
    /\ UNCHANGED <<config, running, cycle, credited, saves, faults>>

\* The application ends and is started again.
Crash ==
    /\ Fault
    /\ running' = FALSE
    /\ cycle' = [r \in Runners |-> Idle]
    /\ UNCHANGED <<config, credited, day, minute, saves>>

Init ==
    /\ config = Unscheduled(Default)
    /\ running = FALSE
    /\ cycle = [r \in Runners |-> Idle]
    /\ credited = [a \in Accounts |-> 0]
    /\ day = 1
    /\ minute = 0
    /\ saves = MaxSaves
    /\ faults = MaxFaults

Proceed(r) ==
    \/ Schedule(r)
    \/ Target(r)
    \/ Status(r)
    \/ AfterStatus(r)
    \/ Perform(r)
    \/ AfterPerform(r)
    \/ Recheck(r)
    \/ AfterRecheck(r)
    \/ Finish(r)

Next ==
    \/ \E r \in Runners : Begin(r) \/ Proceed(r)
    \/ \E s \in Settings : Save(s)
    \/ \E a \in Accounts : CheckInElsewhere(a)
    \/ Tick
    \/ Crash

Spec == Init /\ [][Next]_vars

\* The scheduler's loop never ends, requests have timeouts, time passes.
Fairness ==
    /\ WF_vars(Begin(Scheduler))
    /\ \A r \in Runners : WF_vars(Proceed(r))
    /\ WF_vars(Tick)

FairSpec == Spec /\ Fairness

-----------------------------------------------------------------------------
(* Properties.                                                             *)

\* A cycle at work holds the accounts it still has to ask, in today's name.
TypeOK ==
    /\ config \in Configs
    /\ running \in BOOLEAN
    /\ cycle \in [Runners -> Cycles]
    /\ credited \in [Accounts -> Days \cup {0}]
    /\ day \in Days
    /\ minute \in Minutes
    /\ saves \in 0..MaxSaves
    /\ faults \in 0..MaxFaults
    /\ \A r \in Runners :
          /\ cycle[r].at = "idle" => cycle[r] = Idle
          /\ cycle[r].account \in cycle[r].todo \cup {NoAccount}
          /\ cycle[r].at \notin {"idle", "read", "scheduled", "finish"} => cycle[r].todo # {}

\* The flag is set exactly while a cycle runs, and one runs at a time: a flag
\* left behind by an error would end automatic check-ins until a restart.
OneCycle ==
    /\ running <=> \E r \in Runners : cycle[r].at # "idle"
    /\ \A r, q \in Runners : cycle[r].at # "idle" /\ cycle[q].at # "idle" => r = q

\* An account marked for today is checked in at the server: failures,
\* midnight between two requests, crashes and settings saved meanwhile never
\* make the scheduler skip a day that was not credited.
MarkMeansCheckedIn ==
    \A a \in Accounts : config.schedules[a].last = day => credited[a] = day

\* Each account's minute lies in the window stored beside it, whichever of
\* the window's and the cycle's writes came last.
SchedulesFitWindow ==
    \A a \in Accounts : config.schedules[a].date # 0 =>
        config.schedules[a].minute \in config.set.start .. config.set.end

Marked == {a \in Accounts : config.schedules[a].last = day}

\* Only the settings window removes a mark of today: no cycle loses one that
\* an earlier cycle wrote, nor by giving the account a new minute.
TodaysMarksKept ==
    [][day' = day /\ saves' = saves => Marked \subseteq Marked']_vars

\* While it stays enabled, every account is checked in on the last day,
\* after whatever failures, crashes and changes of the window.
EveryAccountCheckedIn ==
    <>[](config.set.enabled) => <>(\A a \in Accounts : credited[a] = MaxDay)
=============================================================================
