------------------------- MODULE AutoCheckin_proofs -------------------------
(***************************************************************************)
(* Proofs about AutoCheckin for any accounts, windows, settings, days and  *)
(* numbers of saves and faults.                                            *)
(*                                                                         *)
(* MarkMeansCheckedIn and SchedulesFitWindow are about the file, but the   *)
(* file is replaced by a cycle's copy, so the inductive invariant states   *)
(* them of every copy as well, and of the answer a cycle is about to       *)
(* handle.  TodaysMarksKept needs one fact more: a cycle's copy has every  *)
(* mark of today that the file has, because no other cycle runs.           *)
(***************************************************************************)
EXTENDS AutoCheckin, TLAPS

Assumptions ==
    /\ NoAccount \notin Accounts
    /\ Scheduler \notin Windows
    /\ MaxDay \in Nat \ {0}
    /\ MaxMinute \in Nat
    /\ MaxSaves \in Nat
    /\ MaxFaults \in Nat
    /\ Default \in Settings
    /\ Settings \subseteq [enabled : BOOLEAN, start : 0..MaxMinute, end : 0..MaxMinute]
    /\ \A s \in Settings : s.start <= s.end

LEMMA AssumptionsHold == Assumptions
BY AccountAssumption, RunnerAssumption, ClockAssumption, BoundAssumption, SettingsAssumption
   DEF Assumptions

\* Each minute lies in the window of the same configuration.
Fits(c) ==
    \A a \in Accounts : c.schedules[a].date # 0 =>
        c.schedules[a].minute \in c.set.start .. c.set.end

\* A mark of the day d is true, and none is of a later day.
Truthful(c, d, checkedIn) ==
    \A a \in Accounts :
        /\ c.schedules[a].last <= d
        /\ c.schedules[a].last = d => checkedIn[a] = d

FileSound == Fits(config) /\ Truthful(config, day, credited)

\* A cycle's shape, as TypeOK states it, and no answer kept between accounts.
WellFormed(r) ==
    /\ cycle[r] \in Cycles
    /\ cycle[r].at = "idle" => cycle[r] = Idle
    /\ cycle[r].account \in cycle[r].todo \cup {NoAccount}
    /\ cycle[r].at \notin {"idle", "read", "scheduled", "finish"} => cycle[r].todo # {}
    /\ cycle[r].at \in {"idle", "read", "scheduled", "ask", "finish"} =>
          cycle[r].account = NoAccount /\ cycle[r].reply = "none"
    /\ cycle[r].at \notin {"idle", "read", "scheduled", "ask", "finish"} =>
          cycle[r].account # NoAccount

\* An answer that leads to a mark is true of the day it will be marked with.
AnswerTrue(r) ==
    /\ cycle[r].today <= day
    /\ cycle[r].reply \in {"checked", "success"} =>
          /\ cycle[r].account \in Accounts
          /\ cycle[r].today = day => credited[cycle[r].account] = day

\* The copy has today's marks of the file, and none later than the cycle's day.
CopyCurrent(r) ==
    \A a \in Accounts :
        /\ cycle[r].at # "idle" /\ config.schedules[a].last = day
              => cycle[r].config.schedules[a].last = day
        /\ cycle[r].at \notin {"idle", "read", "scheduled"}
              => cycle[r].config.schedules[a].last <= cycle[r].today

CopySound(r) == Fits(cycle[r].config) /\ Truthful(cycle[r].config, day, credited)

Sound(r) == WellFormed(r) /\ CopySound(r) /\ AnswerTrue(r) /\ CopyCurrent(r)

DataType ==
    /\ config \in Configs
    /\ running \in BOOLEAN
    /\ credited \in [Accounts -> Days \cup {0}]
    /\ day \in Days
    /\ minute \in Minutes
    /\ saves \in 0..MaxSaves
    /\ faults \in 0..MaxFaults

IInv ==
    /\ DataType
    /\ FileSound
    /\ cycle = [r \in Runners |-> cycle[r]]
    /\ \A r \in Runners : Sound(r)
    /\ OneCycle

-----------------------------------------------------------------------------
(* Configurations.                                                         *)

LEMMA UnscheduledSound ==
    ASSUME Assumptions, NEW s \in Settings, NEW d \in Days, NEW checkedIn
    PROVE  /\ Unscheduled(s) \in Configs
           /\ Fits(Unscheduled(s))
           /\ Truthful(Unscheduled(s), d, checkedIn)
           /\ \A a \in Accounts : Unscheduled(s).schedules[a].last = 0
<1>1. NoSchedule \in Schedules
  BY DEF NoSchedule, Schedules, Minutes, Assumptions
<1> QED BY <1>1 DEF Unscheduled, Configs, Fits, Truthful, NoSchedule, Days, Assumptions

\* New schedules fit, and keep today's marks and no other.
LEMMA EnsureSound ==
    ASSUME Assumptions, day \in Days, NEW c \in Configs,
           NEW pick \in [Accounts -> c.set.start .. c.set.end]
    PROVE  /\ Ensure(c, pick) \in Configs
           /\ Fits(Ensure(c, pick))
           /\ Truthful(c, day, credited) => Truthful(Ensure(c, pick), day, credited)
           /\ \A a \in Accounts : c.schedules[a].last = day
                                  => Ensure(c, pick).schedules[a].last = day
<1> DEFINE e == Ensure(c, pick)
<1>1. c.set \in Settings /\ c.schedules \in [Accounts -> Schedules]
  BY DEF Configs
<1>2. /\ c.set.start \in 0..MaxMinute
      /\ c.set.end \in 0..MaxMinute
  BY <1>1 DEF Assumptions
<1>3. /\ e.set = c.set
      /\ \A a \in Accounts : e.schedules[a] = IF Current(c.schedules[a], c.set)
                               THEN c.schedules[a] ELSE Reschedule(c.schedules[a], pick[a])
      /\ e = [set |-> c.set, schedules |-> e.schedules]
      /\ e.schedules = [a \in Accounts |-> IF Current(c.schedules[a], c.set)
                               THEN c.schedules[a] ELSE Reschedule(c.schedules[a], pick[a])]
  BY <1>1 DEF Ensure, Configs
<1>4. \A a \in Accounts : pick[a] \in Minutes /\ pick[a] \in c.set.start .. c.set.end
  BY <1>2 DEF Minutes, Assumptions
<1>5. ASSUME NEW a \in Accounts
      PROVE  /\ e.schedules[a] \in Schedules
             /\ e.schedules[a].minute \in c.set.start .. c.set.end
             /\ c.schedules[a].last = day => e.schedules[a].last = day
             /\ e.schedules[a].last \in {c.schedules[a].last, 0}
  <2>1. c.schedules[a] \in Schedules
    BY <1>1
  <2>2. CASE Current(c.schedules[a], c.set)
    BY <1>3, <2>1, <2>2 DEF Current
  <2>3. CASE ~Current(c.schedules[a], c.set)
    <3>1. e.schedules[a] = Reschedule(c.schedules[a], pick[a])
      BY <1>3, <2>3
    <3> QED BY <1>4, <2>1, <3>1 DEF Reschedule, Schedules
  <2> QED BY <2>2, <2>3
<1>6. e \in Configs
  BY <1>1, <1>3, <1>5 DEF Configs
<1>7. Fits(e)
  BY <1>3, <1>5 DEF Fits
<1>8. Truthful(c, day, credited) => Truthful(e, day, credited)
  <2>1. day # 0 /\ 0 <= day
    BY DEF Days, Assumptions
  <2> SUFFICES ASSUME Truthful(c, day, credited), NEW a \in Accounts
               PROVE  e.schedules[a].last <= day
                      /\ (e.schedules[a].last = day => credited[a] = day)
    BY DEF Truthful
  <2>2. CASE e.schedules[a].last = c.schedules[a].last
    BY <2>2 DEF Truthful
  <2>3. CASE e.schedules[a].last = 0
    BY <2>1, <2>3
  <2> QED BY <1>5, <2>2, <2>3
<1> QED BY <1>5, <1>6, <1>7, <1>8

LEMMA MarkSound ==
    ASSUME Assumptions, day \in Days, NEW c \in Configs, NEW a \in Accounts,
           NEW today \in Days \cup {0}, today <= day,
           today = day => credited[a] = day
    PROVE  /\ Mark(c, a, today) \in Configs
           /\ Fits(c) => Fits(Mark(c, a, today))
           /\ Truthful(c, day, credited) => Truthful(Mark(c, a, today), day, credited)
           /\ \A b \in Accounts : Mark(c, a, today).schedules[b].last
                                  = IF b = a THEN today ELSE c.schedules[b].last
<1> DEFINE k == Mark(c, a, today)
<1>1. c.set \in Settings /\ c.schedules \in [Accounts -> Schedules]
  BY DEF Configs
<1>2. /\ k.set = c.set
      /\ k = [set |-> c.set, schedules |-> k.schedules]
      /\ k.schedules = [c.schedules EXCEPT ![a].last = today]
  BY <1>1 DEF Mark, Configs
<1>3. \A b \in Accounts :
        /\ k.schedules[b] \in Schedules
        /\ k.schedules[b].date = c.schedules[b].date
        /\ k.schedules[b].minute = c.schedules[b].minute
        /\ k.schedules[b].last = IF b = a THEN today ELSE c.schedules[b].last
  BY <1>1, <1>2 DEF Schedules
<1>4. k \in Configs
  BY <1>1, <1>2, <1>3 DEF Configs
<1>5. Fits(c) => Fits(k)
  BY <1>2, <1>3 DEF Fits
<1>6. Truthful(c, day, credited) => Truthful(k, day, credited)
  BY <1>3 DEF Truthful
<1> QED BY <1>3, <1>4, <1>5, <1>6
-----------------------------------------------------------------------------
(* Runners.                                                                *)

\* Idle has no marks and holds nothing, whatever the state.
LEMMA IdleFacts ==
    ASSUME Assumptions, NEW d \in Days, NEW checkedIn
    PROVE  /\ Idle \in Cycles
           /\ Fits(Idle.config) /\ Truthful(Idle.config, d, checkedIn)
           /\ Idle.at = "idle" /\ Idle.account = NoAccount /\ Idle.reply = "none"
           /\ Idle.today = 0 /\ 0 <= d
<1>1. /\ Unscheduled(Default) \in Configs
      /\ Fits(Unscheduled(Default))
      /\ Truthful(Unscheduled(Default), d, checkedIn)
  BY UnscheduledSound DEF Assumptions
<1>2. Idle \in Cycles
  BY <1>1 DEF Idle, Cycles, Steps, Replies
<1>3. 0 <= d
  BY DEF Days, Assumptions
<1> QED BY <1>1, <1>2, <1>3 DEF Idle

LEMMA IdleSound ==
    ASSUME Assumptions, DataType, NEW r \in Runners, cycle[r] = Idle
    PROVE  Sound(r)
BY IdleFacts DEF DataType, Sound, WellFormed, CopySound, AnswerTrue, CopyCurrent

LEMMA IdleSoundNext ==
    ASSUME Assumptions, DataType', NEW r \in Runners, cycle'[r] = Idle
    PROVE  Sound(r)'
BY IdleFacts DEF DataType, Sound, WellFormed, CopySound, AnswerTrue, CopyCurrent,
                 Idle, Unscheduled, NoSchedule

\* Only one runner is not idle, so a step of it concerns no other.
LEMMA RunnerStep ==
    ASSUME Assumptions, IInv, NEW r \in Runners,
           DataType', FileSound', Sound(r)',
           cycle[r].at # "idle" \/ ~running,
           running' <=> cycle'[r].at # "idle",
           \E me : cycle' = [cycle EXCEPT ![r] = me]
    PROVE  IInv'
<1>1. \A q \in Runners : q # r => cycle[q].at = "idle" /\ cycle[q] = Idle
  BY DEF IInv, OneCycle, Sound, WellFormed
<1>2. /\ cycle' = [q \in Runners |-> cycle'[q]]
      /\ \A q \in Runners : q # r => cycle'[q] = cycle[q]
  BY DEF IInv
<1>3. ASSUME NEW q \in Runners, q # r
      PROVE  Sound(q)'
  BY <1>1, <1>2, <1>3, IdleSoundNext
<1>4. OneCycle'
  BY <1>1, <1>2 DEF OneCycle
<1> QED BY <1>2, <1>3, <1>4 DEF IInv

-----------------------------------------------------------------------------
(* The steps of a cycle.                                                   *)

LEMMA FaultType ==
    ASSUME Assumptions, DataType, Fault
    PROVE  faults' \in 0..MaxFaults
BY DEF Assumptions, DataType, Fault

LEMMA BeginStep ==
    ASSUME Assumptions, IInv, NEW r \in Runners, Begin(r)
    PROVE  IInv'
<1>1. cycle' = [cycle EXCEPT ![r] = [Idle EXCEPT !.at = "read", !.config = config]]
  BY DEF Begin
<1>2. cycle'[r] = [at |-> "read", config |-> config, today |-> 0, todo |-> {},
                   account |-> NoAccount, reply |-> "none"]
  BY <1>1 DEF IInv, Idle
<1>3. DataType' /\ FileSound'
  BY DEF Begin, IInv, DataType, FileSound
<1>4. WellFormed(r)'
  BY <1>2 DEF WellFormed, Cycles, Steps, Replies, IInv, DataType
<1>5. CopySound(r)'
  BY <1>2 DEF CopySound, IInv, FileSound, Begin
<1>6. AnswerTrue(r)'
  BY <1>2, IdleFacts DEF AnswerTrue, IInv, DataType, Begin
<1>7. CopyCurrent(r)'
  BY <1>2 DEF CopyCurrent, Begin
<1>8. ~running /\ running' /\ cycle'[r].at # "idle"
  BY <1>2 DEF Begin
<1>9. \E me : cycle' = [cycle EXCEPT ![r] = me]
  BY <1>1
<1> QED BY <1>3, <1>4, <1>5, <1>6, <1>7, <1>8, <1>9, RunnerStep DEF Sound

\* The cycle ends, its last write having been made or not.
LEMMA EndStep ==
    ASSUME Assumptions, IInv, NEW r \in Runners, cycle[r].at # "idle",
           End(r), DataType', FileSound'
    PROVE  IInv'
<1>1. cycle'[r] = Idle
  BY DEF End, IInv
<1>2. Sound(r)'
  BY <1>1, IdleSoundNext
<1>3. running' <=> cycle'[r].at # "idle"
  BY <1>1, IdleFacts DEF End, IInv, DataType
<1> QED BY <1>2, <1>3, RunnerStep DEF End

LEMMA ScheduleStep ==
    ASSUME Assumptions, IInv, NEW r \in Runners, Schedule(r)
    PROVE  IInv'
<1> DEFINE mine == cycle[r].config
<1>1. PICK pick \in [Accounts -> mine.set.start .. mine.set.end] :
         LET c == Ensure(mine, pick)
         IN  \/ /\ cycle' = [cycle EXCEPT ![r].at = "scheduled", ![r].config = c]
                /\ config' = IF c = mine THEN config ELSE c
                /\ UNCHANGED <<running, faults>>
             \/ /\ c # mine
                /\ Fault
                /\ End(r)
                /\ UNCHANGED config
  BY DEF Schedule
<1>2. /\ cycle[r].at = "read"
      /\ UNCHANGED <<credited, day, minute, saves>>
  BY DEF Schedule
<1>3. cycle[r] \in Cycles /\ mine \in Configs /\ Sound(r)
  BY DEF IInv, Sound, WellFormed, Cycles
<1> DEFINE c == Ensure(mine, pick)
<1>4. /\ c \in Configs
      /\ Fits(c)
      /\ Truthful(c, day, credited)
      /\ \A a \in Accounts : mine.schedules[a].last = day => c.schedules[a].last = day
  BY <1>3, EnsureSound DEF IInv, DataType, Sound, CopySound
<1> HIDE DEF c
<1>5. CASE /\ cycle' = [cycle EXCEPT ![r].at = "scheduled", ![r].config = c]
           /\ config' = IF c = mine THEN config ELSE c
           /\ UNCHANGED <<running, faults>>
  <2>1. cycle'[r] = [cycle[r] EXCEPT !.at = "scheduled", !.config = c]
    BY <1>5 DEF IInv
  <2>2. /\ cycle'[r] \in Cycles
        /\ cycle'[r].at = "scheduled"
        /\ cycle'[r].config = c
        /\ cycle'[r].today = cycle[r].today
        /\ cycle'[r].todo = cycle[r].todo
        /\ cycle'[r].account = cycle[r].account
        /\ cycle'[r].reply = cycle[r].reply
    BY <1>3, <1>4, <2>1 DEF Cycles, Steps
  <2>3. DataType' /\ FileSound'
    BY <1>2, <1>4, <1>5 DEF IInv, DataType, FileSound
  <2>4. WellFormed(r)'
    BY <1>2, <1>3, <2>2 DEF WellFormed, Sound
  <2>5. CopySound(r)' /\ AnswerTrue(r)'
    BY <1>2, <1>3, <1>4, <2>2 DEF CopySound, AnswerTrue, Sound
  <2>6. CopyCurrent(r)'
    BY <1>2, <1>3, <1>4, <1>5, <2>2 DEF CopyCurrent, Sound
  <2>7. running' <=> cycle'[r].at # "idle"
    BY <1>2, <1>5, <2>2 DEF IInv, OneCycle
  <2>8. \E me : cycle' = [cycle EXCEPT ![r] = me]
    BY <1>3, <1>5, <2>1 DEF IInv
  <2> QED BY <1>2, <2>3, <2>4, <2>5, <2>6, <2>7, <2>8, RunnerStep DEF Sound
<1>6. CASE Fault /\ End(r) /\ UNCHANGED config
  <2>1. DataType' /\ FileSound'
    <3>1. running' \in BOOLEAN
      BY <1>6 DEF End
    <3> QED BY <1>2, <1>6, <3>1, FaultType DEF IInv, DataType, FileSound
  <2> QED BY <1>2, <1>6, <2>1, EndStep
<1> QED BY <1>1, <1>5, <1>6 DEF c

LEMMA TargetStep ==
    ASSUME Assumptions, IInv, NEW r \in Runners, Target(r)
    PROVE  IInv'
<1> DEFINE todo == {a \in Accounts : r \in Windows \/ Due(cycle[r].config.schedules[a])}
<1>1. /\ cycle[r].at = "scheduled"
      /\ UNCHANGED <<config, credited, day, minute, saves, faults>>
      /\ \/ todo = {} /\ End(r)
         \/ /\ todo # {}
            /\ cycle' = [cycle EXCEPT ![r].at = "ask", ![r].today = day, ![r].todo = todo]
            /\ UNCHANGED running
  BY DEF Target
<1>2. todo \subseteq Accounts
  OBVIOUS
<1> HIDE DEF todo
<1>3. cycle[r] \in Cycles /\ Sound(r)
  BY DEF IInv, Sound, WellFormed
<1>4. CASE todo = {} /\ End(r)
  <2>1. DataType' /\ FileSound'
    BY <1>1, <1>4 DEF IInv, DataType, FileSound, End
  <2> QED BY <1>1, <1>4, <2>1, EndStep
<1>5. CASE /\ todo # {}
           /\ cycle' = [cycle EXCEPT ![r].at = "ask", ![r].today = day, ![r].todo = todo]
           /\ UNCHANGED running
  <2>1. cycle'[r] = [cycle[r] EXCEPT !.at = "ask", !.today = day, !.todo = todo]
    BY <1>5 DEF IInv
  <2>2. /\ cycle'[r] \in Cycles
        /\ cycle'[r].at = "ask"
        /\ cycle'[r].config = cycle[r].config
        /\ cycle'[r].today = day
        /\ cycle'[r].todo = todo
        /\ cycle'[r].account = cycle[r].account
        /\ cycle'[r].reply = cycle[r].reply
    BY <1>2, <1>3, <2>1 DEF Cycles, Steps, IInv, DataType
  <2>3. DataType' /\ FileSound'
    BY <1>1, <1>5 DEF IInv, DataType, FileSound
  <2>4. WellFormed(r)'
    BY <1>1, <1>3, <1>5, <2>2 DEF WellFormed, Sound
  <2>5. CopySound(r)' /\ AnswerTrue(r)'
    BY <1>1, <1>3, <2>2 DEF CopySound, AnswerTrue, Sound, WellFormed, IInv, DataType, Days
  <2>6. CopyCurrent(r)'
    BY <1>1, <1>3, <2>2 DEF CopyCurrent, CopySound, Truthful, Sound
  <2>7. running' <=> cycle'[r].at # "idle"
    BY <1>1, <1>5, <2>2 DEF IInv, OneCycle
  <2>8. \E me : cycle' = [cycle EXCEPT ![r] = me]
    BY <1>5, <2>1 DEF IInv
  <2> QED BY <1>1, <2>3, <2>4, <2>5, <2>6, <2>7, <2>8, RunnerStep DEF Sound
<1> QED BY <1>1, <1>4, <1>5

\* Checking in an account makes no mark false.
LEMMA CreditSound ==
    ASSUME DataType, NEW c, Truthful(c, day, credited), NEW a \in Accounts
    PROVE  Truthful(c, day, [credited EXCEPT ![a] = day])
BY DEF DataType, Truthful

\* An answer arrives; what it says of today is so.
LEMMA AnswerStep ==
    ASSUME Assumptions, IInv, NEW r \in Runners, NEW a \in cycle[r].todo,
           NEW at \in {"status", "performed", "rechecked"}, NEW reply \in Replies,
           cycle[r].at \in {"ask", "perform", "recheck"},
           Answered(r, a, at, reply),
           reply \in {"checked", "success"} => credited'[a] = day,
           credited' \in {credited, [credited EXCEPT ![a] = day]},
           faults' \in 0..MaxFaults,
           UNCHANGED <<config, running, day, minute, saves>>
    PROVE  IInv'
<1>1. cycle[r] \in Cycles /\ Sound(r)
  BY DEF IInv, Sound, WellFormed
<1>2. a \in Accounts
  BY <1>1 DEF Cycles
<1>3. cycle'[r] = [cycle[r] EXCEPT !.at = at, !.account = a, !.reply = reply]
  BY DEF Answered, IInv
<1>4. /\ cycle'[r] \in Cycles
      /\ cycle'[r].at = at
      /\ cycle'[r].config = cycle[r].config
      /\ cycle'[r].today = cycle[r].today
      /\ cycle'[r].todo = cycle[r].todo
      /\ cycle'[r].account = a
      /\ cycle'[r].reply = reply
  BY <1>1, <1>2, <1>3 DEF Cycles, Steps
<1>5. /\ \A b \in Accounts : credited[b] = day => credited'[b] = day
      /\ credited' \in [Accounts -> Days \cup {0}]
  BY <1>2 DEF IInv, DataType
<1>6. DataType' /\ FileSound'
  BY <1>2, <1>5, CreditSound DEF IInv, DataType, FileSound
<1>7. WellFormed(r)'
  BY <1>1, <1>2, <1>4 DEF WellFormed, Sound, Assumptions
<1>8. CopySound(r)'
  BY <1>1, <1>2, <1>4, CreditSound DEF CopySound, Sound, IInv
<1>9. AnswerTrue(r)'
  BY <1>1, <1>2, <1>4 DEF AnswerTrue, Sound
<1>10. CopyCurrent(r)'
  BY <1>1, <1>4 DEF CopyCurrent, Sound
<1>11. running' <=> cycle'[r].at # "idle"
  BY <1>4 DEF IInv, OneCycle
<1>12. \E me : cycle' = [cycle EXCEPT ![r] = me]
  BY <1>3 DEF Answered, IInv
<1> QED BY <1>6, <1>7, <1>8, <1>9, <1>10, <1>11, <1>12, RunnerStep DEF Sound

\* The answer calls for another request.
LEMMA MoveStep ==
    ASSUME Assumptions, IInv, NEW r \in Runners, NEW at \in {"perform", "recheck"},
           cycle[r].at \in {"status", "performed"},
           cycle' = [cycle EXCEPT ![r].at = at],
           UNCHANGED <<config, running, credited, day, minute, saves, faults>>
    PROVE  IInv'
<1>1. cycle[r] \in Cycles /\ Sound(r)
  BY DEF IInv, Sound, WellFormed
<1>2. cycle'[r] = [cycle[r] EXCEPT !.at = at]
  BY DEF IInv
<1>3. /\ cycle'[r] \in Cycles
      /\ cycle'[r].at = at
      /\ cycle'[r].config = cycle[r].config
      /\ cycle'[r].today = cycle[r].today
      /\ cycle'[r].todo = cycle[r].todo
      /\ cycle'[r].account = cycle[r].account
      /\ cycle'[r].reply = cycle[r].reply
  BY <1>1, <1>2 DEF Cycles, Steps
<1>4. DataType' /\ FileSound'
  BY DEF IInv, DataType, FileSound
<1>5. WellFormed(r)'
  BY <1>1, <1>3 DEF WellFormed, Sound
<1>6. CopySound(r)' /\ AnswerTrue(r)' /\ CopyCurrent(r)'
  BY <1>1, <1>3 DEF CopySound, AnswerTrue, CopyCurrent, Sound
<1>7. running' <=> cycle'[r].at # "idle"
  BY <1>3 DEF IInv, OneCycle
<1>8. \E me : cycle' = [cycle EXCEPT ![r] = me]
  BY <1>2 DEF IInv
<1> QED BY <1>4, <1>5, <1>6, <1>7, <1>8, RunnerStep DEF Sound

\* The loop goes on; a mark is set only on an answer that is true of its day.
LEMMA ContinueStep ==
    ASSUME Assumptions, IInv, NEW r \in Runners, NEW marked \in BOOLEAN,
           cycle[r].at \in {"status", "performed", "rechecked"},
           marked => cycle[r].reply \in {"checked", "success"},
           Continue(r, marked),
           UNCHANGED <<config, running, credited, day, minute, saves, faults>>
    PROVE  IInv'
<1> DEFINE mine == cycle[r].config
           todo == cycle[r].todo \ {cycle[r].account}
           kept == IF marked THEN Mark(mine, cycle[r].account, cycle[r].today) ELSE mine
           at == IF todo = {} THEN "finish" ELSE "ask"
<1>1. cycle[r] \in Cycles /\ Sound(r)
  BY DEF IInv, Sound, WellFormed
<1>2. /\ kept \in Configs /\ Fits(kept) /\ Truthful(kept, day, credited)
      /\ \A b \in Accounts :
            kept.schedules[b].last = IF marked /\ b = cycle[r].account THEN cycle[r].today
                                     ELSE mine.schedules[b].last
  <2>1. CASE marked
    <3>1. /\ cycle[r].account \in Accounts
          /\ cycle[r].today <= day
          /\ cycle[r].today = day => credited[cycle[r].account] = day
      BY <1>1, <2>1 DEF Sound, AnswerTrue
    <3>2. mine \in Configs /\ cycle[r].today \in Days \cup {0} /\ day \in Days
      BY <1>1 DEF Cycles, IInv, DataType
    <3> QED BY <1>1, <2>1, <3>1, <3>2, MarkSound DEF Sound, CopySound
  <2>2. CASE ~marked
    BY <1>1, <2>2 DEF Sound, CopySound, Cycles
  <2> QED BY <2>1, <2>2
<1> HIDE DEF kept
<1>3. cycle' = [cycle EXCEPT ![r] = [cycle[r] EXCEPT !.config = kept, !.todo = todo,
                                !.at = at, !.account = NoAccount, !.reply = "none"]]
  BY <1>1 DEF Continue, kept, Cycles
<1>4. cycle'[r] = [cycle[r] EXCEPT !.config = kept, !.todo = todo,
                                !.at = at, !.account = NoAccount, !.reply = "none"]
  BY <1>3 DEF IInv
<1> HIDE DEF at
<1>5. at \in {"ask", "finish"} /\ (at = "ask" => todo # {})
  BY DEF at
<1>6. /\ cycle'[r] \in Cycles
      /\ cycle'[r].at = at
      /\ cycle'[r].config = kept
      /\ cycle'[r].today = cycle[r].today
      /\ cycle'[r].todo = todo
      /\ cycle'[r].account = NoAccount
      /\ cycle'[r].reply = "none"
  BY <1>1, <1>2, <1>4, <1>5 DEF Cycles, Steps, Replies
<1>7. DataType' /\ FileSound'
  BY DEF IInv, DataType, FileSound
<1>8. WellFormed(r)'
  BY <1>5, <1>6 DEF WellFormed
<1>9. CopySound(r)' /\ AnswerTrue(r)'
  BY <1>1, <1>2, <1>6 DEF CopySound, AnswerTrue, Sound
<1>10. CopyCurrent(r)'
  <2> SUFFICES ASSUME NEW a \in Accounts
               PROVE  /\ config.schedules[a].last = day => kept.schedules[a].last = day
                      /\ kept.schedules[a].last <= cycle[r].today
    BY <1>6 DEF CopyCurrent
  <2>1. /\ config.schedules[a].last = day => mine.schedules[a].last = day
        /\ mine.schedules[a].last <= cycle[r].today
        /\ cycle[r].today <= day
    BY <1>1 DEF Sound, CopyCurrent, AnswerTrue
  <2>2. cycle[r].today \in Int /\ day \in Int
    BY <1>1 DEF Cycles, Days, IInv, DataType, Assumptions
  <2> QED BY <1>2, <2>1, <2>2
<1>11. running' <=> cycle'[r].at # "idle"
  BY <1>5, <1>6 DEF IInv, OneCycle
<1>12. \E me : cycle' = [cycle EXCEPT ![r] = me]
  BY <1>3
<1> QED BY <1>7, <1>8, <1>9, <1>10, <1>11, <1>12, RunnerStep DEF Sound

LEMMA AskStep ==
    ASSUME Assumptions, IInv, NEW r \in Runners, NEW a \in cycle[r].todo,
           NEW at \in {"status", "rechecked"}, cycle[r].at \in {"ask", "recheck"},
           Ask(r, a, at)
    PROVE  IInv'
<1>1. UNCHANGED <<config, running, credited, day, minute, saves>>
  BY DEF Ask
<1>2. PICK reply \in {"checked", "open", "inactive", "error"} :
        /\ Answered(r, a, at, reply)
        /\ reply = "checked" => credited[a] = day
        /\ faults' = faults \/ Fault
  BY DEF Ask
<1>3. faults' \in 0..MaxFaults
  BY <1>2, FaultType DEF IInv, DataType
<1> QED BY <1>1, <1>2, <1>3, AnswerStep DEF Replies

LEMMA PerformStep ==
    ASSUME Assumptions, IInv, NEW r \in Runners, Perform(r)
    PROVE  IInv'
<1> DEFINE a == cycle[r].account
<1>1. /\ cycle[r].at = "perform"
      /\ UNCHANGED <<config, running, day, minute, saves>>
  BY DEF Perform
<1>2. PICK reply \in {"success", "refused", "error"} :
        /\ Answered(r, a, "performed", reply)
        /\ credited' \in {credited, [credited EXCEPT ![a] = day]}
        /\ reply = "success" => credited' = [credited EXCEPT ![a] = day]
        /\ faults' = faults \/ Fault
  BY DEF Perform
<1>3. faults' \in 0..MaxFaults
  BY <1>2, FaultType DEF IInv, DataType
<1>4. a \in cycle[r].todo
  BY <1>1 DEF IInv, Sound, WellFormed
<1>5. a \in Accounts
  BY <1>4 DEF IInv, Sound, WellFormed, Cycles
<1>6. reply = "success" => credited'[a] = day
  BY <1>2, <1>5 DEF IInv, DataType
<1> HIDE DEF a
<1> QED BY <1>1, <1>2, <1>3, <1>4, <1>6, AnswerStep DEF Replies

LEMMA FinishStep ==
    ASSUME Assumptions, IInv, NEW r \in Runners, Finish(r)
    PROVE  IInv'
<1>1. /\ cycle[r].at = "finish"
      /\ End(r)
      /\ UNCHANGED <<credited, day, minute, saves>>
      /\ \/ config' = cycle[r].config /\ UNCHANGED faults
         \/ Fault /\ UNCHANGED config
  BY DEF Finish
<1>2. /\ cycle[r].config \in Configs
      /\ Fits(cycle[r].config)
      /\ Truthful(cycle[r].config, day, credited)
  BY DEF IInv, Sound, WellFormed, CopySound, Cycles
<1>3. running' \in BOOLEAN
  BY <1>1 DEF End
<1>4. faults' \in 0..MaxFaults
  BY <1>1, FaultType DEF IInv, DataType
<1>5. DataType' /\ FileSound'
  BY <1>1, <1>2, <1>3, <1>4 DEF IInv, DataType, FileSound
<1> QED BY <1>1, <1>5, EndStep

LEMMA RunnerSteps ==
    ASSUME Assumptions, IInv, NEW r \in Runners, Begin(r) \/ Proceed(r)
    PROVE  IInv'
<1>1. CASE Begin(r)
  BY <1>1, BeginStep
<1>2. CASE Schedule(r)
  BY <1>2, ScheduleStep
<1>3. CASE Target(r)
  BY <1>3, TargetStep
<1>4. CASE Status(r)
  BY <1>4, AskStep DEF Status
<1>5. CASE AfterStatus(r)
  <2>1. CASE cycle[r].reply = "open"
    BY <1>5, <2>1, MoveStep DEF AfterStatus
  <2>2. CASE cycle[r].reply # "open"
    BY <1>5, <2>2, ContinueStep DEF AfterStatus
  <2> QED BY <2>1, <2>2
<1>6. CASE Perform(r)
  BY <1>6, PerformStep
<1>7. CASE AfterPerform(r)
  <2>1. CASE cycle[r].reply = "refused"
    BY <1>7, <2>1, MoveStep DEF AfterPerform
  <2>2. CASE cycle[r].reply # "refused"
    BY <1>7, <2>2, ContinueStep DEF AfterPerform
  <2> QED BY <2>1, <2>2
<1>8. CASE Recheck(r)
  <2>1. cycle[r].account \in cycle[r].todo
    BY <1>8 DEF Recheck, IInv, Sound, WellFormed
  <2> QED BY <1>8, <2>1, AskStep DEF Recheck
<1>9. CASE AfterRecheck(r)
  BY <1>9, ContinueStep DEF AfterRecheck
<1>10. CASE Finish(r)
  BY <1>10, FinishStep
<1> QED BY <1>1, <1>2, <1>3, <1>4, <1>5, <1>6, <1>7, <1>8, <1>9, <1>10 DEF Proceed

-----------------------------------------------------------------------------
(* The surroundings.                                                       *)

LEMMA SaveStep ==
    ASSUME Assumptions, IInv, NEW s \in Settings, Save(s)
    PROVE  IInv'
<1>1. /\ Unscheduled(s) \in Configs
      /\ Fits(Unscheduled(s))
      /\ Truthful(Unscheduled(s), day, credited)
      /\ \A a \in Accounts : Unscheduled(s).schedules[a].last = 0
  BY UnscheduledSound DEF IInv, DataType
<1>2. /\ config' = Unscheduled(s)
      /\ UNCHANGED <<running, cycle, credited, day, minute, faults>>
  BY DEF Save
<1>3. saves' \in 0..MaxSaves
  BY DEF Save, IInv, DataType, Assumptions
<1>4. DataType' /\ FileSound'
  BY <1>1, <1>2, <1>3 DEF IInv, DataType, FileSound
<1>5. day # 0
  BY DEF IInv, DataType, Days, Assumptions
<1>6. ASSUME NEW r \in Runners
      PROVE  Sound(r)'
  <2>1. Sound(r)
    BY DEF IInv
  <2>2. WellFormed(r)' /\ CopySound(r)' /\ AnswerTrue(r)'
    BY <1>2, <2>1 DEF Sound, WellFormed, CopySound, AnswerTrue
  <2>3. CopyCurrent(r)'
    BY <1>1, <1>2, <1>5, <2>1 DEF Sound, CopyCurrent
  <2> QED BY <2>2, <2>3 DEF Sound
<1> QED BY <1>2, <1>4, <1>6 DEF IInv, OneCycle

LEMMA CheckInStep ==
    ASSUME Assumptions, IInv, NEW a \in Accounts, CheckInElsewhere(a)
    PROVE  IInv'
<1>1. /\ credited' = [credited EXCEPT ![a] = day]
      /\ UNCHANGED <<config, running, cycle, day, minute, saves, faults>>
  BY DEF CheckInElsewhere
<1>2. DataType' /\ FileSound'
  BY <1>1, CreditSound DEF IInv, DataType, FileSound
<1>3. \A b \in Accounts : credited[b] = day => credited'[b] = day
  BY <1>1 DEF IInv, DataType
<1>4. ASSUME NEW r \in Runners
      PROVE  Sound(r)'
  <2>1. Sound(r)
    BY DEF IInv
  <2>2. WellFormed(r)' /\ CopyCurrent(r)'
    BY <1>1, <2>1 DEF Sound, WellFormed, CopyCurrent
  <2>3. CopySound(r)'
    BY <1>1, <2>1, CreditSound DEF Sound, CopySound, IInv
  <2>4. AnswerTrue(r)'
    BY <1>1, <1>3, <2>1 DEF Sound, AnswerTrue
  <2> QED BY <2>2, <2>3, <2>4 DEF Sound
<1> QED BY <1>1, <1>2, <1>4 DEF IInv, OneCycle

\* No mark, and no cycle's day, is tomorrow.
LEMMA TomorrowSound ==
    ASSUME Assumptions, DataType, NEW c \in Configs, Truthful(c, day, credited)
    PROVE  /\ Truthful(c, day + 1, credited)
           /\ \A a \in Accounts : c.schedules[a].last # day + 1
<1>1. \A a \in Accounts : c.schedules[a].last \in Int
  BY DEF Configs, Schedules, Days, Assumptions
<1>2. day \in Int
  BY DEF DataType, Days, Assumptions
<1> QED BY <1>1, <1>2 DEF Truthful

LEMMA TickStep ==
    ASSUME Assumptions, IInv, Tick
    PROVE  IInv'
<1>1. UNCHANGED <<config, running, cycle, credited, saves, faults>>
  BY DEF Tick
<1>2. CASE minute < MaxMinute /\ minute' = minute + 1 /\ UNCHANGED day
  <2>1. minute' \in Minutes
    BY <1>2 DEF IInv, DataType, Minutes, Assumptions
  <2>2. DataType' /\ FileSound'
    BY <1>1, <1>2, <2>1 DEF IInv, DataType, FileSound
  <2>3. ASSUME NEW r \in Runners
        PROVE  Sound(r)'
    BY <1>1, <1>2 DEF IInv, Sound, WellFormed, CopySound, AnswerTrue, CopyCurrent
  <2> QED BY <1>1, <2>2, <2>3 DEF IInv, OneCycle
<1>3. CASE day < MaxDay /\ minute' = 0 /\ day' = day + 1
  <2>1. day' \in Days /\ minute' \in Minutes /\ day \in Int
    BY <1>3 DEF IInv, DataType, Days, Minutes, Assumptions
  <2>2. /\ Truthful(config, day', credited')
        /\ \A a \in Accounts : config.schedules[a].last # day'
    BY <1>1, <1>3, TomorrowSound DEF IInv, DataType, FileSound
  <2>3. DataType' /\ FileSound'
    BY <1>1, <2>1, <2>2 DEF IInv, DataType, FileSound
  <2>4. ASSUME NEW r \in Runners
        PROVE  Sound(r)'
    <3>1. Sound(r) /\ cycle[r] \in Cycles
      BY DEF IInv, Sound, WellFormed
    <3>2. cycle[r].config \in Configs /\ cycle[r].today \in Int
      BY <3>1 DEF Cycles, Days, Assumptions
    <3>3. CopySound(r)'
      BY <1>1, <1>3, <3>1, <3>2, TomorrowSound DEF Sound, CopySound, IInv
    <3>4. AnswerTrue(r)'
      BY <1>1, <1>3, <2>1, <3>1, <3>2 DEF Sound, AnswerTrue
    <3>5. WellFormed(r)' /\ CopyCurrent(r)'
      BY <1>1, <2>2, <3>1 DEF Sound, WellFormed, CopyCurrent
    <3> QED BY <3>3, <3>4, <3>5 DEF Sound
  <2> QED BY <1>1, <2>3, <2>4 DEF IInv, OneCycle
<1> QED BY <1>2, <1>3 DEF Tick

LEMMA CrashStep ==
    ASSUME Assumptions, IInv, Crash
    PROVE  IInv'
<1>1. /\ Fault
      /\ running' = FALSE
      /\ cycle' = [r \in Runners |-> Idle]
      /\ UNCHANGED <<config, credited, day, minute, saves>>
  BY DEF Crash
<1>2. faults' \in 0..MaxFaults
  BY <1>1, FaultType DEF IInv
<1>3. running' \in BOOLEAN
  BY <1>1
<1>4. DataType' /\ FileSound'
  BY <1>1, <1>2, <1>3 DEF IInv, DataType, FileSound
<1>5. \A r \in Runners : Sound(r)'
  BY <1>1, <1>4, IdleSoundNext
<1>6. OneCycle'
  BY <1>1 DEF OneCycle, Idle
<1> QED BY <1>1, <1>4, <1>5, <1>6 DEF IInv

LEMMA InvInit == ASSUME Assumptions PROVE Init => IInv
<1> SUFFICES ASSUME Init PROVE IInv
  OBVIOUS
<1>1. 1 \in Days /\ 0 \in Minutes
  BY DEF Days, Minutes, Assumptions
<1>2. /\ config = Unscheduled(Default)
      /\ day = 1 /\ minute = 0 /\ saves = MaxSaves /\ faults = MaxFaults
      /\ credited = [a \in Accounts |-> 0]
      /\ running = FALSE
      /\ cycle = [r \in Runners |-> Idle]
  BY DEF Init
<1>3. /\ config \in Configs /\ Fits(config) /\ Truthful(config, day, credited)
  BY <1>1, <1>2, UnscheduledSound DEF Assumptions
<1>4. saves \in 0..MaxSaves /\ faults \in 0..MaxFaults
  BY <1>2 DEF Assumptions
<1>5. running \in BOOLEAN
  BY <1>2
<1>6. DataType /\ FileSound
  BY <1>1, <1>2, <1>3, <1>4, <1>5 DEF DataType, FileSound
<1>7. \A r \in Runners : Sound(r)
  BY <1>2, <1>6, IdleSound
<1>8. OneCycle
  BY <1>2 DEF OneCycle, Idle
<1> QED BY <1>2, <1>6, <1>7, <1>8 DEF IInv

LEMMA InvNext == ASSUME Assumptions, IInv, [Next]_vars PROVE IInv'
<1>1. CASE \E r \in Runners : Begin(r) \/ Proceed(r)
  BY <1>1, RunnerSteps
<1>2. CASE \E s \in Settings : Save(s)
  BY <1>2, SaveStep
<1>3. CASE \E a \in Accounts : CheckInElsewhere(a)
  BY <1>3, CheckInStep
<1>4. CASE Tick
  BY <1>4, TickStep
<1>5. CASE Crash
  BY <1>5, CrashStep
<1>6. CASE UNCHANGED vars
  BY <1>6 DEF vars, IInv, DataType, FileSound, Sound, WellFormed, CopySound,
              AnswerTrue, CopyCurrent, OneCycle
<1> QED BY <1>1, <1>2, <1>3, <1>4, <1>5, <1>6 DEF Next

-----------------------------------------------------------------------------
(* The theorems.                                                           *)

LEMMA Invariance == Spec => []IInv
<1>1. Init => IInv
  BY AssumptionsHold, InvInit
<1>2. IInv /\ [Next]_vars => IInv'
  BY AssumptionsHold, InvNext
<1> QED BY <1>1, <1>2, PTL DEF Spec

\* The file, the copies and the answers stay well formed.
THEOREM TypeCorrect == Spec => []TypeOK
<1>1. IInv => TypeOK
  BY DEF IInv, DataType, Sound, WellFormed, TypeOK
<1> QED BY <1>1, Invariance, PTL

\* The flag is set exactly while one cycle runs, whatever fails.
THEOREM OneCycleCorrect == Spec => []OneCycle
<1>1. IInv => OneCycle
  BY DEF IInv
<1> QED BY <1>1, Invariance, PTL

\* No day is marked that the server did not credit.
THEOREM MarksTrue == Spec => []MarkMeansCheckedIn
<1>1. IInv => MarkMeansCheckedIn
  BY DEF IInv, FileSound, Truthful, MarkMeansCheckedIn
<1> QED BY <1>1, Invariance, PTL

\* A schedule lies in the window stored beside it.
THEOREM SchedulesFit == Spec => []SchedulesFitWindow
<1>1. IInv => SchedulesFitWindow
  BY DEF IInv, FileSound, Fits, SchedulesFitWindow
<1> QED BY <1>1, Invariance, PTL

LEMMA MarksStep ==
    ASSUME Assumptions, IInv, Next, day' = day, saves' = saves
    PROVE  Marked \subseteq Marked'
<1>1. ASSUME UNCHANGED config
      PROVE  Marked \subseteq Marked'
  BY <1>1 DEF Marked
<1>2. ASSUME NEW r \in Runners, Schedule(r)
      PROVE  Marked \subseteq Marked'
  <2> DEFINE mine == cycle[r].config
  <2>1. PICK pick \in [Accounts -> mine.set.start .. mine.set.end] :
           config' \in {config, Ensure(mine, pick)}
    BY <1>2 DEF Schedule
  <2>2. mine \in Configs /\ day \in Days
    BY DEF IInv, DataType, Sound, WellFormed, Cycles
  <2>3. \A a \in Accounts : mine.schedules[a].last = day
                            => Ensure(mine, pick).schedules[a].last = day
    BY <2>2, EnsureSound
  <2>4. \A a \in Accounts : config.schedules[a].last = day => mine.schedules[a].last = day
    BY <1>2 DEF Schedule, IInv, Sound, CopyCurrent
  <2> QED BY <2>1, <2>3, <2>4 DEF Marked
<1>3. ASSUME NEW r \in Runners, Finish(r)
      PROVE  Marked \subseteq Marked'
  <2>1. config' \in {config, cycle[r].config}
    BY <1>3 DEF Finish
  <2>2. \A a \in Accounts : config.schedules[a].last = day
                            => cycle[r].config.schedules[a].last = day
    BY <1>3 DEF Finish, IInv, Sound, CopyCurrent
  <2> QED BY <2>1, <2>2 DEF Marked
<1>4. CASE \E r \in Runners : Begin(r) \/ Proceed(r)
  <2> PICK r \in Runners : Begin(r) \/ Proceed(r)
    BY <1>4
  <2>1. Schedule(r) \/ Finish(r) \/ UNCHANGED config
    BY DEF Begin, Proceed, Target, Status, AfterStatus, Perform, AfterPerform, Recheck,
           AfterRecheck, Ask
  <2> QED BY <1>1, <1>2, <1>3, <2>1
<1>5. CASE \E s \in Settings : Save(s)
  BY <1>5 DEF Save, IInv, DataType, Assumptions
<1>6. CASE \E a \in Accounts : CheckInElsewhere(a)
  BY <1>1, <1>6 DEF CheckInElsewhere
<1>7. CASE Tick \/ Crash
  BY <1>1, <1>7 DEF Tick, Crash
<1> QED BY <1>4, <1>5, <1>6, <1>7 DEF Next

\* No cycle loses a mark of today: neither one an earlier cycle wrote, nor by
\* giving an account that is checked in a new minute.
THEOREM MarksKept == Spec => TodaysMarksKept
<1>1. IInv /\ [Next]_vars => [day' = day /\ saves' = saves => Marked \subseteq Marked']_vars
  BY AssumptionsHold, MarksStep
<1> QED BY <1>1, Invariance, PTL DEF Spec, TodaysMarksKept
=============================================================================
