------------------------- MODULE SingleFlight_proofs -------------------------
(***************************************************************************)
(* Proofs about SingleFlight for any set of keys, callers and channels.    *)
(* RegistryNamesLiveTasks is inductive with the types: a key's entry and   *)
(* the only task that will remove it determine each other, so two tasks    *)
(* cannot work for one key.                                                *)
(***************************************************************************)
EXTENDS SingleFlight, TLAPS

Inv == TypeOK /\ RegistryNamesLiveTasks

LEMMA InitInv == Init => Inv
BY DEF Init, Inv, TypeOK, RegistryNamesLiveTasks, Active, Phases, Waiting, Returned

\* A caller's own steps leave the registry and the tasks alone.
LEMMA CallerSteps ==
    ASSUME Inv, NEW c \in Callers, Look(c) \/ Wake(c) \/ Cancel(c)
    PROVE  Inv'
<1>1. UNCHANGED <<flights, phase, keyOf, published>>
  BY DEF Look, Wake, Cancel
<1>2. caller[c].pc \in Waiting => caller[c].channel \in Channels
  BY DEF Inv, TypeOK, Waiting, Returned
<1>3. caller' \in [Callers -> [pc : Waiting, channel : Channels]
                              \cup [pc : Returned, channel : {NoChannel}]]
  BY <1>2 DEF Inv, TypeOK, Look, Wake, Cancel, Return, Waiting, Returned
<1> QED BY <1>1, <1>3 DEF Inv, TypeOK, RegistryNamesLiveTasks, Active

LEMMA RunStep ==
    ASSUME Inv, NEW c \in Callers, NEW key \in Keys, Run(c, key)
    PROVE  Inv'
<1>1. CASE flights[key] # NoChannel
  <2>1. flights[key] \in Channels
    BY <1>1 DEF Inv, TypeOK
  <2>2. caller' = [caller EXCEPT ![c] = [pc |-> "looking", channel |-> flights[key]]]
        /\ UNCHANGED <<flights, phase, keyOf, published>>
    BY <1>1 DEF Run
  <2>3. TypeOK'
    BY <2>1, <2>2 DEF Inv, TypeOK, Waiting
  <2> QED BY <2>2, <2>3 DEF Inv, RegistryNamesLiveTasks, Active
<1>2. CASE flights[key] = NoChannel
  <2>1. PICK ch \in Channels :
          /\ Unheld(ch)
          /\ flights' = [flights EXCEPT ![key] = ch]
          /\ phase' = [phase EXCEPT ![ch] = "working"]
          /\ keyOf' = [keyOf EXCEPT ![ch] = key]
          /\ published' = [published EXCEPT ![ch] = FALSE]
          /\ caller' = [caller EXCEPT ![c] = [pc |-> "looking", channel |-> ch]]
    BY <1>2 DEF Run
  <2>2. TypeOK'
    BY <2>1 DEF Inv, TypeOK, Phases, Waiting
  <2>3. \A k \in Keys : k # key => flights[k] # ch
    BY <2>1, ChannelAssumption DEF Inv, RegistryNamesLiveTasks, Active, Unheld
  <2>4. \A c2 \in Channels : Active(c2) => keyOf[c2] # key
    BY <1>2, ChannelAssumption DEF Inv, RegistryNamesLiveTasks
  <2>5. ~Active(ch)
    BY <2>1 DEF Unheld, Active
  <2>6. /\ \A k \in Keys : flights'[k] = IF k = key THEN ch ELSE flights[k]
        /\ \A c2 \in Channels : /\ phase'[c2] = IF c2 = ch THEN "working" ELSE phase[c2]
                                /\ keyOf'[c2] = IF c2 = ch THEN key ELSE keyOf[c2]
    BY <2>1 DEF Inv, TypeOK
  <2>7. RegistryNamesLiveTasks'
    <3>1. \A k \in Keys : flights'[k] # NoChannel =>
            Active(flights[k])' /\ keyOf'[flights'[k]] = k
      BY <2>2, <2>3, <2>6 DEF Inv, TypeOK, RegistryNamesLiveTasks, Active
    <3>2. \A c2 \in Channels : Active(c2)' =>
            keyOf'[c2] \in Keys /\ flights'[keyOf'[c2]] = c2
      BY <2>4, <2>6 DEF Inv, TypeOK, RegistryNamesLiveTasks, Active
    <3> QED BY <3>1, <3>2 DEF RegistryNamesLiveTasks
  <2> QED BY <2>2, <2>7 DEF Inv
<1> QED BY <1>1, <1>2

LEMMA TaskSteps ==
    ASSUME Inv, NEW ch \in Channels,
           Publish(ch) \/ Panic(ch) \/ RemoveFlight(ch) \/ DropSender(ch)
    PROVE  Inv'
<1>1. CASE Publish(ch) \/ Panic(ch)
  <2>1. /\ UNCHANGED <<flights, keyOf, caller>>
        /\ published' \in [Channels -> BOOLEAN]
        /\ phase[ch] = "working"
        /\ phase' = [phase EXCEPT ![ch] = "unwinding"]
    BY <1>1 DEF Publish, Panic, Inv, TypeOK
  <2>2. \A c2 \in Channels : Active(c2)' <=> Active(c2)
    BY <2>1 DEF Inv, TypeOK, Active
  <2>3. TypeOK'
    BY <2>1 DEF Inv, TypeOK, Phases
  <2> QED BY <2>1, <2>2, <2>3 DEF Inv, TypeOK, RegistryNamesLiveTasks
<1>2. CASE RemoveFlight(ch)
  <2>1. keyOf[ch] \in Keys /\ flights[keyOf[ch]] = ch
    BY <1>2 DEF RemoveFlight, Inv, RegistryNamesLiveTasks, Active
  <2>2. TypeOK'
    BY <1>2, <2>1 DEF RemoveFlight, Inv, TypeOK, Phases
  <2>3. /\ \A k \in Keys : flights'[k] = IF k = keyOf[ch] THEN NoChannel ELSE flights[k]
        /\ \A c2 \in Channels : /\ phase'[c2] = IF c2 = ch THEN "removed" ELSE phase[c2]
                                /\ keyOf'[c2] = IF c2 = ch THEN NoKey ELSE keyOf[c2]
    BY <1>2, <2>1 DEF RemoveFlight, Inv, TypeOK
  <2>4. RegistryNamesLiveTasks'
    <3>1. \A k \in Keys : flights'[k] # NoChannel =>
            Active(flights[k])' /\ keyOf'[flights'[k]] = k
      BY <2>1, <2>2, <2>3 DEF Inv, TypeOK, RegistryNamesLiveTasks, Active
    <3>2. \A c2 \in Channels : Active(c2)' =>
            keyOf'[c2] \in Keys /\ flights'[keyOf'[c2]] = c2
      BY <2>1, <2>3 DEF Inv, TypeOK, RegistryNamesLiveTasks, Active
    <3> QED BY <3>1, <3>2 DEF RegistryNamesLiveTasks
  <2> QED BY <2>2, <2>4 DEF Inv
<1>3. CASE DropSender(ch)
  BY <1>3 DEF DropSender, Inv, TypeOK, RegistryNamesLiveTasks, Active, Phases
<1> QED BY <1>1, <1>2, <1>3

LEMMA NextInv == Inv /\ [Next]_vars => Inv'
<1> SUFFICES ASSUME Inv, [Next]_vars PROVE Inv'
  OBVIOUS
<1>1. CASE UNCHANGED vars
  BY <1>1 DEF vars, Inv, TypeOK, RegistryNamesLiveTasks, Active
<1>2. CASE Call
  BY <1>2, RunStep, CallerSteps DEF Call
<1>3. CASE Task
  BY <1>3, TaskSteps DEF Task
<1> QED BY <1>1, <1>2, <1>3 DEF Next

\* Every caller, task and channel stays in a state the code can be in; in
\* particular a caller that waits holds a receiver of the channel it waits on.
THEOREM TypeCorrect == Spec => []TypeOK
BY InitInv, NextInv, PTL DEF Spec, Inv

\* An entry and the task that removes it determine each other, whatever
\* panics, cancellations and overlapping calls happen.
THEOREM RegistryCorrect == Spec => [](TypeOK /\ RegistryNamesLiveTasks)
BY InitInv, NextInv, PTL DEF Spec, Inv

\* At most one request per account is in progress: a one-use refresh token is
\* never sent twice at the same time.
THEOREM OneWorkCorrect == Spec => []OneWorkPerKey
<1>1. TypeOK /\ RegistryNamesLiveTasks => OneWorkPerKey
  BY DEF RegistryNamesLiveTasks, OneWorkPerKey, Active
<1> QED BY <1>1, RegistryCorrect, PTL

\* No caller is told that a request was interrupted when it has a result.
THEOREM ResultsDelivered == Spec => ResultReachesWaiters
<1> DEFINE Delivered == \A c \in Callers :
              caller[c].pc \in Waiting /\ published[caller[c].channel]
                  => caller'[c].pc # "interrupted"
<1>1. Inv /\ [Next]_vars => Delivered \/ UNCHANGED vars
  <2> SUFFICES ASSUME Inv, Next, NEW c \in Callers, caller[c].pc \in Waiting,
                      published[caller[c].channel]
               PROVE  caller'[c].pc # "interrupted"
    OBVIOUS
  <2>1. ASSUME NEW d \in Callers, NEW key \in Keys, Run(d, key)
        PROVE  caller'[c].pc # "interrupted"
    BY <2>1 DEF Run, Inv, TypeOK, Waiting
  <2>2. ASSUME NEW d \in Callers, Look(d) \/ Wake(d) \/ Cancel(d)
        PROVE  caller'[c].pc # "interrupted"
    BY <2>2 DEF Look, Wake, Cancel, Return, Inv, TypeOK, Waiting
  <2>3. CASE Task
    BY <2>3 DEF Task, Publish, Panic, RemoveFlight, DropSender, Waiting
  <2> QED BY <2>1, <2>2, <2>3 DEF Next, Call
<1>2. Spec => []Inv
  BY InitInv, NextInv, PTL DEF Spec
<1> QED BY <1>1, <1>2, PTL DEF Spec, ResultReachesWaiters
=============================================================================
