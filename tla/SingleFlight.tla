---------------------------- MODULE SingleFlight ----------------------------
(***************************************************************************)
(* Per-key single flight: account_singleflight.rs.                         *)
(*                                                                         *)
(* run(key, work) joins the flight registered for the key, or registers    *)
(* one and spawns a worker for it.  A flight is a watch channel and the    *)
(* task that owns its sender; the registry lock makes joining and          *)
(* registering one step, and removing an entry another.  The task is owned *)
(* by the runtime, so a caller that is dropped does not stop it.           *)
(*                                                                         *)
(* A worker's last steps are separate, in the order in which Rust runs     *)
(* them: the result is published, the RemoveFlight guard (a local) removes *)
(* the entry, and the sender (a captured variable) is dropped after it.  A *)
(* panic skips the first.  Callers run between any two of them.            *)
(***************************************************************************)
EXTENDS FiniteSets, Naturals

CONSTANTS
    Keys,           \* account ids
    Callers,        \* calls of run
    Channels,       \* watch channels; a closed one nobody holds is used again
    NoChannel,
    NoKey

ASSUME ChannelAssumption == NoChannel \notin Channels
ASSUME KeyAssumption == NoKey \notin Keys

VARIABLES
    flights,        \* the registry: the channel registered for a key
    phase,          \* what the task that owns the channel's sender does next
    keyOf,          \* the key its guard will remove
    published,      \* the channel holds a result
    caller          \* where each call is, and the receiver it holds

vars == <<flights, phase, keyOf, published, caller>>

Phases == {"closed", "working", "unwinding", "removed"}
Waiting == {"looking", "parked"}
Returned == {"idle", "answered", "interrupted"}

\* The call returns, or its future is dropped, and its receiver with it.
Return(c, outcome) == caller' = [caller EXCEPT ![c] = [pc |-> outcome, channel |-> NoChannel]]

\* A channel nobody holds: neither a task nor a caller.
Unheld(ch) ==
    /\ phase[ch] = "closed"
    /\ \A c \in Callers : caller[c].channel # ch

\* Mutant: an existing flight is not looked up.
RunAlwaysSpawning(c, key) ==
    \E ch \in Channels :
        /\ caller[c].pc \in Returned
        /\ Unheld(ch)
        /\ flights' = [flights EXCEPT ![key] = ch]
        /\ phase' = [phase EXCEPT ![ch] = "working"]
        /\ keyOf' = [keyOf EXCEPT ![ch] = key]
        /\ published' = [published EXCEPT ![ch] = FALSE]
        /\ caller' = [caller EXCEPT ![c] = [pc |-> "looking", channel |-> ch]]

\* run, under the registry lock.
Run(c, key) ==
    /\ caller[c].pc \in Returned
    /\ \/ /\ flights[key] # NoChannel
          /\ caller' = [caller EXCEPT ![c] = [pc |-> "looking", channel |-> flights[key]]]
          /\ UNCHANGED <<flights, phase, keyOf, published>>
       \/ /\ flights[key] = NoChannel
          /\ \E ch \in Channels :
                /\ Unheld(ch)
                /\ flights' = [flights EXCEPT ![key] = ch]
                /\ phase' = [phase EXCEPT ![ch] = "working"]
                /\ keyOf' = [keyOf EXCEPT ![ch] = key]
                /\ published' = [published EXCEPT ![ch] = FALSE]
                /\ caller' = [caller EXCEPT ![c] = [pc |-> "looking", channel |-> ch]]

\* borrow: return the result, or wait for a change.
Look(c) ==
    /\ caller[c].pc = "looking"
    /\ IF published[caller[c].channel]
       THEN Return(c, "answered")
       ELSE caller' = [caller EXCEPT ![c].pc = "parked"]
    /\ UNCHANGED <<flights, phase, keyOf, published>>

\* Mutant: the loss of the sender is noticed before the result.
WakeClosedFirst(c) ==
    /\ caller[c].pc = "parked"
    /\ LET ch == caller[c].channel
       IN  \/ /\ published[ch]
              /\ phase[ch] # "closed"
              /\ caller' = [caller EXCEPT ![c].pc = "looking"]
           \/ /\ phase[ch] = "closed"
              /\ Return(c, "interrupted")
    /\ UNCHANGED <<flights, phase, keyOf, published>>

\* Mutant: the loss of the sender wakes nobody.
WakeOnResultOnly(c) ==
    /\ caller[c].pc = "parked"
    /\ published[caller[c].channel]
    /\ caller' = [caller EXCEPT ![c].pc = "looking"]
    /\ UNCHANGED <<flights, phase, keyOf, published>>

\* changed: a result wakes the caller, and so does the loss of the sender.
Wake(c) ==
    /\ caller[c].pc = "parked"
    /\ LET ch == caller[c].channel
       IN  \/ /\ published[ch]
              /\ caller' = [caller EXCEPT ![c].pc = "looking"]
           \/ /\ ~published[ch]
              /\ phase[ch] = "closed"
              /\ Return(c, "interrupted")
    /\ UNCHANGED <<flights, phase, keyOf, published>>

\* Mutant: the receiver of a dropped future is kept.
CancelKeepingReceiver(c) ==
    /\ caller[c].pc = "parked"
    /\ caller' = [caller EXCEPT ![c].pc = "idle"]
    /\ UNCHANGED <<flights, phase, keyOf, published>>

\* The window that asked is closed: its future is dropped at an await.
Cancel(c) ==
    /\ caller[c].pc = "parked"
    /\ Return(c, "idle")
    /\ UNCHANGED <<flights, phase, keyOf, published>>

\* work().await returns and the result is published.
Publish(ch) ==
    /\ phase[ch] = "working"
    /\ published' = [published EXCEPT ![ch] = TRUE]
    /\ phase' = [phase EXCEPT ![ch] = "unwinding"]
    /\ UNCHANGED <<flights, keyOf, caller>>

\* Mutant: the entry is removed by a statement, not by a guard.
PanicWithoutGuard(ch) ==
    /\ phase[ch] = "working"
    /\ phase' = [phase EXCEPT ![ch] = "closed"]
    /\ UNCHANGED <<flights, keyOf, published, caller>>

\* work panics.
Panic(ch) ==
    /\ phase[ch] = "working"
    /\ phase' = [phase EXCEPT ![ch] = "unwinding"]
    /\ UNCHANGED <<flights, keyOf, published, caller>>

\* The guard is dropped.
RemoveFlight(ch) ==
    /\ phase[ch] = "unwinding"
    /\ flights' = [flights EXCEPT ![keyOf[ch]] = NoChannel]
    /\ keyOf' = [keyOf EXCEPT ![ch] = NoKey]
    /\ phase' = [phase EXCEPT ![ch] = "removed"]
    /\ UNCHANGED <<published, caller>>

\* The task ends and its sender is dropped.
DropSender(ch) ==
    /\ phase[ch] = "removed"
    /\ phase' = [phase EXCEPT ![ch] = "closed"]
    /\ UNCHANGED <<flights, keyOf, published, caller>>

Init ==
    /\ flights = [key \in Keys |-> NoChannel]
    /\ phase = [ch \in Channels |-> "closed"]
    /\ keyOf = [ch \in Channels |-> NoKey]
    /\ published = [ch \in Channels |-> FALSE]
    /\ caller = [c \in Callers |-> [pc |-> "idle", channel |-> NoChannel]]

Call == \E c \in Callers :
            \/ \E key \in Keys : Run(c, key)
            \/ Look(c)
            \/ Wake(c)
            \/ Cancel(c)

Task == \E ch \in Channels :
            \/ Publish(ch)
            \/ Panic(ch)
            \/ RemoveFlight(ch)
            \/ DropSender(ch)

Next == Call \/ Task

Spec == Init /\ [][Next]_vars

\* The runtime polls every task that is ready, and work ends: its requests
\* have timeouts.
Fairness ==
    /\ \A c \in Callers : WF_vars(Look(c)) /\ WF_vars(Wake(c))
    /\ \A ch \in Channels :
          /\ WF_vars(Publish(ch) \/ Panic(ch))
          /\ WF_vars(RemoveFlight(ch))
          /\ WF_vars(DropSender(ch))

FairSpec == Spec /\ Fairness

-----------------------------------------------------------------------------
(* Properties.                                                             *)

\* A call holds a receiver exactly while it waits.
TypeOK ==
    /\ flights \in [Keys -> Channels \cup {NoChannel}]
    /\ phase \in [Channels -> Phases]
    /\ keyOf \in [Channels -> Keys \cup {NoKey}]
    /\ published \in [Channels -> BOOLEAN]
    /\ caller \in [Callers -> [pc : Waiting, channel : Channels]
                                \cup [pc : Returned, channel : {NoChannel}]]

\* The task still holds the key's entry.
Active(ch) == phase[ch] \in {"working", "unwinding"}

\* An entry names a task that will remove it, and every such task is the one
\* its key's entry names: no guard removes another flight's entry, and no
\* panic leaves an entry that blocks the account for good.
RegistryNamesLiveTasks ==
    /\ \A key \in Keys :
          flights[key] # NoChannel => Active(flights[key]) /\ keyOf[flights[key]] = key
    /\ \A ch \in Channels :
          Active(ch) => keyOf[ch] \in Keys /\ flights[keyOf[ch]] = ch

\* At most one request per account is in progress, cancelled callers or not.
OneWorkPerKey ==
    \A ch1, ch2 \in Channels :
        phase[ch1] = "working" /\ phase[ch2] = "working" /\ keyOf[ch1] = keyOf[ch2]
            => ch1 = ch2

\* A published result reaches every caller that waits for it: however late a
\* caller looks, it is not told that the request was interrupted.
ResultReachesWaiters ==
    [][\A c \in Callers :
          caller[c].pc \in Waiting /\ published[caller[c].channel]
              => caller'[c].pc # "interrupted"]_vars

\* Every call returns, whatever happens to the worker and to other callers.
EveryCallReturns ==
    \A c \in Callers : caller[c].pc \in Waiting ~> caller[c].pc \in Returned

\* No account stays blocked: a registered flight is removed.
EveryFlightLands ==
    \A key \in Keys, ch \in Channels :
        flights[key] = ch ~> flights[key] # ch
=============================================================================
