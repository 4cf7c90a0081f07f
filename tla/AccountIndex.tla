----------------------------- MODULE AccountIndex -----------------------------
(***************************************************************************)
(* The WorkBuddy account files: workbuddy_account.rs.                      *)
(*                                                                         *)
(* Each account has a detail file; an index file lists their ids, and      *)
(* beside it lies a copy of the index before its last write.  Writers hold *)
(* one lock over all their writes, but the writes are single: a crash or a *)
(* failure may fall between any two.  The index may be damaged or deleted  *)
(* from outside, and a detail file may be unreadable for a while.          *)
(*                                                                         *)
(* An account's identity is its uid and its email; the id of a new account *)
(* is derived from the first of the two it has (generated_id), so ids are  *)
(* named here by what they are derived from.  The summaries in the index,  *)
(* the credentials (CredentialStore) and the other fields are left out.    *)
(***************************************************************************)
EXTENDS Integers, FiniteSets

CONSTANTS
    Callers,        \* commands and tasks that change accounts
    Nobody,         \* the holder of a free lock
    Uids, Emails,   \* normalised
    Unknown,        \* no uid, no email
    MaxJobs,        \* bound: jobs begun
    MaxFaults       \* bound: failed writes, crashes, files damaged or unreadable

Ids == Uids \cup Emails
Persons == [uid : Uids \cup {Unknown}, email : Emails \cup {Unknown}]
Stranger == [uid |-> Unknown, email |-> Unknown]

ASSUME CallerAssumption == Nobody \notin Callers
ASSUME IdAssumption == Uids \cap Emails = {} /\ Unknown \notin Ids /\ Ids # {}
ASSUME BoundAssumption == MaxJobs \in Nat /\ MaxFaults \in Nat

VARIABLES
    index,          \* the index file
    bak,            \* its copy
    details,        \* the accounts with a detail file
    person,         \* whom each of these is for
    unreadable,     \* the detail files that cannot be read now
    lock,           \* the holder of WORKBUDDY_ACCOUNT_INDEX_LOCK
    pc,             \* each caller's place in its job
    job,            \* what it does, with its copy of the index
    harmed,         \* the index has been damaged or deleted from outside
    jobs, faults    \* how many are left

files == <<index, bak, details, person>>
budget == <<jobs, faults>>
vars == <<files, unreadable, lock, pc, job, harmed, budget>>

Indexes == [state : {"good", "garbled", "missing"}, ids : SUBSET Ids]
Good(ids) == [state |-> "good", ids |-> ids]
Garbled == [state |-> "garbled", ids |-> {}]
Missing == [state |-> "missing", ids |-> {}]

Jobs == [op : {"none", "login", "import", "labels", "check-in", "remove"}, id : Ids, person : Persons,
         ids : SUBSET Ids]
NoJob == [op |-> "none", id |-> CHOOSE id \in Ids : TRUE, person |-> Stranger, ids |-> {}]
Stages == {"idle", "detail", "load", "backup", "index", "delete", "merge"}
Holding == {"detail", "load", "backup", "index", "delete"}

At(c, stage) == c \in Callers /\ pc[c] = stage
Goto(c, stage) == pc' = [pc EXCEPT ![c] = stage]
Fault == faults > 0 /\ faults' = faults - 1
NoFault == faults' = faults

-----------------------------------------------------------------------------
(* load_account_index_checked                                              *)

\* The ids of the index, or of its copy when it cannot be parsed.
Indexed == IF index.state = "good" THEN index.ids ELSE bak.ids

\* Mutant: the detail files are not looked at.
KnownIndexed == Indexed

\* The detail files that the index misses are added,
Known == Indexed \cup (details \ unreadable)

\* Mutant: one that cannot be read is passed over.
LoadFailsEmpty == index.state = "garbled" /\ Known = {}

\* which must be readable, and a damaged index must yield something.
LoadFails ==
    \/ (details \ Indexed) \cap unreadable # {}
    \/ index.state = "garbled" /\ Known = {}

\* list_accounts_checked returns a list, and not an error.
ListReturns == ~LoadFails /\ Known \subseteq details \ unreadable

-----------------------------------------------------------------------------
(* The jobs.                                                               *)

\* Mutant: the uids are not compared when the emails agree.
MatchesEmail(old, new) ==
    \/ old.uid = new.uid /\ new.uid # Unknown
    \/ old.email = new.email /\ new.email # Unknown

\* account_matches_payload_identity
Matches(old, new) ==
    \/ old.uid = new.uid /\ new.uid # Unknown
    \/ /\ old.email = new.email /\ new.email # Unknown
       /\ Unknown \in {old.uid, new.uid}

\* Mutant: the id is derived from the email alone.
GeneratedFromEmail(p) == p.email

Generated(p) == IF p.uid # Unknown THEN p.uid ELSE p.email

\* The accounts of the list that load.
Readable == (Known \cap details) \ unreadable

\* apply_payload: an email without @ replaces the old one and identifies nobody.
Applied(old, new) ==
    {[uid |-> IF new.uid = Unknown THEN old.uid ELSE new.uid, email |-> email] :
        email \in IF new.email = Unknown THEN {old.email, Unknown} ELSE {new.email}}

\* Mutant: the lock is not waited for.
TakeAnyway(c, stage) ==
    /\ lock' = c
    /\ Goto(c, stage)
Take(c, stage) ==
    /\ lock = Nobody
    /\ lock' = c
    /\ Goto(c, stage)

\* The job ends, with success or an error.
End(c) ==
    /\ lock' = IF lock = c THEN Nobody ELSE lock
    /\ Goto(c, "idle")
    /\ job' = [job EXCEPT ![c] = NoJob]

\* upsert_account and the first half of an import, up to its first write.  The
\* account is the first that matches, or a new one unless its file is there.
Login(c, p, op) ==
    /\ At(c, "idle") /\ jobs > 0 /\ jobs' = jobs - 1
    /\ ~LoadFails
    /\ Take(c, "detail")
    /\ LET matching == {id \in Readable : Matches(person[id], p)}
       IN  \E id \in IF matching # {} THEN matching ELSE {Generated(p)} :
             \E q \in Applied(IF id \in Readable THEN person[id] ELSE Stranger, p) :
                job' = [job EXCEPT ![c] =
                          [op |-> op, id |-> id, person |-> q, ids |-> Known \cup {id}]]
    /\ UNCHANGED <<files, unreadable, harmed, faults>>

\* update_account_tags, update_checkin_info; and the second half of an import,
\* which takes the lock anew.  The detail file is read, and its identity kept.
Label(c, id, op) ==
    /\ \/ At(c, "idle") /\ jobs > 0 /\ jobs' = jobs - 1
       \/ At(c, "merge") /\ id = job[c].id /\ op = "labels" /\ UNCHANGED jobs
    /\ id \in details \ unreadable
    /\ Take(c, "detail")
    /\ job' = [job EXCEPT ![c] = [op |-> op, id |-> id, person |-> person[id], ids |-> {}]]
    /\ UNCHANGED <<files, unreadable, harmed, faults>>

\* The account an import has logged in is gone, or unreadable.
MergeFails(c) ==
    /\ At(c, "merge")
    /\ lock = Nobody
    /\ job[c].id \notin details \ unreadable
    /\ End(c)
    /\ UNCHANGED <<files, unreadable, harmed, budget>>

\* remove_account
Remove(c, id) ==
    /\ At(c, "idle") /\ jobs > 0 /\ jobs' = jobs - 1
    /\ ~LoadFails
    /\ Take(c, "backup")
    /\ job' = [job EXCEPT ![c] =
                 [op |-> "remove", id |-> id, person |-> Stranger, ids |-> Known \ {id}]]
    /\ UNCHANGED <<files, unreadable, harmed, faults>>

\* Mutant: a failed write is passed over.
WriteDetailAnyway(c) ==
    /\ At(c, "detail")
    /\ LET id == job[c].id
       IN  \/ /\ id \notin unreadable
              /\ details' = details \cup {id}
              /\ person' = [person EXCEPT ![id] = job[c].person]
              /\ NoFault
           \/ /\ IF id \in unreadable THEN NoFault ELSE Fault
              /\ UNCHANGED <<details, person>>
    /\ Goto(c, IF job[c].op = "labels" THEN "load" ELSE "backup")
    /\ UNCHANGED <<index, bak, unreadable, lock, job, harmed, jobs>>

\* save_account_file: a file that is there must be readable.  A check-in
\* leaves the index alone.
WriteDetail(c) ==
    /\ At(c, "detail")
    /\ LET id == job[c].id
       IN  \/ /\ id \notin unreadable
              /\ details' = details \cup {id}
              /\ person' = [person EXCEPT ![id] = job[c].person]
              /\ NoFault
              /\ IF job[c].op = "check-in" THEN End(c)
                 ELSE /\ Goto(c, IF job[c].op = "labels" THEN "load" ELSE "backup")
                      /\ UNCHANGED <<lock, job>>
           \/ /\ IF id \in unreadable THEN NoFault ELSE Fault
              /\ End(c)
              /\ UNCHANGED <<details, person>>
    /\ UNCHANGED <<index, bak, unreadable, harmed, jobs>>

\* A change of labels loads the index only after its detail file is written.
Load(c) ==
    /\ At(c, "load")
    /\ IF LoadFails
       THEN End(c)
       ELSE /\ job' = [job EXCEPT ![c].ids = Known \cup {job[c].id}]
            /\ Goto(c, "backup")
            /\ UNCHANGED lock
    /\ UNCHANGED <<files, unreadable, harmed, budget>>

\* save_account_index: an index that parses becomes the copy; a damaged one
\* gets a copy of its own, which nothing reads.
Backup(c) ==
    /\ At(c, "backup")
    /\ \/ /\ bak' = IF index.state = "good" THEN index ELSE bak
          /\ Goto(c, "index") /\ NoFault
          /\ UNCHANGED <<lock, job>>
       \/ index.state # "missing" /\ Fault /\ End(c) /\ UNCHANGED bak
    /\ UNCHANGED <<index, details, person, unreadable, harmed, jobs>>

WriteIndex(c) ==
    /\ At(c, "index")
    /\ \/ /\ index' = Good(job[c].ids)
          /\ NoFault
          /\ IF job[c].op = "remove" THEN Goto(c, "delete") /\ UNCHANGED <<lock, job>>
             ELSE IF job[c].op = "import" THEN lock' = Nobody /\ Goto(c, "merge") /\ UNCHANGED job
             ELSE End(c)
       \/ Fault /\ End(c) /\ UNCHANGED index
    /\ UNCHANGED <<bak, details, person, unreadable, harmed, jobs>>

\* delete_account_file
Delete(c) ==
    /\ At(c, "delete")
    /\ LET id == job[c].id
       IN  \/ /\ details' = details \ {id}
              /\ person' = [person EXCEPT ![id] = Stranger]
              /\ unreadable' = unreadable \ {id}
              /\ NoFault
           \/ id \in details /\ Fault /\ UNCHANGED <<details, person, unreadable>>
    /\ End(c)
    /\ UNCHANGED <<index, bak, harmed, jobs>>

-----------------------------------------------------------------------------
(* The world outside.                                                      *)

\* The index or its copy is damaged or deleted.
Damage ==
    /\ Fault
    /\ harmed' = TRUE
    /\ \/ index.state = "good" /\ index' \in {Garbled, Missing} /\ UNCHANGED bak
       \/ bak.state = "good" /\ bak' \in {Garbled, Missing} /\ UNCHANGED index
    /\ UNCHANGED <<details, person, unreadable, lock, pc, job, jobs>>

Obstruct(id) ==
    /\ id \in details \ unreadable
    /\ Fault
    /\ unreadable' = unreadable \cup {id}
    /\ UNCHANGED <<files, lock, pc, job, harmed, jobs>>

Clear(id) ==
    /\ id \in unreadable
    /\ unreadable' = unreadable \ {id}
    /\ UNCHANGED <<files, lock, pc, job, harmed, budget>>

\* The application ends and starts again.
Restart ==
    /\ \E c \in Callers : pc[c] # "idle"
    /\ Fault
    /\ lock' = Nobody
    /\ pc' = [c \in Callers |-> "idle"]
    /\ job' = [c \in Callers |-> NoJob]
    /\ UNCHANGED <<files, unreadable, harmed, jobs>>

Init ==
    /\ index = Missing
    /\ bak = Missing
    /\ details = {}
    /\ person = [id \in Ids |-> Stranger]
    /\ unreadable = {}
    /\ lock = Nobody
    /\ pc = [c \in Callers |-> "idle"]
    /\ job = [c \in Callers |-> NoJob]
    /\ harmed = FALSE
    /\ jobs = MaxJobs
    /\ faults = MaxFaults

Begin(c) ==
    \/ \E p \in Persons \ {Stranger}, op \in {"login", "import"} : Login(c, p, op)
    \/ \E id \in Ids : Remove(c, id) \/ \E op \in {"labels", "check-in"} : Label(c, id, op)

Work(c) ==
    WriteDetail(c) \/ Load(c) \/ Backup(c) \/ WriteIndex(c) \/ Delete(c) \/ MergeFails(c)

Next ==
    \/ \E c \in Callers : Begin(c) \/ Work(c)
    \/ Damage \/ Restart
    \/ \E id \in Ids : Obstruct(id) \/ Clear(id)

Spec == Init /\ [][Next]_vars

-----------------------------------------------------------------------------
(* Properties                                                              *)

(* Files, jobs, locks and counters are well formed. *)
TypeOK ==
    /\ index \in Indexes
    /\ bak \in Indexes
    /\ details \subseteq Ids
    /\ person \in [Ids -> Persons]
    /\ unreadable \subseteq details
    /\ lock \in Callers \cup {Nobody}
    /\ pc \in [Callers -> Stages]
    /\ job \in [Callers -> Jobs]
    /\ harmed \in BOOLEAN
    /\ jobs \in 0..MaxJobs
    /\ faults \in 0..MaxFaults

(* However the jobs of two callers alternate, and wherever a write fails or *)
(* the application ends, the list of accounts can be read, with exactly the *)
(* accounts that have a file: the index never names one that has none.     *)
(* That the index is not damaged from outside is needed: its copy may name *)
(* an account removed since, and list_accounts_checked then fails.         *)
ListSucceeds ==
    ~harmed /\ unreadable = {} => ListReturns /\ Known = details

(* Whatever is damaged or unreadable, no incomplete list is written back   *)
(* (CHANGELOG.md:19): an index that is written names every account that    *)
(* has a file, but for the one being removed.                              *)
NothingDropped ==
    [][index' # index /\ index'.state = "good" =>
          \A id \in details \ index'.ids :
              \E c \in Callers : At(c, "index") /\ job[c].op = "remove" /\ job[c].id = id]_vars

(* No login gives an account whose uid is known another uid, by whichever  *)
(* of uid, email or derived id the account was found.                      *)
UidKept ==
    [][\A id \in details \cap details' :
          Unknown \in {person[id].uid, person'[id].uid} \/ person'[id].uid = person[id].uid]_vars

(* The files implement a set of accounts, whose elements come with a login *)
(* and go with a removal: one that was removed is not brought back by a    *)
(* change of its labels or by the rest of an import.                       *)
Asked(c) ==
    IF pc[c] = "idle" THEN [op |-> "nothing"]
    ELSE [op |-> IF job[c].op = "remove" THEN "remove"
                 ELSE IF job[c].op \in {"login", "import"} /\ pc[c] # "merge" THEN "login"
                 ELSE "labels",
          id |-> job[c].id]
Set == INSTANCE AccountSet WITH accounts <- details, request <- [c \in Callers |-> Asked(c)]
ImplementsSet == Set!Spec
=============================================================================
