------------------------- MODULE AccountIndex_proofs -------------------------
(***************************************************************************)
(* Proofs about AccountIndex, for any callers, uids and emails: types, the *)
(* list that can always be read, the index that is never incomplete, the   *)
(* uid that is kept, and the set of accounts the files implement.          *)
(*                                                                         *)
(* The argument: only the holder of the lock changes a file, so what it    *)
(* has read stays true until its next write.  Its copy of the index names  *)
(* every account with a file (Covered), and, unless the files have been    *)
(* harmed, no other (Fresh); the account it works on has its file by the   *)
(* time the index is written (Named).                                      *)
(***************************************************************************)
EXTENDS AccountIndex, TLAPS

Ops == {"none", "login", "import", "labels", "check-in", "remove"}

\* Who writes holds the lock, and each stage belongs to some operations.
Held ==
    \A c \in Callers :
        /\ pc[c] \in Holding => lock = c
        /\ pc[c] = "detail" => job[c].op \in {"login", "import", "labels", "check-in"}
        /\ pc[c] = "load" => job[c].op = "labels"
        /\ pc[c] \in {"backup", "index"} => job[c].op \in {"login", "import", "labels", "remove"}
        /\ pc[c] = "delete" => job[c].op = "remove"
        /\ pc[c] = "merge" => job[c].op = "import"

Listing(c) == pc[c] \in {"backup", "index"}
Login0(c) == pc[c] = "detail" /\ job[c].op \in {"login", "import"}
Label0(c) == pc[c] = "detail" /\ job[c].op \in {"labels", "check-in"}

\* A copy misses no account but the one it is about.
Covered == \A c \in Callers : Login0(c) \/ Listing(c) => details \ {job[c].id} \subseteq job[c].ids

\* The account has its file, unless it is one to remove.
Named ==
    \A c \in Callers :
        /\ pc[c] = "load" \/ Label0(c) => job[c].id \in details
        /\ Login0(c) => job[c].id \in job[c].ids
        /\ Listing(c) /\ job[c].op # "remove" => job[c].id \in details \cap job[c].ids
        /\ Listing(c) /\ job[c].op = "remove" => job[c].id \notin job[c].ids

\* Without harm, the index and the copies of it name no other accounts.
Fresh ==
    ~harmed =>
        /\ index.state # "garbled"
        /\ index.ids \subseteq details
        /\ index.state = "missing" => bak.ids = {}
        /\ \A c \in Callers :
              /\ Login0(c) \/ Listing(c) => job[c].ids \subseteq details \cup {job[c].id}
              /\ pc[c] = "delete" => index.state = "good" /\ job[c].id \notin index.ids

\* A uid that is part of an id, or has been stored once, is kept.
Owned ==
    /\ \A id \in Uids \cap details : person[id].uid = id
    /\ \A c \in Callers :
          /\ Label0(c) => job[c].person = person[job[c].id]
          /\ Login0(c) =>
                /\ job[c].id \in Uids => job[c].person.uid = job[c].id
                /\ job[c].id \in details =>
                      \/ Unknown \in {person[job[c].id].uid, job[c].person.uid}
                      \/ job[c].person.uid = person[job[c].id].uid

IInv == TypeOK /\ Held /\ Covered /\ Named /\ Fresh /\ Owned

LEMMA AssumptionsHold ==
    /\ Nobody \notin Callers
    /\ Uids \cap Emails = {} /\ Unknown \notin Ids /\ Ids # {}
    /\ MaxJobs \in Nat /\ MaxFaults \in Nat
BY CallerAssumption, IdAssumption, BoundAssumption

LEMMA NoJobType == NoJob \in Jobs
<1>1. (CHOOSE id \in Ids : TRUE) \in Ids
    BY AssumptionsHold
<1>2. Stranger \in Persons
    BY DEF Stranger, Persons
<1>. QED
    BY <1>1, <1>2 DEF NoJob, Jobs

LEMMA GeneratedType ==
    ASSUME NEW p \in Persons \ {Stranger}
    PROVE  /\ Generated(p) \in Ids
           /\ p.uid # Unknown => Generated(p) = p.uid
           /\ p.uid = Unknown => Generated(p) \in Emails
BY AssumptionsHold DEF Generated, Persons, Stranger, Ids

LEMMA AppliedType ==
    ASSUME NEW old \in Persons, NEW p \in Persons, NEW q \in Applied(old, p)
    PROVE  q \in Persons /\ q.uid = IF p.uid = Unknown THEN old.uid ELSE p.uid
BY DEF Applied, Persons

LEMMA KnownType ==
    ASSUME TypeOK
    PROVE  Known \subseteq Ids
BY DEF TypeOK, Known, Indexed, Indexes

LEMMA CountersType ==
    ASSUME TypeOK
    PROVE  /\ Fault \/ NoFault => faults' \in 0..MaxFaults
           /\ jobs > 0 /\ jobs' = jobs - 1 => jobs' \in 0..MaxJobs
BY AssumptionsHold DEF Fault, NoFault, TypeOK

LEMMA EndType ==
    ASSUME TypeOK, NEW c \in Callers, End(c)
    PROVE  lock' \in Callers \cup {Nobody} /\ pc' \in [Callers -> Stages] /\ job' \in [Callers -> Jobs]
BY NoJobType DEF TypeOK, End, Goto, Stages

(* What a login writes, and to which account.                              *)
LEMMA LoginJob ==
    ASSUME TypeOK, NEW c \in Callers, NEW p \in Persons \ {Stranger}, NEW op \in {"login", "import"},
           Login(c, p, op)
    PROVE  \E id \in Ids, q \in Persons :
              /\ job' = [job EXCEPT ![c] = [op |-> op, id |-> id, person |-> q, ids |-> Known \cup {id}]]
              /\ id \in Readable \/ id = Generated(p)
              /\ id \in Readable => id = Generated(p) \/ Matches(person[id], p)
              /\ q.uid = IF p.uid = Unknown /\ id \in Readable THEN person[id].uid ELSE p.uid
<1>. DEFINE matching == {id \in Readable : Matches(person[id], p)}
<1>1. PICK id \in IF matching # {} THEN matching ELSE {Generated(p)} :
        \E q \in Applied(IF id \in Readable THEN person[id] ELSE Stranger, p) :
           job' = [job EXCEPT ![c] = [op |-> op, id |-> id, person |-> q, ids |-> Known \cup {id}]]
    BY DEF Login
<1>2. PICK q \in Applied(IF id \in Readable THEN person[id] ELSE Stranger, p) :
        job' = [job EXCEPT ![c] = [op |-> op, id |-> id, person |-> q, ids |-> Known \cup {id}]]
    BY <1>1
<1>3. id \in Ids
    BY GeneratedType DEF Readable, TypeOK
<1>4. Stranger \in Persons /\ Stranger.uid = Unknown
    BY DEF Stranger, Persons
<1>5. CASE id \in Readable
  <2>1. q \in Persons /\ q.uid = IF p.uid = Unknown THEN person[id].uid ELSE p.uid
      BY <1>2, <1>3, <1>5, AppliedType DEF TypeOK
  <2>. QED
      BY <1>2, <1>3, <1>5, <2>1
<1>6. CASE id \notin Readable
  <2>1. q \in Persons /\ q.uid = IF p.uid = Unknown THEN Unknown ELSE p.uid
      BY <1>2, <1>4, <1>6, AppliedType
  <2>2. id = Generated(p)
      BY <1>6
  <2>. QED
      BY <1>2, <1>3, <1>6, <2>1, <2>2
<1>. QED
    BY <1>5, <1>6

LEMMA BeginType ==
    ASSUME TypeOK, NEW c \in Callers, Begin(c)
    PROVE  TypeOK'
<1>. USE KnownType, CountersType DEF Stages
<1>1. CASE \E p \in Persons \ {Stranger}, op \in {"login", "import"} : Login(c, p, op)
  <2>1. PICK p \in Persons \ {Stranger}, op \in {"login", "import"} : Login(c, p, op)
      BY <1>1
  <2>2. job' \in [Callers -> Jobs]
      BY <2>1, LoginJob DEF TypeOK, Jobs
  <2>. QED
      BY <2>1, <2>2 DEF Login, TypeOK, Take, Goto, files
<1>2. ASSUME NEW id \in Ids, Remove(c, id) PROVE TypeOK'
  <2>1. job' \in [Callers -> Jobs]
      BY <1>2 DEF Remove, TypeOK, Jobs, Stranger, Persons
  <2>. QED
      BY <1>2, <2>1 DEF Remove, TypeOK, Take, Goto, files
<1>3. ASSUME NEW id \in Ids, NEW op \in {"labels", "check-in"}, Label(c, id, op) PROVE TypeOK'
  <2>1. job' \in [Callers -> Jobs]
      BY <1>3 DEF Label, TypeOK, Jobs
  <2>2. jobs' \in 0..MaxJobs
      BY <1>3 DEF Label, TypeOK
  <2>. QED
      BY <1>3, <2>1, <2>2 DEF Label, TypeOK, Take, Goto, files
<1>. QED
    BY <1>1, <1>2, <1>3 DEF Begin

LEMMA WorkType ==
    ASSUME TypeOK, NEW c \in Callers, Work(c)
    PROVE  TypeOK'
<1>. USE KnownType, CountersType, EndType DEF Stages
<1>. job[c].id \in Ids /\ job[c].person \in Persons /\ job[c].ids \subseteq Ids
    BY DEF TypeOK, Jobs
<1>1. CASE WriteDetail(c)
  <2>1. details' \subseteq Ids /\ unreadable' \subseteq details' /\ person' \in [Ids -> Persons]
      BY <1>1 DEF WriteDetail, TypeOK
  <2>2. lock' \in Callers \cup {Nobody} /\ pc' \in [Callers -> Stages] /\ job' \in [Callers -> Jobs]
      BY <1>1 DEF WriteDetail, TypeOK, Goto
  <2>. QED
      BY <1>1, <2>1, <2>2 DEF WriteDetail, TypeOK
<1>2. CASE Load(c)
  <2>1. CASE LoadFails
      BY <1>2, <2>1 DEF Load, TypeOK, files, budget
  <2>2. CASE ~LoadFails
    <3>1. job' \in [Callers -> Jobs]
        BY <1>2, <2>2 DEF Load, TypeOK, Jobs
    <3>. QED
        BY <1>2, <2>2, <3>1 DEF Load, TypeOK, files, budget, Goto
  <2>. QED
      BY <2>1, <2>2
<1>3. CASE Backup(c)
  <2>1. bak' \in Indexes
      BY <1>3 DEF Backup, TypeOK
  <2>2. lock' \in Callers \cup {Nobody} /\ pc' \in [Callers -> Stages] /\ job' \in [Callers -> Jobs]
      BY <1>3 DEF Backup, TypeOK, Goto
  <2>. QED
      BY <1>3, <2>1, <2>2 DEF Backup, TypeOK
<1>4. CASE WriteIndex(c)
  <2>1. index' \in Indexes
      BY <1>4 DEF WriteIndex, TypeOK, Good, Indexes
  <2>2. lock' \in Callers \cup {Nobody} /\ pc' \in [Callers -> Stages] /\ job' \in [Callers -> Jobs]
      BY <1>4 DEF WriteIndex, TypeOK, Goto
  <2>. QED
      BY <1>4, <2>1, <2>2 DEF WriteIndex, TypeOK
<1>5. CASE Delete(c)
  <2>1. details' \subseteq Ids /\ unreadable' \subseteq details' /\ person' \in [Ids -> Persons]
      BY <1>5 DEF Delete, TypeOK, Stranger, Persons
  <2>. QED
      BY <1>5, <2>1 DEF Delete, TypeOK
<1>6. CASE MergeFails(c)
    BY <1>6 DEF MergeFails, TypeOK, files, budget
<1>. QED
    BY <1>1, <1>2, <1>3, <1>4, <1>5, <1>6 DEF Work

Outside == Damage \/ Restart \/ \E id \in Ids : Obstruct(id) \/ Clear(id)

LEMMA OutsideType ==
    ASSUME TypeOK, Outside
    PROVE  TypeOK'
<1>. USE CountersType
<1>1. CASE Damage
    BY <1>1 DEF Damage, TypeOK, Indexes, Garbled, Missing
<1>2. CASE Restart
    BY <1>2, NoJobType DEF Restart, TypeOK, files, Stages
<1>3. ASSUME NEW id \in Ids, Obstruct(id) PROVE TypeOK'
    BY <1>3 DEF Obstruct, TypeOK, files
<1>4. ASSUME NEW id \in Ids, Clear(id) PROVE TypeOK'
    BY <1>4 DEF Clear, TypeOK, files, budget
<1>. QED
    BY <1>1, <1>2, <1>3, <1>4 DEF Outside

LEMMA TypeInit == Init => TypeOK
<1>. Stranger \in Persons /\ Missing \in Indexes
    BY DEF Stranger, Persons, Missing, Indexes
<1>1. Init => jobs \in 0..MaxJobs /\ faults \in 0..MaxFaults
    BY AssumptionsHold DEF Init
<1>2. Init => person \in [Ids -> Persons] /\ pc \in [Callers -> Stages] /\ job \in [Callers -> Jobs]
    BY NoJobType DEF Init, Stages
<1>. QED
    BY <1>1, <1>2 DEF Init, TypeOK

(* Files, jobs, locks and counters stay well formed.                       *)
THEOREM TypeCorrect == Spec => []TypeOK
<1>1. TypeOK /\ [Next]_vars => TypeOK'
  <2>. SUFFICES ASSUME TypeOK, [Next]_vars PROVE TypeOK'
      OBVIOUS
  <2>1. CASE UNCHANGED vars
      BY <2>1 DEF vars, files, budget, TypeOK
  <2>. QED
      BY <2>1, BeginType, WorkType, OutsideType DEF Next, Outside
<1>. QED
    BY <1>1, TypeInit, PTL DEF Spec

-----------------------------------------------------------------------------
(* The invariant.                                                          *)

LEMMA InvInit == Init => IInv
<1>. SUFFICES ASSUME Init PROVE IInv
    OBVIOUS
<1>1. TypeOK
    BY TypeInit
<1>2. Held
    BY DEF Init, Held, Holding
<1>3. Covered /\ Named
    BY DEF Init, Covered, Named, Login0, Label0, Listing
<1>4. Fresh
    BY DEF Init, Fresh, Login0, Listing, Missing
<1>5. Owned
    BY DEF Init, Owned, Login0, Label0
<1>. QED
    BY <1>1, <1>2, <1>3, <1>4, <1>5 DEF IInv

(* Only one caller is at work.                                             *)
LEMMA Alone ==
    ASSUME Held, NEW c \in Callers, NEW d \in Callers,
           pc[c] \in Holding \/ lock = Nobody, pc[d] \in Holding
    PROVE  c = d
BY AssumptionsHold DEF Held

(* A load that succeeds names every account that has a file, and without   *)
(* harm no other.                                                          *)
LEMMA Loaded ==
    ASSUME IInv, ~LoadFails
    PROVE  details \subseteq Known /\ (~harmed => Known = details)
<1>1. details \subseteq Known
    BY DEF LoadFails, Known
<1>2. ASSUME ~harmed PROVE Indexed \subseteq details
    BY <1>2 DEF IInv, Fresh, Indexed, TypeOK, Indexes
<1>. QED
    BY <1>1, <1>2 DEF Known

LEMMA EndKeeps ==
    ASSUME IInv, NEW c \in Callers, End(c), UNCHANGED <<files, harmed>>
    PROVE  Held' /\ Covered' /\ Named' /\ Fresh' /\ Owned'
<1>. USE DEF End, Goto, files, IInv, TypeOK, Stages, Login0, Label0, Listing
<1>1. Held'
    BY DEF Held, Holding
<1>2. Covered' /\ Named'
    BY DEF Covered, Named
<1>3. Fresh'
    BY DEF Fresh
<1>4. Owned'
    BY DEF Owned
<1>. QED
    BY <1>1, <1>2, <1>3, <1>4

LEMMA LoginKeeps ==
    ASSUME IInv, NEW c \in Callers, NEW p \in Persons \ {Stranger}, NEW op \in {"login", "import"},
           Login(c, p, op)
    PROVE  Held' /\ Covered' /\ Named' /\ Fresh' /\ Owned'
<1>. TypeOK
    BY DEF IInv
<1>1. PICK id \in Ids, q \in Persons :
        /\ job' = [job EXCEPT ![c] = [op |-> op, id |-> id, person |-> q, ids |-> Known \cup {id}]]
        /\ id \in Readable \/ id = Generated(p)
        /\ id \in Readable => id = Generated(p) \/ Matches(person[id], p)
        /\ q.uid = IF p.uid = Unknown /\ id \in Readable THEN person[id].uid ELSE p.uid
    BY LoginJob
<1>2. /\ pc[c] = "idle" /\ lock = Nobody /\ lock' = c /\ pc' = [pc EXCEPT ![c] = "detail"]
      /\ ~LoadFails /\ UNCHANGED <<files, harmed>>
    BY DEF Login, At, Take, Goto
<1>3. /\ pc'[c] = "detail" /\ job'[c] = [op |-> op, id |-> id, person |-> q, ids |-> Known \cup {id}]
      /\ \A d \in Callers \ {c} : pc'[d] = pc[d] /\ job'[d] = job[d] /\ pc[d] \notin Holding
    BY <1>1, <1>2, AssumptionsHold DEF TypeOK, IInv, Held
<1>4. /\ details \subseteq Known
      /\ ~harmed => Known = details
    BY <1>2, Loaded
<1>5. Held'
    BY <1>2, <1>3 DEF Held, IInv, Holding
<1>6. Covered' /\ Named'
    BY <1>2, <1>3, <1>4 DEF Covered, Named, Login0, Label0, Listing, Holding, files
<1>7. Fresh'
    BY <1>2, <1>3, <1>4 DEF Fresh, IInv, Login0, Listing, Holding, files
<1>8. id \in Uids => q.uid = id
  <2>. SUFFICES ASSUME id \in Uids PROVE q.uid = id
      OBVIOUS
  <2>. id # Unknown /\ id \notin Emails
      BY AssumptionsHold DEF Ids
  <2>1. CASE id \in Readable
    <3>1. person[id].uid = id
        BY <2>1 DEF IInv, Owned, Readable
    <3>. QED
        BY <1>1, <2>1, <3>1, GeneratedType DEF Matches
  <2>2. CASE id \notin Readable
      BY <1>1, <2>2, GeneratedType
  <2>. QED
      BY <2>1, <2>2
<1>9. id \in details => Unknown \in {person[id].uid, q.uid} \/ q.uid = person[id].uid
  <2>. SUFFICES ASSUME id \in details, p.uid # Unknown, q.uid = p.uid
                PROVE  Unknown \in {person[id].uid, q.uid} \/ q.uid = person[id].uid
      BY <1>1
  <2>1. CASE id = Generated(p)
    <3>1. id = p.uid /\ id \in Uids
        BY <2>1, GeneratedType, AssumptionsHold DEF Persons
    <3>. QED
        BY <3>1 DEF IInv, Owned
  <2>2. CASE Matches(person[id], p)
      BY <2>2 DEF Matches
  <2>. QED
      BY <1>1, <2>1, <2>2
<1>10. Owned'
    BY <1>2, <1>3, <1>8, <1>9 DEF Owned, IInv, Login0, Label0, Holding, files
<1>. QED
    BY <1>5, <1>6, <1>7, <1>10

LEMMA RemoveKeeps ==
    ASSUME IInv, NEW c \in Callers, NEW id \in Ids, Remove(c, id)
    PROVE  Held' /\ Covered' /\ Named' /\ Fresh' /\ Owned'
<1>. TypeOK
    BY DEF IInv
<1>2. /\ pc[c] = "idle" /\ lock = Nobody /\ lock' = c /\ pc' = [pc EXCEPT ![c] = "backup"]
      /\ ~LoadFails /\ UNCHANGED <<files, harmed>>
    BY DEF Remove, At, Take, Goto
<1>3. /\ pc'[c] = "backup"
      /\ job'[c] = [op |-> "remove", id |-> id, person |-> Stranger, ids |-> Known \ {id}]
      /\ \A d \in Callers \ {c} : pc'[d] = pc[d] /\ job'[d] = job[d] /\ pc[d] \notin Holding
    BY <1>2, AssumptionsHold DEF TypeOK, IInv, Held, Remove
<1>4. details \subseteq Known /\ (~harmed => Known = details)
    BY <1>2, Loaded
<1>5. Held'
    BY <1>2, <1>3 DEF Held, IInv, Holding
<1>6. Covered' /\ Named'
    BY <1>2, <1>3, <1>4 DEF Covered, Named, Login0, Label0, Listing, Holding, files
<1>7. Fresh'
    BY <1>2, <1>3, <1>4 DEF Fresh, IInv, Login0, Listing, Holding, files
<1>8. Owned'
    BY <1>2, <1>3 DEF Owned, IInv, Login0, Label0, Holding, files
<1>. QED
    BY <1>5, <1>6, <1>7, <1>8

LEMMA LabelKeeps ==
    ASSUME IInv, NEW c \in Callers, NEW id \in Ids, NEW op \in {"labels", "check-in"}, Label(c, id, op)
    PROVE  Held' /\ Covered' /\ Named' /\ Fresh' /\ Owned'
<1>. TypeOK
    BY DEF IInv
<1>2. /\ lock = Nobody /\ lock' = c /\ pc' = [pc EXCEPT ![c] = "detail"]
      /\ id \in details /\ UNCHANGED <<files, harmed>>
    BY DEF Label, Take, Goto
<1>3. /\ pc'[c] = "detail"
      /\ job'[c] = [op |-> op, id |-> id, person |-> person[id], ids |-> {}]
      /\ \A d \in Callers \ {c} : pc'[d] = pc[d] /\ job'[d] = job[d] /\ pc[d] \notin Holding
    BY <1>2, AssumptionsHold DEF TypeOK, IInv, Held, Label
<1>5. Held'
    BY <1>2, <1>3 DEF Held, IInv, Holding
<1>6. Covered' /\ Named'
    BY <1>2, <1>3 DEF Covered, Named, Login0, Label0, Listing, Holding, files
<1>7. Fresh'
    BY <1>2, <1>3 DEF Fresh, IInv, Login0, Listing, Holding, files
<1>8. Owned'
    BY <1>2, <1>3 DEF Owned, IInv, Login0, Label0, Holding, files
<1>. QED
    BY <1>5, <1>6, <1>7, <1>8

LEMMA WriteDetailKeeps ==
    ASSUME IInv, NEW c \in Callers, WriteDetail(c)
    PROVE  Held' /\ Covered' /\ Named' /\ Fresh' /\ Owned'
<1>. TypeOK
    BY DEF IInv
<1>. DEFINE id == job[c].id
<1>1. /\ pc[c] = "detail" /\ lock = c /\ id \in Ids
      /\ \A d \in Callers \ {c} : pc[d] \notin Holding
    BY Alone DEF WriteDetail, At, IInv, Held, Holding, TypeOK, Jobs
<1>2. CASE UNCHANGED <<details, person>> /\ End(c)
    BY <1>2, EndKeeps DEF WriteDetail, files
<1>3. ASSUME details' = details \cup {id}, person' = [person EXCEPT ![id] = job[c].person],
             \/ job[c].op = "check-in" /\ pc' = [pc EXCEPT ![c] = "idle"] /\ job' = [job EXCEPT ![c] = NoJob]
                /\ lock' = Nobody
             \/ job[c].op = "labels" /\ pc' = [pc EXCEPT ![c] = "load"] /\ UNCHANGED <<lock, job>>
             \/ job[c].op \in {"login", "import"} /\ pc' = [pc EXCEPT ![c] = "backup"] /\ UNCHANGED <<lock, job>>
      PROVE  Held' /\ Covered' /\ Named' /\ Fresh' /\ Owned'
  <2>. UNCHANGED <<index, bak, harmed>>
      BY DEF WriteDetail
  <2>0. \A d \in Callers \ {c} : pc'[d] = pc[d] /\ job'[d] = job[d]
      BY <1>3 DEF TypeOK
  <2>1. Held'
      BY <1>1, <1>3, <2>0 DEF Held, IInv, Holding, TypeOK
  <2>2. Covered' /\ Named'
      BY <1>1, <1>3, <2>0 DEF Covered, Named, IInv, Holding, TypeOK, Login0, Label0, Listing, Fresh, Held
  <2>3. Fresh'
      BY <1>1, <1>3, <2>0 DEF Fresh, IInv, Holding, TypeOK, Login0, Label0, Listing
  <2>4. Owned'
      BY <1>1, <1>3, <2>0 DEF Owned, IInv, Holding, TypeOK, Login0, Label0, Named
  <2>. QED
      BY <2>1, <2>2, <2>3, <2>4
<1>4. job[c].op \in {"login", "import", "labels", "check-in"}
    BY <1>1 DEF IInv, Held
<1>. QED
    BY <1>1, <1>2, <1>3, <1>4 DEF WriteDetail, End, Goto

LEMMA LoadKeeps ==
    ASSUME IInv, NEW c \in Callers, Load(c)
    PROVE  Held' /\ Covered' /\ Named' /\ Fresh' /\ Owned'
<1>. TypeOK
    BY DEF IInv
<1>1. /\ pc[c] = "load" /\ lock = c
      /\ \A d \in Callers \ {c} : pc[d] \notin Holding
    BY Alone DEF Load, At, IInv, Held, Holding
<1>2. CASE LoadFails
    BY <1>2, EndKeeps DEF Load, files
<1>3. CASE ~LoadFails
  <2>. UNCHANGED <<files, lock, harmed>>
      BY <1>3 DEF Load
  <2>0. /\ pc'[c] = "backup" /\ job'[c] = [job[c] EXCEPT !.ids = Known \cup {job[c].id}]
        /\ \A d \in Callers \ {c} : pc'[d] = pc[d] /\ job'[d] = job[d]
      BY <1>3 DEF Load, Goto, TypeOK
  <2>1. /\ job'[c].ids = Known \cup {job[c].id} /\ job'[c].op = job[c].op /\ job'[c].id = job[c].id
      BY <2>0 DEF TypeOK, Jobs
  <2>2. details \subseteq Known /\ (~harmed => Known = details)
      BY <1>3, Loaded
  <2>3. Held'
      BY <1>1, <2>0, <2>1 DEF Held, IInv, Holding
  <2>4. Covered' /\ Named'
      BY <1>1, <2>0, <2>1, <2>2 DEF Covered, Named, IInv, Held, Holding, Login0, Label0, Listing, files
  <2>5. Fresh'
      BY <1>1, <2>0, <2>1, <2>2 DEF Fresh, IInv, Holding, Login0, Listing, files
  <2>6. Owned'
      BY <1>1, <2>0 DEF Owned, IInv, Holding, Login0, Label0, files
  <2>. QED
      BY <2>3, <2>4, <2>5, <2>6
<1>. QED
    BY <1>2, <1>3

LEMMA BackupKeeps ==
    ASSUME IInv, NEW c \in Callers, Backup(c)
    PROVE  Held' /\ Covered' /\ Named' /\ Fresh' /\ Owned'
<1>. TypeOK
    BY DEF IInv
<1>1. CASE UNCHANGED bak /\ End(c)
    BY <1>1, EndKeeps DEF Backup, files
<1>2. CASE Goto(c, "index") /\ UNCHANGED <<lock, job>> /\ bak' = IF index.state = "good" THEN index ELSE bak
  <2>. UNCHANGED <<index, details, person, harmed>> /\ pc[c] = "backup"
      BY DEF Backup, At
  <2>0. pc'[c] = "index" /\ \A d \in Callers \ {c} : pc'[d] = pc[d]
      BY <1>2 DEF Goto, TypeOK
  <2>1. Held'
      BY <1>2, <2>0 DEF Held, IInv, Holding
  <2>2. Covered' /\ Named'
      BY <1>2, <2>0 DEF Covered, Named, IInv, Login0, Label0, Listing
  <2>3. Fresh'
      BY <1>2, <2>0 DEF Fresh, IInv, Login0, Listing
  <2>4. Owned'
      BY <1>2, <2>0 DEF Owned, IInv, Login0, Label0
  <2>. QED
      BY <2>1, <2>2, <2>3, <2>4
<1>. QED
    BY <1>1, <1>2 DEF Backup

LEMMA WriteIndexKeeps ==
    ASSUME IInv, NEW c \in Callers, WriteIndex(c)
    PROVE  Held' /\ Covered' /\ Named' /\ Fresh' /\ Owned'
<1>. TypeOK
    BY DEF IInv
<1>1. /\ pc[c] = "index" /\ lock = c
      /\ \A d \in Callers \ {c} : pc[d] \notin Holding
    BY Alone DEF WriteIndex, At, IInv, Held, Holding
<1>2. CASE UNCHANGED index /\ End(c)
    BY <1>2, EndKeeps DEF WriteIndex, files
<1>3. ASSUME index' = Good(job[c].ids),
             \/ /\ job[c].op = "remove" /\ pc' = [pc EXCEPT ![c] = "delete"] /\ UNCHANGED <<lock, job>>
             \/ /\ job[c].op = "import" /\ pc' = [pc EXCEPT ![c] = "merge"] /\ UNCHANGED job /\ lock' = Nobody
             \/ /\ job[c].op \notin {"remove", "import"} /\ pc' = [pc EXCEPT ![c] = "idle"]
                /\ job' = [job EXCEPT ![c] = NoJob] /\ lock' = Nobody
      PROVE  Held' /\ Covered' /\ Named' /\ Fresh' /\ Owned'
  <2>. UNCHANGED <<bak, details, person, harmed>>
      BY DEF WriteIndex
  <2>0. \A d \in Callers \ {c} : pc'[d] = pc[d] /\ job'[d] = job[d]
      BY <1>3 DEF TypeOK
  <2>1. Held'
      BY <1>1, <1>3, <2>0 DEF Held, IInv, Holding, TypeOK
  <2>2. Covered' /\ Named'
      BY <1>1, <1>3, <2>0 DEF Covered, Named, IInv, Holding, TypeOK, Login0, Label0, Listing
  <2>3. Fresh'
    <3>1. ~harmed => job[c].ids \subseteq details
        BY <1>1 DEF IInv, Fresh, Named, Listing
    <3>2. job[c].op = "remove" => job[c].id \notin job[c].ids
        BY <1>1 DEF IInv, Named, Listing
    <3>. QED
        BY <1>1, <1>3, <2>0, <3>1, <3>2 DEF Fresh, IInv, Holding, TypeOK, Login0, Listing, Good
  <2>4. Owned'
      BY <1>1, <1>3, <2>0 DEF Owned, IInv, Holding, TypeOK, Login0, Label0
  <2>. QED
      BY <2>1, <2>2, <2>3, <2>4
<1>. QED
    BY <1>1, <1>2, <1>3 DEF WriteIndex, End, Goto

LEMMA DeleteKeeps ==
    ASSUME IInv, NEW c \in Callers, Delete(c)
    PROVE  Held' /\ Covered' /\ Named' /\ Fresh' /\ Owned'
<1>. TypeOK
    BY DEF IInv
<1>. DEFINE id == job[c].id
<1>1. /\ pc[c] = "delete" /\ lock = c /\ id \in Ids
      /\ \A d \in Callers \ {c} : pc[d] \notin Holding
    BY Alone DEF Delete, At, IInv, Held, Holding, TypeOK, Jobs
<1>2. CASE UNCHANGED <<details, person>>
    BY <1>2, EndKeeps DEF Delete, files
<1>3. CASE details' = details \ {id} /\ person' = [person EXCEPT ![id] = Stranger]
  <2>. UNCHANGED <<index, bak, harmed>>
      BY DEF Delete
  <2>0. /\ pc'[c] = "idle" /\ lock' = Nobody
        /\ \A d \in Callers \ {c} : pc'[d] = pc[d] /\ job'[d] = job[d]
      BY <1>1 DEF Delete, End, Goto, TypeOK
  <2>1. Held'
      BY <1>1, <2>0 DEF Held, IInv, Holding
  <2>2. Covered' /\ Named'
      BY <1>1, <2>0 DEF Covered, Named, Holding, Login0, Label0, Listing
  <2>3. Fresh'
      BY <1>1, <1>3, <2>0 DEF Fresh, IInv, Holding, Login0, Listing
  <2>4. Owned'
      BY <1>1, <1>3, <2>0 DEF Owned, IInv, Holding, Login0, Label0, TypeOK, Ids
  <2>. QED
      BY <2>1, <2>2, <2>3, <2>4
<1>. QED
    BY <1>2, <1>3 DEF Delete

LEMMA OutsideKeeps ==
    ASSUME IInv, Outside \/ UNCHANGED vars
    PROVE  Held' /\ Covered' /\ Named' /\ Fresh' /\ Owned'
<1>. USE DEF IInv, Login0, Label0, Listing, Holding
<1>1. CASE Restart
    BY <1>1 DEF Restart, Held, Covered, Named, Fresh, Owned, files
<1>2. CASE UNCHANGED <<index, bak, details, person, lock, pc, job, harmed>>
    BY <1>2 DEF Held, Covered, Named, Fresh, Owned
<1>3. CASE Damage
    BY <1>3 DEF Damage, Held, Covered, Named, Fresh, Owned
<1>. QED
    BY <1>1, <1>2, <1>3 DEF Outside, Obstruct, Clear, vars, files

LEMMA InvNext == IInv /\ [Next]_vars => IInv'
<1>. SUFFICES ASSUME IInv, [Next]_vars PROVE IInv'
    OBVIOUS
<1>1. TypeOK'
    BY BeginType, WorkType, OutsideType DEF Next, Outside, IInv, vars, files, budget, TypeOK
<1>2. ASSUME NEW c \in Callers, Begin(c) PROVE Held' /\ Covered' /\ Named' /\ Fresh' /\ Owned'
    BY <1>2, LoginKeeps, RemoveKeeps, LabelKeeps DEF Begin
<1>3. ASSUME NEW c \in Callers, Work(c) PROVE Held' /\ Covered' /\ Named' /\ Fresh' /\ Owned'
  <2>1. MergeFails(c) => End(c) /\ UNCHANGED <<files, harmed>>
      BY DEF MergeFails
  <2>. QED
      BY <1>3, <2>1, EndKeeps, WriteDetailKeeps, LoadKeeps, BackupKeeps, WriteIndexKeeps, DeleteKeeps DEF Work
<1>. QED
    BY <1>1, <1>2, <1>3, OutsideKeeps DEF Next, Outside, IInv

LEMMA Invariance == Spec => []IInv
BY InvInit, InvNext, PTL DEF Spec

-----------------------------------------------------------------------------
(* What follows from it.                                                   *)

(* Wherever a write fails or the application ends, the list of accounts    *)
(* can be read and is complete, while nothing harms the index from outside.*)
THEOREM ListCorrect == Spec => []ListSucceeds
<1>1. IInv => ListSucceeds
  <2>. SUFFICES ASSUME IInv, ~harmed, unreadable = {}
                PROVE  ListReturns /\ Known = details
      BY DEF ListSucceeds
  <2>1. ~LoadFails
      BY DEF LoadFails, IInv, Fresh
  <2>. QED
      BY <2>1, Loaded DEF ListReturns
<1>. QED
    BY <1>1, Invariance, PTL

(* No incomplete index is written, whatever is damaged or unreadable.      *)
THEOREM NothingDroppedCorrect == Spec => NothingDropped
<1>1. IInv /\ [Next]_vars =>
        [index' # index /\ index'.state = "good" =>
          \A id \in details \ index'.ids :
              \E c \in Callers : At(c, "index") /\ job[c].op = "remove" /\ job[c].id = id]_vars
  <2>. SUFFICES ASSUME IInv, Next, index' # index, index'.state = "good", NEW id \in details \ index'.ids
                PROVE  \E c \in Callers : At(c, "index") /\ job[c].op = "remove" /\ job[c].id = id
      OBVIOUS
  <2>1. PICK c \in Callers : WriteIndex(c)
    <3>1. ~Damage
        BY DEF Damage, Garbled, Missing
    <3>. QED
        BY <3>1 DEF Next, Begin, Login, Label, Remove, Work, WriteDetail, Load, Backup, Delete, MergeFails,
             Restart, Obstruct, Clear, files
  <2>2. index'.ids = job[c].ids /\ At(c, "index")
      BY <2>1 DEF WriteIndex, Good
  <2>3. id = job[c].id
      BY <2>2 DEF IInv, Covered, Listing, At
  <2>4. job[c].op = "remove"
      BY <2>2, <2>3 DEF IInv, Named, Listing, At
  <2>. QED
      BY <2>2, <2>3, <2>4
<1>. QED
    BY <1>1, Invariance, PTL DEF Spec, NothingDropped

(* A stored uid is never replaced by another.                              *)
THEOREM UidKeptCorrect == Spec => UidKept
<1>1. IInv /\ [Next]_vars =>
        [\A id \in details \cap details' :
          Unknown \in {person[id].uid, person'[id].uid} \/ person'[id].uid = person[id].uid]_vars
  <2>. SUFFICES ASSUME IInv, Next, NEW id \in details \cap details', person'[id] # person[id]
                PROVE  Unknown \in {person[id].uid, person'[id].uid} \/ person'[id].uid = person[id].uid
      OBVIOUS
  <2>. TypeOK
      BY DEF IInv
  <2>1. PICK c \in Callers : WriteDetail(c) \/ Delete(c)
      BY DEF Next, Begin, Login, Label, Remove, Work, Load, Backup, WriteIndex, MergeFails,
             Damage, Restart, Obstruct, Clear, files
  <2>2. ~Delete(c)
      BY DEF Delete, TypeOK
  <2>3. id = job[c].id /\ person'[id] = job[c].person /\ pc[c] = "detail"
      BY <2>1, <2>2 DEF WriteDetail, TypeOK, At
  <2>4. Login0(c) \/ Label0(c)
      BY <2>3 DEF IInv, Held, Login0, Label0
  <2>. QED
      BY <2>3, <2>4 DEF IInv, Owned
<1>. QED
    BY <1>1, Invariance, PTL DEF Spec, UidKept

Refined == [c \in Callers |-> Asked(c)]

LEMMA RefinementInit == Init => Set!Init
BY DEF Init, Set!Init, Set!Nothing, Asked

(* A step of one caller changes its request alone.                         *)
LEMMA OneAsks ==
    ASSUME TypeOK, NEW c \in Callers,
           \A d \in Callers \ {c} : pc'[d] = pc[d] /\ job'[d] = job[d]
    PROVE  Refined' = [Refined EXCEPT ![c] = Asked(c)']
BY DEF Refined, Asked

LEMMA EndIsDone ==
    ASSUME TypeOK, NEW c \in Callers, End(c), details' = details
    PROVE  Set!Done(c)
<1>1. pc'[c] = "idle" /\ \A d \in Callers \ {c} : pc'[d] = pc[d] /\ job'[d] = job[d]
    BY DEF End, Goto, TypeOK
<1>2. Asked(c)' = Set!Nothing
    BY <1>1 DEF Asked, Set!Nothing
<1>. QED
    BY <1>1, <1>2, OneAsks DEF Set!Done, Refined

LEMMA AskRefined ==
    ASSUME TypeOK, NEW c \in Callers, pc[c] = "idle", pc'[c] \in Holding, details' = details,
           \A d \in Callers \ {c} : pc'[d] = pc[d] /\ job'[d] = job[d],
           job'[c].op \in {"login", "import", "labels", "check-in", "remove"}, job'[c].id \in Ids
    PROVE  \E r \in Set!Requests : Set!Ask(c, r)
<1>1. Asked(c)' \in Set!Requests
    BY DEF Asked, Set!Requests, Holding
<1>2. Refined' = [Refined EXCEPT ![c] = Asked(c)']
    BY OneAsks
<1>3. Refined[c] = Set!Nothing
    BY DEF Refined, Asked, Set!Nothing
<1>4. Set!Ask(c, Asked(c)')
    BY <1>2, <1>3 DEF Set!Ask, Refined
<1>. QED
    BY <1>1, <1>4

LEMMA BeginRefined ==
    ASSUME IInv, NEW c \in Callers, Begin(c)
    PROVE  Set!Next \/ UNCHANGED <<details, Refined>>
<1>. TypeOK /\ details' = details
    BY DEF IInv, Begin, Login, Label, Remove, files
<1>1. ASSUME NEW p \in Persons \ {Stranger}, NEW op \in {"login", "import"}, Login(c, p, op)
      PROVE  Set!Next
  <2>1. pc[c] = "idle" /\ pc' = [pc EXCEPT ![c] = "detail"]
      BY <1>1 DEF Login, At, Take, Goto
  <2>2. job'[c].op = op /\ job'[c].id \in Ids /\ \A d \in Callers \ {c} : job'[d] = job[d]
      BY <1>1, LoginJob DEF TypeOK
  <2>. QED
      BY <2>1, <2>2, AskRefined DEF TypeOK, Holding, Set!Next
<1>2. ASSUME NEW id \in Ids, Remove(c, id) PROVE Set!Next
    BY <1>2, AskRefined DEF Remove, At, Take, Goto, TypeOK, Holding, Set!Next
<1>3. ASSUME NEW id \in Ids, NEW op \in {"labels", "check-in"}, Label(c, id, op)
      PROVE  Set!Next \/ UNCHANGED <<details, Refined>>
  <2>1. /\ pc'[c] = "detail" /\ job'[c].op = op /\ job'[c].id = id
        /\ \A d \in Callers \ {c} : pc'[d] = pc[d] /\ job'[d] = job[d]
      BY <1>3 DEF Label, Take, Goto, TypeOK
  <2>2. CASE At(c, "idle")
      BY <2>1, <2>2, AskRefined DEF At, Holding, Set!Next
  <2>3. CASE At(c, "merge") /\ id = job[c].id
    <3>1. job[c].op = "import"
        BY <2>3 DEF IInv, Held, At
    <3>2. Asked(c)' = Asked(c)
        BY <2>1, <2>3, <3>1 DEF Asked, At
    <3>. QED
        BY <2>1, <3>2, OneAsks DEF Refined
  <2>. QED
      BY <1>3, <2>2, <2>3 DEF Label
<1>. QED
    BY <1>1, <1>2, <1>3 DEF Begin

LEMMA WorkRefined ==
    ASSUME IInv, NEW c \in Callers, Work(c)
    PROVE  Set!Next \/ UNCHANGED <<details, Refined>>
<1>. TypeOK
    BY DEF IInv
<1>0. ASSUME End(c), details' = details PROVE Set!Next
    BY <1>0, EndIsDone DEF Set!Next
<1>1. CASE WriteDetail(c)
  <2>. DEFINE id == job[c].id
  <2>1. pc[c] = "detail" /\ job[c].op \in {"login", "import", "labels", "check-in"}
      BY <1>1 DEF WriteDetail, At, IInv, Held
  <2>2. CASE End(c) /\ details' = details
      BY <1>0, <2>2
  <2>3. CASE job[c].op \in {"labels", "check-in"} /\ details' = details \cup {id}
    <3>1. details' = details
        BY <2>1, <2>3 DEF IInv, Named, Label0
    <3>2. CASE job[c].op = "labels" /\ pc' = [pc EXCEPT ![c] = "load"] /\ UNCHANGED job
        BY <2>1, <3>1, <3>2 DEF Refined, Asked, TypeOK
    <3>. QED
        BY <1>0, <1>1, <2>3, <3>1, <3>2 DEF WriteDetail, Goto
  <2>4. CASE job[c].op \in {"login", "import"} /\ details' = details \cup {id}
                /\ pc' = [pc EXCEPT ![c] = "backup"] /\ UNCHANGED job
    <3>1. Refined' = Refined
        BY <2>1, <2>4 DEF Refined, Asked, TypeOK
    <3>2. Refined[c].op = "login" /\ Refined[c].id = id
        BY <2>1, <2>4 DEF Refined, Asked
    <3>3. Set!Add(c)
        BY <2>4, <3>1, <3>2 DEF Set!Add, Refined
    <3>. QED
        BY <3>3 DEF Set!Next
  <2>. QED
      BY <1>1, <2>1, <2>2, <2>3, <2>4 DEF WriteDetail, Goto
<1>2. CASE Load(c)
  <2>1. CASE LoadFails
      BY <1>0, <1>2, <2>1 DEF Load, files
  <2>2. CASE ~LoadFails
    <3>1. /\ pc[c] = "load" /\ pc'[c] = "backup" /\ job'[c].op = job[c].op /\ job'[c].id = job[c].id
          /\ details' = details
          /\ \A d \in Callers \ {c} : pc'[d] = pc[d] /\ job'[d] = job[d]
        BY <1>2, <2>2 DEF Load, Goto, At, TypeOK, Jobs, files
    <3>2. Asked(c)' = Asked(c)
        BY <3>1 DEF Asked
    <3>. QED
        BY <3>1, <3>2, OneAsks DEF Refined
  <2>. QED
      BY <2>1, <2>2
<1>3. CASE Backup(c)
  <2>1. CASE End(c)
      BY <1>0, <1>3, <2>1 DEF Backup
  <2>2. CASE Goto(c, "index") /\ UNCHANGED job
      BY <1>3, <2>2 DEF Backup, Goto, At, Refined, Asked, TypeOK
  <2>. QED
      BY <1>3, <2>1, <2>2 DEF Backup
<1>4. CASE WriteIndex(c)
  <2>0. details' = details /\ pc[c] = "index"
      BY <1>4 DEF WriteIndex, At
  <2>1. CASE End(c)
      BY <1>0, <2>0, <2>1
  <2>2. CASE job[c].op = "remove" /\ Goto(c, "delete") /\ UNCHANGED job
      BY <2>0, <2>2 DEF Goto, Refined, Asked, TypeOK
  <2>3. CASE job[c].op = "import" /\ Goto(c, "merge") /\ UNCHANGED job
    <3>1. \A d \in Callers \ {c} : pc'[d] = pc[d] /\ job'[d] = job[d]
        BY <2>3 DEF Goto, TypeOK
    <3>2. Asked(c) = [op |-> "login", id |-> job[c].id] /\ Asked(c)' = [op |-> "labels", id |-> job[c].id]
        BY <2>0, <2>3 DEF Goto, Asked, TypeOK
    <3>3. Refined' = [Refined EXCEPT ![c].op = "labels"] /\ Refined[c].op = "login"
        BY <3>1, <3>2, OneAsks DEF Refined
    <3>. QED
        BY <2>0, <3>3 DEF Set!Label, Set!Next, Refined
  <2>. QED
      BY <1>4, <2>1, <2>2, <2>3 DEF WriteIndex
<1>5. CASE Delete(c)
  <2>1. CASE details' = details
      BY <1>0, <1>5, <2>1 DEF Delete
  <2>2. CASE details' = details \ {job[c].id}
    <3>1. job[c].op = "remove" /\ pc[c] = "delete"
        BY <1>5 DEF Delete, At, IInv, Held
    <3>2. Refined[c] = [op |-> "remove", id |-> job[c].id]
        BY <3>1 DEF Refined, Asked
    <3>3. pc'[c] = "idle" /\ \A d \in Callers \ {c} : pc'[d] = pc[d] /\ job'[d] = job[d]
        BY <1>5 DEF Delete, End, Goto, TypeOK
    <3>4. Refined' = [Refined EXCEPT ![c] = Set!Nothing]
        BY <3>3, OneAsks DEF Asked, Set!Nothing
    <3>5. Refined[c].op = "remove" /\ details' = details \ {Refined[c].id}
        BY <2>2, <3>2
    <3>6. Set!Remove(c)
        BY <3>4, <3>5 DEF Set!Remove, Refined
    <3>. QED
        BY <3>6 DEF Set!Next
  <2>. QED
      BY <1>5, <2>1, <2>2 DEF Delete
<1>6. CASE MergeFails(c)
    BY <1>0, <1>6 DEF MergeFails, files
<1>. QED
    BY <1>1, <1>2, <1>3, <1>4, <1>5, <1>6 DEF Work

LEMMA RefinementNext == IInv /\ [Next]_vars => [Set!Next]_<<details, Refined>>
<1>. SUFFICES ASSUME IInv, [Next]_vars PROVE Set!Next \/ UNCHANGED <<details, Refined>>
    OBVIOUS
<1>1. CASE Restart
    BY <1>1 DEF Restart, Set!Next, Set!Restart, Set!Nothing, Asked, files
<1>2. CASE UNCHANGED <<details, pc, job>>
    BY <1>2 DEF Refined, Asked
<1>. QED
    BY <1>1, <1>2, BeginRefined, WorkRefined DEF Next, Damage, Obstruct, Clear, vars, files

(* The files implement a set of accounts, to which logins add and from     *)
(* which removals take: each step of a job is a step of AccountSet or none.*)
THEOREM SetImplemented == Spec => ImplementsSet
<1>1. IInv /\ [Next]_vars => [Set!Next]_<<details, [c \in Callers |-> Asked(c)]>>
    BY RefinementNext DEF Refined
<1>. QED
    BY <1>1, RefinementInit, Invariance, PTL DEF Spec, ImplementsSet, Set!Spec
=============================================================================
