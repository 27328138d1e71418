-------------------------- MODULE MigrationProofs --------------------------
(***************************************************************************)
(* Proofs about Migration for any number of processes that start, fail and *)
(* die as they like, on any database a release may find, with a later      *)
(* release that may come at any time.                                      *)
(***************************************************************************)
EXTENDS Migration, TLAPS

\* What the transaction that makes everything sees on its way.
Made     == [objects |-> {"users", "birth"}, versions |-> {1}]
MadeJobs == [objects |-> {"users", "birth", "jobs"}, versions |-> {1, 2}]

\* What each step of a transaction rests on.
ViewOK(p) ==
    /\ step[p] = "create" => db = Empty /\ view[p] = Empty
    /\ step[p] = "jobs"   => \/ db = Empty /\ view[p] = Made
                             \/ db = First /\ view[p] = First
    /\ step[p] = "birth"  => \/ db = Empty /\ view[p] = MadeJobs
                             \/ db \in {First, Second} /\ view[p] = Second
    /\ step[p] = "commit" => db # Later /\ view[p] = Current
    /\ step[p] = "done"   => view[p] = Current /\ db \in {Current, Later}
    /\ step[p] # "conflict"

MInv == MigrationTypeOK /\ OneMigrator /\ \A p \in Processes : ViewOK(p)

-----------------------------------------------------------------------------
(* Data. *)

\* The five databases are well-formed, and so is what leads to them.
LEMMA DatabasesType ==
    /\ {Empty, First, Second, Current, Later, Made, MadeJobs} \subseteq Database
BY DEF Empty, First, Second, Current, Later, Made, MadeJobs, Database, Objects

\* Which of them has which version.
LEMMA VersionFacts ==
    /\ ~AtLeast(First, 2) /\ AtLeast(Second, 2) /\ ~AtLeast(Second, 3)
    /\ AtLeast(Current, 2) /\ AtLeast(Current, 3) /\ ~AtLeast(Current, 4)
    /\ ~AtLeast(First, 4) /\ ~AtLeast(Second, 4) /\ AtLeast(Later, 4)
BY DEF AtLeast, First, Second, Current, Later

\* Which of them has tables.
LEMMA TableFacts ==
    /\ "users" \notin Empty.objects
    /\ \A d \in {First, Second, Current, Later} : "users" \in d.objects
BY DEF Empty, First, Second, Current, Later

\* A statement that adds what is not there succeeds.
LEMMA AddsSucceeds ==
    ASSUME NEW p \in Processes, NEW new, NEW version, NEW to,
           Adds(p, new, version, to),
           new \cap (db.objects \cup view[p].objects) = {},
           version \notin db.versions \cup view[p].versions,
           view \in [Processes -> Database]
    PROVE  /\ Goes(p, to)
           /\ view' = [view EXCEPT ![p] = [objects  |-> view[p].objects \cup new,
                                           versions |-> view[p].versions \cup {version}]]
           /\ UNCHANGED <<db, holder>>
BY DEF Adds

-----------------------------------------------------------------------------
(* MInv is inductive. *)

LEMMA MigrationInitInv == MigrationInit => MInv
<1> SUFFICES ASSUME MigrationInit PROVE MInv
  OBVIOUS
<1>1. db \in {Empty, First, Second, Current, Later} /\ db \in Database
  BY DatabasesAssumption, DatabasesType DEF MigrationInit
<1>2. MigrationTypeOK
  BY <1>1 DEF MigrationInit, MigrationTypeOK, Ends
<1> QED
  BY <1>2 DEF MigrationInit, MInv, OneMigrator, ViewOK, Locked

\* A process that holds the lock, or lets it go, does not disturb the others:
\* they are not between the lock and the end of a transaction.
LEMMA OthersKeep ==
    ASSUME MInv, NEW p \in Processes, NEW q \in Processes, q # p,
           step'[q] = step[q], view'[q] = view[q],
           db' = db \/ (holder = p /\ db # Later /\ db' = Current),
           holder' = holder \/ (holder = p /\ holder' \in {Nobody, Ghost})
             \/ (holder = Nobody /\ holder' = p)
    PROVE  /\ step'[q] \in Locked => holder' = q
           /\ ViewOK(q)'
<1>1. step[q] \in Locked => holder = q
  BY DEF MInv, OneMigrator
<1>2. q # Nobody /\ q # Ghost /\ p # Nobody /\ p # Ghost
  BY MigrationAssumption
<1>3. step'[q] \in Locked => holder' = q
  BY <1>1, <1>2
<1>6. ViewOK(q)
  BY DEF MInv
<1>4. CASE db' = db
  BY <1>3, <1>4, <1>6 DEF ViewOK
<1>5. CASE holder = p /\ db' = Current
  <2>1. step[q] \notin Locked
    BY <1>1, <1>5
  <2> QED
    BY <1>3, <1>5, <1>6, <2>1 DEF ViewOK, Locked
<1> QED
  BY <1>4, <1>5

\* A step of p keeps MInv if it keeps the types and p's own part.
LEMMA StepKeeps ==
    ASSUME MInv, NEW p \in Processes, NEW to, Goes(p, to),
           MigrationTypeOK',
           to \in Locked => holder' = p,
           ViewOK(p)',
           \A q \in Processes : q # p => view'[q] = view[q],
           db' = db \/ (holder = p /\ db # Later /\ db' = Current),
           holder' = holder \/ (holder = p /\ holder' \in {Nobody, Ghost})
             \/ (holder = Nobody /\ holder' = p)
    PROVE  MInv'
<1>1. step \in [Processes -> Steps \cup Ends]
  BY DEF MInv, MigrationTypeOK
<1>2. step'[p] = to /\ \A q \in Processes : q # p => step'[q] = step[q]
  BY <1>1 DEF Goes
<1>3. ASSUME NEW q \in Processes, q # p
      PROVE  (step'[q] \in Locked => holder' = q) /\ ViewOK(q)'
  BY <1>2, <1>3, OthersKeep
<1>4. OneMigrator'
  BY <1>2, <1>3 DEF OneMigrator
<1>5. \A q \in Processes : ViewOK(q)'
  BY <1>3
<1> QED
  BY <1>4, <1>5 DEF MInv

\* What the proofs of the steps begin with.
LEMMA Facts ==
    ASSUME MInv, NEW p \in Processes
    PROVE  /\ db \in {Empty, First, Second, Current, Later}
           /\ holder \in Processes \cup {Nobody, Ghost}
           /\ step \in [Processes -> Steps \cup Ends]
           /\ view \in [Processes -> Database]
           /\ step[p] \in Locked => holder = p
           /\ ViewOK(p)
BY DEF MInv, MigrationTypeOK, OneMigrator

\* Steps that leave the database alone.
LEMMA WaitInv ==
    ASSUME MInv, NEW p \in Processes, Enter(p) \/ Begin(p) \/ TakeLock(p)
    PROVE  MInv'
<1>1. PICK to \in {"begin", "waiting", "check"} :
        /\ Goes(p, to)
        /\ to = "check" => holder = Nobody /\ holder' = p
        /\ to # "check" => holder' = holder
        /\ UNCHANGED <<db, view>>
  BY DEF Enter, Begin, TakeLock
<1>2. step'[p] = to
  BY <1>1, Facts DEF Goes
<1>3. MigrationTypeOK'
  BY <1>1, Facts DEF MigrationTypeOK, Goes, Steps
<1>4. ViewOK(p)'
  BY <1>2 DEF ViewOK
<1> QED
  BY <1>1, <1>3, <1>4, StepKeeps DEF Locked

\* The look at the schema.
LEMMA CheckInv ==
    ASSUME MInv, NEW p \in Processes, CheckSchema(p)
    PROVE  MInv'
<1>1. /\ db \in {Empty, First, Second, Current, Later} /\ db \in Database
      /\ holder = p /\ db' = db
      /\ view' = [view EXCEPT ![p] = db]
  BY Facts, DatabasesType DEF CheckSchema, Locked
<1>2. PICK to \in {"create", "unsupported", "jobs", "birth", "commit"} :
        /\ Goes(p, to)
        /\ IF to = "unsupported" THEN holder' = Nobody ELSE holder' = holder
        /\ to = "create" => db = Empty
        /\ to = "jobs"   => db = First
        /\ to = "birth"  => db = Second
        /\ to = "commit" => db = Current
  <2>1. CASE db = Empty
    BY <1>1, <2>1, TableFacts DEF CheckSchema
  <2>2. CASE db = First
    BY <1>1, <2>2, TableFacts, VersionFacts DEF CheckSchema, Supported, Pending
  <2>3. CASE db = Second
    BY <1>1, <2>3, TableFacts, VersionFacts DEF CheckSchema, Supported, Pending
  <2>4. CASE db = Current
    BY <1>1, <2>4, TableFacts, VersionFacts DEF CheckSchema, Supported, Pending
  <2>5. CASE db = Later
    BY <1>1, <2>5, TableFacts, VersionFacts DEF CheckSchema, Supported, Frees
  <2> QED
    BY <1>1, <2>1, <2>2, <2>3, <2>4, <2>5
<1>3. step'[p] = to /\ view'[p] = db /\ \A q \in Processes : q # p => view'[q] = view[q]
  BY <1>1, <1>2, Facts DEF Goes
<1>4. MigrationTypeOK'
  BY <1>1, <1>2, Facts DEF MigrationTypeOK, Goes, Steps, Ends
<1>5. ViewOK(p)'
  <2>1. Current # Later
    BY VersionFacts
  <2> QED
    BY <1>1, <1>2, <1>3, <2>1 DEF ViewOK
<1> QED
  BY <1>1, <1>2, <1>3, <1>4, <1>5, StepKeeps DEF Locked

\* A statement of the migration that succeeds.
LEMMA StatementInv ==
    ASSUME MInv, NEW p \in Processes,
           NEW to \in {"jobs", "birth", "commit"}, NEW seen \in Database,
           Goes(p, to), view' = [view EXCEPT ![p] = seen],
           UNCHANGED <<db, holder>>, holder = p,
           to = "jobs"   => db = Empty /\ seen = Made,
           to = "birth"  => (db = Empty /\ seen = MadeJobs) \/ (db = First /\ seen = Second),
           to = "commit" => db # Later /\ seen = Current
    PROVE  MInv'
<1>1. step'[p] = to /\ view'[p] = seen /\ \A q \in Processes : q # p => view'[q] = view[q]
  BY Facts DEF Goes
<1>2. MigrationTypeOK'
  BY Facts DEF MigrationTypeOK, Goes, Steps
<1>3. ViewOK(p)'
  BY <1>1 DEF ViewOK
<1> QED
  BY <1>1, <1>2, <1>3, StepKeeps

\* The statements find nothing in their way.
LEMMA ChangesInv ==
    ASSUME MInv, NEW p \in Processes, CreateSchema(p) \/ AddJobs(p) \/ AddBirthDate(p)
    PROVE  MInv'
<1>0. holder = p /\ view \in [Processes -> Database] /\ ViewOK(p)
  BY Facts DEF CreateSchema, AddJobs, AddBirthDate, Locked
<1>1. CASE CreateSchema(p)
  <2>1. db = Empty /\ view[p] = Empty
    BY <1>0, <1>1 DEF CreateSchema, ViewOK
  <2>2. /\ {"users", "birth"} \cap (db.objects \cup view[p].objects) = {}
        /\ 1 \notin db.versions \cup view[p].versions
    BY <2>1 DEF Empty
  <2>3. /\ Goes(p, "jobs") /\ UNCHANGED <<db, holder>>
        /\ view' = [view EXCEPT ![p] = [objects  |-> view[p].objects \cup {"users", "birth"},
                                        versions |-> view[p].versions \cup {1}]]
    BY <1>0, <1>1, <2>2, AddsSucceeds DEF CreateSchema
  <2>4. [objects  |-> view[p].objects \cup {"users", "birth"},
         versions |-> view[p].versions \cup {1}] = Made
    BY <2>1 DEF Empty, Made
  <2> QED
    BY <1>0, <2>1, <2>3, <2>4, StatementInv, DatabasesType
<1>2. CASE AddJobs(p)
  <2>1. (db = Empty /\ view[p] = Made) \/ (db = First /\ view[p] = First)
    BY <1>0, <1>2 DEF AddJobs, ViewOK
  <2>2. /\ {"jobs"} \cap (db.objects \cup view[p].objects) = {}
        /\ 2 \notin db.versions \cup view[p].versions
    BY <2>1 DEF Empty, First, Made
  <2>3. /\ Goes(p, "birth") /\ UNCHANGED <<db, holder>>
        /\ view' = [view EXCEPT ![p] = [objects  |-> view[p].objects \cup {"jobs"},
                                        versions |-> view[p].versions \cup {2}]]
    BY <1>0, <1>2, <2>2, AddsSucceeds DEF AddJobs
  <2> DEFINE seen == [objects  |-> view[p].objects \cup {"jobs"},
                      versions |-> view[p].versions \cup {2}]
  <2>4. (db = Empty /\ seen = MadeJobs) \/ (db = First /\ seen = Second)
    <3>1. CASE db = Empty /\ view[p] = Made
      <4>1. Made.objects \cup {"jobs"} = MadeJobs.objects /\ Made.versions \cup {2} = MadeJobs.versions
        BY DEF Made, MadeJobs
      <4> QED
        BY <3>1, <4>1 DEF Made, MadeJobs
    <3>2. CASE db = First /\ view[p] = First
      <4>1. First.objects \cup {"jobs"} = Second.objects /\ First.versions \cup {2} = Second.versions
        BY DEF First, Second
      <4> QED
        BY <3>2, <4>1 DEF First, Second
    <3> QED
      BY <2>1, <3>1, <3>2
  <2>5. seen \in Database
    BY <2>4, DatabasesType
  <2> HIDE DEF seen
  <2>6. view' = [view EXCEPT ![p] = seen]
    BY <2>3 DEF seen
  <2> QED
    BY <1>0, <2>3, <2>4, <2>5, <2>6, StatementInv
<1>3. CASE AddBirthDate(p)
  <2>1. (db = Empty /\ view[p] = MadeJobs) \/ (db \in {First, Second} /\ view[p] = Second)
    BY <1>0, <1>3 DEF AddBirthDate, ViewOK
  <2>2. 3 \notin db.versions \cup view[p].versions
    BY <2>1 DEF Empty, First, Second, MadeJobs
  <2> DEFINE seen == [objects  |-> (view[p].objects \ {"age"}) \cup {"birth"},
                      versions |-> view[p].versions \cup {3}]
  <2>3. /\ Goes(p, "commit") /\ UNCHANGED <<db, holder>>
        /\ view' = [view EXCEPT ![p] = seen]
    BY <1>0, <1>3, <2>2 DEF AddBirthDate
  <2>4. seen = Current
    BY <2>1 DEF Second, MadeJobs, Current
  <2>5. db # Later
    BY <2>1 DEF Empty, First, Second, Later
  <2> HIDE DEF seen
  <2> QED
    BY <1>0, <2>3, <2>4, <2>5, StatementInv, DatabasesType
<1> QED
  BY <1>1, <1>2, <1>3

\* The end of a transaction, however it ends.
LEMMA EndInv ==
    ASSUME MInv, NEW p \in Processes, Commit(p) \/ MigrationFails(p) \/ Quit(p)
    PROVE  MInv'
<1>1. PICK to \in {"done", "failed", "none"} : Goes(p, to) /\ (to = "done" => Commit(p))
  BY DEF Commit, MigrationFails, Quit
<1>2. step[p] = "commit" => view[p] = Current /\ holder = p /\ db # Later
  BY Facts DEF ViewOK, Locked
<1>3. db' = db \/ (holder = p /\ db # Later /\ db' = Current)
  BY <1>2 DEF Commit, MigrationFails, Quit, RollBack
<1>4. view' = view /\ (holder' = holder \/ (holder = p /\ holder' \in {Nobody, Ghost}))
  BY DEF Commit, MigrationFails, Quit, Frees, Abandons
<1>5. to = "done" => view'[p] = Current /\ db' = Current
  BY <1>1, <1>2, <1>4 DEF Commit
<1>6. step'[p] = to
  BY <1>1, Facts DEF Goes
<1>7. MigrationTypeOK'
  BY <1>1, <1>3, <1>4, Facts DEF MigrationTypeOK, Goes, Ends
<1>8. ViewOK(p)'
  BY <1>5, <1>6 DEF ViewOK
<1> QED
  BY <1>1, <1>3, <1>4, <1>7, <1>8, StepKeeps DEF Locked

\* The server drops a dead connection.
LEMMA ReapInv ==
    ASSUME MInv, Reap
    PROVE  MInv'
<1>1. \A p \in Processes : step[p] \notin Locked
  BY MigrationAssumption DEF MInv, OneMigrator, Reap
<1>2. MigrationTypeOK' /\ OneMigrator'
  BY <1>1 DEF MInv, MigrationTypeOK, OneMigrator, Reap
<1> QED
  BY <1>2 DEF MInv, ViewOK, Reap

\* A later release finds nobody between the lock and the end of a transaction.
LEMMA LaterInv ==
    ASSUME MInv, LaterRelease
    PROVE  MInv'
<1>1. \A p \in Processes : step[p] \notin Locked
  BY MigrationAssumption DEF MInv, OneMigrator, LaterRelease
<1>2. MigrationTypeOK' /\ OneMigrator'
  BY <1>1 DEF MInv, MigrationTypeOK, OneMigrator, LaterRelease
<1>3. ASSUME NEW p \in Processes PROVE ViewOK(p)'
  BY <1>1, <1>3 DEF MInv, ViewOK, LaterRelease, Locked
<1> QED
  BY <1>2, <1>3 DEF MInv

\* Every step, stuttering included.
LEMMA MigrationNextInv == MInv /\ [MigrationNext]_mvars => MInv'
<1> SUFFICES ASSUME MInv, [MigrationNext]_mvars PROVE MInv'
  OBVIOUS
<1>1. ASSUME NEW p \in Processes, Enter(p) \/ Migrate(p) \/ MigrationFails(p) \/ Quit(p)
      PROVE  MInv'
  <2>1. CASE Enter(p) \/ Begin(p) \/ TakeLock(p)
    BY <2>1, WaitInv
  <2>2. CASE CheckSchema(p)
    BY <2>2, CheckInv
  <2>3. CASE CreateSchema(p) \/ AddJobs(p) \/ AddBirthDate(p)
    BY <2>3, ChangesInv
  <2>4. CASE Commit(p) \/ MigrationFails(p) \/ Quit(p)
    BY <2>4, EndInv
  <2> QED
    BY <1>1, <2>1, <2>2, <2>3, <2>4 DEF Migrate
<1>2. CASE Reap
  BY <1>2, ReapInv
<1>3. CASE LaterRelease
  BY <1>3, LaterInv
<1>4. CASE UNCHANGED mvars
  BY <1>4 DEF mvars, MInv, MigrationTypeOK, OneMigrator, ViewOK
<1> QED
  BY <1>1, <1>2, <1>3, <1>4 DEF MigrationNext

-----------------------------------------------------------------------------
(* The theorems. *)

\* One process at a time is between lock and commit, and what it sees is one
\* of the few databases that lead to the current one.
THEOREM MigrationInvHolds == MigrationSpec => []MInv
BY MigrationInitInv, MigrationNextInv, PTL DEF MigrationSpec

\* No start fails because of what another process has migrated.
THEOREM StartsDoNotConflict == MigrationSpec => []NoConflict
<1>1. MInv => NoConflict
  BY DEF MInv, ViewOK, NoConflict
<1> QED
  BY <1>1, MigrationInvHolds, PTL

\* Whoever has got through has seen the schema of this release, and finds it
\* as long as no later release replaces it.
THEOREM MigratedHasCurrent == MigrationSpec => []MigratedIsCurrent
<1>1. MInv => MigratedIsCurrent
  BY DEF MInv, ViewOK, MigratedIsCurrent
<1> QED
  BY <1>1, MigrationInvHolds, PTL

\* What a step may do to the database.
LEMMA UpgradeStep ==
    ASSUME MInv, [MigrationNext]_mvars, db' # db
    PROVE  db # Later /\ db' \in {Current, Later}
<1>1. ASSUME NEW p \in Processes, Enter(p) \/ Migrate(p) \/ MigrationFails(p) \/ Quit(p)
      PROVE  db # Later /\ db' = Current
  <2>1. step[p] = "commit" /\ db' = view[p]
    BY <1>1 DEF Enter, Migrate, Begin, TakeLock, CheckSchema, CreateSchema, AddJobs,
                AddBirthDate, Adds, Commit, MigrationFails, Quit, RollBack
  <2> QED
    BY <2>1, Facts DEF ViewOK
<1>2. CASE LaterRelease
  BY <1>2 DEF LaterRelease
<1> QED
  BY <1>1, <1>2 DEF MigrationNext, mvars, Reap

\* The database goes from what it was to the schema of a release in one step,
\* and a later one is left alone.
THEOREM Upgrades == MigrationSpec => UpgradeAtOnce
<1>1. MInv /\ [MigrationNext]_mvars => [db' # db => db # Later /\ db' \in {Current, Later}]_db
  BY UpgradeStep
<1> QED
  BY <1>1, MigrationInvHolds, PTL DEF MigrationSpec, UpgradeAtOnce
=============================================================================
