----------------------------- MODULE Migration -----------------------------
(***************************************************************************)
(* How a process brings the database up to date when it starts             *)
(* (migratePostgres, pkg/database/postgres.go): one transaction that waits *)
(* for an advisory lock, looks which version is recorded and adds what is  *)
(* missing.  Several processes may start at once, a process may die in the *)
(* middle, and the server notices that a connection is gone only later.    *)
(* A later release may be started on the same database at any time.        *)
(*                                                                         *)
(* Of the tables only what the versions tell apart is kept: "users" stands *)
(* for the tables of version 1, "jobs" for those of version 2, "age" and   *)
(* "birth" for the column that version 3 replaces and its replacement.     *)
(***************************************************************************)
EXTENDS Integers

CONSTANTS
    Processes,
    Nobody, Ghost,      \* who may hold the lock besides a process
    InitialDatabases    \* what the first process may find

ASSUME MigrationAssumption ==
    Nobody \notin Processes /\ Ghost \notin Processes /\ Nobody # Ghost

VARIABLES
    db,       \* what is committed
    holder,   \* of the advisory lock; Ghost: a connection whose client is gone
    step,     \* where a process is in migratePostgres
    view      \* the database as a transaction sees it, its own changes included

mvars == <<db, holder, step, view>>

Objects == {"users", "jobs", "age", "birth"}

Database == [objects: SUBSET Objects, versions: SUBSET Nat]

\* The databases there are: made by nobody yet, by earlier releases, by this
\* one, and by a later one.
Empty   == [objects |-> {}, versions |-> {}]
First   == [objects |-> {"users", "age"}, versions |-> {1}]
Second  == [objects |-> {"users", "age", "jobs"}, versions |-> {1, 2}]
Current == [objects |-> {"users", "birth", "jobs"}, versions |-> {1, 2, 3}]
Later   == [objects |-> {"users", "birth", "jobs"}, versions |-> {1, 2, 3, 4}]

ASSUME DatabasesAssumption == InitialDatabases \subseteq {Empty, First, Second, Current, Later}

Steps  == {"begin", "waiting", "check", "create", "jobs", "birth", "commit"}
Ends   == {"none", "done", "failed", "unsupported", "conflict"}
Locked == {"check", "create", "jobs", "birth", "commit"}

MigrationInit ==
    /\ db \in InitialDatabases
    /\ holder = Nobody
    /\ step = [p \in Processes |-> "none"]
    /\ view = [p \in Processes |-> db]

Goes(p, to) == step' = [step EXCEPT ![p] = to]

\* The transaction is over, by the client's doing or by the server's; the
\* server may take its time to notice that the client is gone.
Frees(p) == holder' = IF holder = p THEN Nobody ELSE holder
Abandons(p) == holder' \in (IF holder = p THEN {Nobody, Ghost} ELSE {holder})

Begin(p) ==
    /\ step[p] = "begin" /\ Goes(p, "waiting")
    /\ UNCHANGED <<db, holder, view>>

TakeLock_Never(p) ==  \* no advisory lock
    /\ step[p] = "waiting" /\ Goes(p, "check")
    /\ UNCHANGED <<db, holder, view>>

\* pg_advisory_xact_lock returns.
TakeLock(p) ==
    /\ step[p] = "waiting" /\ holder = Nobody
    /\ holder' = p /\ Goes(p, "check")
    /\ UNCHANGED <<db, view>>

\* MAX(version) of schema_migrations.
AtLeast(base, version) == \E v \in base.versions : v >= version

Pending(base) ==
    IF ~AtLeast(base, 2) THEN "jobs" ELSE IF ~AtLeast(base, 3) THEN "birth" ELSE "commit"

Supported_Any(base) == TRUE  \* does not look at the upper end

Supported(base) == ~AtLeast(base, 4)

\* Is there a schema, and of which version?  The statements come after the
\* lock and see what its last holder committed.
CheckSchema(p) ==
    /\ step[p] = "check"
    /\ view' = [view EXCEPT ![p] = db]
    /\ IF "users" \notin db.objects THEN Goes(p, "create") /\ UNCHANGED holder
       ELSE IF ~Supported(db) THEN Goes(p, "unsupported") /\ Frees(p)
       ELSE Goes(p, Pending(db)) /\ UNCHANGED holder
    /\ UNCHANGED db

\* A statement that makes tables; the server refuses to make one again.
Adds(p, new, version, to) ==
    /\ IF \/ new \cap (db.objects \cup view[p].objects) # {}
          \/ version \in db.versions \cup view[p].versions
       THEN Goes(p, "conflict") /\ Frees(p) /\ UNCHANGED view
       ELSE /\ Goes(p, to)
            /\ view' = [view EXCEPT ![p] = [objects  |-> @.objects \cup new,
                                            versions |-> @.versions \cup {version}]]
            /\ UNCHANGED holder
    /\ UNCHANGED db

\* postgresSchema has the birth date already.
CreateSchema(p) == step[p] = "create" /\ Adds(p, {"users", "birth"}, 1, "jobs")

AddJobs_Unrecorded(p) ==  \* forgets to insert the version
    /\ step[p] = "jobs" /\ Goes(p, "birth")
    /\ view' = [view EXCEPT ![p].objects = @ \cup {"jobs"}]
    /\ UNCHANGED <<db, holder>>

AddJobs(p) == step[p] = "jobs" /\ Adds(p, {"jobs"}, 2, "birth")

\* birthDateMigration, which asks whether the columns exist.
AddBirthDate(p) ==
    /\ step[p] = "birth"
    /\ IF 3 \in db.versions \cup view[p].versions
       THEN Goes(p, "conflict") /\ Frees(p) /\ UNCHANGED view
       ELSE /\ Goes(p, "commit")
            /\ view' = [view EXCEPT ![p] = [objects  |-> (@.objects \ {"age"}) \cup {"birth"},
                                            versions |-> @.versions \cup {3}]]
            /\ UNCHANGED holder
    /\ UNCHANGED db

Commit(p) ==
    /\ step[p] = "commit" /\ Goes(p, "done")
    /\ db' = view[p] /\ Frees(p)
    /\ UNCHANGED view

RollBack_Keep(p) == db' \in {db, view[p]}  \* what was done so far is kept

\* The deferred Rollback, or the server's own.  A COMMIT that was sent may
\* have been carried out.
RollBack(p) == db' \in (IF step[p] = "commit" THEN {db, view[p]} ELSE {db})

\* A statement fails.
MigrationFails(p) ==
    /\ step[p] \in Steps /\ Goes(p, "failed")
    /\ RollBack(p) /\ Abandons(p)
    /\ UNCHANGED view

\* The server drops a connection whose client is gone: that ends the
\* transaction and frees the lock.
Reap == holder = Ghost /\ holder' = Nobody /\ UNCHANGED <<db, step, view>>

Migrate(p) ==
    \/ Begin(p) \/ TakeLock(p) \/ CheckSchema(p)
    \/ CreateSchema(p) \/ AddJobs(p) \/ AddBirthDate(p) \/ Commit(p)

\* The process starts, or is gone and may start again.
Enter(p) ==
    /\ step[p] = "none" /\ Goes(p, "begin")
    /\ UNCHANGED <<db, holder, view>>

Quit(p) ==
    /\ Goes(p, "none")
    /\ RollBack(p) /\ Abandons(p)
    /\ UNCHANGED view

\* A process of a later release migrates: its transaction takes the same lock,
\* so that seen from outside it is one step while nobody holds it.
LaterRelease ==
    /\ holder = Nobody /\ db # Later
    /\ db' = Later
    /\ UNCHANGED <<holder, step, view>>

MigrationNext ==
    \/ \E p \in Processes : Enter(p) \/ Migrate(p) \/ MigrationFails(p) \/ Quit(p)
    \/ Reap \/ LaterRelease

MigrationSpec == MigrationInit /\ [][MigrationNext]_mvars

-----------------------------------------------------------------------------
(* What must hold. *)

MigrationTypeOK ==
    /\ db \in {Empty, First, Second, Current, Later}
    /\ holder \in Processes \cup {Nobody, Ghost}
    /\ step \in [Processes -> Steps \cup Ends]
    /\ view \in [Processes -> Database]

\* Only one process at a time changes the schema: the server holds the lock of
\* whoever is past it, from the first look until commit or rollback.
OneMigrator == \A p \in Processes : step[p] \in Locked => holder = p

\* No start fails because another process has just done the migration, or died
\* half way through it: none finds a table or a version that it believed to be
\* missing.
NoConflict == \A p \in Processes : step[p] # "conflict"

\* Whoever works with the database sees the schema it had before, or all of
\* that of a release, never something between; a later release's is left alone.
UpgradeAtOnce == [][db' # db => db # Later /\ db' \in {Current, Later}]_db

\* Whoever has got through has found or made the schema of this release, and
\* nothing but a later release takes it away again.
MigratedIsCurrent ==
    \A p \in Processes : step[p] = "done" => view[p] = Current /\ db \in {Current, Later}
=============================================================================
