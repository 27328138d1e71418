----------------------------- MODULE Scheduler -----------------------------
(***************************************************************************)
(* The job scheduler (pkg/scheduler) over its two tables, scheduled_jobs   *)
(* and job_runs (pkg/database/scheduled_jobs.go).                          *)
(*                                                                         *)
(* Several schedulers may share the database, of one release or of two:    *)
(* the row locks provide for it, although the release script stops the old *)
(* container before it starts the new one.  A claim is a transaction: it   *)
(* locks the rows it selects (FOR UPDATE SKIP LOCKED) and its changes      *)
(* become visible, all of them or none, when it commits.                   *)
(*                                                                         *)
(* Names, types, payloads and error texts of jobs are left out: a job is   *)
(* its name; NextOccurrence stands for its cron expression and time zone.  *)
(* Jobs that are due at the same time come in any order (the code takes    *)
(* the one with the smaller id first).                                     *)
(***************************************************************************)
EXTENDS Integers, FiniteSets

CONSTANTS
    Schedulers,
    Jobs,
    CleanupJob,            \* system.cleanup_job_runs, registered by New
    Known,                 \* the jobs each scheduler has definitions of
    NextOccurrence(_, _),  \* nextOccurrence: the first time after t
    BatchSize,             \* claimBatchSize
    Retention,             \* how long finished runs are kept
    Faults,                \* which failures may happen
    MaxTime                \* bound: the clock

VARIABLES
    now,        \* the clock
    next,       \* scheduled_jobs.next_run_at
    runs,       \* the rows of job_runs
    pc,         \* where each scheduler is
    cancelled,  \* schedulers whose context is cancelled
    todo,       \* Start: definitions still to be persisted
    locked,     \* rows of scheduled_jobs locked by a claim in progress
    hand,       \* claimed runs a scheduler has yet to begin
    cur,        \* the run it is working on
    outcome,    \* how that run ended
    executed    \* history: the occurrences a handler was called for

vars == <<now, next, runs, pc, cancelled, todo, locked, hand, cur, outcome, executed>>

Ledger == INSTANCE Occurrences WITH
              due <- next, hand <- UNION {hand[s] : s \in Schedulers}, done <- executed

\* The cron library answers with the zero time if a schedule never comes round
\* again; NoRow stands for a job that scheduled_jobs does not have.
Zero  == 0
NoRow == -1

FaultKinds == {"db", "commit", "cancel", "crash"}

ASSUME SchedulerAssumption ==
    /\ CleanupJob \in Jobs
    /\ Known \in [Schedulers -> SUBSET Jobs]
    /\ \A s \in Schedulers : CleanupJob \in Known[s]
    /\ \A j \in Jobs, t \in 0..MaxTime :
          /\ NextOccurrence(j, t) \in Nat
          /\ NextOccurrence(j, t) > t \/ NextOccurrence(j, t) = Zero
    /\ BatchSize \in Nat \ {0} /\ Retention \in Nat /\ MaxTime \in Nat \ {0}
    /\ Faults \subseteq FaultKinds

Occurrence == [job: Jobs, for: Nat]
Outcomes   == {"succeeded", "failed"}

\* No run in progress.
Nothing == [job |-> CleanupJob, for |-> NoRow]

Run == [job: Jobs, for: Nat, status: {"running"} \cup Outcomes, finished: Nat]

Init ==
    /\ now = 1
    /\ next = [j \in Jobs |-> NoRow]
    /\ runs = {}
    /\ pc = [s \in Schedulers |-> "down"]
    /\ cancelled = {}
    /\ todo = [s \in Schedulers |-> {}]
    /\ locked = [s \in Schedulers |-> {}]
    /\ hand = [s \in Schedulers |-> {}]
    /\ cur = [s \in Schedulers |-> Nothing]
    /\ outcome = [s \in Schedulers |-> "failed"]
    /\ executed = {}

CanFail(kind) == kind \in Faults

\* A statement fails, or is given a context that is already cancelled.
StatementFails(s) == CanFail("db") \/ s \in cancelled

-----------------------------------------------------------------------------
(* Start. *)

\* Names that end in _ and a word are faulty variants, as in Moderation.
EnsureScheduledJob_Upsert(j) == next' = [next EXCEPT ![j] = NextOccurrence(j, now)]

EnsureScheduledJob_Restart(j) == next' = [next EXCEPT ![j] = NextOccurrence(j, 0)]

\* A job that is already there keeps its place: ON CONFLICT (name) DO NOTHING.
EnsureScheduledJob(j) ==
    next' = [next EXCEPT ![j] = IF @ = NoRow THEN NextOccurrence(j, now) ELSE @]

Boot(s) ==
    /\ pc[s] = "down"
    /\ pc' = [pc EXCEPT ![s] = "starting"]
    /\ todo' = [todo EXCEPT ![s] = Known[s]]
    /\ UNCHANGED <<next, runs, cancelled, locked, hand, cur, outcome, executed>>

\* One statement per definition; the process exits if one of them fails.
Start(s) ==
    /\ pc[s] = "starting"
    /\ \/ \E j \in todo[s] :
            /\ EnsureScheduledJob(j)
            /\ todo' = [todo EXCEPT ![s] = @ \ {j}]
            /\ UNCHANGED pc
       \/ /\ todo[s] = {}
          /\ pc' = [pc EXCEPT ![s] = "idle"]
          /\ UNCHANGED <<next, todo>>
       \/ /\ CanFail("db")
          /\ pc' = [pc EXCEPT ![s] = "down"]
          /\ todo' = [todo EXCEPT ![s] = {}]
          /\ UNCHANGED next
    /\ UNCHANGED <<runs, cancelled, locked, hand, cur, outcome, executed>>

-----------------------------------------------------------------------------
(* ClaimDueScheduledJobs. *)

Due == {j \in Jobs : next[j] # NoRow /\ next[j] <= now}

Locked == UNION {locked[s] : s \in Schedulers}

Available_Locked == Due  \* FOR UPDATE without regard to locks, no waiting

\* SKIP LOCKED.
Available == Due \ Locked

\* ORDER BY next_run_at LIMIT: J is what one select may return.
FirstOf(J) ==
    /\ Cardinality(J) = IF Cardinality(Available) < BatchSize
                           THEN Cardinality(Available) ELSE BatchSize
    /\ \A j \in J, i \in Available \ J : next[j] <= next[i]

\* A poll that finds nothing changes nothing, one whose context is cancelled
\* cannot begin its transaction.
Select(s) ==
    /\ pc[s] = "idle" /\ s \notin cancelled
    /\ Available # {}
    /\ \E J \in SUBSET Available :
         FirstOf(J) /\ locked' = [locked EXCEPT ![s] = J]
    /\ pc' = [pc EXCEPT ![s] = "claiming"]
    /\ UNCHANGED <<next, runs, cancelled, todo, hand, cur, outcome, executed>>

Following_Inclusive(j) == NextOccurrence(j, next[j] - 1)

\* The occurrence after the one that is due, even if it has passed as well.
Following(j) == NextOccurrence(j, next[j])

HasRow(j) == \E r \in runs : r.job = j /\ r.for = next[j]

\* The transaction fails on a job whose schedule does not come round again,
\* and on the UNIQUE (scheduled_job_id, scheduled_for) of job_runs.
Refused(j) == ~(Following(j) > next[j]) \/ HasRow(j)

\* The jobs that are locked get their run and move on.  The commit may take
\* effect although its answer is lost; then nobody works on these runs.
Commit(s) ==
    /\ pc[s] = "claiming"
    /\ \A j \in locked[s] : ~Refused(j)
    /\ runs' = runs \cup {[job |-> j, for |-> next[j], status |-> "running",
                             finished |-> 0] : j \in locked[s]}
    /\ next' = [j \in Jobs |-> IF j \in locked[s] THEN Following(j) ELSE next[j]]
    /\ locked' = [locked EXCEPT ![s] = {}]
    /\ \/ /\ hand' = [hand EXCEPT ![s] = {[job |-> j, for |-> next[j]] : j \in locked[s]}]
          /\ pc' = [pc EXCEPT ![s] = "working"]
       \/ /\ CanFail("commit")
          /\ pc' = [pc EXCEPT ![s] = "idle"]
          /\ UNCHANGED hand
    /\ UNCHANGED <<cancelled, todo, cur, outcome, executed>>

\* One job that is refused undoes the claim of all.
Rollback(s) ==
    /\ pc[s] = "claiming"
    /\ StatementFails(s) \/ \E j \in locked[s] : Refused(j)
    /\ locked' = [locked EXCEPT ![s] = {}]
    /\ pc' = [pc EXCEPT ![s] = "idle"]
    /\ UNCHANGED <<next, runs, cancelled, todo, hand, cur, outcome, executed>>

-----------------------------------------------------------------------------
(* processDueJobs, after the claim: one run after the other, whether or not *)
(* the context is cancelled meanwhile.                                      *)

\* A job this release has no handler for fails without being performed.
Begin(s) ==
    /\ pc[s] = "working"
    /\ \E k \in hand[s] :
         /\ \A l \in hand[s] : k.for <= l.for
         /\ hand' = [hand EXCEPT ![s] = @ \ {k}]
         /\ cur' = [cur EXCEPT ![s] = k]
         /\ IF k.job \in Known[s]
            THEN /\ pc' = [pc EXCEPT ![s] = "handling"]
                 /\ executed' = executed \cup {k}
                 /\ UNCHANGED outcome
            ELSE /\ pc' = [pc EXCEPT ![s] = "finishing"]
                 /\ outcome' = [outcome EXCEPT ![s] = "failed"]
                 /\ UNCHANGED executed
    /\ UNCHANGED <<next, runs, cancelled, todo, locked>>

Expired_Started == {r \in runs : r.finished < now - Retention}  \* any status

\* DeleteFinishedJobRunsBefore.
Expired == {r \in runs : r.status \in Outcomes /\ r.finished < now - Retention}

\* The handler: cleanupJobRuns, or one that works or does not.
Handle(s) ==
    /\ pc[s] = "handling"
    /\ \/ /\ cur[s].job = CleanupJob /\ s \notin cancelled
          /\ runs' = runs \ Expired
          /\ outcome' = [outcome EXCEPT ![s] = "succeeded"]
       \/ /\ cur[s].job # CleanupJob \/ StatementFails(s)
          /\ outcome' = [outcome EXCEPT ![s] = "failed"]
          /\ UNCHANGED runs
       \/ /\ cur[s].job # CleanupJob
          /\ outcome' = [outcome EXCEPT ![s] = "succeeded"]
          /\ UNCHANGED runs
    /\ pc' = [pc EXCEPT ![s] = "finishing"]
    /\ UNCHANGED <<next, cancelled, todo, locked, hand, cur, executed>>

\* The row FinishJobRun updates: WHERE id = $3 AND status = 'running'.
RowOf(k) == {r \in runs : r.job = k.job /\ r.for = k.for /\ r.status = "running"}

FinishJobRun(k, status) ==
    runs' = (runs \ RowOf(k)) \cup {[r EXCEPT !.status = status, !.finished = now] : r \in RowOf(k)}

Continue_OnError(s) ==  \* stops the batch after a run that failed
    pc' = [pc EXCEPT ![s] = IF hand[s] = {} \/ outcome[s] = "failed" THEN "idle" ELSE "working"]

Continue(s) == pc' = [pc EXCEPT ![s] = IF hand[s] = {} THEN "idle" ELSE "working"]

\* An error of FinishJobRun is logged, and the row remains as it is.
Finish(s) ==
    /\ pc[s] = "finishing"
    /\ \/ s \notin cancelled /\ FinishJobRun(cur[s], outcome[s])
       \/ StatementFails(s) /\ UNCHANGED runs
    /\ Continue(s)
    /\ cur' = [cur EXCEPT ![s] = Nothing]
    /\ UNCHANGED <<next, cancelled, todo, locked, hand, outcome, executed>>

-----------------------------------------------------------------------------
(* The end of a process. *)

Down(s) ==
    /\ pc' = [pc EXCEPT ![s] = "down"]
    /\ cancelled' = cancelled \ {s}
    /\ todo' = [todo EXCEPT ![s] = {}]
    /\ locked' = [locked EXCEPT ![s] = {}]
    /\ hand' = [hand EXCEPT ![s] = {}]
    /\ cur' = [cur EXCEPT ![s] = Nothing]
    /\ UNCHANGED <<next, runs, outcome, executed>>

\* SIGTERM: main cancels the context.
Cancel(s) ==
    /\ CanFail("cancel") /\ pc[s] \notin {"down", "starting"}
    /\ s \notin cancelled /\ cancelled' = cancelled \cup {s}
    /\ UNCHANGED <<next, runs, pc, todo, locked, hand, cur, outcome, executed>>

\* run returns, Stop no longer waits and the process ends.
Stop(s) == pc[s] = "idle" /\ s \in cancelled /\ Down(s)

\* Nothing is left of a process but what it committed.
Crash(s) == CanFail("crash") /\ pc[s] # "down" /\ Down(s)

Steps(s) ==
    \/ Boot(s) \/ Start(s)
    \/ Select(s) \/ Commit(s) \/ Rollback(s)
    \/ Begin(s) \/ Handle(s) \/ Finish(s)
    \/ Stop(s)

Tick == /\ now < MaxTime /\ now' = now + 1
        /\ UNCHANGED <<next, runs, pc, cancelled, todo, locked, hand, cur, outcome, executed>>

Next ==
    \/ \E s \in Schedulers : (Steps(s) \/ Cancel(s) \/ Crash(s)) /\ UNCHANGED now
    \/ Tick

Spec == Init /\ [][Next]_vars

\* The container is restarted, the ticker keeps ticking and each goroutine
\* goes on.  Failures, signals and the clock are not fair.
FairSpec == Spec /\ \A s \in Schedulers : WF_vars(Steps(s) /\ UNCHANGED now)

-----------------------------------------------------------------------------
(* What must hold. *)

Working(s) == pc[s] \in {"working", "handling", "finishing"}

\* Every variable has its type, and what a scheduler holds fits the place it
\* is at: nothing is locked outside a claim, nothing is in hand outside a
\* batch, and only a process that runs has a context to cancel.
TypeOK ==
    /\ now \in 1..MaxTime
    /\ next \in [Jobs -> Nat \cup {NoRow}]
    /\ runs \subseteq Run
    /\ pc \in [Schedulers -> {"down", "starting", "idle", "claiming", "working",
                              "handling", "finishing"}]
    /\ cancelled \subseteq {s \in Schedulers : pc[s] \notin {"down", "starting"}}
    /\ todo \in [Schedulers -> SUBSET Jobs]
    /\ locked \in [Schedulers -> SUBSET Jobs]
    /\ hand \in [Schedulers -> SUBSET Occurrence]
    /\ cur \in [Schedulers -> Occurrence \cup {Nothing}]
    /\ outcome \in [Schedulers -> Outcomes]
    /\ executed \subseteq Occurrence
    /\ \A s \in Schedulers :
         /\ locked[s] # {} => pc[s] = "claiming"
         /\ hand[s] # {} => Working(s)
         /\ cur[s] # Nothing <=> pc[s] \in {"handling", "finishing"}

\* Nobody runs a job ahead of its time, and whatever has a row lies behind the
\* schedule, so that the UNIQUE of job_runs never refuses a claim: two
\* schedulers that poll at the same moment do not both take an occurrence.
RunsInThePast == \A r \in runs : r.for <= now /\ r.for < next[r.job]

\* A run somebody works on has its row, and the row is still 'running':
\* neither the clean-up, which may be part of the same batch, nor another
\* scheduler touches it, and FinishJobRun never says "is not running".
HeldRunHasRow ==
    \A s \in Schedulers :
        \A k \in hand[s] \cup {cur[s]} : k # Nothing => RowOf(k) # {}

\* What makes two claims take different occurrences: locks exclude each other,
\* a locked job stays due, an occurrence is in one place only, and everything
\* that was handed out lies behind the schedule.
LocksExclude ==
    \A s \in Schedulers, j \in Jobs :
        j \in locked[s] =>
            /\ next[j] # NoRow /\ next[j] <= now
            /\ \A t \in Schedulers : j \in locked[t] => t = s

HandsExclude ==
    \A s, t \in Schedulers :
        /\ \A k \in hand[s] : /\ k \in hand[t] => t = s
                              /\ k # cur[t]
        /\ cur[s] # Nothing /\ cur[s] = cur[t] => t = s

HandedOut ==
    /\ \A s \in Schedulers :
         /\ \A k \in hand[s] : k.for < next[k.job] /\ k \notin executed
         /\ cur[s] # Nothing => cur[s].for < next[cur[s].job]
    /\ \A k \in executed : k.for < next[k.job]

Inv == TypeOK /\ RunsInThePast /\ HeldRunHasRow /\ LocksExclude /\ HandsExclude /\ HandedOut

\* No occurrence is performed twice, whoever crashes or is replaced, and
\* although the clean-up removes the rows that could tell.
PerformedOnce ==
    [][\A s \in Schedulers :
          pc[s] = "working" /\ pc'[s] = "handling" => cur'[s] \notin executed]_vars

\* The transactions, locks, crashes and restarts implement the promise:
\* occurrences are handed out one by one in the order of the schedule.
ImplementsOccurrences == Ledger!OSpec

IsDue(j) == next[j] # NoRow /\ next[j] <= now

\* "Start persists built-in schedules, then processes due work until ctx is
\* done" (scheduler.go:103): a job that is due gets its turn, and after any
\* time without a scheduler the backlog is worked off.
ProcessesDueWork ==
    \A j \in Jobs : NextOccurrence(j, 0) # Zero => (IsDue(j) ~> ~IsDue(j))

\* When nothing fails but handlers, no run is forgotten: one that was claimed
\* is marked succeeded or failed in the end.
RunsSettle ==
    \A k \in [job: Jobs, for: 0..MaxTime] : RowOf(k) # {} ~> RowOf(k) = {}
=============================================================================
