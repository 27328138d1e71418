------------------------------ MODULE Process ------------------------------
(***************************************************************************)
(* The life of a server process (cmd/beneburg/main.go, run): it migrates   *)
(* the database, starts the scheduler and the bot, serves requests until a *)
(* signal or an error of the HTTP server, and unwinds: what it deferred    *)
(* happens in the opposite order.  Docker starts it again.                 *)
(*                                                                         *)
(* The scheduler's goroutine and the requests are reduced to whether they  *)
(* are at work; a request may have to wait for the bot's sender, which     *)
(* ends when the root context is cancelled and can block by itself (see    *)
(* SenderWakesUp in BotPipeline).                                          *)
(***************************************************************************)
EXTENDS Migration

CONSTANTS
    Migrators,      \* processes started with ONLY_MAKE_MIGRATIONS
    MaxRequests,    \* bound: requests in progress
    MaxFaults,      \* bound: failures and deaths
    MaxSignals      \* bound: signals

ASSUME ProcessAssumption ==
    /\ Migrators \subseteq Processes
    /\ MaxRequests \in Nat /\ MaxFaults \in Nat /\ MaxSignals \in Nat

VARIABLES
    stage,      \* where run is
    pool,       \* is the connection pool open?
    sched,      \* the scheduler's goroutine
    cancelled,  \* is the scheduler's context cancelled?
    requests,   \* number of requests in progress
    stuck,      \* messagesChan is full and nobody takes from it
    cut,        \* history: run did not wait for the requests
    faults, signals

server == <<requests, stuck, cut>>
bounds == <<faults, signals>>
vars   == <<mvars, stage, pool, sched, cancelled, server, bounds>>

Stages == {"down", "migrating", "starting", "botting", "serving", "draining",
           "unwinding", "closed"}

\* The scheduler's goroutine exists and may use the database.
Polls == {"working", "waiting"}

Init ==
    /\ MigrationInit
    /\ stage = [p \in Processes |-> "down"]
    /\ pool = [p \in Processes |-> FALSE]
    /\ sched = [p \in Processes |-> "off"]
    /\ cancelled = [p \in Processes |-> FALSE]
    /\ requests = [p \in Processes |-> 0]
    /\ stuck = [p \in Processes |-> FALSE]
    /\ cut = [p \in Processes |-> FALSE]
    /\ faults = 0 /\ signals = 0

Moves(p, to) == stage' = [stage EXCEPT ![p] = to]

Fault == faults < MaxFaults /\ faults' = faults + 1 /\ UNCHANGED signals
Calm  == UNCHANGED bounds

-----------------------------------------------------------------------------
(* The way down: cancelScheduler, jobScheduler.Stop, db.Close, exit. *)

Unwind_StopFirst(p) ==  \* the two deferred calls in the opposite order
    Moves(p, "unwinding") /\ UNCHANGED cancelled

\* run returns: the scheduler's context is cancelled before Stop waits.
Unwind(p) == Moves(p, "unwinding") /\ cancelled' = [cancelled EXCEPT ![p] = TRUE]

Close_AtOnce(p) ==  \* db.Close before jobScheduler.Stop
    /\ stage[p] = "unwinding" /\ Moves(p, "closed")
    /\ pool' = [pool EXCEPT ![p] = FALSE]
    /\ Calm /\ UNCHANGED <<mvars, sched, cancelled, server>>

\* jobScheduler.Stop returns when the goroutine has, then the pool is closed.
Close(p) ==
    /\ stage[p] = "unwinding" /\ sched[p] \notin Polls
    /\ Moves(p, "closed")
    /\ pool' = [pool EXCEPT ![p] = FALSE]
    /\ Calm /\ UNCHANGED <<mvars, sched, cancelled, server>>

Gone(p) ==
    /\ Moves(p, "down") /\ Quit(p)
    /\ pool' = [pool EXCEPT ![p] = FALSE]
    /\ sched' = [sched EXCEPT ![p] = "off"]
    /\ cancelled' = [cancelled EXCEPT ![p] = FALSE]
    /\ requests' = [requests EXCEPT ![p] = 0]
    /\ stuck' = [stuck EXCEPT ![p] = FALSE]
    /\ cut' = [cut EXCEPT ![p] = FALSE]

Exit(p) == stage[p] = "closed" /\ Gone(p) /\ Calm

\* Killed, also by a signal that comes before run asks for signals.
Die(p) == stage[p] # "down" /\ Gone(p) /\ Fault

-----------------------------------------------------------------------------
(* The way up. *)

Start(p) ==
    /\ stage[p] = "down" /\ Moves(p, "migrating")
    /\ pool' = [pool EXCEPT ![p] = TRUE]
    /\ Enter(p)
    /\ Calm /\ UNCHANGED <<sched, cancelled, server>>

MigrationStep(p) ==
    /\ stage[p] = "migrating"
    /\ \/ Migrate(p) /\ Calm
       \/ MigrationFails(p) /\ Fault
    /\ UNCHANGED <<stage, pool, sched, cancelled, server>>

MayServe_Anyway(p) == step[p] \in Ends \ {"none"}  \* ignores Migrate's error

MayServe(p) == step[p] = "done"

\* Migrate has returned; an error ends run, and so does ONLY_MAKE_MIGRATIONS.
Migrated(p) ==
    /\ stage[p] = "migrating" /\ step[p] \in Ends
    /\ IF MayServe(p) /\ p \notin Migrators
       THEN Moves(p, "starting") /\ UNCHANGED cancelled
       ELSE Unwind(p)
    /\ Calm /\ UNCHANGED <<mvars, pool, sched, server>>

\* jobScheduler.Start; its goroutine polls at once.
StartScheduler(p) ==
    /\ stage[p] = "starting"
    /\ \/ /\ Moves(p, "botting") /\ sched' = [sched EXCEPT ![p] = "working"]
          /\ Calm /\ UNCHANGED cancelled
       \/ Unwind(p) /\ Fault /\ UNCHANGED sched
    /\ UNCHANGED <<mvars, pool, server>>

\* NewBotAPI asks Telegram for the bot's name; then bot, routes and server.
StartBot(p) ==
    /\ stage[p] = "botting"
    /\ \/ Moves(p, "serving") /\ Calm /\ UNCHANGED cancelled
       \/ Unwind(p) /\ Fault
    /\ UNCHANGED <<mvars, pool, sched, server>>

-----------------------------------------------------------------------------
(* Serving. *)

Request(p) ==
    /\ stage[p] = "serving" /\ requests[p] < MaxRequests
    /\ requests' = [requests EXCEPT ![p] = @ + 1]
    /\ Calm /\ UNCHANGED <<mvars, stage, pool, sched, cancelled, stuck, cut>>

Respond(p) ==
    /\ requests[p] > 0 /\ ~stuck[p]
    /\ requests' = [requests EXCEPT ![p] = @ - 1]
    /\ Calm /\ UNCHANGED <<mvars, stage, pool, sched, cancelled, stuck, cut>>

\* The sender waits for itself.
Stall(p) ==
    /\ stage[p] = "serving" /\ ~stuck[p] /\ Fault
    /\ stuck' = [stuck EXCEPT ![p] = TRUE]
    /\ UNCHANGED <<mvars, stage, pool, sched, cancelled, requests, cut>>

\* The root context is cancelled, and with it the scheduler's and the bot's:
\* its sender ends, with room in messagesChan or without.
Signal(p) ==
    /\ stage[p] = "serving" /\ signals < MaxSignals
    /\ signals' = signals + 1
    /\ Moves(p, "draining") /\ cancelled' = [cancelled EXCEPT ![p] = TRUE]
    /\ \E full \in {stuck[p], TRUE} : stuck' = [stuck EXCEPT ![p] = full]
    /\ UNCHANGED <<mvars, pool, sched, requests, cut, faults>>

Cut(p) == cut' = [cut EXCEPT ![p] = TRUE]

ServerFails(p) ==
    /\ stage[p] = "serving" /\ Fault
    /\ Unwind(p) /\ Cut(p)
    /\ UNCHANGED <<mvars, pool, sched, requests, stuck>>

Drained_Close(p) ==  \* httpServer.Close instead of Shutdown
    /\ Unwind(p) /\ UNCHANGED cut

Drained_Forever(p) ==  \* Shutdown without a deadline
    requests[p] = 0 /\ Unwind(p) /\ UNCHANGED cut

\* Shutdown returns when no request is in progress, or after 4 seconds.
Drained(p) ==
    IF requests[p] = 0 THEN Unwind(p) /\ UNCHANGED cut ELSE Unwind(p) /\ Cut(p)

Shutdown(p) ==
    /\ stage[p] = "draining" /\ Drained(p)
    /\ Calm /\ UNCHANGED <<mvars, pool, sched, requests, stuck>>

-----------------------------------------------------------------------------
(* The scheduler's goroutine (Scheduler): polls, waits for a tick or for the *)
(* end of its context; when both are there, either may be taken.             *)

Poll(p) ==
    /\ \/ sched[p] = "working" /\ sched' = [sched EXCEPT ![p] = "waiting"]
       \/ sched[p] = "waiting" /\ sched' = [sched EXCEPT ![p] = "working"]
    /\ Calm /\ UNCHANGED <<mvars, stage, pool, cancelled, server>>

EndPolling(p) ==
    /\ sched[p] = "waiting" /\ cancelled[p]
    /\ sched' = [sched EXCEPT ![p] = "ended"]
    /\ Calm /\ UNCHANGED <<mvars, stage, pool, cancelled, server>>

-----------------------------------------------------------------------------
ServerReaps == Reap /\ UNCHANGED <<stage, pool, sched, cancelled, server, bounds>>

\* A process of a later release starts beside those of this one.
LaterStarts == LaterRelease /\ UNCHANGED <<stage, pool, sched, cancelled, server, bounds>>

Up(p) == Start(p) \/ MigrationStep(p) \/ Migrated(p) \/ StartScheduler(p) \/ StartBot(p)

Down(p) == Shutdown(p) \/ Close(p) \/ Exit(p)

Next ==
    \/ \E p \in Processes :
         \/ Up(p) \/ Down(p) \/ Die(p)
         \/ Request(p) \/ Respond(p) \/ Stall(p) \/ Signal(p) \/ ServerFails(p)
         \/ Poll(p) \/ EndPolling(p)
    \/ ServerReaps \/ LaterStarts

Spec == Init /\ [][Next]_vars

\* Docker restarts what has ended, the server drops dead connections and grants
\* the lock to one waiter after the other, and of two ready cases select takes
\* each infinitely often.
Fairness ==
    /\ WF_vars(ServerReaps)
    /\ \A p \in Processes :
         /\ SF_vars(Up(p)) /\ WF_vars(Down(p))
         /\ WF_vars(Respond(p)) /\ WF_vars(Poll(p)) /\ SF_vars(EndPolling(p))

FairSpec == Spec /\ Fairness

-----------------------------------------------------------------------------
(* What must hold. *)

TypeOK ==
    /\ MigrationTypeOK
    /\ stage \in [Processes -> Stages]
    /\ pool \in [Processes -> BOOLEAN]
    /\ sched \in [Processes -> {"off", "ended"} \cup Polls]
    /\ cancelled \in [Processes -> BOOLEAN]
    /\ requests \in [Processes -> 0..MaxRequests]
    /\ stuck \in [Processes -> BOOLEAN] /\ cut \in [Processes -> BOOLEAN]
    /\ faults \in 0..MaxFaults /\ signals \in 0..MaxSignals

\* Scheduler, bot and pages start only on the schema they know, the one their
\* own migration found or left.  Whatever processes of this release start, fail
\* or die, it stays; a later release can replace it while they run, which
\* nothing in the code prevents, and then it is that release's schema whole.
StartsOnCurrentSchema ==
    \A p \in Processes :
        stage[p] \in {"starting", "botting", "serving", "draining"} =>
            view[p] = Current /\ db \in {Current, Later}

\* The pool is closed under nobody's feet: the scheduler's goroutine has ended
\* whichever way run is left, and the requests have been answered unless run
\* could not wait for them any longer.
PoolOutlivesUsers ==
    \A p \in Processes :
        ~pool[p] => sched[p] \notin Polls /\ (requests[p] = 0 \/ cut[p])

\* A signal ends the process, even when requests wait for a sender that has
\* gone or was stuck: docker need not kill it.
SignalEnds == \A p \in Processes : stage[p] = "draining" ~> stage[p] = "down"

\* When failures and signals cease every process comes to serve, unless a
\* later release has been there: no dead process keeps the lock, nothing waits
\* for ever on the way down or up.
ServesAtLast ==
    <>(db = Later) \/ <>[](\A p \in Processes \ Migrators : stage[p] = "serving")
=============================================================================
