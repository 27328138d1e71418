# Beneburg-Bot in TLA+

The bot lets newcomers into a community chat: they fill in a form on a web
page, the administrator decides about the form, the members vote, the
administrator decides about the person, and Telegram asks the bot when that
person wants to join. This directory holds TLA+ models of the program, what TLC
checks of them, and proofs of their most important properties.

Source paths are relative to the repository. `bot.go` is `pkg/telegram/bot.go`,
`views.go` is `pkg/views/views.go`, `database.go` and `scheduled_jobs.go` are in
`pkg/database`, as is `postgres.go`, `scheduler.go` is in `pkg/scheduler`, `main.go`
in `cmd/beneburg`, `token_auth.go` and `profile_redirect.go` in `pkg/middleware`.

## Inventory

| Component | State | Operations | Interacts with |
|---|---|---|---|
| Moderation: `bot.go` handlers, `views.go` `profileForm`, `database.go` | tables `users`, `forms` | `processMessage`, `processNewChatMembers`, `processLeftChatMember`, `processChatJoinRequest`, `processFormCallbackQuery`, `processUserCallbackQuery`, `profileForm` | reads updates, writes to `messagesChan`; web requests and the processor share the tables |
| Pipeline: `bot.go:78-152`, hook of `main.go:92-99` | `updatesChan`, `messagesChan`, `offset` | `startGettingUpdates`, `startProcessingUpdates`, `startProcessingMessages`, `send` | everything that sends or logs a warning is a producer of `messagesChan` |
| Scheduler: `scheduler.go`, `scheduled_jobs.go` | tables `scheduled_jobs`, `job_runs`; the batch in hand | `Start`, `processDueJobs`, `EnsureScheduledJob`, `ClaimDueScheduledJobs`, `FinishJobRun`, `DeleteFinishedJobRunsBefore`, `Stop` | the tables are shared by all processes on the database, of whichever release |
| Backup: `bot.go:283-315`, `pkg/backup/postgres.go` | `backupBusy`, a temporary file | `processGetBackupCommand`, `Create` | a goroutine of its own, producer of `messagesChan` |
| Migrations: `postgres.go:89-131` | `schema_migrations` and the tables | `migratePostgres` | runs first, in one transaction under an advisory lock; processes may start together |
| Process life: `main.go`, `run` | pool, scheduler's goroutine, server, what `run` has deferred | start, serve, signal, `Shutdown`, the way out | starts and stops all other parts; docker restarts it |
| Sessions: `database.go:155-172`, `bot.go:351-366`, `views.go:61-99`, `pkg/middleware` | table `tokens`, the browser's cookie | `/login`, `login`, `Auth`, `ProfileRedirectMiddleware`, `index`, `profile` | the link travels through `messagesChan`; the row of `users` decides about redirects |
| Calendar: `pkg/database/model/form.go`, `AddDate` | none | age, parsing of dates, retention | pure |
| Templates, commands, configuration, release scripts | none of interest | formatting, replies, environment, container | - |

What is hard about it:

* one processor, one sender and any number of web requests interleave over two
  tables without transactions; a web request works with a copy of the user row;
* an update counts as received when the next one is asked for, not when it has
  been processed, so a crash loses some updates and repeats others;
* each statement, each send and the synchronous post to the chat can fail on
  its own, and handlers return in the middle;
* two bounded channels, one of which is filled by its own consumer;
* several schedulers on one pair of tables: locks, a batch in one transaction,
  answers to a commit that get lost, a clean-up that is one of the jobs;
* statements, posts and commits that fail although they took effect, because the
  answer was lost;
* processes that start, die and are restarted while another one migrates, of
  this release or of a later one, and connections that the server takes for
  alive although their client is gone;
* deferred calls that wait for goroutines and must come in the right order on
  every way out of `run`, with requests that may wait for a sender that has gone;
* redirects that depend on a cookie, a token and a row, each of which can change
  between two of them.

`PROJECT.json` lists these hazards one by one, with their lines and the
properties that would catch them.

What makes each component correct: statuses, public forms and approvals rest on
something that happened (Moderation); nothing and nobody is stranded between the
form, the buttons and the poll (Moderation); updates in order, bounded loss, each
message once, nobody waits for ever (Pipeline); one archive at a time, the file
removed and the busy flag released (Backup); each occurrence of a job once, in
order (Scheduler); every schema version applied once, all or nothing, by whichever
process comes first (Migrations); nobody starts to work on a foreign schema or a
closed pool, and a signal ends the process (Process life); a link opens the
account of its owner only, until it is replaced or expires, and every visit ends
on a page (Sessions).

## Modules

| Module | Models | Extends |
|---|---|---|
| `Moderation` | tables, handlers, form submission, outbox, crashes | - |
| `ModerationProofs` | proofs about it | `Moderation` |
| `ApplicantProofs` | proofs of what applicants rely on | `ModerationProofs` |
| `Delivery` | abstract: what the bot promises of updates and messages | - |
| `BotPipeline` | goroutines, channels, alerts, code 429, backups | instance of `Delivery` |
| `BotPipelineProofs` | proofs about it | `BotPipeline` |
| `MessageProofs` | proofs about the messages in it, the refinement included | `BotPipelineProofs` |
| `Occurrences` | abstract: what the scheduler promises | - |
| `Scheduler` | tables, claims, batches, releases | instance of `Occurrences` |
| `SchedulerProofs` | proofs about it and `Occurrences`, the refinement included | `Scheduler` |
| `Migration` | the database, its lock, `migratePostgres` by several processes | - |
| `MigrationProofs` | proofs about it | `Migration` |
| `Process` | `run` from start to exit, composed with `Migration` | `Migration` |
| `ProcessProofs` | that it implements `Migration`; proofs about it | `Process`, `MigrationProofs` |
| `Site` | links, cookie, middlewares, one tab of a browser | - |
| `SiteProofs` | proofs about it | `Site` |
| `MCModeration`, `MCBotPipeline`, `MCScheduler`, `MCProcess`, `MCSite` | instances for TLC | their module |

Operators whose name ends in `_` and a word (`NewFormStatus_Unmoderated`) are
faulty variants of the definition behind them. No action uses them; they are
there to show that a property fails when the code is wrong in that way.

### Moderation

State: `users` holds each row's status (`"absent"`: no row), `forms` the rows
with owner, `created_at` and status, the id being the index. `next`, `pc` and
`todo` say where the processor goroutine is, `req` where each web request is,
`outbox` is `messagesChan`. `feed`, `confirmed`, `members`, `keyboards`, `polls`,
`told` and `posted` are Telegram: the log of updates, the offset, who is in
which chat, the buttons the administrator sees, the polls, the last notice the
author of a form received, the forms in the chat.

A handler is one action unless another goroutine can come between two of its
steps and matter:

| Action | Code |
|---|---|
| `RecordSender`, `AddMember`, `DropMember`, `EndMessage` | `processMessage` with `processNewChatMembers` and `processLeftChatMember`, a statement each |
| `AnswerJoinRequest` | `processChatJoinRequest` |
| `DecideForm`, `Announce` | `processFormCallbackQuery`, up to the statement and after it (the post to the chat waits for an answer) |
| `DecideUser` | `processUserCallbackQuery` |
| `GiveUp`, `GiveUpAfter` | the error returns: before a change, and after one (`UpdateOrCreateUser` reads the row again) |
| `Authenticate`, `RefuseForm`, `StampForm`, `CreateForm`, `NotifyOfForm` | `Auth`, then `profileForm` step by step; `CreateForm` reads the clock before the insert |
| `SendMessage` | `startProcessingMessages`: sent, given up, or put back at the end after code 429 |
| `Crash`, `Confirm` | restart with offset 0 and empty channels; the getter asking for more |
| `Write`, `Join`, `Leave`, `AskToJoin`, `PressForm`, `PressPoll` | people, as far as Telegram lets them: one writes in groups one is in, presses buttons one sees |

The handlers also log errors, which makes alerts; those belong to `BotPipeline`.

A statement can fail in two ways that look the same to the code: without effect
(fault `db`) or, because the answer was lost, after it took effect (`dbAnswer`).
`GiveUpAfter`, `CreateForm`, `DecideForm` and `DecideUser` have both. The same is
true of the synchronous post to the chat in `Announce`: `groupSend` is a post that
is not there, `groupAnswer` one that Telegram made although `Send` returned an
error; the handler returns either way, without a poll. The sender does nothing
after a message that depends on the answer (429 apart, which says that the message
was refused): one that arrives although its answer is lost is one that arrives.

The status `banned` is left out: nothing in the repository sets it.

### BotPipeline and Delivery

State: `arrived` and `confirmed` at Telegram, `offset` and `batch` of the getter,
the channels, and `pending`: what each goroutine is about to put into
`messagesChan`. A goroutine whose `pending` is not empty is blocked in `send`, be
it the getter or the sender that only meant to log an error. `handled`,
`produced`, `delivered`, `dropped` and `born` are history variables and are reset
by a crash.

`/get_backup` is a second way to handle an update (`BackupCommand`): it sets
`busy`, announces the backup and starts a goroutine (`worker`), which makes a
temporary file and runs pg_dump on it (`CreateTemp`, `EndDump`, with the deferred
removal of the file), puts the archive or the failure into `messagesChan` and
releases `busy` (`EndBackup`). `files` survives a crash, as the disk does.

`Delivery` is the promise, without goroutines and channels: a process takes
updates one after the other (`Take`, `Close` when it is done with one), accepts a
message once (`Accept`), and delivers it or gives it up once (`Refuse`: Telegram
refused it, or did not answer). `Restart` is a crash: the messages are gone, and
the new process begins after some update that has arrived and lies at most
`Window` behind the last one that was finished, so it may repeat any number of
updates and miss few. The mapping is `base <- born`, `taken` the last of
`handled`, `open <- ~BetweenUpdates`, `accepted <- produced`, `refused <-
dropped`, and `Window` is `UpdatesCap + 1`. The getter, the backups and an answer
429 are invisible.

### Scheduler and Occurrences

State: `next` is `scheduled_jobs.next_run_at`, `runs` is `job_runs`; for each
scheduler the place it is at (`pc`), whether its context is cancelled, the rows
its transaction has locked, the runs in hand and the one it works on. A claim is
three actions: `Select` takes the locks, `Commit` makes all changes visible or
`Rollback` none. Commit may take effect although the answer is lost. `Known`
says which jobs a release has handlers of.

`Occurrences` is the promise: a job enters once, occurrences are taken in the
order of the schedule (`Take`), each taken one is performed at most once or lost.
The mapping is `due <- next`, `hand` the union of what the schedulers have in
hand, `done <- executed`. Clock, locks, `job_runs` and crashes are invisible.

### Migration and Process

State of `Migration`: `db` is what is committed, reduced to what the versions tell
apart; `holder` has the advisory lock; `step` is where a process is in
`migratePostgres`, and `view` what its transaction sees. Each statement is an
action. A failure or the death of a process rolls back, unless the commit was
under way, and may leave the lock with a `Ghost`, a connection whose client is
gone, until the server drops it (`Reap`). All `Processes` are of this release; a
later one comes in as `LaterRelease`, whose transaction takes the same lock and
is, from outside, one step to the database `Later`. It may come at any moment,
also under a process that is on its way up or serves: the version is looked at in
`migratePostgres` only. A process that starts afterwards finds the version
unsupported.

`Process` adds `run`: `stage` is how far it is, `pool`, `sched`, `cancelled`,
`requests` and `stuck` (messagesChan is full and nobody takes from it) are its
parts. `Unwind`, `Close` and `Exit` are the deferred calls in their order, which
every error return takes, too. The scheduler's goroutine (`Scheduler`) is
reduced to whether it polls, waits or has ended. That the sender can block
itself comes from `BotPipeline` (`SenderWakesUp` is violated); here it is a fault
(`Stall`). Processes in `Migrators` run with `ONLY_MAKE_MIGRATIONS`.

`run` does not wait for the goroutines of the bot. What an update in progress
leaves undone when the process exits is what a crash leaves undone, which is in
`Moderation` and `BotPipeline`.

### Site

State: `users` (the statuses), `tokens` (one row per person, of which the uuid is
an index into `issued`), the processor with its `/login` commands, the links in
`outbox` and in the chats (`sent`), the browser's `cookie` and a `tab`. A request
carries the cookie of the moment it is sent in; an answer sets the cookie when
it arrives (`Receive`), which may be after another tab has changed it
(`CookieChanges`). `ServePage` is `Auth`, then `ProfileRedirectMiddleware` for the
routes that use it, then the handler, on one copy of the row. `OtherUpdate` is
what the other handlers (`Moderation`) do to a row, and `Crash` keeps of
`BotPipeline` that updates may be lost or repeated. An error of the database
looks to `Auth` like a wrong token: it clears the cookie.

## Runs

| Run | Instance | Shows |
|---|---|---|
| `moderation_crash` | 1 person who may join and leave, 1 chat, 1 request, 4 updates, 1 crash; statements and posts to the chat fail, with or without effect | `TypeOK`, `Vouched`, `PublicFormJustified`, `ApprovalJustified` |
| `moderation_quiet` | 1 person, 2 chats, 2 requests, 3 updates; code 429 | `LeaverNotActive`, `IndexAgreesWithInfo` |
| `moderation_decisions` | 1 person, 5 updates, fair; statements and posts fail | `PendingFormHasButtons`, `AuthorInformed`, `NewcomerHasPoll`, `FormReachesModerator`, `DecisionReachesAuthor` |
| `moderation_notice` | 3 updates | violation of `AcceptNoticeTruthful` |
| `pipeline_safety` | channels of 1 (updates) and 2 (messages), 3 updates, 2 backups, 1 crash; polls, dumps and sends fail, code 429 | `TypeOK`, `UpdatesInOrder`, `MessagesOnce`, `BackupExclusive`, `TempFilesRemoved`, `ImplementsDelivery` |
| `pipeline_live` | channels of 1, 3 updates, 1 request, 1 backup, fair; statements and pg_dump fail | `UpdatesHandled`, `MessagesDelivered`, `BackupAnswered`, `BackupAvailable` |
| `pipeline_stuck` | channel of 3, code 429, fair | violation of `SenderWakesUp` |
| `scheduler_safety` | 2 releases, 2 jobs, clock up to 5; everything fails | `TypeOK`, `RunsInThePast`, `HeldRunHasRow`, `PerformedOnce`, `ImplementsOccurrences` |
| `scheduler_live` | 2 processes, clock up to 4, fair; handlers fail | `ProcessesDueWork`, `RunsSettle` |
| `scheduler_never` | a job that never comes round, fair | violation of `ProcessesDueWork` |
| `process_restarts` | a server and a migrator on each of 5 databases, a later release at any time, 2 requests, 3 failures or deaths, 2 signals, fair | `TypeOK`, `NoConflict`, `StartsOnCurrentSchema`, `PoolOutlivesUsers`, `UpgradeAtOnce`, `SignalEnds`, `ServesAtLast` |
| `site_visits` | 2 people, 2 commands, 1 failure, 1 change of a row, fair | `TypeOK`, `IndexForKnownPeople`, `DeadLinksStayDead`, `VisitsEnd`, `LinkArrives` |

Bounds. One person is enough for Moderation's properties: each is about one person
or one form, and no handler relates two people except the several new members of
one message, whose statements are separate (the proofs are for any number). Five
updates hold: writing to the bot, accepting, rejecting and accepting again, and a
press under the poll; or joining and leaving twice. The four of `moderation_crash`
hold the first message, the join, the leave and the request to join, or the first
message, the administrator's two presses and the request: a form may be stored for
somebody who was a member when the request was authenticated and has left since,
and the approval of a request to join may wait while its person leaves. One crash
shows the loss and the repetition of updates; a second one repeats the same. A
channel of 1 is full as soon as there is one entry, which is what 60 are for a
busy chat. After code 429 the sender puts two messages into the channel for the
one it took: with a capacity of 1 it would wait for ever, 2, as in
`pipeline_safety`, is just enough for the message to be sent again, and too little
when somebody else is quicker, and 3 takes two rounds of code 429 to fill. Two
backup goroutines would be enough to overlap; since one ends before the next
begins, a third would repeat the first. Two schedulers suffice for every conflict
over a row; jobs with periods 2 and 3 and a clock up to 5 are due alone, together
and with a backlog, and the clean-up meets rows old enough to delete. Two
processes are enough for a lock and a version that one finds and the other has
just made; three failures let one die with the lock held, and again after the
restart, while the other fails too; every database a release may find is an
initial state, and the later release needs no bound, as it migrates only once. In
`site_visits` two people may share the browser, two commands replace a link or are
repeated by a crash, and one failure in any place is followed by a time without
failures, which is what `LinkArrives` is about; the number of visits is not
bounded. The clock and the number of updates, forms, crashes, failures, signals
and changes are bounded in the guards (`MaxTime`, `MaxEvents`, `MaxForms`,
`MaxUpdates`, `MaxAsks`, `MaxCrashes`, `MaxFaults`, `MaxSignals`, `MaxChanges`).
Deadlock is checked in `scheduler_safety`, `process_restarts` and `site_visits`;
elsewhere the system may come to rest when the bounds are reached.

Fairness. Goroutines are weakly fair: the Go runtime schedules every one that
can go on, and each loops for ever (`bot.go:78-82`, `scheduler.go:130-142`). In
the pipeline a send is fair for each goroutine, which is Go's first-in-first-out
queue of blocked senders. That Telegram answers is part of the sender's
fairness; that a request already accepted is served is part of the web's. What
people do, failures, signals, crashes and the clock are never fair. A
scheduler's fairness includes that it is started again: docker restarts the
container (`restart: always`, docker-compose.yml:50). So it is in `Process`, where
the way up is strongly fair, because PostgreSQL grants a lock to one waiter after
the other, and so is the end of the scheduler's goroutine, because `select` takes
each of two ready cases again and again; the server drops dead connections. In
`Site` the processor, the sender, the web server and the browser that follows a
redirect are weakly fair; what people do, other tabs and expiry are not.
`LinkArrives` speaks of the time after the last failure, of which there are
finitely many.

## Findings

* `moderation_notice`: the notice `AcceptFormReply` says that the form was sent
  to the chat; when the post failed, it was not, and there is no poll.
* `pipeline_stuck`: after enough answers 429 the sender waits for room in the
  channel that only it empties, and with it everything that sends or logs.
* `scheduler_never`: one job that never comes round stops all others, because a
  claim is one transaction for the batch.

## Proofs

All theorems are checked by TLAPS for every value of the constants that the
named assumptions allow (`ConstantsAssumption`, `PipelineAssumption`,
`SchedulerAssumption`, `MigrationAssumption`, `DatabasesAssumption`,
`ProcessAssumption`, `SiteAssumption`: disjoint names, natural bounds, for the
scheduler that the next occurrence after t is later than t, or the zero time, and
for the migration that the first process finds one of the five databases).

`ModerationProofs`: `Inv` is `TypeOK` with `Honest`, `Vouched`,
`PublicFormJustified` and `ApprovalJustified`. `Honest` is what the three others
need to be inductive: they speak about the tables, and a step of the processor
changes a table because of an update, so updates themselves must come from
people who were in the chat they write in or leave (Telegram's part), and the
copy of the row that a web request holds must have been right once, although
the row may say something else now. History only grows (`LogGrows`), so what
was justified remains so. `TypeOK` says more than types: ids in buttons,
messages and requests are those of rows, and the processor is inside the
handler its `pc` names; without that `Cur` might be no form press at all.
Theorems: `TypeCorrect`, `InvHolds`, `StatusesVouched`, `PublicFormsJustified`,
`ApprovalsJustified`.

`ApplicantProofs` proves the five invariants that are about what applicants see.
None is inductive alone, and the messages in `outbox` are why: each is a promise
that something will be so when it is sent.

* `FormsHaveButtons` (`PendingFormHasButtons`) needs that no message which takes a
  keyboard away is about an undecided form, neither one in the queue nor one
  that `Announce` or a request without moderation is about to make (`ButtonsInv`).
* `NewcomersHavePolls` (`NewcomerHasPoll`) needs that whoever has a row keeps it and
  who is no longer new never is again (`Settled`): a form posted without a poll
  belongs to somebody who needs none, be it the row or a request's old copy of it
  that said so, and a poll is stopped only after its person was decided upon
  (`PollsInv`, which also has to say that a press in the log is about the person
  of its poll).
* `AuthorsInformed` (`AuthorInformed`) needs an order: of the notices about a form the
  last one counts, delivered or queued (`LastWordFits`). It fits the status,
  unless the request that stored the form has yet to send the first, `Announce`
  is about to send the next, or nobody moderates the form (`NoticesInv`). A form
  whose request is not over is unknown to everybody else (`Untold`), which is why
  no verdict can come before its receipt.
* `PagesAgree` (`IndexAgreesWithInfo`) needs that time stamps differ, those of
  requests which have read the clock and not inserted yet included (`StampsInv`),
  so that of a person's accepted forms exactly one is the latest. That a finite set
  has a maximum would be an induction over data; the invariant carries it
  instead, from one form to the next.
* `LeaversNotActive` (`LeaverNotActive`) needs that what makes a member of somebody
  outside all chats is followed, in the log, by the news that they left
  (`LeaversInv`).

What is assumed is part of each statement and is what "What does not hold"
excepts. The first three say `NothingLost` (no crash, and no message that the
sender gives up; code 429 may happen, but for `AuthorsInformed`).
`FormsHaveButtons` and `AuthorsInformed` say `Answered` too: a statement that
fails had no effect; posts to the chat may fail in either way.
`NewcomersHavePolls` does without that but says `PostsAnswered`: a post that fails
is not in the chat. `LeaversNotActive` says `NothingSkipped` (no crash, no failing
statement, with effect or without), and `PagesAgree` assumes nothing: lost answers
are among what it allows. The theorems of `ModerationProofs` assume nothing
either. Each invariant was checked by TLC on small instances before it was proved.

`SchedulerProofs`: `Inv` is `TypeOK`, `RunsInThePast` and `HeldRunHasRow` with
`LocksExclude` (a locked row is locked by one scheduler, and stays due),
`HandsExclude` (an occurrence is in one hand and not both in hand and in work)
and `HandedOut` (what is in hand or performed lies behind `next`). The last
three are why two claims hand out different occurrences: locks keep a row's
`next` still while a transaction uses it, and every commit leaves behind what
it handed out. There is a lemma per action. Theorems: `InvHolds`, `TypeCorrect`,
`ClaimsNeverConflict`, `HeldRunsHaveRows`, `AtMostOnce`, and `Implements`, the
refinement of `Occurrences`: `Start` maps to `Enter`, `Commit` to `Take` of the
locked jobs (with nothing handed out when the answer is lost), `Begin` to
`Perform` or `Lose`, `Stop` and `Crash` to `Lose`, all else to stuttering.
`PromiseIsOnce` says what that is worth: in every behaviour of `Occurrences`, whoever
keeps it, an occurrence lies behind its job's schedule once it is handed out
(`Behind`), the schedule only advances, and so none is handed out or performed
again (`OnlyOnce`). `HandedOutOnce` carries it over to the schedulers.

`BotPipelineProofs`: `Inv` is `TypeOK` with `Continued` (`handled`, `updatesChan`
and `batch` continue each other, id by id, from `born` on) and `OffsetFollows`
(the offset is that of the first update not yet in `updatesChan`, or 0 as long
as there was none, and Telegram has been told no more). `UpdatesInOrder` alone
is not inductive: what the next answer of `GetUpdates` begins with depends on
the offset. Theorems: `InvHolds`, `TypeCorrect`, `InOrder`, `LossIsBounded`. `OneBackup` and
`NoCopyLeft` follow from `BackupExclusive` and `TempFilesRemoved` together: an
equivalence between `busy` and the goroutines is inductive, an implication is not,
and a file of this process is that of the one goroutine that dumps.

`MessageProofs`: `DInv` takes the channel and the sender's hands apart (`InPlace`)
and says why a message is new when it is put into the channel: it is about the
update being handled, which is later than all before it (`Own`, `Old`; this rests
on `Inv`), or a request's or a backup's own, and a backup has said nothing before
it reports (`Silent`; of two backups only one could, by `BackupExclusive`).
Theorems: `EachMessageOnce`, which is `MessagesOnce`, and `PipelineDelivers`, the
refinement of `Delivery`, with a lemma per action: `ProcessUpdate` maps to `Take`,
because the head of `updatesChan` follows what was handled (`Continued`); `Send` to
`Accept`, because what enters the channel is new (`New`), but to `Close` or to
stuttering for an alert or what the sender puts back; `SendMessage` to `Deliver`,
`Refuse` or stuttering, because what leaves the channel is neither delivered nor
refused yet (`InPlace`); `StartBackup` to `Close`; and `Crash` to `Restart`, because
of `LossBounded`, which `LossIsBounded` states as an invariant.

`MigrationProofs`: `MInv` is `MigrationTypeOK` with `OneMigrator` (whoever is past
the lock holds it) and `ViewOK` (what each statement rests on: which database is
committed and what the transaction has made of it). `NoConflict` alone is not
inductive: that a table is missing when it is made depends on nobody else having
committed since the look, a later release included, which finds the lock taken.
Theorems: `MigrationInvHolds`, `StartsDoNotConflict`, `MigratedHasCurrent`,
`Upgrades`.

`ProcessProofs`: `ImplementsMigration` is a refinement, `Spec => MigrationSpec`
with the same variables: starts, failures and deaths of whole processes are
`Enter`, `MigrationFails` and `Quit`, everything else stutters. So the theorems of
`MigrationProofs` hold of processes (`ProcessesDoNotConflict`,
`ProcessesUpgrade`). `PInv` adds what each stage says about pool, goroutine and
requests (`StageOK`): a goroutine that polls means a pool that is open, because
`Close` waits for it. Theorems: `ProcessTypeCorrect`, `PoolOutlives` and
`StartsOnCurrent`, which is as much as holds: a serving process has seen the
current schema, and what is there now is that schema or a later release's.

`SiteProofs`: `SInv` is `TypeOK` with `TokensOK` (a token's row belongs to a person
with a row, for whom its uuid was made) and `IndexForKnownPeople` with the owner
of the page. `DeadLinks` then needs only that a new uuid is none of the old ones,
and that rows of `users` stay. Theorems: `SInvHolds`, `SiteTypeCorrect`,
`IndexIsForKnownPeople`, `DeadLinks`.

Only model-checked: liveness, because it needs fairness and ENABLED, which TLAPS
does not do (`FormReachesModerator`, `DecisionReachesAuthor`, `UpdatesHandled`,
`MessagesDelivered`, `BackupAnswered`, `BackupAvailable`, `ProcessesDueWork`,
`RunsSettle`, `SignalEnds`, `ServesAtLast`, `VisitsEnd`, `LinkArrives`). Every other
property of a passing run is a theorem.

## What does not hold, and is not claimed

* A lost update or a failed statement can leave somebody who left `active` for
  ever (`LeaverNotActive` is checked without such failures).
* A post to the chat that fails although Telegram made it (a timeout) leaves an
  accepted form in the chat without a poll: `sendNewFormToGroup` returns at any
  error. `NewcomerHasPoll` is checked and proved without lost answers of posts.
* A decision that is stored although its statement failed leaves the form decided,
  with its buttons and without a notice; a form that is stored although the insert
  failed is shown to nobody. `PendingFormHasButtons`, `AuthorInformed` and the two
  leads-to properties are checked without lost answers of statements.
* With code 429 a receipt may arrive after the verdict, and when Telegram refuses
  the administrator's message the receipt says more than is true.
* A message that Telegram refuses is not sent again: `MessagesOnce` counts it as
  done with.
* A later release that migrates while an older process serves takes the schema
  away under it: the older process goes on, and only its next start refuses.
  Nothing in the code prevents that; the release script avoids it by stopping the
  old container first.
* Any later press overwrites a status, however old its poll is.
* A run interrupted by a crash or a cancelled context stays `running`.
* When the HTTP server fails, or after the 4 seconds of `Shutdown`, requests are
  cut off (`cut`): `PoolOutlivesUsers` excepts them. So is an update the bot is
  working on, always.
* A login whose answer from the database is lost kills the old link without a
  new one (`LinkArrives` speaks of commands that are followed by no failure).
* An error of the database in `Auth` logs the browser out.

## Plan

Done: Moderation, its invariants and proofs, those of applicants included;
Scheduler, Occurrences and the refinement; BotPipeline with Backup, Delivery and
the refinement; Migration, Process and the refinement; Site.

Next, in this order:

1. An abstract specification of admission (a form is submitted, decided, voted
   on; a person is let in) that `Moderation` implements.
2. The safety part of the leads-to properties: what a step may not undo while a
   message, a poll or a run is on its way.

## Not modelled

* Calendar (`pkg/database/model/form.go`, `AddDate`): age, its Russian wording and
  the parsing of dates are pure functions of a value or two; no state depends on
  them, and the unit tests list their boundaries.
* Templates, HTML and CSS: wording and layout.
* Commands that only read and reply; their replies are among `BotPipeline`'s.
* Configuration: the environment is read and refused before anything happens.
  The development mode without log-in (`NO_AUTH`) and the bot-less mode without
  `BOT_TOKEN` are left out.
* Release scripts: they replace the one container (`--force-recreate`), the old
  process first. That several processes, of one release or of two, work on one
  database is what the database code provides for with its locks, and what
  `Scheduler` and `Process` check; the scripts do not bring it about.
* Contents of profiles and forms, including which answers are valid:
  `RefuseForm` is the refusal, whatever its reason.
