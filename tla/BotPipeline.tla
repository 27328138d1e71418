---------------------------- MODULE BotPipeline ----------------------------
(***************************************************************************)
(* The goroutines and channels of the bot (pkg/telegram/bot.go, Start):    *)
(* one gets updates and fills updatesChan, one processes them, one takes   *)
(* messages from messagesChan and sends them.  Web handlers send too, and  *)
(* so does the hook that main.go gives the logger: whatever is logged as a *)
(* warning or worse becomes a message to the administrator, put into       *)
(* messagesChan by the goroutine that logs it, the sender included.  A     *)
(* backup of the database (pkg/backup) runs in a goroutine of its own.     *)
(*                                                                         *)
(* What an update or a message says is left out (see Moderation): a        *)
(* handler sends any number of replies up to a bound, or logs an error.    *)
(***************************************************************************)
EXTENDS Integers, Sequences, SequencesExt

CONSTANTS
    Requests,       \* web requests that submit a form
    Backups,        \* goroutines that make a backup (bound: that many at once)
    UpdatesCap,     \* capacity of updatesChan
    MessagesCap,    \* capacity of messagesChan
    MaxReplies,     \* messages that handling one update may send
    Faults,         \* which failures may happen
    MaxUpdates,     \* bound: updates
    MaxCrashes      \* bound: crashes of the process

FaultKinds == {"poll", "db", "dump", "refused", "429", "crash"}

ASSUME PipelineAssumption ==
    /\ UpdatesCap \in Nat \ {0} /\ MessagesCap \in Nat \ {0}
    /\ MaxReplies \in Nat /\ MaxUpdates \in Nat /\ MaxCrashes \in Nat
    /\ Faults \subseteq FaultKinds
    /\ Requests \cap {"getter", "processor", "sender"} = {}
    /\ Backups \cap ({"getter", "processor", "sender"} \cup Requests) = {}

VARIABLES
    arrived,        \* Telegram has the updates 1..arrived for the bot
    confirmed,      \* and never delivers 1..confirmed again
    offset,         \* offset of startGettingUpdates
    batch,          \* what GetUpdates returned and is not in updatesChan yet
    updatesChan,
    messagesChan,
    pending,        \* what a goroutine is about to put into messagesChan
    busy,           \* backupBusy
    worker,         \* how far a backup goroutine is, and for which update
    files,          \* temporary archives on disk: goroutine and process that made them
    handled,        \* history of this process: the updates taken, in order
    produced,       \* history of this process: the messages put into messagesChan
    delivered,      \* ... those that Telegram took
    dropped,        \* ... and those given up after an error: refused, or not answered
    born,           \* what was confirmed when this process started
    crashes

telegram == <<arrived, confirmed>>
getting  == <<offset, batch>>
backup   == <<busy, worker, files>>
history  == <<handled, produced, delivered, dropped, born, crashes>>
vars == <<telegram, getting, updatesChan, messagesChan, pending, backup, history>>

Goroutines == {"getter", "processor", "sender"} \cup Requests \cup Backups

\* The message the logger's hook sends to the administrator.
Alert == [kind |-> "alert"]

Message == [kind: {"reply"}, update: 1..MaxUpdates, no: 1..MaxReplies]
           \cup [kind: {"form"}, request: Requests, no: {1, 2}]
           \cup [kind: {"started", "refused", "result"}, update: 1..MaxUpdates]

Replies(u, n) == [i \in 1..n |-> [kind |-> "reply", update |-> u, no |-> i]]

\* profileForm sends a receipt to the author and the form to the administrator.
FormMessages(r) == [i \in 1..2 |-> [kind |-> "form", request |-> r, no |-> i]]

\* To the administrator, about the backup that update u asks for; "result" is
\* the archive, or that there is none.
AboutBackup(kind, u) == [kind |-> kind, update |-> u]

\* How far a backup is; update 0 is none.
Progress == [phase: {"none", "announced", "started", "dumping", "reporting"},
             update: 0..MaxUpdates]

NoBackup == [phase |-> "none", update |-> 0]

Init ==
    /\ arrived = 0 /\ confirmed = 0
    /\ offset = 0 /\ batch = <<>>
    /\ updatesChan = <<>> /\ messagesChan = <<>>
    /\ pending = [g \in Goroutines |-> IF g \in Requests THEN FormMessages(g) ELSE <<>>]
    /\ busy = FALSE /\ worker = [b \in Backups |-> NoBackup] /\ files = {}
    /\ handled = <<>> /\ produced = {} /\ delivered = {} /\ dropped = {}
    /\ born = 0 /\ crashes = 0

CanFail(kind) == kind \in Faults

Wants(g, messages) == pending' = [pending EXCEPT ![g] = messages]

Free(g) == pending[g] = <<>>

\* The processor is done with the last update: also with starting a goroutine.
BetweenUpdates ==
    Free("processor") /\ \A b \in Backups : worker[b].phase # "announced"

-----------------------------------------------------------------------------
(* b.send, by any goroutine: waits for room. *)

Send(g) ==
    /\ pending[g] # <<>>
    /\ Len(messagesChan) < MessagesCap
    /\ messagesChan' = Append(messagesChan, Head(pending[g]))
    /\ pending' = [pending EXCEPT ![g] = Tail(@)]
    /\ produced' = produced \cup ({Head(pending[g])} \ {Alert})
    /\ UNCHANGED <<telegram, getting, updatesChan, backup, handled, delivered, dropped, born, crashes>>

-----------------------------------------------------------------------------
(* startGettingUpdates. *)

\* The server confirms everything below the offset it is asked for.  (Names that
\* end in _ and a word are faulty variants of the definition that follows them;
\* no action uses them.)
Confirm_Batch == confirmed' = arrived  \* confirms what it is about to return

Confirm == confirmed' = IF offset > confirmed THEN offset - 1 ELSE confirmed

\* The answer holds some of the oldest updates that are not confirmed, or none;
\* a call that fails may have reached the server or not.
GetUpdates ==
    /\ batch = <<>> /\ Free("getter")
    /\ \/ /\ Confirm
          /\ \E n \in 1..(arrived - confirmed') : batch' = [i \in 1..n |-> confirmed' + i]
          /\ UNCHANGED pending
       \/ /\ Confirm /\ confirmed' # confirmed
          /\ UNCHANGED <<batch, pending>>
       \/ /\ CanFail("poll")
          /\ Confirm \/ UNCHANGED confirmed
          /\ Wants("getter", <<Alert>>)
          /\ UNCHANGED batch
    /\ UNCHANGED <<arrived, offset, updatesChan, messagesChan, backup, history>>

After_Twice(u) == u + 2

\* The offset that leaves out u and everything before it.
After(u) == u + 1

PushUpdate_NoWait ==  \* drops an update that does not fit
    /\ batch # <<>>
    /\ batch' = Tail(batch) /\ offset' = After(Head(batch))
    /\ updatesChan' = IF Len(updatesChan) < UpdatesCap
                         THEN Append(updatesChan, Head(batch)) ELSE updatesChan
    /\ UNCHANGED <<telegram, messagesChan, pending, backup, history>>

\* An update below the offset is skipped, any other waits for room.
PushUpdate ==
    /\ batch # <<>>
    /\ IF Head(batch) >= offset
       THEN /\ Len(updatesChan) < UpdatesCap
            /\ updatesChan' = Append(updatesChan, Head(batch))
            /\ offset' = After(Head(batch))
       ELSE UNCHANGED <<updatesChan, offset>>
    /\ batch' = Tail(batch)
    /\ UNCHANGED <<telegram, messagesChan, pending, backup, history>>

-----------------------------------------------------------------------------
(* startProcessingUpdates: the handler runs until its last message is in    *)
(* messagesChan; one that fails logs an error, perhaps half way.            *)

Answer(u) ==
    /\ \E n \in 0..MaxReplies :
         \/ Wants("processor", Replies(u, n))
         \/ CanFail("db") /\ Wants("processor", Append(Replies(u, n), Alert))
    /\ UNCHANGED backup

BackupCommand_NoSwap(u) ==  \* sets backupBusy without looking at it
    \E b \in Backups :
        /\ worker[b] = NoBackup
        /\ busy' = TRUE
        /\ worker' = [worker EXCEPT ![b] = [phase |-> "announced", update |-> u]]
        /\ Wants("processor", <<AboutBackup("started", u)>>)
        /\ UNCHANGED files

\* /get_backup of the administrator: the goroutine starts when the notice is
\* in messagesChan.
BackupCommand(u) ==
    \/ /\ ~busy /\ busy' = TRUE
       /\ \E b \in Backups :
            /\ worker[b] = NoBackup
            /\ worker' = [worker EXCEPT ![b] = [phase |-> "announced", update |-> u]]
       /\ Wants("processor", <<AboutBackup("started", u)>>)
       /\ UNCHANGED files
    \/ /\ busy /\ Wants("processor", <<AboutBackup("refused", u)>>)
       /\ UNCHANGED backup

ProcessUpdate ==
    /\ BetweenUpdates /\ updatesChan # <<>>
    /\ updatesChan' = Tail(updatesChan)
    /\ handled' = Append(handled, Head(updatesChan))
    /\ Answer(Head(updatesChan)) \/ BackupCommand(Head(updatesChan))
    /\ UNCHANGED <<telegram, getting, messagesChan, produced, delivered, dropped, born, crashes>>

-----------------------------------------------------------------------------
(* The goroutine that processGetBackupCommand starts, and Create. *)

Moves(b, phase) == worker' = [worker EXCEPT ![b].phase = phase]

StartBackup(b) ==
    /\ worker[b].phase = "announced" /\ Free("processor")
    /\ Moves(b, "started")
    /\ UNCHANGED <<telegram, getting, updatesChan, messagesChan, pending, busy, files, history>>

Failure_Silent(b) == <<Alert>>  \* logs the failure only

Failure(b) == <<Alert, AboutBackup("result", worker[b].update)>>

\* A temporary file is made, which may fail, and pg_dump is started on it.
CreateTemp(b) ==
    /\ worker[b].phase = "started"
    /\ \/ /\ files' = files \cup {<<b, crashes>>}
          /\ Moves(b, "dumping") /\ UNCHANGED pending
       \/ /\ CanFail("dump") /\ Wants(b, Failure(b))
          /\ Moves(b, "reporting") /\ UNCHANGED files
    /\ UNCHANGED <<telegram, getting, updatesChan, messagesChan, busy, history>>

RemoveTemp_OnSuccess(b) ==  \* keeps the file when there is no archive
    files' = IF Head(pending'[b]) = Alert THEN files ELSE files \ {<<b, crashes>>}

\* The deferred os.Remove.
RemoveTemp(b) == files' = files \ {<<b, crashes>>}

\* pg_dump ends or is stopped after 5 minutes; an archive that is too large or
\* cannot be read is a failure too.
EndDump(b) ==
    /\ worker[b].phase = "dumping" /\ Moves(b, "reporting")
    /\ \/ Wants(b, <<AboutBackup("result", worker[b].update)>>)
       \/ CanFail("dump") /\ Wants(b, Failure(b))
    /\ RemoveTemp(b)
    /\ UNCHANGED <<telegram, getting, updatesChan, messagesChan, busy, history>>

Release_Never == UNCHANGED busy  \* no deferred Store(false)

Release == busy' = FALSE

\* The last send returned.
EndBackup(b) ==
    /\ worker[b].phase = "reporting" /\ Free(b)
    /\ Release
    /\ worker' = [worker EXCEPT ![b] = NoBackup]
    /\ UNCHANGED <<telegram, getting, updatesChan, messagesChan, pending, files, history>>

-----------------------------------------------------------------------------
(* startProcessingMessages. *)

OnSuccess_Chatty == Wants("sender", <<Alert>>)  \* a hook that takes any log entry

OnSuccess == UNCHANGED pending

\* Too many requests: the error is logged, which sends an alert, and then the
\* message is put back.
OnTooMany_Drop(m) == Wants("sender", <<Alert>>)  \* is not put back

OnTooMany(m) == Wants("sender", <<Alert, m>>)

Settle(set, m) == set \cup ({m} \ {Alert})

\* Sent; given up after an error, because Telegram refused the message or its
\* answer did not arrive (then it may have taken the message: the bot cannot
\* know); or put off.
SendMessage ==
    /\ Free("sender") /\ messagesChan # <<>>
    /\ messagesChan' = Tail(messagesChan)
    /\ LET m == Head(messagesChan)
       IN  \/ /\ OnSuccess
              /\ delivered' = Settle(delivered, m) /\ UNCHANGED dropped
           \/ /\ CanFail("refused") /\ Wants("sender", <<Alert>>)
              /\ dropped' = Settle(dropped, m) /\ UNCHANGED delivered
           \/ /\ CanFail("429") /\ OnTooMany(m)
              /\ UNCHANGED <<delivered, dropped>>
    /\ UNCHANGED <<telegram, getting, updatesChan, backup, handled, produced, born, crashes>>

-----------------------------------------------------------------------------
\* The process dies, or is told to stop: goroutines end and channels are lost.
\* One that is told to stop may still remove its temporary file.
Crash ==
    /\ CanFail("crash") /\ crashes < MaxCrashes
    /\ crashes' = crashes + 1
    /\ offset' = 0 /\ batch' = <<>>
    /\ updatesChan' = <<>> /\ messagesChan' = <<>>
    /\ pending' = [g \in Goroutines |-> <<>>]
    /\ busy' = FALSE /\ worker' = [b \in Backups |-> NoBackup]
    /\ files' \in {files, {f \in files : f[2] # crashes}}
    /\ handled' = <<>> /\ produced' = {} /\ delivered' = {} /\ dropped' = {}
    /\ born' = confirmed
    /\ UNCHANGED telegram

Arrive ==
    /\ arrived < MaxUpdates /\ arrived' = arrived + 1
    /\ UNCHANGED <<confirmed, getting, updatesChan, messagesChan, pending, backup, history>>

Next ==
    \/ \E g \in Goroutines : Send(g)
    \/ GetUpdates \/ PushUpdate
    \/ ProcessUpdate
    \/ \E b \in Backups : StartBackup(b) \/ CreateTemp(b) \/ EndDump(b) \/ EndBackup(b)
    \/ SendMessage
    \/ Crash
    \/ Arrive

Spec == Init /\ [][Next]_vars

\* The runtime schedules every goroutine, and Telegram answers.
Fairness ==
    /\ \A g \in Goroutines : WF_vars(Send(g))
    /\ WF_vars(GetUpdates \/ PushUpdate)
    /\ WF_vars(ProcessUpdate)
    /\ \A b \in Backups :
         WF_vars(StartBackup(b) \/ CreateTemp(b) \/ EndDump(b) \/ EndBackup(b))
    /\ WF_vars(SendMessage)

FairSpec == Spec /\ Fairness

-----------------------------------------------------------------------------
(* What must hold. *)

\* Every variable has its type and the channels keep within their capacity.
TypeOK ==
    /\ arrived \in 0..MaxUpdates /\ confirmed \in 0..arrived
    /\ offset \in 0..(arrived + 1)
    /\ batch \in Seq(1..arrived)
    /\ updatesChan \in Seq(1..arrived) /\ Len(updatesChan) <= UpdatesCap
    /\ messagesChan \in Seq(Message \cup {Alert}) /\ Len(messagesChan) <= MessagesCap
    /\ pending \in [Goroutines -> Seq(Message \cup {Alert})]
    /\ busy \in BOOLEAN
    /\ worker \in [Backups -> Progress]
    /\ files \subseteq Backups \X (0..crashes)
    /\ handled \in Seq(1..arrived)
    /\ produced \subseteq Message /\ delivered \subseteq Message /\ dropped \subseteq Message
    /\ born \in 0..confirmed /\ crashes \in 0..MaxCrashes

\* As long as the process lives, it handles the updates one after the other in
\* the order of their ids and leaves none out, although getter and processor
\* wait for room and GetUpdates may fail after Telegram has confirmed.
UpdatesInOrder ==
    LET line == handled \o updatesChan \o batch
    IN  \A i \in DOMAIN line : line[i] = born + i

\* A crash loses at most what fits in updatesChan and the update being
\* processed: GetUpdates confirms only what the getter has put there.
Completed == born + Len(handled) - (IF BetweenUpdates THEN 0 ELSE 1)

LossBounded == confirmed - Completed <= UpdatesCap + 1

\* Goroutines and channels implement Delivery: seen from outside, updates are
\* taken in order, a message is accepted, delivered or given up once, and a
\* restart repeats updates but loses no more than fit between the answer that
\* confirms them and the end of the handler.
Service == INSTANCE Delivery WITH
               Messages <- Message,
               Window   <- UpdatesCap + 1,
               base     <- born,
               taken    <- IF handled = <<>> THEN born ELSE handled[Len(handled)],
               open     <- ~BetweenUpdates,
               accepted <- produced,
               refused  <- dropped

ImplementsDelivery == Service!DSpec

InTransit == messagesChan \o pending["sender"]

\* No message is lost or sent twice while the process lives, however often
\* Telegram puts it off: one that was put into messagesChan is at one place,
\* and if it is at none it was delivered, or given up after another error than
\* code 429 (when Telegram refused it or did not answer).
MessagesOnce ==
    LET waiting == ToSet(InTransit) \ {Alert}
    IN  /\ \A i, j \in DOMAIN InTransit :
             InTransit[i] = InTransit[j] /\ InTransit[i] # Alert => i = j
        /\ delivered \cap dropped = {}
        /\ waiting \cap (delivered \cup dropped) = {}
        /\ produced = waiting \cup delivered \cup dropped

\* One backup at a time: backupBusy is set from the command until its goroutine
\* has put the last message into messagesChan, however long that waits.
BackupExclusive ==
    /\ \A b, c \in Backups : worker[b] # NoBackup /\ worker[c] # NoBackup => b = c
    /\ busy <=> \E b \in Backups : worker[b] # NoBackup

\* The database is on disk only while pg_dump writes it, and after a crash:
\* every way out of Create removes the file.
TempFilesRemoved ==
    \A f \in files : f[2] = crashes => worker[f[1]].phase = "dumping"

\* Nothing waits for ever: when all sends succeed, every update is handled and
\* every message delivered, although producers fill both channels.
UpdatesHandled == \A u \in 1..MaxUpdates : u <= arrived ~> u \in ToSet(handled)

MessagesDelivered == \A m \in Message : m \in produced ~> m \in delivered

\* Who is told that a backup is being made gets it or is told that it failed,
\* and can then ask for another one.
BackupAnswered ==
    \A u \in 1..MaxUpdates :
        AboutBackup("started", u) \in produced ~> AboutBackup("result", u) \in delivered

BackupAvailable == busy ~> ~busy

\* "Too many requests, sleeping for 1 second" (bot.go:137): and then it is not
\* asleep any more.
SenderWakesUp == ~Free("sender") ~> Free("sender")
=============================================================================
