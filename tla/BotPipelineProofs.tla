------------------------- MODULE BotPipelineProofs -------------------------
(***************************************************************************)
(* Proofs about BotPipeline for any capacities, any number of requests,    *)
(* updates and crashes, and every combination of failures: updates are     *)
(* handled in order, and a crash loses few of them.                        *)
(***************************************************************************)
EXTENDS BotPipeline, SequenceTheorems, TLAPS

\* Where the three places that hold updates continue each other: each begins
\* where the one before it ends.
Continued ==
    /\ \A i \in 1..Len(handled) : handled[i] = born + i
    /\ \A i \in 1..Len(updatesChan) : updatesChan[i] = born + Len(handled) + i
    /\ \A i \in 1..Len(batch) : batch[i] = born + Len(handled) + Len(updatesChan) + i

Received == born + Len(handled) + Len(updatesChan)

\* The offset follows what is in updatesChan, and Telegram is never told more.
OffsetFollows ==
    /\ confirmed <= Received
    /\ offset # 0 => offset = Received + 1
    /\ offset = 0 => handled = <<>> /\ updatesChan = <<>>

\* A backup goroutine works for an update that was handled.
BackupOfUpdate == \A b \in Backups : worker[b] # NoBackup => worker[b].update \in 1..MaxUpdates

Inv == TypeOK /\ Continued /\ OffsetFollows /\ BackupOfUpdate

MessageOrAlert == Message \cup {Alert}

-----------------------------------------------------------------------------
(* Data. *)

\* A function on 1..n is a sequence.
LEMMA FunctionIsSeq ==
    ASSUME NEW S, NEW n \in Nat, NEW f \in [1..n -> S]
    PROVE  f \in Seq(S) /\ Len(f) = n
BY SeqDef

\* What handling an update may send are messages.
LEMMA RepliesType ==
    ASSUME NEW u \in 1..MaxUpdates, NEW n \in 0..MaxReplies
    PROVE  Replies(u, n) \in Seq(MessageOrAlert)
<1> DEFINE f == [i \in 1..n |-> [kind |-> "reply", update |-> u, no |-> i]]
<1>1. n \in Nat /\ \A i \in 1..n : i \in 1..MaxReplies
  BY PipelineAssumption
<1>2. \A i \in 1..n : [kind |-> "reply", update |-> u, no |-> i] \in MessageOrAlert
  BY <1>1 DEF Message, MessageOrAlert
<1>3. f \in [1..n -> MessageOrAlert]
  BY <1>2
<1> QED
  BY <1>1, <1>3, FunctionIsSeq DEF Replies

\* So are a request's.
LEMMA FormMessagesType ==
    ASSUME NEW r \in Requests
    PROVE  FormMessages(r) \in Seq(MessageOrAlert)
<1> DEFINE f == [i \in 1..2 |-> [kind |-> "form", request |-> r, no |-> i]]
<1>1. \A i \in 1..2 : [kind |-> "form", request |-> r, no |-> i] \in MessageOrAlert
  <2>1. \A i \in 1..2 : i = 1 \/ i = 2
    OBVIOUS
  <2> QED
    BY <2>1 DEF Message, MessageOrAlert
<1>2. f \in [1..2 -> MessageOrAlert]
  BY <1>1
<1> QED
  BY <1>2, FunctionIsSeq DEF FormMessages

\* Wants keeps the type of pending.
LEMMA WantsType ==
    ASSUME pending \in [Goroutines -> Seq(MessageOrAlert)],
           NEW g \in Goroutines, NEW ms \in Seq(MessageOrAlert), Wants(g, ms)
    PROVE  pending' \in [Goroutines -> Seq(MessageOrAlert)]
BY DEF Wants

\* A goroutine that makes no backup has a type too.
LEMMA NoBackupType == NoBackup \in Progress
BY PipelineAssumption DEF NoBackup, Progress

\* Only messages are sent about a backup.
LEMMA AboutBackupType ==
    ASSUME NEW kind \in {"started", "refused", "result"}, NEW u \in 1..MaxUpdates
    PROVE  AboutBackup(kind, u) \in MessageOrAlert
BY DEF AboutBackup, Message, MessageOrAlert

\* Answering an update with replies or an alert keeps the type of pending.
LEMMA AnswerType ==
    ASSUME pending \in [Goroutines -> Seq(MessageOrAlert)],
           NEW u \in 1..MaxUpdates, Answer(u)
    PROVE  pending' \in [Goroutines -> Seq(MessageOrAlert)]
<1>1. PICK n \in 0..MaxReplies :
           Wants("processor", Replies(u, n)) \/ Wants("processor", Append(Replies(u, n), Alert))
  BY DEF Answer
<1>2. Replies(u, n) \in Seq(MessageOrAlert)
  BY RepliesType
<1>3. Append(Replies(u, n), Alert) \in Seq(MessageOrAlert)
  BY <1>2, AppendProperties DEF MessageOrAlert
<1> QED
  BY <1>1, <1>2, <1>3, WantsType DEF Goroutines

\* The backup command keeps the types of what it changes.
LEMMA BackupCommandType ==
    ASSUME TypeOK, NEW u \in 1..MaxUpdates, BackupCommand(u)
    PROVE  /\ pending' \in [Goroutines -> Seq(MessageOrAlert)]
           /\ busy' \in BOOLEAN /\ worker' \in [Backups -> Progress] /\ files' = files
<1>1. pending \in [Goroutines -> Seq(MessageOrAlert)] /\ worker \in [Backups -> Progress]
  BY DEF TypeOK, MessageOrAlert
<1>2. /\ <<AboutBackup("started", u)>> \in Seq(MessageOrAlert)
      /\ <<AboutBackup("refused", u)>> \in Seq(MessageOrAlert)
      /\ "processor" \in Goroutines
  BY AboutBackupType DEF Goroutines
<1>3. pending' \in [Goroutines -> Seq(MessageOrAlert)]
  BY <1>1, <1>2, WantsType DEF BackupCommand
<1>4. [phase |-> "announced", update |-> u] \in Progress
  BY PipelineAssumption DEF Progress
<1> QED
  BY <1>1, <1>3, <1>4 DEF BackupCommand, backup, TypeOK

\* A longer log of updates keeps the types of everything made from it.
LEMMA SeqUpTo ==
    ASSUME NEW a \in Nat, NEW b \in Nat, a <= b, NEW s \in Seq(1..a)
    PROVE  s \in Seq(1..b)
<1>1. 1..a \subseteq 1..b
  OBVIOUS
<1> QED
  BY <1>1, SeqMonotonic

-----------------------------------------------------------------------------
(* Inv is inductive. *)

LEMMA InitInv == Init => Inv
<1> SUFFICES ASSUME Init PROVE Inv
  OBVIOUS
<1>1. pending \in [Goroutines -> Seq(MessageOrAlert)]
  BY FormMessagesType DEF Init
<1>2. worker \in [Backups -> Progress] /\ BackupOfUpdate
  BY NoBackupType DEF Init, BackupOfUpdate
<1>3. TypeOK
  <2>1. /\ arrived = 0 /\ confirmed = 0 /\ offset = 0 /\ born = 0 /\ crashes = 0
        /\ batch = <<>> /\ updatesChan = <<>> /\ messagesChan = <<>> /\ handled = <<>>
        /\ busy = FALSE /\ files = {} /\ produced = {} /\ delivered = {} /\ dropped = {}
    BY DEF Init
  <2>2. /\ \A S : <<>> \in Seq(S)
        /\ Len(<<>>) = 0 /\ 0 <= UpdatesCap /\ 0 <= MessagesCap
    BY PipelineAssumption
  <2>3. /\ arrived \in 0..MaxUpdates /\ confirmed \in 0..arrived /\ offset \in 0..(arrived + 1)
        /\ born \in 0..confirmed /\ crashes \in 0..MaxCrashes
    BY <2>1, PipelineAssumption
  <2> QED
    BY <1>1, <1>2, <2>1, <2>2, <2>3 DEF TypeOK, MessageOrAlert
<1> QED
  BY <1>2, <1>3 DEF Init, Inv, Continued, OffsetFollows, Received

\* A goroutine moves its next message into messagesChan when there is room.
LEMMA SendInv ==
    ASSUME Inv, NEW g \in Goroutines, Send(g)
    PROVE  Inv'
<1>1. pending[g] \in Seq(MessageOrAlert) /\ pending[g] # <<>>
  BY DEF Inv, TypeOK, MessageOrAlert, Send
<1>2. /\ Head(pending[g]) \in MessageOrAlert
      /\ Tail(pending[g]) \in Seq(MessageOrAlert)
  BY <1>1, HeadTailProperties
<1>3. pending' \in [Goroutines -> Seq(MessageOrAlert)]
  BY <1>2 DEF Send, Inv, TypeOK, MessageOrAlert
<1>4. /\ messagesChan' \in Seq(MessageOrAlert)
      /\ Len(messagesChan') <= MessagesCap
  <2>1. messagesChan \in Seq(MessageOrAlert) /\ messagesChan' = Append(messagesChan, Head(pending[g]))
    BY DEF Inv, TypeOK, MessageOrAlert, Send
  <2>2. messagesChan' \in Seq(MessageOrAlert) /\ Len(messagesChan') = Len(messagesChan) + 1
    BY <1>2, <2>1, AppendProperties
  <2> QED
    BY <2>1, <2>2, LenProperties, PipelineAssumption DEF Send
<1>5. produced' \subseteq Message
  BY <1>2 DEF Send, Inv, TypeOK, MessageOrAlert
<1>6. UNCHANGED <<arrived, confirmed, offset, batch, updatesChan, busy, worker, files,
                  handled, delivered, dropped, born, crashes>>
  BY DEF Send, telegram, getting, backup
<1>7. TypeOK'
  BY <1>3, <1>4, <1>5, <1>6 DEF Inv, TypeOK, MessageOrAlert
<1> QED
  BY <1>6, <1>7 DEF Inv, Continued, OffsetFollows, Received, BackupOfUpdate

\* What Confirm leaves behind.
LEMMA ConfirmBound ==
    ASSUME Inv, confirmed' = confirmed \/ Confirm
    PROVE  /\ confirmed' \in Nat /\ confirmed <= confirmed'
           /\ confirmed' <= arrived /\ confirmed' <= Received
           /\ Confirm => confirmed' = Received
<1>1. /\ confirmed \in Nat /\ offset \in Nat /\ arrived \in Nat /\ born \in Nat
      /\ confirmed <= arrived /\ offset <= arrived + 1 /\ born <= confirmed
  BY PipelineAssumption DEF Inv, TypeOK
<1>2. Len(handled) \in Nat /\ Len(updatesChan) \in Nat
  BY LenProperties DEF Inv, TypeOK
<1>3. confirmed <= Received /\ (offset # 0 => offset = Received + 1)
  BY DEF Inv, OffsetFollows
<1>4. offset = 0 => Received = born
  BY <1>1 DEF Inv, OffsetFollows, Received
<1>5. Received \in Nat
  BY <1>1, <1>2 DEF Received
<1>6. CASE confirmed' = confirmed /\ ~Confirm
  BY <1>1, <1>3, <1>6
<1>7. CASE Confirm
  BY <1>1, <1>3, <1>4, <1>5, <1>7 DEF Confirm
<1> QED
  BY <1>6, <1>7

\* A poll returns the unconfirmed updates in order and confirms those received.
LEMMA GetUpdatesInv ==
    ASSUME Inv, GetUpdates
    PROVE  Inv'
<1>1. /\ UNCHANGED <<arrived, offset, updatesChan, messagesChan, busy, worker, files,
                     handled, produced, delivered, dropped, born, crashes>>
      /\ batch = <<>>
      /\ confirmed' = confirmed \/ Confirm
  BY DEF GetUpdates, history, backup
<1>2. /\ confirmed' \in Nat /\ confirmed <= confirmed'
      /\ confirmed' <= arrived /\ confirmed' <= Received
      /\ Confirm => confirmed' = Received
  BY <1>1, ConfirmBound
<1>3. pending' \in [Goroutines -> Seq(MessageOrAlert)]
  <2>1. pending \in [Goroutines -> Seq(MessageOrAlert)]
    BY DEF Inv, TypeOK, MessageOrAlert
  <2>2. <<Alert>> \in Seq(MessageOrAlert) /\ "getter" \in Goroutines
    BY DEF MessageOrAlert, Goroutines
  <2>3. pending' = pending \/ Wants("getter", <<Alert>>)
    BY DEF GetUpdates
  <2> QED
    BY <2>1, <2>2, <2>3, WantsType
<1>4. /\ batch' \in Seq(1..arrived)
      /\ \A i \in 1..Len(batch') : batch'[i] = Received + i
  <2>1. CASE batch' = batch
    BY <1>1, <2>1
  <2>2. ASSUME Confirm,
               NEW n \in 1..(arrived - confirmed'), batch' = [i \in 1..n |-> confirmed' + i]
        PROVE  /\ batch' \in Seq(1..arrived)
               /\ \A i \in 1..Len(batch') : batch'[i] = Received + i
    <3>1. arrived \in Nat /\ n \in Nat
      BY <1>2 DEF Inv, TypeOK
    <3>2. \A i \in 1..n : confirmed' + i \in 1..arrived
      BY <1>2, <2>2, <3>1
    <3>3. batch' \in [1..n -> 1..arrived]
      BY <2>2, <3>2
    <3>4. batch' \in Seq(1..arrived) /\ Len(batch') = n
      BY <3>1, <3>3, FunctionIsSeq
    <3> QED
      BY <1>2, <2>2, <3>4
  <2> QED
    BY <2>1, <2>2 DEF GetUpdates
<1>5. TypeOK'
  <2>1. born <= confirmed' /\ confirmed' \in 0..arrived /\ born \in Nat
    BY <1>2, PipelineAssumption DEF Inv, TypeOK
  <2> QED
    BY <1>1, <1>3, <1>4, <2>1 DEF Inv, TypeOK, MessageOrAlert
<1>6. Continued'
  BY <1>1, <1>4 DEF Inv, Continued, Received
<1>7. OffsetFollows'
  BY <1>1, <1>2 DEF Inv, OffsetFollows, Received
<1> QED
  BY <1>1, <1>5, <1>6, <1>7 DEF Inv, BackupOfUpdate

\* The head of the batch goes to updatesChan, the order kept.
LEMMA PushUpdateInv ==
    ASSUME Inv, PushUpdate
    PROVE  Inv'
<1>1. /\ UNCHANGED <<arrived, confirmed, messagesChan, pending, busy, worker, files,
                     handled, produced, delivered, dropped, born, crashes>>
      /\ batch # <<>> /\ batch' = Tail(batch)
  BY DEF PushUpdate, history, telegram, backup
<1>2. /\ Len(handled) \in Nat /\ Len(updatesChan) \in Nat /\ Len(batch) \in Nat
      /\ arrived \in Nat /\ born \in Nat /\ confirmed \in Nat /\ offset \in Nat
  BY LenProperties, PipelineAssumption DEF Inv, TypeOK
<1>3. /\ Head(batch) = batch[1] /\ Head(batch) \in 1..arrived
      /\ Len(batch) >= 1
      /\ batch' \in Seq(1..arrived) /\ Len(batch') = Len(batch) - 1
      /\ \A i \in 1..Len(batch') : batch'[i] = batch[i + 1]
  BY <1>1, HeadTailProperties, EmptySeq DEF Inv, TypeOK
<1>4. Head(batch) = Received + 1
  BY <1>2, <1>3 DEF Inv, Continued, Received
<1>5. /\ Len(updatesChan) < UpdatesCap
      /\ updatesChan' = Append(updatesChan, Head(batch))
      /\ offset' = Head(batch) + 1
  BY <1>2, <1>4 DEF PushUpdate, After, Inv, OffsetFollows, Received
<1>6. /\ updatesChan' \in Seq(1..arrived) /\ Len(updatesChan') = Len(updatesChan) + 1
      /\ \A i \in 1..Len(updatesChan) : updatesChan'[i] = updatesChan[i]
      /\ updatesChan'[Len(updatesChan) + 1] = Head(batch)
  BY <1>3, <1>5, AppendProperties DEF Inv, TypeOK
<1>7. TypeOK'
  <2>1. offset' \in 0..(arrived + 1)
    BY <1>2, <1>3, <1>5
  <2>2. Len(updatesChan') <= UpdatesCap
    BY <1>2, <1>5, <1>6, PipelineAssumption
  <2> QED
    BY <1>1, <1>3, <1>6, <2>1, <2>2 DEF Inv, TypeOK
<1>8. Received' = Received + 1
  BY <1>1, <1>2, <1>6 DEF Received
<1>9. Continued'
  <2>1. ASSUME NEW i \in 1..Len(updatesChan')
        PROVE  updatesChan'[i] = born + Len(handled) + i
    <3>1. i \in 1..Len(updatesChan) \/ i = Len(updatesChan) + 1
      BY <1>2, <1>6
    <3>2. CASE i \in 1..Len(updatesChan)
      BY <1>6, <3>2 DEF Inv, Continued
    <3>3. CASE i = Len(updatesChan) + 1
      BY <1>2, <1>4, <1>6, <3>3 DEF Received
    <3> QED
      BY <3>1, <3>2, <3>3
  <2>2. \A i \in 1..Len(batch') : batch'[i] = Received' + i
    BY <1>2, <1>3, <1>8 DEF Inv, Continued, Received
  <2> QED
    BY <1>1, <2>1, <2>2 DEF Inv, Continued, Received
<1>10. OffsetFollows'
  BY <1>1, <1>2, <1>4, <1>5, <1>8 DEF Inv, OffsetFollows, Received
<1> QED
  BY <1>1, <1>7, <1>9, <1>10 DEF Inv, BackupOfUpdate

\* The processor takes the oldest update of updatesChan.
LEMMA ProcessUpdateInv ==
    ASSUME Inv, ProcessUpdate
    PROVE  Inv'
<1>1. /\ UNCHANGED <<arrived, confirmed, offset, batch, messagesChan, produced,
                     delivered, dropped, born, crashes>>
      /\ updatesChan # <<>> /\ updatesChan' = Tail(updatesChan)
      /\ handled' = Append(handled, Head(updatesChan))
  BY DEF ProcessUpdate, getting, telegram
<1>2. /\ Len(handled) \in Nat /\ Len(updatesChan) \in Nat /\ Len(batch) \in Nat
      /\ arrived \in Nat /\ arrived <= MaxUpdates /\ born \in Nat /\ UpdatesCap \in Nat
      /\ MaxUpdates \in Nat
  BY LenProperties, PipelineAssumption DEF Inv, TypeOK
<1>3. /\ Head(updatesChan) = updatesChan[1] /\ Head(updatesChan) \in 1..arrived
      /\ Len(updatesChan) >= 1
      /\ updatesChan' \in Seq(1..arrived) /\ Len(updatesChan') = Len(updatesChan) - 1
      /\ \A i \in 1..Len(updatesChan') : updatesChan'[i] = updatesChan[i + 1]
  BY <1>1, HeadTailProperties, EmptySeq DEF Inv, TypeOK
<1>4. Head(updatesChan) = born + Len(handled) + 1
  BY <1>2, <1>3 DEF Inv, Continued
<1>5. /\ handled' \in Seq(1..arrived) /\ Len(handled') = Len(handled) + 1
      /\ \A i \in 1..Len(handled) : handled'[i] = handled[i]
      /\ handled'[Len(handled) + 1] = Head(updatesChan)
  BY <1>1, <1>3, AppendProperties DEF Inv, TypeOK
<1>6. /\ pending' \in [Goroutines -> Seq(MessageOrAlert)]
      /\ busy' \in BOOLEAN /\ worker' \in [Backups -> Progress] /\ files' = files
  <2>1. Head(updatesChan) \in 1..MaxUpdates
    BY <1>2, <1>3
  <2>2. CASE Answer(Head(updatesChan))
    BY <2>1, <2>2, AnswerType DEF Inv, TypeOK, MessageOrAlert, backup, Answer
  <2>3. CASE BackupCommand(Head(updatesChan))
    BY <2>1, <2>3, BackupCommandType DEF Inv
  <2> QED
    BY <2>2, <2>3 DEF ProcessUpdate
<1>7. TypeOK'
  <2>1. Len(updatesChan') <= UpdatesCap
    BY <1>2, <1>3 DEF Inv, TypeOK
  <2>2. /\ messagesChan \in Seq(MessageOrAlert) /\ Len(messagesChan) <= MessagesCap
        /\ files \subseteq Backups \X (0..crashes) /\ crashes \in 0..MaxCrashes
        /\ produced \subseteq Message /\ delivered \subseteq Message /\ dropped \subseteq Message
    BY DEF Inv, TypeOK, MessageOrAlert
  <2>3. /\ arrived \in 0..MaxUpdates /\ confirmed \in 0..arrived /\ offset \in 0..(arrived + 1)
        /\ batch \in Seq(1..arrived) /\ born \in 0..confirmed
    BY DEF Inv, TypeOK
  <2> QED
    BY <1>1, <1>3, <1>5, <1>6, <2>1, <2>2, <2>3 DEF TypeOK, MessageOrAlert
<1>8. Received' = Received
  BY <1>1, <1>2, <1>3, <1>5 DEF Received
<1>9. Continued'
  <2>1. ASSUME NEW i \in 1..Len(handled')
        PROVE  handled'[i] = born + i
    <3>1. i \in 1..Len(handled) \/ i = Len(handled) + 1
      BY <1>2, <1>5
    <3>2. ASSUME i \in 1..Len(handled) PROVE handled'[i] = born + i
      BY <1>5, <3>2 DEF Inv, Continued
    <3>3. ASSUME i = Len(handled) + 1 PROVE handled'[i] = born + i
      BY <1>2, <1>4, <1>5, <3>3
    <3> QED
      BY <3>1, <3>2, <3>3
  <2>2. \A i \in 1..Len(updatesChan') : updatesChan'[i] = born + Len(handled') + i
    BY <1>2, <1>3, <1>5 DEF Inv, Continued
  <2>3. \A i \in 1..Len(batch') : batch'[i] = Received' + i
    BY <1>1, <1>8 DEF Inv, Continued, Received
  <2> QED
    BY <1>1, <2>1, <2>2, <2>3 DEF Continued, Received
<1>10. offset # 0
  BY <1>1 DEF Inv, OffsetFollows
<1>11. OffsetFollows'
  BY <1>1, <1>8, <1>10 DEF Inv, OffsetFollows
<1>12. BackupOfUpdate'
  <2>1. Head(updatesChan) \in 1..MaxUpdates
    BY <1>2, <1>3
  <2>2. CASE Answer(Head(updatesChan))
    BY <2>2 DEF Answer, backup, Inv, BackupOfUpdate
  <2>3. CASE BackupCommand(Head(updatesChan))
    BY <2>1, <2>3 DEF BackupCommand, backup, Inv, TypeOK, BackupOfUpdate
  <2> QED
    BY <2>2, <2>3 DEF ProcessUpdate
<1> QED
  BY <1>7, <1>9, <1>11, <1>12 DEF Inv

\* A backup goroutine leaves the updates alone; it sends messages only.
LEMMA BackupStepInv ==
    ASSUME Inv, NEW b \in Backups, StartBackup(b) \/ CreateTemp(b) \/ EndDump(b) \/ EndBackup(b)
    PROVE  Inv'
<1>1. UNCHANGED <<arrived, confirmed, offset, batch, updatesChan, messagesChan,
                  handled, produced, delivered, dropped, born, crashes>>
  BY DEF StartBackup, CreateTemp, EndDump, EndBackup, telegram, getting, history
<1>2. /\ pending \in [Goroutines -> Seq(MessageOrAlert)] /\ worker \in [Backups -> Progress]
      /\ files \subseteq Backups \X (0..crashes) /\ busy \in BOOLEAN
      /\ crashes \in Nat /\ MaxUpdates \in Nat
  <2>1. crashes \in 0..MaxCrashes
    BY DEF Inv, TypeOK
  <2> QED
    BY <2>1, PipelineAssumption DEF Inv, TypeOK, MessageOrAlert
<1>3. worker' \in [Backups -> Progress] /\ busy' \in BOOLEAN
  <2>1. NoBackup \in Progress
    BY NoBackupType
  <2>2. ASSUME NEW p \in {"started", "dumping", "reporting"}, Moves(b, p)
        PROVE  worker' \in [Backups -> Progress]
    <3>1. [worker[b] EXCEPT !.phase = p] \in Progress
      BY <1>2 DEF Progress
    <3> QED
      BY <1>2, <2>2, <3>1 DEF Moves
  <2>3. CASE StartBackup(b) \/ CreateTemp(b) \/ EndDump(b)
    BY <1>2, <2>2, <2>3 DEF StartBackup, CreateTemp, EndDump
  <2>4. CASE EndBackup(b)
    BY <1>2, <2>1, <2>4 DEF EndBackup, Release
  <2> QED
    BY <2>3, <2>4
<1>4. files' \subseteq Backups \X (0..crashes')
  BY <1>1, <1>2 DEF StartBackup, CreateTemp, EndDump, EndBackup, RemoveTemp
<1>5. pending' \in [Goroutines -> Seq(MessageOrAlert)]
  <2>1. CASE StartBackup(b) \/ EndBackup(b)
    BY <1>2, <2>1 DEF StartBackup, EndBackup
  <2>2. CASE CreateTemp(b) \/ EndDump(b)
    <3>1. worker[b].update \in 1..MaxUpdates
      BY <1>2, <2>2 DEF Inv, CreateTemp, EndDump, BackupOfUpdate, NoBackup
    <3>2. AboutBackup("result", worker[b].update) \in MessageOrAlert
      BY <3>1, AboutBackupType
    <3>3. /\ <<AboutBackup("result", worker[b].update)>> \in Seq(MessageOrAlert)
          /\ Failure(b) \in Seq(MessageOrAlert)
      BY <3>2 DEF Failure, MessageOrAlert
    <3> QED
      BY <1>2, <2>2, <3>3, WantsType DEF CreateTemp, EndDump, Goroutines
  <2> QED
    BY <2>1, <2>2
<1>6. TypeOK'
  BY <1>1, <1>3, <1>4, <1>5 DEF Inv, TypeOK, MessageOrAlert
<1>7. BackupOfUpdate'
  <2>1. CASE EndBackup(b)
    BY <1>2, <2>1 DEF Inv, BackupOfUpdate, EndBackup
  <2>2. CASE StartBackup(b) \/ CreateTemp(b) \/ EndDump(b)
    <3>1. worker[b] # NoBackup
      BY <2>2 DEF StartBackup, CreateTemp, EndDump, NoBackup
    <3>2. worker'[b].update = worker[b].update /\ \A c \in Backups : c # b => worker'[c] = worker[c]
      BY <1>2, <2>2 DEF StartBackup, CreateTemp, EndDump, Moves, Progress
    <3> QED
      BY <3>1, <3>2 DEF Inv, BackupOfUpdate
  <2> QED
    BY <2>1, <2>2
<1> QED
  BY <1>1, <1>6, <1>7 DEF Inv, Continued, OffsetFollows, Received

\* The sender takes the oldest message of messagesChan.
LEMMA SendMessageInv ==
    ASSUME Inv, SendMessage
    PROVE  Inv'
<1> DEFINE m == Head(messagesChan)
<1>1. /\ UNCHANGED <<arrived, confirmed, offset, batch, updatesChan, busy, worker, files,
                     handled, produced, born, crashes>>
      /\ messagesChan # <<>> /\ messagesChan' = Tail(messagesChan)
  BY DEF SendMessage, getting, telegram, backup
<1>2. /\ m \in MessageOrAlert /\ messagesChan' \in Seq(MessageOrAlert)
      /\ Len(messagesChan') = Len(messagesChan) - 1 /\ Len(messagesChan) \in Nat
  BY <1>1, HeadTailProperties, LenProperties DEF Inv, TypeOK, MessageOrAlert
<1>3. pending' \in [Goroutines -> Seq(MessageOrAlert)]
  <2>1. pending \in [Goroutines -> Seq(MessageOrAlert)] /\ "sender" \in Goroutines
    BY DEF Inv, TypeOK, MessageOrAlert, Goroutines
  <2>2. <<Alert>> \in Seq(MessageOrAlert) /\ <<Alert, m>> \in Seq(MessageOrAlert)
    BY <1>2 DEF MessageOrAlert
  <2>3. \/ pending' = pending
        \/ Wants("sender", <<Alert>>)
        \/ Wants("sender", <<Alert, m>>)
    BY DEF SendMessage, OnSuccess, OnTooMany
  <2> QED
    BY <2>1, <2>2, <2>3, WantsType
<1>4. delivered' \subseteq Message /\ dropped' \subseteq Message
  BY <1>2 DEF SendMessage, Settle, Inv, TypeOK, MessageOrAlert
<1>5. TypeOK'
  BY <1>1, <1>2, <1>3, <1>4, PipelineAssumption DEF Inv, TypeOK, MessageOrAlert
<1> QED
  BY <1>1, <1>5 DEF Inv, Continued, OffsetFollows, Received, BackupOfUpdate

\* A restart begins again at what Telegram had confirmed.
LEMMA CrashInv ==
    ASSUME Inv, Crash
    PROVE  Inv'
<1>1. TypeOK'
  <2>1. arrived' = arrived /\ confirmed' = confirmed /\ born' = confirmed
    BY DEF Crash, telegram
  <2>2. /\ crashes' = crashes + 1 /\ crashes' \in 0..MaxCrashes /\ crashes \in Nat
        /\ files' \subseteq files
    BY PipelineAssumption DEF Crash, Inv, TypeOK
  <2>3. files' \subseteq Backups \X (0..crashes')
    BY <2>2 DEF Inv, TypeOK
  <2>4. worker' \in [Backups -> Progress] /\ busy' \in BOOLEAN
    BY NoBackupType DEF Crash
  <2> QED
    BY <2>1, <2>2, <2>3, <2>4, PipelineAssumption DEF Crash, Inv, TypeOK
<1>2. /\ confirmed \in Nat /\ confirmed' = confirmed
      /\ born' = confirmed /\ offset' = 0
      /\ handled' = <<>> /\ updatesChan' = <<>> /\ batch' = <<>>
  BY DEF Crash, Inv, TypeOK, telegram
<1>3. Continued' /\ OffsetFollows'
  BY <1>2 DEF Continued, OffsetFollows, Received
<1>4. BackupOfUpdate'
  BY DEF Crash, BackupOfUpdate
<1> QED
  BY <1>1, <1>3, <1>4 DEF Inv

\* A new update changes nothing inside the bot.
LEMMA ArriveInv ==
    ASSUME Inv, Arrive
    PROVE  Inv'
<1>1. /\ UNCHANGED <<confirmed, offset, batch, updatesChan, messagesChan, pending,
                     busy, worker, files, handled, produced, delivered, dropped, born, crashes>>
      /\ arrived' = arrived + 1 /\ arrived < MaxUpdates
      /\ arrived \in Nat /\ MaxUpdates \in Nat
  BY PipelineAssumption DEF Arrive, getting, backup, history, Inv, TypeOK
<1>2. /\ batch \in Seq(1..(arrived + 1)) /\ updatesChan \in Seq(1..(arrived + 1))
      /\ handled \in Seq(1..(arrived + 1))
  <2>1. arrived + 1 \in Nat /\ arrived <= arrived + 1
    BY <1>1
  <2> QED
    BY <1>1, <2>1, SeqUpTo DEF Inv, TypeOK
<1>3. TypeOK'
  BY <1>1, <1>2 DEF Inv, TypeOK
<1> QED
  BY <1>1, <1>3 DEF Inv, Continued, OffsetFollows, Received, BackupOfUpdate

\* Every step, stuttering included.
LEMMA NextInv == Inv /\ [Next]_vars => Inv'
<1> SUFFICES ASSUME Inv, [Next]_vars PROVE Inv'
  OBVIOUS
<1>1. CASE \E g \in Goroutines : Send(g)
  BY <1>1, SendInv
<1>2. CASE GetUpdates
  BY <1>2, GetUpdatesInv
<1>3. CASE PushUpdate
  BY <1>3, PushUpdateInv
<1>4. CASE ProcessUpdate
  BY <1>4, ProcessUpdateInv
<1>9. CASE \E b \in Backups : StartBackup(b) \/ CreateTemp(b) \/ EndDump(b) \/ EndBackup(b)
  BY <1>9, BackupStepInv
<1>5. CASE SendMessage
  BY <1>5, SendMessageInv
<1>6. CASE Crash
  BY <1>6, CrashInv
<1>7. CASE Arrive
  BY <1>7, ArriveInv
<1>8. CASE UNCHANGED vars
  BY <1>8 DEF vars, telegram, getting, backup, history, Inv, TypeOK, Continued, OffsetFollows, Received, BackupOfUpdate
<1> QED
  BY <1>1, <1>2, <1>3, <1>4, <1>5, <1>6, <1>7, <1>8, <1>9 DEF Next

-----------------------------------------------------------------------------
(* The theorems. *)

\* In every reachable state batch continues updatesChan, updatesChan continues
\* what was handled, and the offset is that of the next update to come.
THEOREM InvHolds == Spec => []Inv
BY InitInv, NextInv, PTL DEF Spec

\* Every variable has its type and both channels keep within their capacity.
THEOREM TypeCorrect == Spec => []TypeOK
<1>1. Inv => TypeOK
  BY DEF Inv
<1> QED
  BY <1>1, InvHolds, PTL

\* A process handles updates in the order of their ids and leaves none out.
THEOREM InOrder == Spec => []UpdatesInOrder
<1>1. ASSUME Inv PROVE UpdatesInOrder
  <2> DEFINE two  == handled \o updatesChan
             line == two \o batch
  <2>1. /\ handled \in Seq(1..arrived) /\ updatesChan \in Seq(1..arrived)
        /\ batch \in Seq(1..arrived)
    BY <1>1 DEF Inv, TypeOK
  <2>2. /\ Len(handled) \in Nat /\ Len(updatesChan) \in Nat /\ Len(batch) \in Nat
    BY <2>1, LenProperties
  <2>3. /\ two \in Seq(1..arrived) /\ Len(two) = Len(handled) + Len(updatesChan)
        /\ \A i \in 1..Len(two) : two[i] = IF i <= Len(handled) THEN handled[i]
                                           ELSE updatesChan[i - Len(handled)]
    BY <2>1, ConcatProperties
  <2>4. /\ line \in Seq(1..arrived) /\ Len(line) = Len(two) + Len(batch)
        /\ \A i \in 1..Len(line) : line[i] = IF i <= Len(two) THEN two[i]
                                             ELSE batch[i - Len(two)]
    <3> HIDE DEF two
    <3>1. two \in Seq(1..arrived)
      BY <2>3
    <3>2. /\ two \o batch \in Seq(1..arrived)
          /\ Len(two \o batch) = Len(two) + Len(batch)
          /\ \A i \in 1..(Len(two) + Len(batch)) :
                (two \o batch)[i] = IF i <= Len(two) THEN two[i] ELSE batch[i - Len(two)]
      BY <2>1, <3>1, ConcatProperties
    <3>3. line = two \o batch
      OBVIOUS
    <3> HIDE DEF line
    <3> QED
      BY <3>2, <3>3
  <2>5. DOMAIN line = 1..Len(line)
    <3> HIDE DEF line
    <3> QED
      BY <2>4, LenProperties
  <2> HIDE DEF two, line
  <2>6. \A i \in 1..Len(two) : two[i] = born + i
    <3> TAKE i \in 1..Len(two)
    <3>1. born \in Nat
      BY <1>1, PipelineAssumption DEF Inv, TypeOK
    <3>2. CASE i <= Len(handled)
      BY <1>1, <2>2, <2>3, <3>2 DEF Inv, Continued
    <3>3. CASE ~(i <= Len(handled))
      <4>1. i - Len(handled) \in 1..Len(updatesChan)
        BY <2>2, <2>3, <3>3
      <4> QED
        BY <1>1, <2>2, <2>3, <3>1, <3>3, <4>1 DEF Inv, Continued
    <3> QED
      BY <3>2, <3>3
  <2>7. \A i \in 1..Len(line) : line[i] = born + i
    <3> TAKE i \in 1..Len(line)
    <3>1. born \in Nat
      BY <1>1, PipelineAssumption DEF Inv, TypeOK
    <3>2. CASE i <= Len(two)
      BY <2>2, <2>3, <2>4, <2>6, <3>2
    <3>3. CASE ~(i <= Len(two))
      <4>1. i - Len(two) \in 1..Len(batch)
        BY <2>2, <2>3, <2>4, <3>3
      <4>2. line[i] = batch[i - Len(two)]
        BY <2>4, <3>3
      <4>3. batch[i - Len(two)] = born + Len(handled) + Len(updatesChan) + (i - Len(two))
        BY <1>1, <4>1 DEF Inv, Continued
      <4>4. i \in Int /\ Len(two) = Len(handled) + Len(updatesChan)
        BY <2>3
      <4> QED
        BY <2>2, <3>1, <4>2, <4>3, <4>4
    <3> QED
      BY <3>2, <3>3
  <2> QED
    BY <2>5, <2>7 DEF UpdatesInOrder, line, two
<1> QED
  BY <1>1, InvHolds, PTL

\* What Telegram will not deliver again is in updatesChan, in the processor's
\* hands or done with.
LEMMA InvBoundsLoss == ASSUME Inv PROVE LossBounded
<1>1. /\ Len(handled) \in Nat /\ Len(updatesChan) \in Nat /\ UpdatesCap \in Nat
      /\ Len(updatesChan) <= UpdatesCap /\ born \in Nat /\ confirmed \in Nat
  BY LenProperties, PipelineAssumption DEF Inv, TypeOK
<1>2. confirmed <= born + Len(handled) + Len(updatesChan)
  BY DEF Inv, OffsetFollows, Received
<1>3. Completed = born + Len(handled) \/ Completed = born + Len(handled) - 1
  BY <1>1 DEF Completed
<1> QED
  BY <1>1, <1>2, <1>3 DEF LossBounded

\* At no moment would a crash lose more than UpdatesCap + 1 updates.
THEOREM LossIsBounded == Spec => []LossBounded
BY InvBoundsLoss, InvHolds, PTL

-----------------------------------------------------------------------------
(* Backups. *)

\* backupBusy and the temporary files follow the one goroutine that may live.
BackupInv == BackupExclusive /\ TempFilesRemoved

\* The steps of a backup goroutine keep both.
LEMMA BackupStepExclusive ==
    ASSUME Inv, BackupInv, NEW b \in Backups,
           StartBackup(b) \/ CreateTemp(b) \/ EndDump(b) \/ EndBackup(b)
    PROVE  BackupInv'
<1>1. /\ worker \in [Backups -> Progress] /\ files \subseteq Backups \X (0..crashes)
      /\ crashes' = crashes /\ worker[b] # NoBackup /\ busy
      /\ \A c \in Backups : c # b => worker[c] = NoBackup
  <2>1. worker[b].phase # "none"
    BY DEF StartBackup, CreateTemp, EndDump, EndBackup
  <2>2. worker[b] # NoBackup
    BY <2>1 DEF NoBackup
  <2> QED
    BY <2>2 DEF Inv, TypeOK, Progress, BackupInv, BackupExclusive,
                StartBackup, CreateTemp, EndDump, EndBackup, history
<1>2. \A c \in Backups : c # b => worker'[c] = NoBackup
  BY <1>1 DEF StartBackup, CreateTemp, EndDump, EndBackup, Moves
<1>3. CASE StartBackup(b) \/ CreateTemp(b) \/ EndDump(b)
  <2>1. worker'[b].phase # "none" /\ busy' = busy
    BY <1>1, <1>3 DEF StartBackup, CreateTemp, EndDump, Moves, Progress
  <2>2. worker'[b] # NoBackup
    BY <2>1 DEF NoBackup
  <2>3. BackupExclusive'
    BY <1>1, <1>2, <2>1, <2>2 DEF BackupExclusive
  <2>4. ASSUME NEW f \in files', f[2] = crashes
        PROVE  worker'[f[1]].phase = "dumping"
    <3>1. CASE StartBackup(b)
      BY <1>1, <2>4, <3>1 DEF StartBackup, BackupInv, TempFilesRemoved, Moves, Progress
    <3>2. CASE CreateTemp(b)
      BY <1>1, <2>4, <3>2 DEF CreateTemp, BackupInv, TempFilesRemoved, Moves, Progress
    <3>3. CASE EndDump(b)
      <4>1. f \in files /\ f # <<b, crashes>>
        BY <2>4, <3>3 DEF EndDump, RemoveTemp
      <4>2. f[1] \in Backups /\ f = <<f[1], f[2]>>
        BY <1>1, <4>1
      <4>3. f[1] # b
        BY <2>4, <4>1, <4>2
      <4> QED
        BY <1>1, <2>4, <4>1, <4>2, <4>3 DEF BackupInv, TempFilesRemoved, NoBackup
    <3> QED
      BY <1>3, <3>1, <3>2, <3>3
  <2> QED
    BY <1>1, <2>3, <2>4 DEF BackupInv, TempFilesRemoved
<1>4. CASE EndBackup(b)
  <2>1. worker'[b] = NoBackup /\ busy' = FALSE /\ files' = files
    BY <1>1, <1>4 DEF EndBackup, Release
  <2>2. BackupExclusive'
    BY <1>2, <2>1 DEF BackupExclusive
  <2>3. ASSUME NEW f \in files, f[2] = crashes
        PROVE  FALSE
    <3>1. worker[f[1]].phase = "dumping" /\ f[1] \in Backups
      BY <1>1, <2>3 DEF BackupInv, TempFilesRemoved
    <3> QED
      BY <1>1, <1>4, <3>1 DEF EndBackup, NoBackup
  <2> QED
    BY <1>1, <2>1, <2>2, <2>3 DEF BackupInv, TempFilesRemoved
<1> QED
  BY <1>3, <1>4

\* The command starts a goroutine only when none lives.
LEMMA BackupCommandExclusive ==
    ASSUME Inv, BackupInv, NEW u \in 1..MaxUpdates, BackupCommand(u), crashes' = crashes
    PROVE  BackupInv'
<1>1. CASE busy
  BY <1>1 DEF BackupCommand, backup, BackupInv, BackupExclusive, TempFilesRemoved
<1>2. CASE ~busy
  <2>1. \A c \in Backups : worker[c] = NoBackup
    BY <1>2 DEF BackupInv, BackupExclusive
  <2>2. PICK b \in Backups : worker' = [worker EXCEPT ![b] = [phase |-> "announced", update |-> u]]
    BY <1>2 DEF BackupCommand
  <2>3. busy' /\ files' = files
    BY <1>2 DEF BackupCommand
  <2>4. \A c \in Backups : worker'[c] # NoBackup <=> c = b
    BY <2>1, <2>2 DEF Inv, TypeOK, NoBackup
  <2>5. BackupExclusive'
    BY <2>3, <2>4 DEF BackupExclusive
  <2>6. \A f \in files : f[2] # crashes
    BY <2>1 DEF Inv, TypeOK, BackupInv, TempFilesRemoved, NoBackup
  <2> QED
    BY <2>3, <2>5, <2>6 DEF BackupInv, TempFilesRemoved
<1> QED
  BY <1>1, <1>2

\* Every step keeps them; a restarted process has made no file yet.
LEMMA BackupNext == Inv /\ BackupInv /\ [Next]_vars => BackupInv'
<1> SUFFICES ASSUME Inv, BackupInv, [Next]_vars PROVE BackupInv'
  OBVIOUS
<1>1. CASE UNCHANGED <<busy, worker, files, crashes>>
  BY <1>1 DEF BackupInv, BackupExclusive, TempFilesRemoved
<1>2. CASE \E b \in Backups : StartBackup(b) \/ CreateTemp(b) \/ EndDump(b) \/ EndBackup(b)
  BY <1>2, BackupStepExclusive
<1>3. CASE ProcessUpdate
  <2>1. crashes' = crashes
    BY <1>3 DEF ProcessUpdate
  <2>2. CASE Answer(Head(updatesChan))
    BY <1>1, <2>1, <2>2 DEF Answer, backup
  <2>3. CASE BackupCommand(Head(updatesChan))
    <3>1. Head(updatesChan) \in 1..arrived
      BY <1>3, HeadTailProperties, EmptySeq DEF ProcessUpdate, Inv, TypeOK
    <3>2. Head(updatesChan) \in 1..MaxUpdates
      BY <3>1, PipelineAssumption DEF Inv, TypeOK
    <3> QED
      BY <2>1, <2>3, <3>2, BackupCommandExclusive
  <2> QED
    BY <1>3, <2>2, <2>3 DEF ProcessUpdate
<1>4. CASE Crash
  <2>1. /\ \A b \in Backups : worker'[b] = NoBackup
        /\ busy' = FALSE /\ crashes' = crashes + 1 /\ files' \subseteq files
    BY <1>4 DEF Crash
  <2>2. \A f \in files : f[2] # crashes + 1
    BY PipelineAssumption DEF Inv, TypeOK
  <2> QED
    BY <2>1, <2>2 DEF BackupInv, BackupExclusive, TempFilesRemoved
<1>5. CASE \/ \E g \in Goroutines : Send(g)
           \/ GetUpdates \/ PushUpdate \/ SendMessage \/ Arrive
  <2>1. UNCHANGED <<backup, crashes>>
    BY <1>5 DEF Send, GetUpdates, PushUpdate, SendMessage, Arrive, history
  <2> QED
    BY <1>1, <2>1 DEF backup
<1>6. CASE UNCHANGED vars
  BY <1>1, <1>6 DEF vars, backup, history
<1> QED
  BY <1>2, <1>3, <1>4, <1>5, <1>6 DEF Next

\* At most one backup is made at a time, and backupBusy says so.
THEOREM OneBackup == Spec => []BackupExclusive
<1>1. Init => BackupInv
  BY DEF Init, BackupInv, BackupExclusive, TempFilesRemoved
<1>2. BackupInv => BackupExclusive
  BY DEF BackupInv
<1> QED
  BY <1>1, <1>2, BackupNext, InvHolds, PTL DEF Spec

\* No process that lives leaves a copy of the database on disk.
THEOREM NoCopyLeft == Spec => []TempFilesRemoved
<1>1. Init => BackupInv
  BY DEF Init, BackupInv, BackupExclusive, TempFilesRemoved
<1>2. BackupInv => TempFilesRemoved
  BY DEF BackupInv
<1> QED
  BY <1>1, <1>2, BackupNext, InvHolds, PTL DEF Spec
=============================================================================
