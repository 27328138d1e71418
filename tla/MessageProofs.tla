--------------------------- MODULE MessageProofs ---------------------------
(***************************************************************************)
(* For any capacities, goroutines, failures and crashes: no message that   *)
(* was put into messagesChan is lost or sent twice by a process that       *)
(* lives.  A message is new when it is put there, because updates come in  *)
(* order, a request and a backup speak for themselves, and only one backup *)
(* is made at a time.                                                      *)
(***************************************************************************)
EXTENDS BotPipelineProofs

\* The messages of a sequence that are no alerts, and that none is there twice.
Messages(s) == {s[i] : i \in DOMAIN s} \ {Alert}

Once(s) == \A i, j \in DOMAIN s : s[i] = s[j] /\ s[i] # Alert => i = j

\* The update handled last.
Latest == born + Len(handled)

\* Which messages a goroutine other than the sender has of its own.
Own(g, m) ==
    \/ /\ g = "processor" /\ m.kind \in {"reply", "started", "refused"}
       /\ m.update = Latest
    \/ g \in Requests /\ m.kind = "form" /\ m.request = g
    \/ g \in Backups /\ m.kind = "result" /\ m.update = worker[g].update

\* What waits to be put into messagesChan is new; what the sender puts back is not.
New ==
    \A g \in Goroutines \ {"sender"} :
        /\ Once(pending[g])
        /\ \A m \in Messages(pending[g]) : m \notin produced /\ Own(g, m)

\* What has been there is about updates that have been handled.
Old == \A m \in produced : m.kind # "form" => m.update <= Latest

\* A backup has said nothing before it reports.
Silent ==
    \A b \in Backups :
        /\ worker[b].phase # "reporting" => pending[b] = <<>>
        /\ worker[b] # NoBackup => worker[b].update <= Latest
        /\ worker[b].phase \in {"announced", "started", "dumping"} =>
              AboutBackup("result", worker[b].update) \notin produced

\* MessagesOnce, the channel and the sender's hands taken apart.
InPlace ==
    LET waiting == Messages(messagesChan) \cup Messages(pending["sender"])
    IN  /\ Once(messagesChan) /\ Once(pending["sender"])
        /\ Messages(messagesChan) \cap Messages(pending["sender"]) = {}
        /\ delivered \cap dropped = {}
        /\ waiting \cap (delivered \cup dropped) = {}
        /\ produced = waiting \cup delivered \cup dropped

DInv == New /\ Old /\ Silent /\ InPlace

-----------------------------------------------------------------------------
(* Sequences of messages. *)

\* Nothing is in an empty sequence, one thing in a sequence of one.
LEMMA ShortSeqs ==
    /\ Messages(<<>>) = {} /\ Once(<<>>)
    /\ Messages(<<Alert>>) = {} /\ Once(<<Alert>>)
    /\ \A m : Messages(<<m>>) = {m} \ {Alert} /\ Once(<<m>>)
    /\ \A m : Messages(<<Alert, m>>) = {m} \ {Alert} /\ Once(<<Alert, m>>)
BY DEF Messages, Once

\* What a message of a sequence is.
LEMMA MessageOf ==
    \A s, x : x \in Messages(s) <=> x # Alert /\ \E i \in DOMAIN s : s[i] = x
BY DEF Messages

\* Append adds a message, which must not be there yet.
LEMMA Appended ==
    ASSUME NEW S, NEW s \in Seq(S), NEW m \in S
    PROVE  /\ Messages(Append(s, m)) = Messages(s) \cup ({m} \ {Alert})
           /\ Once(s) /\ m \notin Messages(s) => Once(Append(s, m))
<1> DEFINE t == Append(s, m)
<1>1. /\ Len(s) \in Nat /\ DOMAIN s = 1..Len(s) /\ DOMAIN t = 1..(Len(s) + 1)
      /\ \A i \in 1..Len(s) : t[i] = s[i]
      /\ t[Len(s) + 1] = m
  BY AppendProperties, LenProperties
<1> HIDE DEF t
<1>2. Messages(t) = Messages(s) \cup ({m} \ {Alert})
  <2>1. \A x : (\E i \in DOMAIN t : t[i] = x) <=> (x = m \/ \E i \in DOMAIN s : s[i] = x)
    BY <1>1
  <2> QED
    BY <2>1, MessageOf
<1>3. ASSUME Once(s), m \notin Messages(s) PROVE Once(t)
  <2> SUFFICES ASSUME NEW i \in DOMAIN t, NEW j \in DOMAIN t, t[i] = t[j], t[i] # Alert
               PROVE  i = j
    BY DEF Once
  <2>1. \A k \in DOMAIN s : s[k] # Alert => s[k] # m
    BY <1>3 DEF Messages
  <2> QED
    BY <1>1, <1>3, <2>1 DEF Once
<1> QED
  BY <1>2, <1>3 DEF t

\* Taking the head removes it from the messages.
LEMMA Taken ==
    ASSUME NEW S, NEW s \in Seq(S), s # <<>>
    PROVE  /\ Messages(s) = Messages(Tail(s)) \cup ({Head(s)} \ {Alert})
           /\ Once(s) => Once(Tail(s)) /\ Head(s) \notin Messages(Tail(s))
<1> DEFINE t == Tail(s)
<1>1. /\ Len(s) \in Nat \ {0} /\ DOMAIN s = 1..Len(s) /\ DOMAIN t = 1..(Len(s) - 1)
      /\ \A i \in DOMAIN t : t[i] = s[i + 1] /\ i + 1 \in DOMAIN s
      /\ Head(s) = s[1] /\ 1 \in DOMAIN s
  BY HeadTailProperties, LenProperties, EmptySeq
<1> HIDE DEF t
<1>2. Messages(s) = Messages(t) \cup ({Head(s)} \ {Alert})
  <2>1. \A i \in DOMAIN s : i # 1 => i - 1 \in DOMAIN t /\ t[i - 1] = s[i]
    BY <1>1
  <2>2. \A x : (\E i \in DOMAIN s : s[i] = x) <=> (x = Head(s) \/ \E i \in DOMAIN t : t[i] = x)
    BY <1>1, <2>1
  <2> QED
    BY <2>2, MessageOf
<1>3. ASSUME Once(s) PROVE Once(t) /\ Head(s) \notin Messages(t)
  <2>1. Once(t)
    BY <1>1, <1>3 DEF Once
  <2>2. ASSUME NEW i \in DOMAIN t, t[i] = Head(s), t[i] # Alert PROVE FALSE
    <3>1. s[i + 1] = s[1] /\ s[i + 1] # Alert /\ i + 1 \in DOMAIN s /\ i + 1 # 1
      BY <1>1, <2>2
    <3> QED
      BY <1>1, <1>3, <3>1 DEF Once
  <2> QED
    BY <2>1, <2>2 DEF Messages
<1> QED
  BY <1>2, <1>3 DEF t

\* Two sequences that share nothing make one without repetitions, and it has
\* the messages of both.
LEMMA Joined ==
    ASSUME NEW S, NEW s \in Seq(S), NEW t \in Seq(S)
    PROVE  /\ Messages(s \o t) = Messages(s) \cup Messages(t)
           /\ Once(s) /\ Once(t) /\ Messages(s) \cap Messages(t) = {} => Once(s \o t)
<1> DEFINE c == s \o t
<1>1. /\ Len(s) \in Nat /\ Len(t) \in Nat
      /\ DOMAIN s = 1..Len(s) /\ DOMAIN t = 1..Len(t) /\ DOMAIN c = 1..(Len(s) + Len(t))
      /\ \A i \in DOMAIN c : c[i] = IF i <= Len(s) THEN s[i] ELSE t[i - Len(s)]
  BY ConcatProperties, LenProperties
<1> HIDE DEF c
<1>2. /\ \A i \in DOMAIN s : i \in DOMAIN c /\ c[i] = s[i]
      /\ \A i \in DOMAIN t : Len(s) + i \in DOMAIN c /\ c[Len(s) + i] = t[i]
      /\ \A i \in DOMAIN c : \/ i \in DOMAIN s /\ c[i] = s[i]
                             \/ i - Len(s) \in DOMAIN t /\ c[i] = t[i - Len(s)]
  BY <1>1
<1>3. Messages(c) = Messages(s) \cup Messages(t)
  <2>1. \A x : (\E i \in DOMAIN c : c[i] = x)
                 <=> (\E i \in DOMAIN s : s[i] = x) \/ (\E i \in DOMAIN t : t[i] = x)
    BY <1>2
  <2>2. \A x : x \in Messages(c) <=> x \in Messages(s) \/ x \in Messages(t)
    BY <2>1, MessageOf
  <2> QED
    BY <2>2
<1>4. ASSUME Once(s), Once(t), Messages(s) \cap Messages(t) = {},
             NEW i \in DOMAIN c, NEW j \in DOMAIN c, c[i] = c[j], c[i] # Alert
      PROVE  i = j
  <2>1. CASE i \in DOMAIN s /\ c[i] = s[i] /\ j \in DOMAIN s /\ c[j] = s[j]
    BY <1>4, <2>1 DEF Once
  <2>2. CASE /\ i - Len(s) \in DOMAIN t /\ c[i] = t[i - Len(s)]
             /\ j - Len(s) \in DOMAIN t /\ c[j] = t[j - Len(s)]
    <3>1. i - Len(s) = j - Len(s)
      BY <1>4, <2>2 DEF Once
    <3> QED
      BY <1>1, <3>1
  <2>3. CASE \/ c[i] \in Messages(s) /\ c[j] \in Messages(t)
             \/ c[i] \in Messages(t) /\ c[j] \in Messages(s)
    BY <1>4, <2>3
  <2> QED
    BY <1>2, <1>4, <2>1, <2>2, <2>3 DEF Messages
<1> QED
  BY <1>3, <1>4 DEF Once, c

-----------------------------------------------------------------------------
(* The initial state, and steps that leave the messages alone. *)

\* Sequences of messages, by type.
LEMMA Types ==
    ASSUME Inv
    PROVE  /\ messagesChan \in Seq(MessageOrAlert)
           /\ \A g \in Goroutines : pending[g] \in Seq(MessageOrAlert)
           /\ "sender" \in Goroutines /\ "processor" \in Goroutines /\ "getter" \in Goroutines
           /\ Requests \subseteq Goroutines /\ Backups \subseteq Goroutines
           /\ Latest \in Nat
<1>1. born \in Nat /\ Len(handled) \in Nat
  BY LenProperties, PipelineAssumption DEF Inv, TypeOK
<1> QED
  BY <1>1 DEF Inv, TypeOK, MessageOrAlert, Goroutines, Latest

\* A message that is not a form is about an update.
LEMMA MessageUpdate == \A m \in Message : m.kind # "form" => m.update \in Nat
BY DEF Message

\* A message is no alert.
LEMMA NoAlert == Alert \notin Message
BY DEF Alert, Message

\* The messages of a submitted form.
LEMMA FormsOwn ==
    ASSUME NEW r
    PROVE  /\ Once(FormMessages(r))
           /\ \A m \in Messages(FormMessages(r)) : m.kind = "form" /\ m.request = r
<1> DEFINE s == FormMessages(r)
<1>1. DOMAIN s = 1..2 /\ \A i \in 1..2 : s[i] = [kind |-> "form", request |-> r, no |-> i]
  BY DEF FormMessages
<1>2. \A i \in 1..2 : s[i].no = i /\ s[i].kind = "form" /\ s[i].request = r
  BY <1>1
<1> HIDE DEF s
<1>3. Once(s)
  BY <1>1, <1>2 DEF Once
<1>4. \A m \in Messages(s) : m.kind = "form" /\ m.request = r
  BY <1>1, <1>2 DEF Messages
<1> QED
  BY <1>3, <1>4 DEF s

LEMMA DInvInit == Init => DInv
<1> SUFFICES ASSUME Init PROVE DInv
  OBVIOUS
<1>1. /\ messagesChan = <<>> /\ produced = {} /\ delivered = {} /\ dropped = {}
      /\ worker = [b \in Backups |-> NoBackup]
      /\ pending = [g \in Goroutines |-> IF g \in Requests THEN FormMessages(g) ELSE <<>>]
  BY DEF Init
<1>2. \A g \in Goroutines : g \notin Requests => pending[g] = <<>>
  BY <1>1
<1>3. pending["sender"] = <<>> /\ \A b \in Backups : pending[b] = <<>>
  BY <1>2, PipelineAssumption DEF Goroutines
<1>4. New
  <2> SUFFICES ASSUME NEW g \in Goroutines \ {"sender"}
               PROVE  /\ Once(pending[g])
                      /\ \A m \in Messages(pending[g]) : m \notin produced /\ Own(g, m)
    BY DEF New
  <2>1. CASE g \in Requests
    <3>1. pending[g] = FormMessages(g)
      BY <1>1, <2>1
    <3> QED
      BY <1>1, <2>1, <3>1, FormsOwn DEF Own
  <2>2. CASE g \notin Requests
    BY <1>2, <2>2, ShortSeqs
  <2> QED
    BY <2>1, <2>2
<1>5. Silent
  BY <1>1, <1>3 DEF Silent
<1>6. Old /\ InPlace
  BY <1>1, <1>3, ShortSeqs DEF Old, InPlace
<1> QED
  BY <1>4, <1>5, <1>6 DEF DInv

\* Whatever leaves the channel, the sender's hands and the histories alone.
LEMMA QueueKept ==
    ASSUME InPlace, UNCHANGED <<messagesChan, produced, delivered, dropped>>,
           pending'["sender"] = pending["sender"]
    PROVE  InPlace'
BY DEF InPlace

\* A goroutine other than the sender gets something new of its own to say.
LEMMA SaysNew ==
    ASSUME DInv, NEW g \in Goroutines \ {"sender"}, NEW s,
           pending' = [pending EXCEPT ![g] = s], Inv,
           UNCHANGED <<messagesChan, produced, delivered, dropped>>,
           Once(s), \A m \in Messages(s) : m \notin produced /\ Own(g, m)',
           \A h \in Goroutines \ {"sender", g} :
              \A m \in Messages(pending[h]) : Own(h, m) => Own(h, m)'
    PROVE  New' /\ InPlace'
<1>1. /\ pending'[g] = s
      /\ \A h \in Goroutines \ {g} : pending'[h] = pending[h]
  BY DEF Inv, TypeOK
<1>2. pending'["sender"] = pending["sender"]
  BY <1>1, Types
<1>3. InPlace'
  BY <1>2, QueueKept DEF DInv
<1>4. New'
  <2> SUFFICES ASSUME NEW h \in Goroutines \ {"sender"}
               PROVE  /\ Once(pending'[h])
                      /\ \A m \in Messages(pending'[h]) : m \notin produced' /\ Own(h, m)'
    BY DEF New, Once, Messages
  <2>1. CASE h = g
    BY <1>1, <2>1
  <2>2. CASE h # g
    BY <1>1, <2>2 DEF DInv, New
  <2> QED
    BY <2>1, <2>2
<1> QED
  BY <1>3, <1>4

\* A step that leaves everything alone that DInv speaks about.
LEMMA AllKept ==
    ASSUME DInv, UNCHANGED <<messagesChan, pending, worker, handled, produced, delivered,
                             dropped, born>>
    PROVE  DInv'
BY DEF DInv, New, Old, Silent, InPlace, Own, Latest

\* The getter logs, or says nothing.
LEMMA GetUpdatesKeeps ==
    ASSUME Inv, DInv, GetUpdates
    PROVE  DInv'
<1>1. /\ UNCHANGED <<messagesChan, worker, handled, produced, delivered, dropped, born>>
      /\ UNCHANGED pending \/ pending' = [pending EXCEPT !["getter"] = <<Alert>>]
  BY DEF GetUpdates, history, backup, Wants
<1>2. CASE UNCHANGED pending
  BY <1>1, <1>2, AllKept
<1>3. CASE pending' = [pending EXCEPT !["getter"] = <<Alert>>]
  <2>1. "getter" \in Goroutines \ {"sender"}
    BY Types
  <2>2. \A h, m : Own(h, m) => Own(h, m)'
    BY <1>1 DEF Own, Latest
  <2>3. New' /\ InPlace'
    BY <1>1, <1>3, <2>1, <2>2, ShortSeqs, SaysNew
  <2>4. \A b \in Backups : pending'[b] = pending[b]
    BY <1>3, Types, PipelineAssumption DEF Inv, TypeOK
  <2>5. Old' /\ Silent'
    BY <1>1, <2>4 DEF DInv, Old, Silent, Latest
  <2> QED
    BY <2>3, <2>5 DEF DInv
<1> QED
  BY <1>1, <1>2, <1>3

-----------------------------------------------------------------------------
(* Handling an update. *)

\* The replies to an update are about it, and each is another.
LEMMA RepliesOwn ==
    ASSUME NEW u \in 1..MaxUpdates, NEW n \in 0..MaxReplies
    PROVE  /\ Replies(u, n) \in Seq(MessageOrAlert) /\ Once(Replies(u, n))
           /\ \A m \in Messages(Replies(u, n)) : m.kind = "reply" /\ m.update = u
<1> DEFINE s == Replies(u, n)
<1>1. DOMAIN s = 1..n /\ \A i \in 1..n : s[i] = [kind |-> "reply", update |-> u, no |-> i]
  BY DEF Replies
<1>2. \A i \in 1..n : s[i].no = i /\ s[i].kind = "reply" /\ s[i].update = u
  BY <1>1
<1>3. s \in Seq(MessageOrAlert)
  BY RepliesType
<1> HIDE DEF s
<1>4. Once(s) /\ \A m \in Messages(s) : m.kind = "reply" /\ m.update = u
  BY <1>1, <1>2 DEF Once, Messages
<1> QED
  BY <1>3, <1>4 DEF s

\* What the processor sends is about the update it handles, and news.
LEMMA ProcessorSays ==
    ASSUME Inv, DInv, NEW s, NEW u \in 1..MaxUpdates, u = Latest + 1, Latest' = u,
           pending' = [pending EXCEPT !["processor"] = s],
           UNCHANGED <<messagesChan, produced, delivered, dropped>>,
           Once(s),
           \A m \in Messages(s) : m.kind \in {"reply", "started", "refused"} /\ m.update = u,
           Free("processor"),
           \A b \in Backups : pending[b] # <<>> => worker'[b] = worker[b]
    PROVE  New' /\ InPlace' /\ Old'
<1>1. "processor" \in Goroutines \ {"sender"} /\ Latest \in Nat
  BY Types
<1>2. Old'
  <2>1. \A m \in produced : m.kind # "form" => m.update \in Nat /\ m.update <= Latest
    BY MessageUpdate DEF DInv, Old, Inv, TypeOK
  <2> QED
    BY <1>1, <2>1 DEF Old
<1>3. ASSUME NEW m \in Messages(s) PROVE m \notin produced /\ Own("processor", m)'
  BY <1>1 DEF DInv, Old, Own
<1>4. ASSUME NEW h \in Goroutines \ {"sender", "processor"}, NEW m \in Messages(pending[h]),
             Own(h, m)
      PROVE  Own(h, m)'
  <2>1. CASE h \in Requests
    BY <1>4, <2>1, PipelineAssumption DEF Own
  <2>2. CASE h \in Backups
    <3>1. pending[h] # <<>>
      BY ShortSeqs
    <3>2. worker'[h] = worker[h] /\ h \notin Requests
      BY <2>2, <3>1, PipelineAssumption
    <3> QED
      BY <1>4, <2>2, <3>2 DEF Own
  <2> QED
    BY <1>4, <2>1, <2>2 DEF Own
<1>5. New' /\ InPlace'
  BY <1>1, <1>3, <1>4, SaysNew
<1> QED
  BY <1>2, <1>5

\* An answer, or the command for a backup.
LEMMA ProcessUpdateKeeps ==
    ASSUME Inv, DInv, ProcessUpdate
    PROVE  DInv'
<1> DEFINE u == Head(updatesChan)
<1>1. /\ UNCHANGED <<messagesChan, produced, delivered, dropped, born>>
      /\ handled' = Append(handled, u) /\ updatesChan # <<>> /\ Free("processor")
      /\ Answer(u) \/ BackupCommand(u)
  BY DEF ProcessUpdate, BetweenUpdates
<1>2. /\ u \in 1..arrived /\ u \in 1..MaxUpdates /\ u = updatesChan[1] /\ Len(updatesChan) >= 1
  BY <1>1, HeadTailProperties, EmptySeq, PipelineAssumption DEF Inv, TypeOK
<1>3. Latest \in Nat /\ u = Latest + 1
  BY <1>2, Types DEF Inv, Continued, Latest
<1>4. Latest' = u
  <2>1. Len(handled') = Len(handled) + 1 /\ Len(handled) \in Nat /\ born \in Nat
    BY <1>1, <1>2, AppendProperties, LenProperties, PipelineAssumption DEF Inv, TypeOK
  <2> QED
    BY <1>1, <1>3, <2>1 DEF Latest
<1> HIDE DEF u
<1>5. "processor" \in Goroutines /\ "processor" \notin Backups
  BY Types, PipelineAssumption
<1>6. ASSUME NEW s, Wants("processor", s)
      PROVE  pending' = [pending EXCEPT !["processor"] = s]
             /\ \A b \in Backups : pending'[b] = pending[b]
  BY <1>5, <1>6, Types DEF Wants, Inv, TypeOK
<1>7. CASE Answer(u)
  <2>1. UNCHANGED worker
    BY <1>7 DEF Answer, backup
  <2>2. PICK n \in 0..MaxReplies :
             \/ Wants("processor", Replies(u, n))
             \/ Wants("processor", Append(Replies(u, n), Alert))
    BY <1>7 DEF Answer
  <2>3. \E s : /\ Wants("processor", s) /\ Once(s)
               /\ \A m \in Messages(s) : m.kind \in {"reply", "started", "refused"} /\ m.update = u
    <3>1. /\ Replies(u, n) \in Seq(MessageOrAlert) /\ Once(Replies(u, n))
          /\ \A m \in Messages(Replies(u, n)) : m.kind = "reply" /\ m.update = u
      BY <1>2, RepliesOwn
    <3>2. Alert \in MessageOrAlert /\ Alert \notin Messages(Replies(u, n))
      BY DEF MessageOrAlert, Messages
    <3>3. /\ Messages(Append(Replies(u, n), Alert)) = Messages(Replies(u, n))
          /\ Once(Append(Replies(u, n), Alert))
      <4>1. Messages(Append(Replies(u, n), Alert))
              = Messages(Replies(u, n)) \cup ({Alert} \ {Alert})
        BY <3>1, <3>2, Appended
      <4>2. Once(Append(Replies(u, n), Alert))
        BY <3>1, <3>2, Appended
      <4> QED
        BY <4>1, <4>2
    <3> QED
      BY <2>2, <3>1, <3>3
  <2>4. New' /\ InPlace' /\ Old'
    BY <1>1, <1>2, <1>3, <1>4, <1>6, <2>1, <2>3, ProcessorSays
  <2>5. Silent'
    BY <1>1, <1>3, <1>4, <1>6, <2>1, <2>3 DEF DInv, Silent, Inv, TypeOK, Progress
  <2> QED
    BY <2>4, <2>5 DEF DInv
<1>8. CASE BackupCommand(u)
  <2>1. PICK kind \in {"started", "refused"} :
           /\ Wants("processor", <<AboutBackup(kind, u)>>)
           /\ \/ UNCHANGED worker
              \/ \E b \in Backups :
                   /\ worker[b] = NoBackup
                   /\ worker' = [worker EXCEPT ![b] = [phase |-> "announced", update |-> u]]
    BY <1>8 DEF BackupCommand, backup
  <2> DEFINE s == <<AboutBackup(kind, u)>>
  <2>2. /\ Once(s)
        /\ \A m \in Messages(s) : m.kind \in {"reply", "started", "refused"} /\ m.update = u
    BY ShortSeqs DEF AboutBackup
  <2>3. \A b \in Backups : worker[b] = NoBackup => pending[b] = <<>>
    BY DEF DInv, Silent, NoBackup
  <2>4. \A b \in Backups : \/ worker'[b] = worker[b]
                           \/ /\ worker[b] = NoBackup
                              /\ worker'[b] = [phase |-> "announced", update |-> u]
    BY <2>1 DEF Inv, TypeOK
  <2>5. New' /\ InPlace' /\ Old'
    BY <1>1, <1>2, <1>3, <1>4, <1>6, <2>1, <2>2, <2>3, <2>4, ProcessorSays
  <2>6. AboutBackup("result", u) \notin produced
    BY <1>3 DEF AboutBackup, DInv, Old
  <2>7. Silent'
    <3> SUFFICES ASSUME NEW b \in Backups
                 PROVE  /\ worker'[b].phase # "reporting" => pending'[b] = <<>>
                        /\ worker'[b] # NoBackup => worker'[b].update <= Latest'
                        /\ worker'[b].phase \in {"announced", "started", "dumping"} =>
                              AboutBackup("result", worker'[b].update) \notin produced'
      BY DEF Silent, AboutBackup
    <3>1. pending'[b] = pending[b]
      BY <1>6, <2>1
    <3>2. CASE worker'[b] = worker[b]
      BY <1>1, <1>3, <1>4, <3>1, <3>2 DEF DInv, Silent, Inv, TypeOK, Progress
    <3>3. CASE worker[b] = NoBackup /\ worker'[b] = [phase |-> "announced", update |-> u]
      BY <1>1, <1>2, <1>4, <2>3, <2>6, <3>1, <3>3
    <3> QED
      BY <2>4, <3>2, <3>3
  <2> QED
    BY <2>5, <2>7 DEF DInv
<1> QED
  BY <1>1, <1>7, <1>8

-----------------------------------------------------------------------------
(* Putting messages into the channel. *)

\* The sender puts back what it took: it goes from its hands to the channel.
LEMMA SenderPutsBack ==
    ASSUME Inv, DInv, Send("sender")
    PROVE  DInv'
<1> DEFINE s == pending["sender"]
           h == Head(s)
<1>1. /\ s \in Seq(MessageOrAlert) /\ s # <<>> /\ messagesChan \in Seq(MessageOrAlert)
      /\ h \in MessageOrAlert
      /\ "sender" \in Goroutines /\ "sender" \notin Backups
  BY Types, HeadTailProperties, PipelineAssumption DEF Send
<1>2. /\ messagesChan' = Append(messagesChan, h)
      /\ pending'["sender"] = Tail(s)
      /\ \A g \in Goroutines \ {"sender"} : pending'[g] = pending[g]
      /\ produced' = produced \cup ({h} \ {Alert})
      /\ UNCHANGED <<worker, handled, delivered, dropped, born>>
  BY <1>1 DEF Send, backup, Inv, TypeOK
<1> HIDE DEF s, h
<1>3. /\ Once(s) /\ Once(messagesChan) /\ Messages(messagesChan) \cap Messages(s) = {}
  BY DEF DInv, InPlace, s
<1>4. /\ Messages(s) = Messages(Tail(s)) \cup ({h} \ {Alert})
      /\ Once(Tail(s)) /\ h \notin Messages(Tail(s))
  BY <1>1, <1>3, Taken DEF h
<1>5. h \notin Messages(messagesChan)
  BY <1>3, <1>4 DEF Messages
<1>6. /\ Messages(Append(messagesChan, h)) = Messages(messagesChan) \cup ({h} \ {Alert})
      /\ Once(Append(messagesChan, h))
  BY <1>1, <1>3, <1>5, Appended
<1>7. produced' = produced
  BY <1>2, <1>4 DEF DInv, InPlace, s
<1>8. InPlace'
  <2>1. /\ Messages(messagesChan') = Messages(messagesChan) \cup ({h} \ {Alert})
        /\ Messages(pending'["sender"]) = Messages(Tail(s))
        /\ Once(messagesChan') /\ Once(pending'["sender"])
    BY <1>2, <1>4, <1>6
  <2>2. Messages(messagesChan') \cap Messages(pending'["sender"]) = {}
    BY <1>3, <1>4, <2>1
  <2>3. Messages(messagesChan') \cup Messages(pending'["sender"])
          = Messages(messagesChan) \cup Messages(s)
    BY <1>4, <2>1
  <2> QED
    BY <1>2, <1>7, <2>1, <2>2, <2>3 DEF DInv, InPlace, s, Messages, Once
<1>9. New' /\ Old' /\ Silent'
  <2>1. \A g, m : Own(g, m) <=> Own(g, m)'
    BY <1>2 DEF Own, Latest
  <2>2. New'
    BY <1>2, <1>7, <2>1 DEF DInv, New, Once, Messages
  <2>3. \A b \in Backups : pending'[b] = pending[b]
    BY <1>1, <1>2, Types
  <2> QED
    BY <1>2, <1>7, <2>2, <2>3 DEF DInv, Old, Silent, Latest
<1> QED
  BY <1>8, <1>9 DEF DInv

\* What one goroutine owns another does not.
LEMMA OwnersDiffer ==
    ASSUME BackupInv, NEW g \in Goroutines, NEW h \in Goroutines, NEW m,
           g \in Backups => worker[g] # NoBackup, h \in Backups => worker[h] # NoBackup,
           Own(g, m), Own(h, m)
    PROVE  g = h
<1>1. CASE g \in Backups /\ h \in Backups
  BY <1>1 DEF BackupInv, BackupExclusive
<1>2. CASE g \in Requests \/ h \in Requests
  BY <1>2, PipelineAssumption DEF Own
<1>3. CASE g = "processor" \/ h = "processor"
  BY <1>3, PipelineAssumption DEF Own
<1> QED
  BY <1>1, <1>2, <1>3 DEF Own

\* Any other goroutine puts something new into it.
LEMMA OtherSends ==
    ASSUME Inv, BackupInv, DInv, NEW g \in Goroutines \ {"sender"}, Send(g)
    PROVE  DInv'
<1> DEFINE s == pending[g]
           h == Head(s)
<1>1. /\ s \in Seq(MessageOrAlert) /\ s # <<>> /\ messagesChan \in Seq(MessageOrAlert)
      /\ h \in MessageOrAlert /\ "sender" \in Goroutines
  BY Types, HeadTailProperties DEF Send
<1>2. /\ messagesChan' = Append(messagesChan, h)
      /\ pending'[g] = Tail(s)
      /\ \A k \in Goroutines \ {g} : pending'[k] = pending[k]
      /\ produced' = produced \cup ({h} \ {Alert})
      /\ UNCHANGED <<worker, handled, delivered, dropped, born>>
  BY <1>1 DEF Send, backup, Inv, TypeOK
<1> HIDE DEF s, h
<1>3. Once(s) /\ \A m \in Messages(s) : m \notin produced /\ Own(g, m)
  BY DEF DInv, New, s
<1>4. /\ Messages(s) = Messages(Tail(s)) \cup ({h} \ {Alert})
      /\ Once(Tail(s)) /\ h \notin Messages(Tail(s))
  BY <1>1, <1>3, Taken DEF h
<1>5. h # Alert => h \in Messages(s) /\ h \notin produced /\ Own(g, h)
  BY <1>3, <1>4
<1>6. \A k, m : Own(k, m) <=> Own(k, m)'
  BY <1>2 DEF Own, Latest
<1>7. InPlace'
  <2>1. /\ Once(messagesChan) /\ h \notin Messages(messagesChan)
        /\ h \notin Messages(pending["sender"])
        /\ h \notin delivered \cup dropped \/ h = Alert
    BY <1>5 DEF DInv, InPlace, Messages
  <2>2. /\ Messages(messagesChan') = Messages(messagesChan) \cup ({h} \ {Alert})
        /\ Once(messagesChan')
    <3>1. /\ Messages(Append(messagesChan, h)) = Messages(messagesChan) \cup ({h} \ {Alert})
          /\ Once(Append(messagesChan, h))
      BY <1>1, <2>1, Appended
    <3> QED
      BY <1>2, <3>1 DEF Messages, Once
  <2>3. pending'["sender"] = pending["sender"]
    BY <1>1, <1>2
  <2> QED
    BY <1>2, <1>5, <2>2, <2>3 DEF DInv, InPlace
<1>8. \A b \in Backups : pending[b] # <<>> => worker[b].phase = "reporting" /\ worker[b] # NoBackup
  BY DEF DInv, Silent, NoBackup
<1>9. New'
  <2> SUFFICES ASSUME NEW k \in Goroutines \ {"sender"}
               PROVE  /\ Once(pending'[k])
                      /\ \A m \in Messages(pending'[k]) : m \notin produced' /\ Own(k, m)'
    BY DEF New, Once, Messages
  <2>1. CASE k = g
    BY <1>2, <1>3, <1>4, <1>6, <2>1
  <2>2. CASE k # g
    <3>1. pending'[k] = pending[k]
      BY <1>2, <2>2
    <3>2. ASSUME NEW m \in Messages(pending[k]) PROVE m # h
      <4>1. Own(k, m) /\ pending[k] # <<>> /\ m # Alert
        BY ShortSeqs DEF DInv, New, Messages
      <4>2. m = h => k = g
        BY <1>1, <1>5, <1>8, <4>1, OwnersDiffer DEF s
      <4> QED
        BY <2>2, <4>2
    <3> QED
      BY <1>2, <1>6, <3>1, <3>2 DEF DInv, New
  <2> QED
    BY <2>1, <2>2
<1>10. Old'
  <2>1. h # Alert /\ h.kind # "form" => h.update <= Latest
    <3>1. CASE g = "processor"
      BY <1>5, <3>1, PipelineAssumption, Types DEF Own
    <3>2. CASE g \in Requests
      BY <1>5, <3>2, PipelineAssumption DEF Own
    <3>3. CASE g \in Backups
      BY <1>1, <1>5, <1>8, <3>3, PipelineAssumption DEF Own, DInv, Silent, s
    <3> QED
      BY <1>5, <3>1, <3>2, <3>3 DEF Own
  <2> QED
    BY <1>2, <2>1 DEF DInv, Old, Latest
<1>11. Silent'
  <2> SUFFICES ASSUME NEW b \in Backups
               PROVE  /\ worker[b].phase # "reporting" => pending'[b] = <<>>
                      /\ worker[b] # NoBackup => worker[b].update <= Latest
                      /\ worker[b].phase \in {"announced", "started", "dumping"} =>
                            AboutBackup("result", worker[b].update) \notin produced'
    BY <1>2 DEF Silent, Latest, AboutBackup
  <2>1. worker[b].phase # "reporting" => pending'[b] = <<>> /\ b # g
    BY <1>1, <1>2, <1>8, Types DEF DInv, Silent, s
  <2>2. ASSUME worker[b].phase \in {"announced", "started", "dumping"}
        PROVE  AboutBackup("result", worker[b].update) # h \/ h = Alert
    <3>1. worker[b] # NoBackup /\ b # g
      BY <2>1, <2>2 DEF NoBackup
    <3>2. AboutBackup("result", worker[b].update) # Alert
      BY DEF AboutBackup, Alert
    <3>3. Own(b, AboutBackup("result", worker[b].update))
      BY DEF Own, AboutBackup
    <3> QED
      BY <1>1, <1>5, <1>8, <3>1, <3>3, Types, OwnersDiffer DEF s
  <2> QED
    BY <1>2, <2>1, <2>2 DEF DInv, Silent
<1> QED
  BY <1>7, <1>9, <1>10, <1>11 DEF DInv

-----------------------------------------------------------------------------
(* Backups, the sender and crashes. *)

\* A backup goroutine that says something says it for the first time.
LEMMA BackupKeeps ==
    ASSUME Inv, BackupInv, DInv, NEW b \in Backups,
           StartBackup(b) \/ CreateTemp(b) \/ EndDump(b) \/ EndBackup(b)
    PROVE  DInv'
<1>1. /\ UNCHANGED <<messagesChan, handled, produced, delivered, dropped, born>>
      /\ b \in Goroutines \ {"sender"}
      /\ worker[b].phase # "none" /\ worker[b] # NoBackup
  BY Types, PipelineAssumption DEF StartBackup, CreateTemp, EndDump, EndBackup, history, NoBackup
<1>2. \A c \in Backups \ {b} : worker'[c] = worker[c] /\ worker[c] = NoBackup
  BY <1>1 DEF BackupInv, BackupExclusive, Inv, TypeOK,
              StartBackup, CreateTemp, EndDump, EndBackup, Moves
<1>3. Latest' = Latest /\ Old'
  BY <1>1 DEF Latest, DInv, Old
<1>4. \A h \in Goroutines \ {"sender", b} :
         \A m \in Messages(pending[h]) : Own(h, m) => Own(h, m)'
  BY <1>2, <1>3 DEF Own
<1>5. CASE EndBackup(b)
  <2>1. pending' = pending /\ pending[b] = <<>> /\ worker'[b] = NoBackup
    BY <1>5 DEF EndBackup, Free, Inv, TypeOK
  <2>2. pending' = [pending EXCEPT ![b] = <<>>]
    BY <2>1 DEF Inv, TypeOK
  <2>3. New' /\ InPlace'
    BY <1>1, <1>4, <2>2, ShortSeqs, SaysNew
  <2>4. Silent'
    BY <1>1, <1>2, <1>3, <2>1 DEF DInv, Silent, NoBackup, AboutBackup
  <2> QED
    BY <1>3, <2>3, <2>4 DEF DInv
<1>6. CASE StartBackup(b) \/ CreateTemp(b) \/ EndDump(b)
  <2> DEFINE m == AboutBackup("result", worker[b].update)
  <2>1. /\ worker[b].phase \in {"announced", "started", "dumping"}
        /\ worker'[b].update = worker[b].update
        /\ worker'[b].phase \in {"started", "dumping", "reporting"}
    BY <1>6 DEF StartBackup, CreateTemp, EndDump, Moves, Inv, TypeOK, Progress
  <2>2. pending[b] = <<>> /\ m \notin produced /\ worker[b].update <= Latest
    BY <1>1, <2>1 DEF DInv, Silent
  <2>3. /\ \/ Wants(b, <<>>) \/ Wants(b, <<m>>) \/ Wants(b, <<Alert, m>>)
        /\ worker'[b].phase # "reporting" => Wants(b, <<>>)
    <3>1. UNCHANGED pending => Wants(b, <<>>)
      BY <1>1, <2>2 DEF Wants, Inv, TypeOK
    <3>2. CASE StartBackup(b)
      BY <3>1, <3>2 DEF StartBackup
    <3>3. CASE CreateTemp(b)
      <4>1. \/ UNCHANGED pending
            \/ Wants(b, <<Alert, m>>) /\ Moves(b, "reporting")
        BY <3>3 DEF CreateTemp, Failure
      <4>2. Moves(b, "reporting") => worker'[b].phase = "reporting"
        BY DEF Moves, Inv, TypeOK, Progress
      <4> QED
        BY <3>1, <4>1, <4>2
    <3>4. CASE EndDump(b)
      BY <3>4 DEF EndDump, Failure, Moves, Inv, TypeOK
    <3> QED
      BY <1>6, <3>2, <3>3, <3>4
  <2>4. ASSUME NEW x, x = m PROVE Own(b, x)'
    BY <2>4, <2>1 DEF Own, AboutBackup
  <2>5. PICK s \in {<<>>, <<m>>, <<Alert, m>>} :
           Wants(b, s) /\ (worker'[b].phase # "reporting" => s = <<>>)
    BY <1>1, <2>3 DEF Wants
  <2>6. Once(s) /\ Messages(s) \subseteq {m}
    BY ShortSeqs
  <2> HIDE DEF m
  <2>7. New' /\ InPlace'
    <3>1. \A x \in Messages(s) : x \notin produced /\ Own(b, x)'
      BY <2>2, <2>4, <2>6
    <3>2. pending' = [pending EXCEPT ![b] = s]
      BY <2>5 DEF Wants
    <3> QED
      BY <1>1, <1>4, <2>6, <3>1, <3>2, SaysNew
  <2>8. pending'[b] = s /\ \A c \in Backups \ {b} : pending'[c] = pending[c]
    BY <1>1, <2>5, Types DEF Wants, Inv, TypeOK
  <2>9. Silent'
    <3> SUFFICES ASSUME NEW c \in Backups
                 PROVE  /\ worker'[c].phase # "reporting" => pending'[c] = <<>>
                        /\ worker'[c] # NoBackup => worker'[c].update <= Latest'
                        /\ worker'[c].phase \in {"announced", "started", "dumping"} =>
                              AboutBackup("result", worker'[c].update) \notin produced'
      BY DEF Silent, AboutBackup
    <3>1. CASE c = b
      BY <1>1, <1>3, <2>1, <2>2, <2>5, <2>8, <3>1 DEF m
    <3>2. CASE c # b
      BY <1>1, <1>2, <1>3, <2>8, <3>2 DEF DInv, Silent
    <3> QED
      BY <3>1, <3>2
  <2> QED
    BY <1>3, <2>7, <2>9 DEF DInv
<1> QED
  BY <1>5, <1>6

\* What leaves the channel is delivered, refused or in the sender's hands.
LEMMA SendMessageKeeps ==
    ASSUME Inv, DInv, SendMessage
    PROVE  DInv'
<1> DEFINE m == Head(messagesChan)
<1>1. /\ messagesChan \in Seq(MessageOrAlert) /\ messagesChan # <<>>
      /\ messagesChan' = Tail(messagesChan) /\ pending["sender"] = <<>>
      /\ UNCHANGED <<worker, handled, produced, born>>
      /\ "sender" \in Goroutines /\ "sender" \notin Backups
  BY Types, PipelineAssumption DEF SendMessage, Free, backup
<1>2. \/ UNCHANGED pending /\ delivered' = delivered \cup ({m} \ {Alert}) /\ UNCHANGED dropped
      \/ Wants("sender", <<Alert>>) /\ dropped' = dropped \cup ({m} \ {Alert}) /\ UNCHANGED delivered
      \/ Wants("sender", <<Alert, m>>) /\ UNCHANGED <<delivered, dropped>>
  BY DEF SendMessage, OnSuccess, OnTooMany, Settle
<1>3. \A g \in Goroutines \ {"sender"} : pending'[g] = pending[g]
  BY <1>2 DEF Wants, Inv, TypeOK
<1> HIDE DEF m
<1>4. /\ Messages(messagesChan) = Messages(messagesChan') \cup ({m} \ {Alert})
      /\ Once(messagesChan') /\ m \notin Messages(messagesChan')
  <2>1. Once(messagesChan)
    BY DEF DInv, InPlace
  <2>2. /\ Messages(messagesChan) = Messages(Tail(messagesChan)) \cup ({m} \ {Alert})
        /\ Once(Tail(messagesChan)) /\ m \notin Messages(Tail(messagesChan))
    BY <1>1, <2>1, Taken DEF m
  <2> QED
    BY <1>1, <2>2 DEF Messages, Once
<1>5. /\ delivered \cap dropped = {} /\ Messages(pending["sender"]) = {}
      /\ Messages(messagesChan) \cap (delivered \cup dropped) = {}
      /\ produced = Messages(messagesChan) \cup delivered \cup dropped
  BY <1>1, ShortSeqs DEF DInv, InPlace
<1>6. InPlace'
  <2>1. CASE UNCHANGED pending /\ delivered' = delivered \cup ({m} \ {Alert}) /\ UNCHANGED dropped
    <3>1. Messages(pending'["sender"]) = {} /\ Once(pending'["sender"])
      BY <1>1, <2>1, ShortSeqs
    <3> QED
      BY <1>1, <1>4, <1>5, <2>1, <3>1 DEF InPlace
  <2>2. CASE Wants("sender", <<Alert>>) /\ dropped' = dropped \cup ({m} \ {Alert}) /\ UNCHANGED delivered
    <3>1. pending'["sender"] = <<Alert>>
      BY <1>1, <2>2 DEF Wants, Inv, TypeOK
    <3>2. Messages(pending'["sender"]) = {} /\ Once(pending'["sender"])
      BY <3>1, ShortSeqs
    <3> QED
      BY <1>1, <1>4, <1>5, <2>2, <3>2 DEF InPlace
  <2>3. CASE Wants("sender", <<Alert, m>>) /\ UNCHANGED <<delivered, dropped>>
    <3>1. pending'["sender"] = <<Alert, m>>
      BY <1>1, <2>3 DEF Wants, Inv, TypeOK
    <3>2. Messages(pending'["sender"]) = {m} \ {Alert} /\ Once(pending'["sender"])
      BY <3>1, ShortSeqs
    <3> QED
      BY <1>1, <1>4, <1>5, <2>3, <3>2 DEF InPlace
  <2> QED
    BY <1>2, <2>1, <2>2, <2>3
<1>7. New' /\ Old' /\ Silent'
  <2>1. \A g, x : Own(g, x) <=> Own(g, x)'
    BY <1>1 DEF Own, Latest
  <2>2. New'
    BY <1>1, <1>3, <2>1 DEF DInv, New, Once, Messages
  <2>3. \A b \in Backups : pending'[b] = pending[b]
    BY <1>1, <1>3, Types
  <2> QED
    BY <1>1, <2>2, <2>3 DEF DInv, Old, Silent, Latest
<1> QED
  BY <1>6, <1>7 DEF DInv

\* A new process starts with nothing to say.
LEMMA CrashKeeps ==
    ASSUME Inv, DInv, Crash
    PROVE  DInv'
<1>1. /\ messagesChan' = <<>> /\ produced' = {} /\ delivered' = {} /\ dropped' = {}
      /\ worker' = [b \in Backups |-> NoBackup]
      /\ pending' = [g \in Goroutines |-> <<>>]
  BY DEF Crash
<1>2. /\ \A g \in Goroutines : pending'[g] = <<>>
      /\ pending'["sender"] = <<>> /\ \A b \in Backups : pending'[b] = <<>>
  BY <1>1, Types
<1>3. New'
  <2>1. \A g \in Goroutines : Messages(pending'[g]) = {} /\ Once(pending'[g])
    BY <1>2, ShortSeqs
  <2> QED
    BY <2>1 DEF New, Messages, Once
<1>4. Silent'
  BY <1>1, <1>2 DEF Silent
<1>5. InPlace'
  <2>1. /\ Messages(messagesChan') = {} /\ Once(messagesChan')
        /\ Messages(pending'["sender"]) = {} /\ Once(pending'["sender"])
    BY <1>1, <1>2, ShortSeqs
  <2> QED
    BY <1>1, <2>1 DEF InPlace, Messages, Once
<1> QED
  BY <1>1, <1>3, <1>4, <1>5 DEF DInv, Old

\* Every step, stuttering included.
LEMMA DInvNext == Inv /\ BackupInv /\ DInv /\ [Next]_vars => DInv'
<1> SUFFICES ASSUME Inv, BackupInv, DInv, [Next]_vars PROVE DInv'
  OBVIOUS
<1>1. ASSUME NEW g \in Goroutines, Send(g) PROVE DInv'
  BY <1>1, SenderPutsBack, OtherSends
<1>2. CASE GetUpdates
  BY <1>2, GetUpdatesKeeps
<1>3. CASE PushUpdate \/ Arrive \/ UNCHANGED vars
  <2>1. UNCHANGED <<messagesChan, pending, worker, handled, produced, delivered, dropped, born>>
    BY <1>3 DEF PushUpdate, Arrive, vars, backup, history
  <2> QED
    BY <2>1, AllKept
<1>4. CASE ProcessUpdate
  BY <1>4, ProcessUpdateKeeps
<1>5. CASE \E b \in Backups : StartBackup(b) \/ CreateTemp(b) \/ EndDump(b) \/ EndBackup(b)
  BY <1>5, BackupKeeps
<1>6. CASE SendMessage
  BY <1>6, SendMessageKeeps
<1>7. CASE Crash
  BY <1>7, CrashKeeps
<1> QED
  BY <1>1, <1>2, <1>3, <1>4, <1>5, <1>6, <1>7 DEF Next

-----------------------------------------------------------------------------
(* The theorem. *)

\* A message put into messagesChan is in the channel, in the sender's hands,
\* delivered or given up, and at one of these places only once.
THEOREM EachMessageOnce == Spec => []MessagesOnce
<1>1. ASSUME Inv, DInv PROVE MessagesOnce
  <2>1. /\ messagesChan \in Seq(MessageOrAlert) /\ pending["sender"] \in Seq(MessageOrAlert)
    BY <1>1, Types
  <2>2. /\ Messages(InTransit) = Messages(messagesChan) \cup Messages(pending["sender"])
        /\ Once(InTransit)
    BY <1>1, <2>1, Joined DEF DInv, InPlace, InTransit
  <2>3. ToSet(InTransit) \ {Alert} = Messages(InTransit)
    BY DEF ToSet, Messages
  <2> QED
    BY <1>1, <2>2, <2>3 DEF MessagesOnce, Once, DInv, InPlace
<1>2. Init => BackupInv
  BY DEF Init, BackupInv, BackupExclusive, TempFilesRemoved
<1> QED
  BY <1>1, <1>2, DInvInit, DInvNext, BackupNext, InvHolds, PTL DEF Spec

-----------------------------------------------------------------------------
(* Goroutines and channels implement Delivery. *)

\* The update taken last.
LastTaken == IF handled = <<>> THEN born ELSE handled[Len(handled)]

\* Updates come in order, so it is the one that counting leads to.
LEMMA TakenIsLatest ==
    ASSUME Inv
    PROVE  LastTaken = Latest /\ Latest \in Nat
<1>1. /\ born \in Nat /\ handled \in Seq(1..arrived) /\ Len(handled) \in Nat
      /\ handled # <<>> => Len(handled) \in 1..Len(handled)
  BY EmptySeq, LenProperties, PipelineAssumption DEF Inv, TypeOK
<1>2. handled = <<>> => Len(handled) = 0
  BY EmptySeq
<1>3. \A i \in 1..Len(handled) : handled[i] = born + i
  BY DEF Inv, Continued
<1> QED
  BY <1>1, <1>2, <1>3 DEF LastTaken, Latest

\* Whatever leaves these alone is not seen from outside.
LEMMA Unseen ==
    ASSUME UNCHANGED <<arrived, born, handled, produced, delivered, dropped>>,
           BetweenUpdates' <=> BetweenUpdates
    PROVE  UNCHANGED Service!dvars
<1>1. (~BetweenUpdates)' = ~BetweenUpdates
  OBVIOUS
<1> QED
  BY <1>1 DEF Service!dvars

\* The processor is as busy as before if neither its messages nor the backups
\* that wait for it have changed.
LEMMA AsBusy ==
    ASSUME pending'["processor"] = pending["processor"],
           \A b \in Backups : worker'[b].phase = "announced" <=> worker[b].phase = "announced"
    PROVE  BetweenUpdates' <=> BetweenUpdates
BY DEF BetweenUpdates, Free

\* A message enters the channel: it is accepted, or was before.
LEMMA SendServes ==
    ASSUME Inv, DInv, NEW g \in Goroutines, Send(g)
    PROVE  Service!DNext \/ UNCHANGED Service!dvars
<1> DEFINE h == Head(pending[g])
<1>1. /\ pending[g] \in Seq(MessageOrAlert) /\ pending[g] # <<>> /\ h \in MessageOrAlert
      /\ "sender" \in Goroutines /\ "processor" \in Goroutines
  BY Types, HeadTailProperties DEF Send
<1>2. /\ produced' = produced \cup ({h} \ {Alert})
      /\ pending' = [pending EXCEPT ![g] = Tail(pending[g])]
      /\ UNCHANGED <<arrived, worker, handled, delivered, dropped, born>>
  BY DEF Send, telegram, backup
<1>3. h \in Messages(pending[g]) \/ h = Alert
  BY <1>1, ShortSeqs, Taken DEF h
<1>4. g # "processor" => (BetweenUpdates' <=> BetweenUpdates)
  BY <1>1, <1>2, AsBusy DEF Inv, TypeOK
<1>5. g = "processor" => ~BetweenUpdates
  BY <1>1 DEF BetweenUpdates, Free
<1> HIDE DEF h
<1>6. CASE h = Alert \/ g = "sender"
  <2>1. produced' = produced
    BY <1>2, <1>3, <1>6 DEF DInv, InPlace
  <2>2. CASE BetweenUpdates' <=> BetweenUpdates
    BY <1>2, <2>1, <2>2, Unseen
  <2>3. CASE ~BetweenUpdates /\ BetweenUpdates'
    <3>1. Service!Close
      BY <1>2, <2>1, <2>3 DEF Service!Close
    <3> QED
      BY <3>1 DEF Service!DNext
  <2> QED
    BY <1>4, <1>5, <2>2, <2>3
<1>7. CASE h # Alert /\ g # "sender"
  <2>1. h \in Message /\ h \notin produced /\ produced' = produced \cup {h}
    BY <1>1, <1>2, <1>3, <1>7 DEF DInv, New, MessageOrAlert
  <2>2. (~BetweenUpdates)' = ~BetweenUpdates \/ (~BetweenUpdates)' = FALSE
    BY <1>4, <1>5
  <2>3. Service!Accept(h)
    BY <1>2, <2>1, <2>2 DEF Service!Accept
  <2> QED
    BY <2>1, <2>3 DEF Service!DNext
<1> QED
  BY <1>6, <1>7

\* The processor takes the next update.
LEMMA ProcessUpdateServes ==
    ASSUME Inv, ProcessUpdate
    PROVE  Service!Take
<1> DEFINE u == Head(updatesChan)
<1>1. /\ handled' = Append(handled, u) /\ updatesChan # <<>> /\ BetweenUpdates
      /\ UNCHANGED <<arrived, produced, delivered, dropped, born>>
  BY DEF ProcessUpdate, telegram
<1>2. u \in 1..arrived /\ u = updatesChan[1] /\ Len(updatesChan) >= 1 /\ arrived \in Nat
  BY <1>1, HeadTailProperties, EmptySeq, PipelineAssumption DEF Inv, TypeOK
<1>3. u = LastTaken + 1
  BY <1>2, TakenIsLatest DEF Inv, Continued, Latest
<1> HIDE DEF u
<1>4. handled' # <<>> /\ handled'[Len(handled')] = u
  <2>1. handled \in Seq(1..arrived)
    BY DEF Inv, TypeOK
  <2> QED
    BY <1>1, <1>2, <2>1, AppendProperties, LenProperties, EmptySeq
<1>5. LastTaken \in Nat /\ LastTaken < arrived /\ LastTaken' = LastTaken + 1
  BY <1>2, <1>3, <1>4, TakenIsLatest DEF LastTaken
<1>6. (~BetweenUpdates)' \in BOOLEAN
  OBVIOUS
<1> QED
  BY <1>1, <1>5, <1>6 DEF Service!Take, LastTaken

\* A message leaves the channel: Telegram takes it, refuses it, or wants it later.
LEMMA SendMessageServes ==
    ASSUME Inv, DInv, SendMessage
    PROVE  Service!DNext \/ UNCHANGED Service!dvars
<1> DEFINE m == Head(messagesChan)
<1>1. /\ messagesChan \in Seq(MessageOrAlert) /\ messagesChan # <<>> /\ m \in MessageOrAlert
      /\ UNCHANGED <<arrived, worker, handled, produced, born>>
  BY Types, HeadTailProperties DEF SendMessage, telegram, backup
<1>2. \/ UNCHANGED pending /\ delivered' = delivered \cup ({m} \ {Alert}) /\ UNCHANGED dropped
      \/ Wants("sender", <<Alert>>) /\ dropped' = dropped \cup ({m} \ {Alert}) /\ UNCHANGED delivered
      \/ Wants("sender", <<Alert, m>>) /\ UNCHANGED <<delivered, dropped>>
  BY DEF SendMessage, OnSuccess, OnTooMany, Settle
<1>3. m \in Messages(messagesChan) \/ m = Alert
  BY <1>1, Taken
<1> HIDE DEF m
<1>4. BetweenUpdates' <=> BetweenUpdates
  <2>1. pending'["processor"] = pending["processor"]
    <3>1. UNCHANGED pending \/ \E s : Wants("sender", s)
      BY <1>2
    <3> QED
      BY <3>1, Types DEF Wants, Inv, TypeOK
  <2> QED
    BY <1>1, <2>1, AsBusy
<1>5. CASE UNCHANGED <<delivered, dropped>>
  BY <1>1, <1>4, <1>5, Unseen
<1>6. CASE ~UNCHANGED <<delivered, dropped>>
  <2>1. m # Alert
    BY <1>2, <1>6
  <2>2. /\ m \in Message /\ m \in produced /\ m \notin delivered \cup dropped
    BY <1>1, <1>3, <2>1 DEF DInv, InPlace, MessageOrAlert
  <2>3. (~BetweenUpdates)' = ~BetweenUpdates
    BY <1>4
  <2>4. CASE delivered' = delivered \cup ({m} \ {Alert}) /\ UNCHANGED dropped
    <3>1. Service!Deliver(m)
      BY <1>1, <2>1, <2>2, <2>3, <2>4 DEF Service!Deliver, Service!Waiting
    <3> QED
      BY <2>2, <3>1 DEF Service!DNext
  <2>5. CASE dropped' = dropped \cup ({m} \ {Alert}) /\ UNCHANGED delivered
    <3>1. Service!Refuse(m)
      BY <1>1, <2>1, <2>2, <2>3, <2>5 DEF Service!Refuse, Service!Waiting
    <3> QED
      BY <2>2, <3>1 DEF Service!DNext
  <2> QED
    BY <1>2, <1>6, <2>4, <2>5
<1> QED
  BY <1>5, <1>6

\* The new process begins after what Telegram had confirmed, which the old one
\* had finished but for the contents of updatesChan and one update.
LEMMA CrashServes ==
    ASSUME Inv, Crash
    PROVE  Service!Restart
<1>1. /\ born' = confirmed /\ arrived' = arrived
      /\ handled' = <<>> /\ produced' = {} /\ delivered' = {} /\ dropped' = {}
      /\ worker' = [b \in Backups |-> NoBackup] /\ pending' = [g \in Goroutines |-> <<>>]
  BY DEF Crash, telegram
<1>2. BetweenUpdates'
  <2>1. "processor" \in Goroutines
    BY DEF Goroutines
  <2> QED
    BY <1>1, <2>1 DEF BetweenUpdates, Free, NoBackup
<1>3. (~BetweenUpdates)' = FALSE
  BY <1>2
<1>4. confirmed \in born..arrived
  BY PipelineAssumption DEF Inv, TypeOK
<1>5. confirmed - (IF ~BetweenUpdates THEN LastTaken - 1 ELSE LastTaken) <= UpdatesCap + 1
  <2>1. Completed = IF ~BetweenUpdates THEN LastTaken - 1 ELSE LastTaken
    <3>1. born \in Nat /\ Len(handled) \in Nat /\ LastTaken = born + Len(handled)
      <4>1. born \in Nat /\ handled \in Seq(1..arrived)
        BY PipelineAssumption DEF Inv, TypeOK
      <4>2. Len(handled) \in Nat
        BY <4>1, LenProperties
      <4> QED
        BY <4>1, <4>2, TakenIsLatest DEF Latest
    <3>2. Completed = IF BetweenUpdates THEN LastTaken ELSE LastTaken - 1
      <4>1. CASE BetweenUpdates
        BY <3>1, <4>1 DEF Completed
      <4>2. CASE ~BetweenUpdates
        BY <3>1, <4>2 DEF Completed
      <4> QED
        BY <4>1, <4>2
    <3> QED
      BY <3>2
  <2> QED
    BY <2>1, InvBoundsLoss DEF LossBounded
<1> QED
  BY <1>1, <1>3, <1>4, <1>5 DEF Service!Restart, Service!Finished, LastTaken

\* A backup goroutine starts, which ends the command, or goes on unseen.
LEMMA BackupServes ==
    ASSUME Inv, NEW b \in Backups,
           StartBackup(b) \/ CreateTemp(b) \/ EndDump(b) \/ EndBackup(b)
    PROVE  Service!DNext \/ UNCHANGED Service!dvars
<1>1. UNCHANGED <<arrived, born, handled, produced, delivered, dropped>>
  BY DEF StartBackup, CreateTemp, EndDump, EndBackup, telegram, history
<1>2. CASE StartBackup(b)
  <2>1. ~BetweenUpdates
    BY <1>2 DEF StartBackup, BetweenUpdates
  <2>2. CASE ~BetweenUpdates'
    BY <1>1, <2>1, <2>2, Unseen
  <2>3. CASE BetweenUpdates'
    <3>1. Service!Close
      BY <1>1, <2>1, <2>3 DEF Service!Close
    <3> QED
      BY <3>1 DEF Service!DNext
  <2> QED
    BY <2>2, <2>3
<1>3. CASE CreateTemp(b) \/ EndDump(b) \/ EndBackup(b)
  <2>1. b # "processor" /\ "processor" \in Goroutines
    BY PipelineAssumption DEF Goroutines
  <2>2. pending'["processor"] = pending["processor"]
    BY <1>3, <2>1 DEF CreateTemp, EndDump, EndBackup, Wants, Inv, TypeOK
  <2>3. /\ worker[b].phase # "announced" /\ worker'[b].phase # "announced"
        /\ \A c \in Backups \ {b} : worker'[c] = worker[c]
    BY <1>3 DEF CreateTemp, EndDump, EndBackup, Moves, NoBackup, Inv, TypeOK, Progress
  <2>4. \A c \in Backups : worker'[c].phase = "announced" <=> worker[c].phase = "announced"
    BY <2>3
  <2> QED
    BY <1>1, <2>2, <2>4, AsBusy, Unseen
<1> QED
  BY <1>2, <1>3

\* What the getter does is not seen from outside.
LEMMA GetterUnseen ==
    ASSUME Inv, GetUpdates \/ PushUpdate
    PROVE  UNCHANGED Service!dvars
<1>1. UNCHANGED <<arrived, born, handled, produced, delivered, dropped, worker>>
  BY DEF GetUpdates, PushUpdate, telegram, history, backup
<1>2. pending'["processor"] = pending["processor"]
  BY Types DEF GetUpdates, PushUpdate, Wants, Inv, TypeOK
<1> QED
  BY <1>1, <1>2, AsBusy, Unseen

\* The bot starts where the service does.
LEMMA ServiceInit == Init => Service!DInit
<1> SUFFICES ASSUME Init PROVE Service!DInit
  OBVIOUS
<1>1. BetweenUpdates
  <2>1. "processor" \in Goroutines /\ "processor" \notin Requests
    BY PipelineAssumption DEF Goroutines
  <2> QED
    BY <2>1 DEF Init, BetweenUpdates, Free, NoBackup
<1>2. (~BetweenUpdates) = FALSE
  BY <1>1
<1> QED
  BY <1>2 DEF Init, Service!DInit

\* Every step is one of the service or is not seen.
LEMMA ServiceNext == Inv /\ DInv /\ [Next]_vars => [Service!DNext]_(Service!dvars)
<1> SUFFICES ASSUME Inv, DInv, [Next]_vars
             PROVE  Service!DNext \/ UNCHANGED Service!dvars
  OBVIOUS
<1>1. ASSUME NEW g \in Goroutines, Send(g) PROVE Service!DNext \/ UNCHANGED Service!dvars
  BY <1>1, SendServes
<1>2. CASE GetUpdates \/ PushUpdate
  BY <1>2, GetterUnseen
<1>3. CASE ProcessUpdate
  BY <1>3, ProcessUpdateServes DEF Service!DNext
<1>4. CASE \E b \in Backups : StartBackup(b) \/ CreateTemp(b) \/ EndDump(b) \/ EndBackup(b)
  BY <1>4, BackupServes
<1>5. CASE SendMessage
  BY <1>5, SendMessageServes
<1>6. CASE Crash
  BY <1>6, CrashServes DEF Service!DNext
<1>7. CASE Arrive
  <2>1. BetweenUpdates' <=> BetweenUpdates
    BY <1>7 DEF Arrive, backup, BetweenUpdates, Free
  <2>2. (~BetweenUpdates)' = ~BetweenUpdates
    BY <2>1
  <2>3. Service!Arrive
    BY <1>7, <2>2 DEF Arrive, Service!Arrive, history
  <2> QED
    BY <2>3 DEF Service!DNext
<1>8. CASE UNCHANGED vars
  <2>1. /\ UNCHANGED <<arrived, born, handled, produced, delivered, dropped, worker, pending>>
    BY <1>8 DEF vars, telegram, backup, history
  <2> QED
    BY <2>1, AsBusy, Unseen
<1> QED
  BY <1>1, <1>2, <1>3, <1>4, <1>5, <1>6, <1>7, <1>8 DEF Next

\* For any capacities, goroutines and faults the bot keeps what Delivery
\* promises: whatever happens in the two channels is a step of it or hidden.
THEOREM PipelineDelivers == Spec => ImplementsDelivery
<1>1. Init => BackupInv
  BY DEF Init, BackupInv, BackupExclusive, TempFilesRemoved
<1> QED
  BY <1>1, DInvInit, DInvNext, BackupNext, InvHolds, ServiceInit, ServiceNext,
     PTL DEF Spec, ImplementsDelivery, Service!DSpec
=============================================================================
