-------------------------- MODULE ModerationProofs --------------------------
(***************************************************************************)
(* What module Moderation promises for any number of people, chats, web    *)
(* requests, forms, updates and crashes, and for every combination of      *)
(* failures.  First type correctness (Types), which the rest relies on,    *)
(* then the invariant Inv, from which the three safety properties follow.  *)
(***************************************************************************)
EXTENDS Moderation, SequenceTheorems, TLAPS

-----------------------------------------------------------------------------
(* Data. *)

\* The fields of an update, by kind.
LEMMA UpdateFields ==
    ASSUME NEW e \in Update
    PROVE  /\ e.kind = "message" =>
                /\ e.from \in Users \cup {NoUser} /\ e.chat \in Groups \cup {Private}
                /\ e.joined \subseteq Users /\ e.left \in Users \cup {NoUser}
           /\ e.kind = "joinRequest" => e.from \in Users
           /\ e.kind = "formPress" => e.form \in Nat /\ e.verdict \in Verdicts
           /\ e.kind = "userPress" =>
                e.user \in Users /\ e.poll \in Nat /\ e.verdict \in Verdicts
    BY SMT DEF Update

\* The update being processed is one of the log.
LEMMA CurType ==
    ASSUME TypesOK, next <= Len(feed)
    PROVE  /\ next \in DOMAIN feed /\ Cur = feed[next] /\ Cur \in Update
    BY DEF TypesOK, Cur

\* UpdateOrCreateUser keeps the type of the users table.
LEMMA UpdateUserType ==
    ASSUME users \in [Users -> Statuses], NEW u \in Users, NEW s \in Statuses,
           UpdateOrCreateUser(u, s)
    PROVE  users' \in [Users -> Statuses]
    BY DEF UpdateOrCreateUser

\* SetFormStatus changes the status of one row and nothing else.
LEMMA SetFormType ==
    ASSUME forms \in Seq(Form), NEW i \in DOMAIN forms, NEW v \in Verdicts,
           SetFormStatus(i, v)
    PROVE  /\ forms' \in Seq(Form) /\ Len(forms') = Len(forms)
           /\ DOMAIN forms' = DOMAIN forms
           /\ \A j \in DOMAIN forms :
                 /\ forms'[j].owner = forms[j].owner
                 /\ forms'[j].created = forms[j].created
                 /\ forms'[j].status = IF j = i THEN v ELSE forms[j].status
<1> DEFINE f == [forms[i] EXCEPT !.status = v]
<1>1. i \in 1..Len(forms) /\ forms[i] \in Form
    BY LenProperties
<1>2. /\ f \in Form /\ f.status = v
      /\ f.owner = forms[i].owner /\ f.created = forms[i].created
    BY <1>1 DEF Form, Verdicts, FormStates
<1>3. forms' = [forms EXCEPT ![i] = f]
    BY DEF SetFormStatus
<1> HIDE DEF f
<1>4. /\ forms' \in Seq(Form) /\ Len(forms') = Len(forms)
      /\ \A j \in 1..Len(forms) : forms'[j] = IF j = i THEN f ELSE forms[j]
    BY <1>1, <1>2, <1>3, ExceptSeq
<1> QED
    BY <1>2, <1>4, LenProperties

\* What Enqueue puts behind the outbox is all that is new in it.
LEMMA EnqueueType ==
    ASSUME outbox \in Seq(Message), NEW ms \in Seq(Message), Enqueue(ms)
    PROVE  /\ outbox' \in Seq(Message)
           /\ \A k \in DOMAIN outbox' :
                 \/ \E l \in DOMAIN outbox : outbox'[k] = outbox[l]
                 \/ \E l \in DOMAIN ms : outbox'[k] = ms[l]
    BY DEF Enqueue

-----------------------------------------------------------------------------
(* Type correctness. *)

\* What a step of the processor has to establish: it writes neither the log,
\* nor the chats, nor the requests, and the tables keep their rows.
LEMMA ProcessorFrame ==
    ASSUME TypeOK,
           UNCHANGED <<clock, req, feed, confirmed, crashes, members, chat>>,
           users' \in [Users -> Statuses],
           forms' \in Seq(Form), Len(forms') = Len(forms),
           outbox' \in Seq(Message),
           \A k \in DOMAIN outbox' : MessageRefersToRow(outbox'[k]),
           posted' \subseteq DOMAIN forms,
           next' \in 1..(Len(feed) + 1),
           pc' \in {"idle", "dispatch", "announce"},
           todo' \subseteq Users,
           PcOK'
    PROVE  TypeOK'
<1>1. DOMAIN forms' = DOMAIN forms
    BY LenProperties DEF TypeOK, TypesOK
<1>2. TypesOK'
    BY DEF TypeOK, TypesOK, chat
<1>3. IdsOK'
    BY <1>1 DEF TypeOK, IdsOK, chat, UpdateRefersToRow, MessageRefersToRow
<1> QED
    BY <1>2, <1>3 DEF TypeOK

\* An update that is given up or finished.
LEMMA DoneType ==
    ASSUME TypesOK, next <= Len(feed), Done, UNCHANGED feed
    PROVE  /\ next' \in 1..(Len(feed) + 1) /\ pc' = "idle" /\ todo' = {}
           /\ PcOK'
    BY DEF TypesOK, Done, PcOK

\* A handler that returns before it changed anything.
LEMMA GiveUpType ==
    ASSUME TypeOK, next <= Len(feed), GiveUp,
           UNCHANGED <<clock, req, feed, confirmed, crashes, members, chat>>
    PROVE  TypeOK'
<1>1. /\ next' \in 1..(Len(feed) + 1) /\ pc' = "idle" /\ todo' = {} /\ PcOK'
    BY DoneType DEF GiveUp, TypeOK
<1>2. UNCHANGED <<users, forms, outbox, posted>>
    BY DEF GiveUp, db
<1> QED
    BY <1>1, <1>2, ProcessorFrame DEF TypeOK, TypesOK, IdsOK

\* A handler that returns after UpdateOrCreateUser has changed the row.
LEMMA GiveUpAfterType ==
    ASSUME TypeOK, next <= Len(feed), NEW u \in Users, NEW s \in Statuses,
           GiveUpAfter(u, s),
           UNCHANGED <<clock, req, feed, confirmed, crashes, members, chat>>
    PROVE  TypeOK'
<1>1. /\ next' \in 1..(Len(feed) + 1) /\ pc' = "idle" /\ todo' = {} /\ PcOK'
    BY DoneType DEF GiveUpAfter, TypeOK
<1>2. users' \in [Users -> Statuses] /\ UNCHANGED <<forms, outbox, posted>>
    BY UpdateUserType DEF GiveUpAfter, TypeOK, TypesOK
<1> QED
    BY <1>1, <1>2, ProcessorFrame DEF TypeOK, TypesOK, IdsOK

\* Every step of the processor keeps the types.
LEMMA ProcessorType ==
    ASSUME TypeOK, Processor
    PROVE  TypeOK'
<1> USE DEF TypeOK
<1> UNCHANGED <<clock, req, feed, confirmed, crashes, members, chat>>
    BY DEF Processor
<1>1. CASE RecordSender
  <2>1. next <= Len(feed) /\ Cur.kind = "message" /\ pc = "idle"
      BY <1>1 DEF RecordSender, Begin
  <2>2. /\ Cur.from \in Users \cup {NoUser} /\ Cur.joined \subseteq Users
      BY <2>1, CurType, UpdateFields
  <2>3. CASE GiveUp
      BY <2>1, <2>3, GiveUpType
  <2>4. CASE Cur.from # NoUser /\ GiveUpAfter(Cur.from, SenderStatus(Cur.chat))
    <3>1. SenderStatus(Cur.chat) \in Statuses
        BY DEF SenderStatus, Statuses
    <3> QED
        BY <2>1, <2>2, <2>4, <3>1, GiveUpAfterType
  <2>5. CASE /\ IF Cur.from = NoUser THEN UNCHANGED users
                ELSE UpdateOrCreateUser(Cur.from, SenderStatus(Cur.chat))
             /\ pc' = "dispatch" /\ todo' = Cur.joined
             /\ UNCHANGED <<next, forms, outbox, posted>>
    <3>1. users' \in [Users -> Statuses]
      <4>1. SenderStatus(Cur.chat) \in Statuses
          BY DEF SenderStatus, Statuses
      <4>2. CASE Cur.from = NoUser
          BY <2>5, <4>2 DEF TypesOK
      <4>3. CASE Cur.from # NoUser
          BY <2>2, <2>5, <4>1, <4>3, UpdateUserType DEF TypesOK
      <4> QED
          BY <4>2, <4>3
    <3>2. Cur' = Cur
        BY <2>5 DEF Cur
    <3>3. PcOK'
        BY <2>1, <2>5, <3>2 DEF PcOK
    <3> QED
        BY <2>2, <2>5, <3>1, <3>3, ProcessorFrame DEF TypesOK, IdsOK
  <2> QED
      BY <1>1, <2>3, <2>4, <2>5 DEF RecordSender
<1>2. CASE AddMember
  <2>1. next <= Len(feed) /\ pc = "dispatch"
      BY <1>2 DEF AddMember, PcOK
  <2>2. CASE GiveUp
      BY <2>1, <2>2, GiveUpType
  <2>3. ASSUME NEW u \in todo, GiveUpAfter(u, "active")
        PROVE  TypeOK'
    <3>1. u \in Users /\ "active" \in Statuses
        BY <2>3 DEF TypesOK, Statuses
    <3> QED
        BY <2>1, <2>3, <3>1, GiveUpAfterType
  <2>4. ASSUME NEW u \in todo, UpdateOrCreateUser(u, "active"), todo' = todo \ {u},
               UNCHANGED <<next, pc, forms, outbox, posted>>
        PROVE  TypeOK'
    <3>1. users' \in [Users -> Statuses]
        BY <2>4, UpdateUserType DEF TypesOK, Statuses
    <3>2. PcOK'
        BY <2>1, <2>4 DEF PcOK, Cur
    <3> QED
        BY <2>1, <2>4, <3>1, <3>2, ProcessorFrame DEF TypesOK, IdsOK
  <2> QED
      BY <1>2, <2>2, <2>3, <2>4 DEF AddMember
<1>3. CASE DropMember
  <2>1. next <= Len(feed) /\ Cur.kind = "message" /\ Cur.left # NoUser
      BY <1>3 DEF DropMember, PcOK
  <2>2. Cur.left \in Users
      BY <2>1, CurType, UpdateFields
  <2>3. CASE GiveUp
      BY <2>1, <2>3, GiveUpType
  <2>4. CASE UpdateOrCreateUser(Cur.left, "not_active") /\ Done
             /\ UNCHANGED <<forms, outbox, posted>>
    <3>1. users' \in [Users -> Statuses]
        BY <2>2, <2>4, UpdateUserType DEF TypesOK, Statuses
    <3>2. /\ next' \in 1..(Len(feed) + 1) /\ pc' = "idle" /\ todo' = {} /\ PcOK'
        BY <2>1, <2>4, DoneType
    <3> QED
        BY <2>4, <3>1, <3>2, ProcessorFrame DEF TypesOK, IdsOK
  <2> QED
      BY <1>3, <2>3, <2>4 DEF DropMember
<1>4. CASE EndMessage
  <2>1. next <= Len(feed)
      BY <1>4 DEF EndMessage, PcOK
  <2>2. /\ next' \in 1..(Len(feed) + 1) /\ pc' = "idle" /\ todo' = {} /\ PcOK'
      BY <1>4, <2>1, DoneType DEF EndMessage
  <2> QED
      BY <1>4, <2>2, ProcessorFrame DEF EndMessage, db, TypesOK, IdsOK
<1>5. CASE AnswerJoinRequest
  <2>1. next <= Len(feed) /\ Cur.kind = "joinRequest"
      BY <1>5 DEF AnswerJoinRequest, Begin
  <2>2. CASE GiveUp
      BY <2>1, <2>2, GiveUpType
  <2> DEFINE m == [kind |-> IF MayEnter(users[Cur.from]) THEN "approve" ELSE "decline",
                   user |-> Cur.from]
  <2>3. CASE Enqueue(<<m>>) /\ Done /\ UNCHANGED <<db, posted>>
    <3>1. Cur.from \in Users
        BY <2>1, CurType, UpdateFields
    <3>2. m \in Message /\ m.kind \in {"approve", "decline"}
        BY <3>1 DEF Message, UserMessages
    <3>3. MessageRefersToRow(m)
        BY <3>2 DEF MessageRefersToRow, FormMessages
    <3> HIDE DEF m
    <3>4. /\ outbox' \in Seq(Message)
          /\ \A k \in DOMAIN outbox' : MessageRefersToRow(outbox'[k])
      <4>1. <<m>> \in Seq(Message) /\ \A l \in DOMAIN <<m>> : MessageRefersToRow(<<m>>[l])
          BY <3>2, <3>3
      <4> DEFINE ms == <<m>>
      <4> HIDE DEF ms
      <4>2. Enqueue(ms)
          BY <2>3 DEF ms
      <4> QED
          BY <4>1, <4>2, EnqueueType DEF TypesOK, IdsOK, ms
    <3>5. /\ next' \in 1..(Len(feed) + 1) /\ pc' = "idle" /\ todo' = {} /\ PcOK'
        BY <2>1, <2>3, DoneType
    <3> QED
        BY <2>3, <3>4, <3>5, ProcessorFrame DEF TypesOK, IdsOK, db
  <2> QED
      BY <1>5, <2>2, <2>3 DEF AnswerJoinRequest
<1>6. CASE DecideForm
  <2>1. next <= Len(feed) /\ Cur.kind = "formPress" /\ pc = "idle"
      BY <1>6 DEF DecideForm, Begin
  <2>2. Cur.form \in DOMAIN forms /\ Cur.form \in Nat
      BY <2>1, CurType, UpdateFields DEF IdsOK, UpdateRefersToRow
  <2>3. CASE GiveUp
      BY <2>1, <2>3, GiveUpType
  <2>4. CASE /\ SetFormStatus(Cur.form, "rejected")
             /\ Enqueue(<<Notice(Cur.form, "rejected"), DropKeyboard(Cur.form)>>)
             /\ Done
             /\ UNCHANGED <<users, posted>>
    <3>1. forms' \in Seq(Form) /\ Len(forms') = Len(forms)
        BY <2>2, <2>4, SetFormType DEF TypesOK, Verdicts
    <3> DEFINE ms == <<Notice(Cur.form, "rejected"), DropKeyboard(Cur.form)>>
    <3>2. ms \in Seq(Message) /\ \A l \in DOMAIN ms : MessageRefersToRow(ms[l])
      <4>1. /\ Notice(Cur.form, "rejected") \in Message
            /\ DropKeyboard(Cur.form) \in Message
          BY <2>2 DEF Notice, DropKeyboard, Message, FormMessages, Notices
      <4>2. /\ MessageRefersToRow(Notice(Cur.form, "rejected"))
            /\ MessageRefersToRow(DropKeyboard(Cur.form))
          BY <2>2 DEF Notice, DropKeyboard, MessageRefersToRow
      <4> QED
          BY <4>1, <4>2
    <3> HIDE DEF ms
    <3>3. /\ outbox' \in Seq(Message)
          /\ \A k \in DOMAIN outbox' : MessageRefersToRow(outbox'[k])
        BY <2>4, <3>2, EnqueueType DEF TypesOK, IdsOK, ms
    <3>4. /\ next' \in 1..(Len(feed) + 1) /\ pc' = "idle" /\ todo' = {} /\ PcOK'
        BY <2>1, <2>4, DoneType
    <3> QED
        BY <2>4, <3>1, <3>3, <3>4, ProcessorFrame DEF TypesOK, IdsOK
  <2>5. CASE /\ Cur.verdict = "accepted"
             /\ SetFormStatus(Cur.form, "accepted")
             /\ pc' = "announce"
             /\ UNCHANGED <<next, todo, users, outbox, posted>>
    <3>1. forms' \in Seq(Form) /\ Len(forms') = Len(forms)
        BY <2>2, <2>5, SetFormType DEF TypesOK, Verdicts
    <3>2. PcOK'
        BY <2>1, <2>5 DEF PcOK, Cur
    <3> QED
        BY <2>5, <3>1, <3>2, ProcessorFrame DEF TypesOK, IdsOK
  <2>6. CASE /\ SetFormStatus(Cur.form, Cur.verdict)
             /\ Done
             /\ UNCHANGED <<users, outbox, posted>>
    <3>1. Cur.verdict \in Verdicts
        BY <2>1, CurType, UpdateFields
    <3>2. forms' \in Seq(Form) /\ Len(forms') = Len(forms)
        BY <2>2, <2>6, <3>1, SetFormType DEF TypesOK
    <3>3. /\ next' \in 1..(Len(feed) + 1) /\ pc' = "idle" /\ todo' = {} /\ PcOK'
        BY <2>1, <2>6, DoneType
    <3> QED
        BY <2>6, <3>2, <3>3, ProcessorFrame DEF TypesOK, IdsOK
  <2> QED
      BY <1>6, <2>3, <2>4, <2>5, <2>6 DEF DecideForm
<1>7. CASE Announce
  <2>1. next <= Len(feed) /\ Cur.kind = "formPress" /\ Done /\ UNCHANGED db
      BY <1>7 DEF Announce, PcOK
  <2>2. Cur.form \in DOMAIN forms /\ Cur.form \in Nat
      BY <2>1, CurType, UpdateFields DEF IdsOK, UpdateRefersToRow
  <2>3. Owner(Cur.form) \in Users
    <3>1. forms[Cur.form] \in Form
        BY <2>2 DEF TypesOK
    <3> QED
        BY <3>1 DEF Owner, Form
  <2> DEFINE i == Cur.form
             poll(answered) == IF answered /\ ~IsActive(Owner(i))
                            THEN <<[kind |-> "poll", user |-> Owner(i)]>> ELSE <<>>
             said == <<Notice(i, IF IsActive(Owner(i)) THEN "approved" ELSE "onVote"),
                       DropKeyboard(i)>>
  <2>4. PICK arrived \in BOOLEAN, ok \in BOOLEAN :
           /\ posted' = IF arrived THEN posted \cup {i} ELSE posted
           /\ Enqueue(poll(ok) \o said)
      BY <1>7 DEF Announce
  <2>5. poll(ok) \in Seq(Message) /\ \A l \in DOMAIN poll(ok) : MessageRefersToRow(poll(ok)[l])
    <3>1. CASE ok /\ ~IsActive(Owner(i))
      <4>1. [kind |-> "poll", user |-> Owner(i)] \in Message
          BY <2>3 DEF Message, UserMessages
      <4>2. MessageRefersToRow([kind |-> "poll", user |-> Owner(i)])
          BY DEF FormMessages, MessageRefersToRow
      <4> QED
          BY <3>1, <4>1, <4>2
    <3>2. CASE ~(ok /\ ~IsActive(Owner(i)))
        BY <3>2
    <3> QED
        BY <3>1, <3>2
  <2>6. said \in Seq(Message) /\ \A l \in DOMAIN said : MessageRefersToRow(said[l])
      BY <2>2 DEF Notice, DropKeyboard, Message, FormMessages, Notices, MessageRefersToRow
  <2>7. posted' \subseteq DOMAIN forms
      BY <2>2, <2>4 DEF IdsOK
  <2> DEFINE ms == poll(ok) \o said
  <2> HIDE DEF poll, said
  <2>8. ms \in Seq(Message) /\ \A l \in DOMAIN ms : MessageRefersToRow(ms[l])
    <3>1. \A l \in DOMAIN ms : (\E n \in DOMAIN poll(ok) : ms[l] = poll(ok)[n])
                                \/ (\E n \in DOMAIN said : ms[l] = said[n])
        BY <2>5, <2>6
    <3> QED
        BY <2>5, <2>6, <3>1
  <2>9. Enqueue(ms)
      BY <2>4
  <2> HIDE DEF ms
  <2>10. /\ outbox' \in Seq(Message)
         /\ \A k \in DOMAIN outbox' : MessageRefersToRow(outbox'[k])
      BY <2>8, <2>9, EnqueueType DEF TypesOK, IdsOK
  <2>11. /\ next' \in 1..(Len(feed) + 1) /\ pc' = "idle" /\ todo' = {} /\ PcOK'
      BY <2>1, DoneType
  <2> QED
      BY <2>1, <2>7, <2>10, <2>11, ProcessorFrame DEF TypesOK, IdsOK, db
<1>8. CASE DecideUser
  <2>1. next <= Len(feed) /\ Cur.kind = "userPress"
      BY <1>8 DEF DecideUser, Begin
  <2>2. /\ Cur.user \in Users /\ Cur.verdict \in Verdicts
        /\ Cur.poll \in DOMAIN polls /\ Cur.poll \in Nat
      BY <2>1, CurType, UpdateFields DEF IdsOK, UpdateRefersToRow
  <2>3. CASE GiveUp
      BY <2>1, <2>3, GiveUpType
  <2> DEFINE ms == <<[kind |-> IF Cur.verdict = "accepted" THEN "invite" ELSE "refuse",
                      user |-> Cur.user],
                     [kind |-> "stopPoll", poll |-> Cur.poll]>>
  <2>4. CASE SetUserStatus(Cur.user, Cur.verdict) /\ Enqueue(ms) /\ Done
             /\ UNCHANGED <<forms, posted>>
    <3>1. users' \in [Users -> Statuses]
        BY <2>2, <2>4 DEF SetUserStatus, TypesOK, Statuses
    <3>2. ms \in Seq(Message) /\ \A l \in DOMAIN ms : MessageRefersToRow(ms[l])
        BY <2>2 DEF Message, FormMessages, UserMessages, MessageRefersToRow
    <3> HIDE DEF ms
    <3>3. /\ outbox' \in Seq(Message)
          /\ \A k \in DOMAIN outbox' : MessageRefersToRow(outbox'[k])
        BY <2>4, <3>2, EnqueueType DEF TypesOK, IdsOK
    <3>4. /\ next' \in 1..(Len(feed) + 1) /\ pc' = "idle" /\ todo' = {} /\ PcOK'
        BY <2>1, <2>4, DoneType
    <3> QED
        BY <2>4, <3>1, <3>3, <3>4, ProcessorFrame DEF TypesOK, IdsOK
  <2>5. CASE SetUserStatus(Cur.user, Cur.verdict) /\ Done
             /\ UNCHANGED <<forms, outbox, posted>>
    <3>1. users' \in [Users -> Statuses]
        BY <2>2, <2>5 DEF SetUserStatus, TypesOK, Statuses
    <3>2. /\ next' \in 1..(Len(feed) + 1) /\ pc' = "idle" /\ todo' = {} /\ PcOK'
        BY <2>1, <2>5, DoneType
    <3> QED
        BY <2>5, <3>1, <3>2, ProcessorFrame DEF TypesOK, IdsOK
  <2> QED
      BY <1>8, <2>3, <2>4, <2>5 DEF DecideUser
<1> QED
    BY <1>1, <1>2, <1>3, <1>4, <1>5, <1>6, <1>7, <1>8 DEF Processor

\* The sender: what remains in the outbox was there before.
LEMMA SendType ==
    ASSUME TypeOK, SendMessage
    PROVE  TypeOK'
<1> USE DEF TypeOK
<1> DEFINE m == Head(outbox)
           rest == Tail(outbox)
<1>1. /\ outbox # <<>>
      /\ UNCHANGED <<users, forms, clock, req, next, pc, todo, feed, confirmed,
                     crashes, members>>
    BY DEF SendMessage, db, bot
<1>2. /\ m \in Message /\ MessageRefersToRow(m)
      /\ rest \in Seq(Message) /\ \A k \in DOMAIN rest : MessageRefersToRow(rest[k])
  <2>1. outbox \in Seq(Message)
      BY DEF TypesOK
  <2>2. /\ m = outbox[1] /\ 1 \in DOMAIN outbox
        /\ rest \in Seq(Message)
        /\ \A k \in DOMAIN rest : k + 1 \in DOMAIN outbox /\ rest[k] = outbox[k + 1]
      BY <1>1, <2>1
  <2>3. m \in Message
      BY <2>1, <2>2
  <2> QED
      BY <2>2, <2>3 DEF IdsOK
<1>3. PcOK'
    BY <1>1 DEF PcOK, Cur
<1>4. /\ outbox' \in Seq(Message)
      /\ \A k \in DOMAIN outbox' : MessageRefersToRow(outbox'[k])
  <2>1. outbox' = rest \/ outbox' = Append(rest, m)
      BY DEF SendMessage
  <2> HIDE DEF m, rest
  <2> QED
      BY <1>2, <2>1
<1>5. CASE UNCHANGED <<chat, posted>>
    BY <1>1, <1>3, <1>4, <1>5
    DEF chat, TypesOK, IdsOK, UpdateRefersToRow, MessageRefersToRow
<1>6. CASE Arrive(m)
  <2> HIDE DEF m
  <2>1. keyboards' \subseteq DOMAIN forms
      BY <1>2, <1>6 DEF Arrive, IdsOK, MessageRefersToRow, FormMessages
  <2>2. posted' \subseteq DOMAIN forms
      BY <1>2, <1>6 DEF Arrive, IdsOK, MessageRefersToRow, FormMessages
  <2>3. told' \in Seq(Notices) /\ Len(told') = Len(forms)
    <3>1. CASE m.kind = "notice"
      <4>1. m.text \in Notices
          BY <1>2, <3>1 DEF Message, FormMessages, UserMessages
      <4>2. m.form \in 1..Len(told)
          BY <1>2, <3>1 DEF MessageRefersToRow, TypesOK
      <4>3. told' = [told EXCEPT ![m.form] = m.text]
          BY <1>6, <3>1 DEF Arrive
      <4> QED
          BY <4>1, <4>2, <4>3, ExceptSeq DEF TypesOK
    <3>2. CASE m.kind # "notice"
        BY <1>6, <3>2 DEF Arrive, TypesOK
    <3> QED
        BY <3>1, <3>2
  <2> DEFINE Poll == [user: Users, open: BOOLEAN]
  <2>4. polls' \in Seq(Poll) /\ DOMAIN polls \subseteq DOMAIN polls'
    <3>1. CASE m.kind = "poll"
      <4>1. m.user \in Users
          BY <1>2, <3>1 DEF Message, FormMessages, UserMessages
      <4>2. [user |-> m.user, open |-> TRUE] \in Poll
          BY <4>1
      <4>3. polls' = Append(polls, [user |-> m.user, open |-> TRUE])
          BY <1>6, <3>1 DEF Arrive
      <4> HIDE DEF Poll
      <4>4. polls \in Seq(Poll)
          BY DEF TypesOK, Poll
      <4> QED
          BY <4>2, <4>3, <4>4
    <3>2. CASE m.kind = "stopPoll"
      <4> DEFINE closed == [polls[m.poll] EXCEPT !.open = FALSE]
      <4>1. m.poll \in 1..Len(polls) /\ polls \in Seq(Poll)
          BY <1>2, <3>2 DEF MessageRefersToRow, TypesOK
      <4>2. polls[m.poll] \in Poll
          BY <4>1, ElementOfSeq
      <4>3. closed \in Poll
          BY <4>2
      <4>4. polls' = [polls EXCEPT ![m.poll] = closed]
          BY <1>6, <3>2 DEF Arrive
      <4> HIDE DEF closed, Poll
      <4> QED
          BY <4>1, <4>3, <4>4, ExceptSeq
    <3>3. CASE m.kind \notin {"poll", "stopPoll"}
        BY <1>6, <3>3 DEF Arrive, TypesOK
    <3> QED
        BY <3>1, <3>2, <3>3
  <2>5. TypesOK'
      BY <1>1, <1>4, <2>3, <2>4 DEF TypesOK
  <2>6. IdsOK'
      BY <1>1, <1>4, <2>1, <2>2, <2>4 DEF IdsOK, UpdateRefersToRow, MessageRefersToRow
  <2> QED
      BY <1>3, <2>5, <2>6
<1> QED
    BY <1>5, <1>6 DEF SendMessage

\* A web request: at most one row is appended, and ids are never reused.
LEMMA WebType ==
    ASSUME TypeOK, NEW r \in Requests, Web(r)
    PROVE  TypeOK'
<1> USE DEF TypeOK
<1>1. UNCHANGED <<users, next, pc, todo, feed, confirmed, crashes, members,
                  keyboards, polls, posted>>
    BY DEF Web, bot
<1>2. PcOK'
    BY <1>1 DEF PcOK, Cur
<1>3. ASSUME UNCHANGED <<forms, told>>, clock' \in 0..MaxForms,
             NEW q \in Request, req' = [req EXCEPT ![r] = q],
             q.pc = "created" => q.form \in DOMAIN forms,
             outbox' \in Seq(Message),
             \A k \in DOMAIN outbox' : MessageRefersToRow(outbox'[k])
      PROVE  TypeOK'
  <2>1. TypesOK'
      BY <1>1, <1>3 DEF TypesOK
  <2>2. IdsOK'
      BY <1>1, <1>3 DEF TypesOK, IdsOK, UpdateRefersToRow, MessageRefersToRow
  <2> QED
      BY <1>2, <2>1, <2>2
<1>4. CASE Authenticate(r)
  <2>1. PICK u \in Users :
           req' = [req EXCEPT ![r] = [pc |-> "authed", user |-> u, active |-> IsActive(u)]]
      BY <1>4 DEF Authenticate
  <2>2. [pc |-> "authed", user |-> u, active |-> IsActive(u)] \in Request
      BY DEF Request, IsActive
  <2> QED
      BY <1>3, <1>4, <2>1, <2>2 DEF Authenticate, TypesOK, IdsOK
<1>5. CASE RefuseForm(r)
  <2>1. Idle \in Request /\ Idle.pc = "idle"
      BY DEF Idle, Request
  <2> QED
      BY <1>3, <1>5, <2>1 DEF RefuseForm, TypesOK, IdsOK
<1>6. CASE StampForm(r)
  <2>1. req[r] \in Request /\ req[r].pc = "authed"
      BY <1>6 DEF StampForm, TypesOK
  <2>2. req[r].user \in Users /\ req[r].active \in BOOLEAN
      BY <2>1 DEF Request
  <2>3. clock + 1 \in Nat /\ clock' \in 0..MaxForms
      BY <1>6, ConstantsAssumption DEF StampForm, TypesOK
  <2>4. [pc |-> "stamped", user |-> req[r].user, active |-> req[r].active,
         stamp |-> clock + 1] \in Request
      BY <2>2, <2>3 DEF Request
  <2> QED
      BY <1>3, <1>6, <2>3, <2>4 DEF StampForm, TypesOK, IdsOK
<1>7. CASE CreateForm(r)
  <2>1. req[r] \in Request /\ req[r].pc = "stamped"
      BY <1>7 DEF CreateForm, TypesOK
  <2>2. req[r].user \in Users /\ req[r].active \in BOOLEAN /\ req[r].stamp \in Nat
      BY <2>1 DEF Request
  <2>3. CASE UNCHANGED <<forms, told>>
    <3>1. Idle \in Request /\ Idle.pc = "idle"
        BY DEF Idle, Request
    <3>2. req' = [req EXCEPT ![r] = Idle]
      <4>1. \A f : Append(forms, f) # forms
          BY DEF TypesOK
      <4> QED
          BY <1>7, <2>3, <4>1 DEF CreateForm
    <3> QED
        BY <1>3, <1>7, <2>3, <3>1, <3>2 DEF CreateForm, TypesOK, IdsOK
  <2> DEFINE f == [owner |-> req[r].user, created |-> req[r].stamp,
                   status |-> NewFormStatus(req[r].active)]
             q == [pc |-> "created", user |-> req[r].user,
                   active |-> req[r].active, form |-> Len(forms) + 1]
  <2>4. ASSUME forms' = Append(forms, f), told' = Append(told, "nothing"),
               NEW p \in {q, Idle}, req' = [req EXCEPT ![r] = p]
        PROVE  TypeOK'
    <3>1. f \in Form
        BY <2>2 DEF Form, FormStates, Verdicts, NewFormStatus
    <3>2. p \in Request /\ (p.pc = "created" => p.form = Len(forms) + 1)
      <4>1. q \in Request /\ q.form = Len(forms) + 1
          BY <2>2 DEF Request, TypesOK
      <4>2. Idle \in Request /\ Idle.pc = "idle"
          BY DEF Idle, Request
      <4> QED
          BY <4>1, <4>2
    <3> HIDE DEF f, q
    <3>3. /\ forms' \in Seq(Form) /\ Len(forms') = Len(forms) + 1
          /\ told' \in Seq(Notices) /\ Len(told') = Len(forms')
        BY <2>4, <3>1 DEF TypesOK, Notices
    <3>4. DOMAIN forms \subseteq DOMAIN forms' /\ Len(forms) + 1 \in DOMAIN forms'
        BY <3>3 DEF TypesOK
    <3>5. UNCHANGED <<clock, outbox>>
        BY <1>7 DEF CreateForm
    <3>6. TypesOK'
        BY <1>1, <2>4, <3>2, <3>3, <3>5 DEF TypesOK
    <3>7. IdsOK'
        BY <1>1, <2>4, <3>2, <3>4, <3>5
        DEF TypesOK, IdsOK, UpdateRefersToRow, MessageRefersToRow
    <3> QED
        BY <1>2, <3>6, <3>7
  <2> QED
      BY <1>7, <2>3, <2>4 DEF CreateForm
<1>8. CASE NotifyOfForm(r)
  <2> DEFINE i == req[r].form
  <2>1. req[r] \in Request /\ req[r].pc = "created"
      BY <1>8 DEF NotifyOfForm, TypesOK
  <2>2. i \in Nat /\ i \in DOMAIN forms /\ req[r].active \in BOOLEAN
      BY <2>1 DEF Request, IdsOK
  <2>3. PICK ms \in Seq(Message) : Enqueue(ms) /\ \A l \in DOMAIN ms : MessageRefersToRow(ms[l])
    <3> DEFINE a == [kind |-> "groupPost", form |-> i]
               b == Notice(i, "received")
               c == [kind |-> "adminForm", form |-> i]
    <3>1. a \in Message /\ b \in Message /\ c \in Message
        BY <2>2 DEF Message, Notice, FormMessages, Notices
    <3>2. MessageRefersToRow(a) /\ MessageRefersToRow(b) /\ MessageRefersToRow(c)
        BY <2>2 DEF MessageRefersToRow, Notice
    <3>3. Enqueue(<<a>>) \/ Enqueue(<<b, c>>)
        BY <1>8, <2>2 DEF NotifyOfForm
    <3> HIDE DEF a, b, c
    <3>4. /\ <<a>> \in Seq(Message) /\ \A l \in DOMAIN <<a>> : MessageRefersToRow(<<a>>[l])
          /\ <<b, c>> \in Seq(Message)
          /\ \A l \in DOMAIN <<b, c>> : MessageRefersToRow(<<b, c>>[l])
        BY <3>1, <3>2
    <3> QED
        BY <3>3, <3>4
  <2>4. /\ outbox' \in Seq(Message)
        /\ \A k \in DOMAIN outbox' : MessageRefersToRow(outbox'[k])
      BY <2>3, EnqueueType DEF TypesOK, IdsOK
  <2>5. Idle \in Request /\ Idle.pc = "idle"
      BY DEF Idle, Request
  <2> QED
      BY <1>3, <1>8, <2>4, <2>5 DEF NotifyOfForm, TypesOK
<1> QED
    BY <1>4, <1>5, <1>6, <1>7, <1>8 DEF Web

\* A crash empties what was in memory and goes back in the log.
LEMMA CrashType ==
    ASSUME TypeOK, Crash \/ Confirm
    PROVE  TypeOK'
<1> USE DEF TypeOK
<1>1. CASE Crash
  <2>1. Idle \in Request /\ Idle.pc = "idle"
      BY DEF Idle, Request
  <2>2. TypesOK'
      BY <1>1, <2>1, ConstantsAssumption DEF Crash, TypesOK, db, chat
  <2>3. IdsOK'
      BY <1>1, <2>1 DEF Crash, IdsOK, UpdateRefersToRow, db, chat
  <2>4. PcOK'
      BY <1>1 DEF Crash, PcOK
  <2> QED
      BY <2>2, <2>3, <2>4
<1>2. CASE Confirm
  <2>1. UNCHANGED <<users, forms, clock, req, next, pc, todo, outbox, feed, crashes,
                    members, keyboards, polls, told, posted>>
      BY <1>2 DEF Confirm, db, bot, chat
  <2>2. TypesOK'
      BY <1>2, <2>1 DEF Confirm, TypesOK
  <2>3. IdsOK' /\ PcOK'
      BY <2>1 DEF IdsOK, UpdateRefersToRow, MessageRefersToRow, PcOK, Cur
  <2> QED
      BY <2>2, <2>3
<1> QED
    BY <1>1, <1>2

\* Everything that happens adds one update about existing rows to the log.
LEMMA PeopleStep ==
    ASSUME TypesOK, IdsOK, People
    PROVE  \E e \in Update :
              feed' = Append(feed, e) /\ UpdateRefersToRow(e) /\ members' \subseteq Users \X Groups
<1>1. \A u \in Users \cup {NoUser}, c \in Groups \cup {Private} :
          TextMessage(u, c) \in [kind: {"message"}, from: Users \cup {NoUser},
                                  chat: Groups \cup {Private}, joined: SUBSET Users,
                                  left: Users \cup {NoUser}]
    BY DEF TextMessage
<1>2. CASE Write
  <2>1. PICK u \in Users, c \in Groups \cup {Private} : feed' = Append(feed, TextMessage(u, c))
      BY <1>2 DEF Write, Happens
  <2>2. TextMessage(u, c) \in Update /\ TextMessage(u, c).kind = "message"
      BY <1>1 DEF Update, TextMessage
  <2> QED
      BY <1>2, <2>1, <2>2 DEF Write, UpdateRefersToRow, TypesOK
<1>3. CASE Join
  <2>1. PICK who \in (SUBSET Users) \ {{}}, g \in Groups, by \in Users \cup {NoUser} :
           /\ members' = members \cup (who \X {g})
           /\ feed' = Append(feed, [TextMessage(by, g) EXCEPT !.joined = who])
      BY <1>3 DEF Join, Happens
  <2> DEFINE e == [TextMessage(by, g) EXCEPT !.joined = who]
  <2>2. e \in Update /\ e.kind = "message"
      BY DEF Update, TextMessage
  <2>3. members' \subseteq Users \X Groups
      BY <2>1 DEF TypesOK
  <2> QED
      BY <2>1, <2>2, <2>3 DEF UpdateRefersToRow
<1>4. CASE Leave
  <2>1. PICK m \in members : \E by \in {m[1], NoUser} :
           /\ members' = members \ {m}
           /\ feed' = Append(feed, [TextMessage(by, m[2]) EXCEPT !.left = m[1]])
      BY <1>4 DEF Leave, Happens
  <2>2. PICK by \in {m[1], NoUser} :
           /\ members' = members \ {m}
           /\ feed' = Append(feed, [TextMessage(by, m[2]) EXCEPT !.left = m[1]])
      BY <2>1
  <2>3. m[1] \in Users /\ m[2] \in Groups
      BY DEF TypesOK
  <2> DEFINE e == [TextMessage(by, m[2]) EXCEPT !.left = m[1]]
  <2>4. e \in Update /\ e.kind = "message"
      BY <2>3 DEF Update, TextMessage
  <2> QED
      BY <2>2, <2>4 DEF UpdateRefersToRow, TypesOK
<1>5. CASE AskToJoin
  <2>1. PICK u \in Users : feed' = Append(feed, [kind |-> "joinRequest", from |-> u])
      BY <1>5 DEF AskToJoin, Happens
  <2> DEFINE e == [kind |-> "joinRequest", from |-> u]
  <2>2. e \in Update /\ e.kind = "joinRequest"
      BY DEF Update
  <2> QED
      BY <1>5, <2>1, <2>2 DEF AskToJoin, UpdateRefersToRow, TypesOK
<1>6. CASE PressForm
  <2>1. PICK i \in keyboards, v \in Verdicts :
           feed' = Append(feed, [kind |-> "formPress", form |-> i, verdict |-> v])
      BY <1>6 DEF PressForm, Happens
  <2> DEFINE e == [kind |-> "formPress", form |-> i, verdict |-> v]
  <2>2. i \in DOMAIN forms /\ i \in Nat
      BY DEF IdsOK, TypesOK
  <2>3. e \in Update /\ e.kind = "formPress" /\ e.form = i
      BY <2>2 DEF Update
  <2> QED
      BY <1>6, <2>1, <2>2, <2>3 DEF PressForm, UpdateRefersToRow, TypesOK
<1>7. CASE PressPoll
  <2>1. PICK p \in DOMAIN polls, v \in Verdicts :
           feed' = Append(feed, [kind |-> "userPress", user |-> polls[p].user, poll |-> p,
                                 verdict |-> v])
      BY <1>7 DEF PressPoll, Happens
  <2> DEFINE e == [kind |-> "userPress", user |-> polls[p].user, poll |-> p, verdict |-> v]
  <2>2. polls[p].user \in Users /\ p \in Nat
    <3> DEFINE Poll == [user: Users, open: BOOLEAN]
    <3>1. polls \in Seq(Poll)
        BY DEF TypesOK
    <3> HIDE DEF Poll
    <3>2. p \in 1..Len(polls)
        BY <3>1, LenProperties
    <3>3. polls[p] \in Poll
        BY <3>1, <3>2, ElementOfSeq
    <3> QED
        BY <3>2, <3>3 DEF Poll
  <2>3. e \in Update /\ e.kind = "userPress" /\ e.poll = p
      BY <2>2 DEF Update
  <2> QED
      BY <1>7, <2>1, <2>2, <2>3 DEF PressPoll, UpdateRefersToRow, TypesOK
<1> QED
    BY <1>2, <1>3, <1>4, <1>5, <1>6, <1>7 DEF People

\* An update the people produce names rows and people that exist.
LEMMA PeopleType ==
    ASSUME TypeOK, People
    PROVE  TypeOK'
<1> USE DEF TypeOK
<1>1. PICK e \in Update : /\ feed' = Append(feed, e) /\ UpdateRefersToRow(e)
                          /\ members' \subseteq Users \X Groups
    BY PeopleStep
<1>2. UNCHANGED <<users, forms, clock, req, next, pc, todo, outbox, confirmed, crashes,
                  keyboards, polls, told, posted>>
    BY DEF People, db, bot, chat
<1>3. /\ feed' \in Seq(Update) /\ Len(feed') = Len(feed) + 1
      /\ \A k \in DOMAIN feed : k \in DOMAIN feed' /\ feed'[k] = feed[k]
      /\ feed'[Len(feed) + 1] = e /\ DOMAIN feed' = DOMAIN feed \cup {Len(feed) + 1}
    BY <1>1 DEF TypesOK
<1>4. TypesOK'
    BY <1>1, <1>2, <1>3 DEF TypesOK
<1>5. IdsOK'
    BY <1>1, <1>2, <1>3 DEF IdsOK, UpdateRefersToRow, MessageRefersToRow
<1>6. PcOK'
  <2>1. next \in Nat /\ Len(feed) \in Nat /\ (next <= Len(feed) => next \in DOMAIN feed)
      BY DEF TypesOK
  <2>2. next <= Len(feed) => next' <= Len(feed') /\ Cur' = Cur
      BY <1>2, <1>3, <2>1 DEF Cur
  <2> QED
      BY <1>2, <2>2 DEF PcOK
<1> QED
    BY <1>4, <1>5, <1>6

\* TypeOK: every variable of the bot, the database and Telegram keeps its
\* type, no id ever refers to a row or poll that does not exist, and the
\* processor is inside the handler it says it is in.
THEOREM TypeCorrect == Spec => []TypeOK
<1>1. Init => TypeOK
    BY ConstantsAssumption
    DEF Init, TypeOK, TypesOK, IdsOK, PcOK, Statuses, Request, Idle
<1>2. TypeOK /\ [Next]_vars => TypeOK'
  <2> SUFFICES ASSUME TypeOK, [Next]_vars
               PROVE  TypeOK'
      OBVIOUS
  <2>1. CASE UNCHANGED vars
      BY <2>1 DEF vars, db, bot, chat, TypeOK, TypesOK, IdsOK, PcOK, Cur,
                  UpdateRefersToRow, MessageRefersToRow
  <2>2. CASE Next
      BY <2>2, ProcessorType, SendType, WebType, CrashType, PeopleType DEF Next
  <2> QED
      BY <2>1, <2>2
<1> QED
    BY <1>1, <1>2, PTL DEF Spec

-----------------------------------------------------------------------------
(* Nothing is without a reason. *)

\* What the log says stays said.
LEMMA LogGrows ==
    ASSUME TypesOK, NEW e \in Update, feed' = Append(feed, e)
    PROVE  /\ \A u : EverMember(u) => EverMember(u)'
           /\ \A u, v : PressedUser(u, v) => PressedUser(u, v)'
           /\ \A i, v : PressedForm(i, v) => PressedForm(i, v)'
           /\ \A u : e.kind = "message" /\ u \in e.joined => EverMember(u)'
           /\ DOMAIN feed' = DOMAIN feed \cup {Len(feed) + 1}
           /\ \A k \in DOMAIN feed : feed'[k] = feed[k]
           /\ feed'[Len(feed) + 1] = e
<1>1. /\ DOMAIN feed' = DOMAIN feed \cup {Len(feed) + 1}
      /\ \A k \in DOMAIN feed : feed'[k] = feed[k]
      /\ feed'[Len(feed) + 1] = e
  <2>1. feed \in Seq(Update)
      BY DEF TypesOK
  <2>2. feed' \in Seq(Update) /\ Len(feed') = Len(feed) + 1 /\ Len(feed) \in Nat
      BY <2>1
  <2>3. DOMAIN feed' = 1..(Len(feed) + 1) /\ DOMAIN feed = 1..Len(feed)
      BY <2>1, <2>2, LenProperties
  <2>4. /\ \A k \in 1..Len(feed) : feed'[k] = feed[k]
        /\ feed'[Len(feed) + 1] = e
      BY <2>1, <2>2
  <2> QED
      BY <2>2, <2>3, <2>4
<1> QED
    BY <1>1 DEF EverMember, PressedUser, PressedForm

\* UpdateOrCreateUser keeps everybody vouched for, if it is called for a reason.
LEMMA UpdateUserVouched ==
    ASSUME TypesOK, Vouched, UNCHANGED feed,
           NEW u \in Users, NEW s \in {"new", "active", "not_active"},
           UpdateOrCreateUser(u, s), s # "new" => EverMember(u)
    PROVE  Vouched'
<1>1. \A w \in Users : users'[w] = users[w] \/ (w = u /\ users'[w] = s)
    BY DEF UpdateOrCreateUser, TypesOK
<1> QED
    BY <1>1 DEF Vouched, Verdicts, EverMember, PressedUser

\* What a step that leaves the log alone has to establish about forms.
LEMMA SetFormJustified ==
    ASSUME TypesOK, PublicFormJustified, UNCHANGED feed,
           NEW i \in DOMAIN forms, NEW v \in Verdicts, SetFormStatus(i, v),
           PressedForm(i, v)
    PROVE  PublicFormJustified'
<1>1. /\ DOMAIN forms' = DOMAIN forms
      /\ \A j \in DOMAIN forms :
            /\ forms'[j].owner = forms[j].owner
            /\ forms'[j].status = IF j = i THEN v ELSE forms[j].status
    BY SetFormType DEF TypesOK
<1> QED
    BY <1>1 DEF PublicFormJustified, Owner, PressedForm, EverMember

\* What the processor puts into the outbox keeps all approvals justified.
LEMMA EnqueueJustified ==
    ASSUME TypesOK, ApprovalJustified, UNCHANGED feed,
           NEW ms \in Seq(Message), Enqueue(ms),
           \A l \in DOMAIN ms : ms[l].kind = "approve" =>
               EverMember(ms[l].user) \/ PressedUser(ms[l].user, "accepted")
    PROVE  ApprovalJustified'
<1>1. \A k \in DOMAIN outbox' :
          \/ \E l \in DOMAIN outbox : outbox'[k] = outbox[l]
          \/ \E l \in DOMAIN ms : outbox'[k] = ms[l]
    BY EnqueueType DEF TypesOK
<1>2. ASSUME NEW k \in DOMAIN outbox', outbox'[k].kind = "approve"
      PROVE  EverMember(outbox'[k].user) \/ PressedUser(outbox'[k].user, "accepted")
    BY <1>1, <1>2 DEF ApprovalJustified
<1>3. \A u : (EverMember(u) <=> EverMember(u)')
              /\ (PressedUser(u, "accepted") <=> PressedUser(u, "accepted")')
    BY DEF EverMember, PressedUser
<1> QED
    BY <1>2, <1>3 DEF ApprovalJustified

\* The tables are unchanged, or the log has the reason for the change.
LEMMA ProcessorJustified ==
    ASSUME Inv, Processor
    PROVE  Vouched' /\ PublicFormJustified' /\ ApprovalJustified'
<1> USE DEF Inv, TypeOK
<1> UNCHANGED feed
    BY DEF Processor
<1>0. /\ UNCHANGED users => Vouched'
      /\ UNCHANGED forms => PublicFormJustified'
      /\ UNCHANGED outbox => ApprovalJustified'
    BY DEF Vouched, PublicFormJustified, ApprovalJustified, Owner,
           EverMember, PressedUser, PressedForm
<1>1. CASE GiveUp
    BY <1>0, <1>1 DEF GiveUp, db
<1>2. CASE RecordSender /\ ~GiveUp
  <2>1. /\ next <= Len(feed) /\ Cur.kind = "message"
        /\ UNCHANGED <<forms, outbox>>
        /\ IF Cur.from = NoUser THEN UNCHANGED users
           ELSE UpdateOrCreateUser(Cur.from, SenderStatus(Cur.chat))
      BY <1>2 DEF RecordSender, Begin, GiveUpAfter
  <2>2. next \in DOMAIN feed /\ Cur = feed[next] /\ Cur.from \in Users \cup {NoUser}
      BY <2>1, CurType, UpdateFields
  <2>3. Cur.from # NoUser /\ SenderStatus(Cur.chat) # "new" => EverMember(Cur.from)
      BY <2>1, <2>2 DEF Honest, SenderStatus
  <2>4. SenderStatus(Cur.chat) \in {"new", "active", "not_active"}
      BY DEF SenderStatus
  <2>5. Vouched'
      BY <1>0, <2>1, <2>2, <2>3, <2>4, UpdateUserVouched
  <2> QED
      BY <1>0, <2>1, <2>5
<1>3. CASE AddMember /\ ~GiveUp
  <2>1. PICK u \in todo : UpdateOrCreateUser(u, "active") /\ UNCHANGED <<forms, outbox>>
      BY <1>3 DEF AddMember, GiveUpAfter
  <2>2. next <= Len(feed) /\ Cur.kind = "message" /\ u \in Cur.joined
      BY <1>3 DEF AddMember, PcOK
  <2>3. EverMember(u) /\ u \in Users
      BY <2>2, CurType DEF EverMember, TypesOK
  <2>4. Vouched'
      BY <2>1, <2>3, UpdateUserVouched
  <2> QED
      BY <1>0, <2>1, <2>4
<1>4. CASE DropMember /\ ~GiveUp
  <2>1. /\ next <= Len(feed) /\ Cur.kind = "message" /\ Cur.left # NoUser
        /\ UpdateOrCreateUser(Cur.left, "not_active") /\ UNCHANGED <<forms, outbox>>
      BY <1>4 DEF DropMember, PcOK
  <2>2. Cur.left \in Users
      BY <2>1, CurType, UpdateFields
  <2>3. EverMember(Cur.left)
      BY <2>1, <2>2, CurType DEF Honest
  <2>4. Vouched'
      BY <2>1, <2>2, <2>3, UpdateUserVouched
  <2> QED
      BY <1>0, <2>1, <2>4
<1>5. CASE EndMessage
    BY <1>0, <1>5 DEF EndMessage, db
<1>6. CASE AnswerJoinRequest /\ ~GiveUp
  <2> DEFINE m == [kind |-> IF MayEnter(users[Cur.from]) THEN "approve" ELSE "decline",
                   user |-> Cur.from]
  <2>1. /\ next <= Len(feed) /\ Cur.kind = "joinRequest"
        /\ Enqueue(<<m>>) /\ UNCHANGED <<users, forms>>
      BY <1>6 DEF AnswerJoinRequest, Begin, db
  <2>2. Cur.from \in Users
      BY <2>1, CurType, UpdateFields
  <2>3. m \in Message /\ m.user = Cur.from
      BY <2>2 DEF Message, UserMessages
  <2>4. m.kind = "approve" => MayEnter(users[Cur.from])
      OBVIOUS
  <2>5. m.kind = "approve" => EverMember(m.user) \/ PressedUser(m.user, "accepted")
      BY <2>2, <2>3, <2>4 DEF MayEnter, Vouched, Verdicts
  <2> HIDE DEF m
  <2> DEFINE ms == <<m>>
  <2>6. /\ ms \in Seq(Message)
        /\ \A l \in DOMAIN ms : ms[l].kind = "approve" =>
               EverMember(ms[l].user) \/ PressedUser(ms[l].user, "accepted")
      BY <2>3, <2>5
  <2>7. Enqueue(ms)
      BY <2>1
  <2> HIDE DEF ms
  <2>8. ApprovalJustified'
      BY <2>6, <2>7, EnqueueJustified
  <2> QED
      BY <1>0, <2>1, <2>8
<1>7. CASE DecideForm /\ ~GiveUp
  <2>1. /\ next <= Len(feed) /\ Cur.kind = "formPress" /\ UNCHANGED users
        /\ Cur.verdict \in Verdicts /\ SetFormStatus(Cur.form, Cur.verdict)
    <3>1. next <= Len(feed) /\ Cur.kind = "formPress"
        BY <1>7 DEF DecideForm, Begin
    <3>2. Cur.verdict \in Verdicts
        BY <3>1, CurType, UpdateFields
    <3> QED
        BY <1>7, <3>1, <3>2 DEF DecideForm
  <2>2. /\ Cur.form \in DOMAIN forms /\ Cur.form \in Nat
        /\ next \in DOMAIN feed /\ Cur = feed[next]
      BY <2>1, CurType, UpdateFields DEF IdsOK, UpdateRefersToRow
  <2>3. PressedForm(Cur.form, Cur.verdict)
      BY <2>1, <2>2 DEF PressedForm
  <2>4. PublicFormJustified'
      BY <2>1, <2>2, <2>3, SetFormJustified
  <2>5. CASE UNCHANGED outbox
      BY <1>0, <2>1, <2>4, <2>5
  <2>6. CASE Enqueue(<<Notice(Cur.form, "rejected"), DropKeyboard(Cur.form)>>)
    <3> DEFINE a == Notice(Cur.form, "rejected")
               b == DropKeyboard(Cur.form)
               ms == <<a, b>>
    <3>1. a \in Message /\ b \in Message /\ a.kind # "approve" /\ b.kind # "approve"
        BY <2>2 DEF Notice, DropKeyboard, Message, FormMessages, Notices
    <3>2. Enqueue(ms)
        BY <2>6
    <3> HIDE DEF a, b
    <3>3. ms \in Seq(Message) /\ \A l \in DOMAIN ms : ms[l].kind # "approve"
        BY <3>1
    <3> HIDE DEF ms
    <3>4. ApprovalJustified'
        BY <3>2, <3>3, EnqueueJustified
    <3> QED
        BY <1>0, <2>1, <2>4, <3>4
  <2> QED
      BY <1>7, <2>5, <2>6 DEF DecideForm
<1>8. CASE Announce
  <2>1. next <= Len(feed) /\ Cur.kind = "formPress" /\ UNCHANGED <<users, forms>>
      BY <1>8 DEF Announce, PcOK, db
  <2>2. Cur.form \in DOMAIN forms /\ Cur.form \in Nat
      BY <2>1, CurType, UpdateFields DEF IdsOK, UpdateRefersToRow
  <2>3. Owner(Cur.form) \in Users
    <3>1. forms[Cur.form] \in Form
        BY <2>2 DEF TypesOK
    <3> QED
        BY <3>1 DEF Owner, Form
  <2> DEFINE p == [kind |-> "poll", user |-> Owner(Cur.form)]
             a == Notice(Cur.form, IF IsActive(Owner(Cur.form)) THEN "approved" ELSE "onVote")
             b == DropKeyboard(Cur.form)
  <2>4. Enqueue(<<p>> \o <<a, b>>) \/ Enqueue(<<>> \o <<a, b>>)
    <3>1. \E answered \in BOOLEAN :
             Enqueue((IF answered /\ ~IsActive(Owner(Cur.form)) THEN <<p>> ELSE <<>>) \o <<a, b>>)
        BY <1>8 DEF Announce
    <3> HIDE DEF p, a, b
    <3> QED
        BY <3>1
  <2>5. /\ p \in Message /\ a \in Message /\ b \in Message
        /\ p.kind # "approve" /\ a.kind # "approve" /\ b.kind # "approve"
      BY <2>2, <2>3 DEF Notice, DropKeyboard, Message, FormMessages, UserMessages, Notices
  <2> HIDE DEF p, a, b
  <2>6. PICK ms \in Seq(Message) : Enqueue(ms) /\ \A l \in DOMAIN ms : ms[l].kind # "approve"
    <3>1. \A s, t \in Seq(Message) :
             /\ s \o t \in Seq(Message)
             /\ \A l \in DOMAIN (s \o t) : \/ \E n \in DOMAIN s : (s \o t)[l] = s[n]
                                          \/ \E n \in DOMAIN t : (s \o t)[l] = t[n]
        OBVIOUS
    <3> DEFINE s == <<p>>
               t == <<a, b>>
               z == <<>>
    <3>2. /\ s \in Seq(Message) /\ \A l \in DOMAIN s : s[l].kind # "approve"
          /\ t \in Seq(Message) /\ \A l \in DOMAIN t : t[l].kind # "approve"
          /\ z \in Seq(Message) /\ DOMAIN z = {}
        BY <2>5
    <3>3. Enqueue(s \o t) \/ Enqueue(z \o t)
        BY <2>4
    <3> HIDE DEF s, t, z
    <3>4. /\ \A l \in DOMAIN (s \o t) : (s \o t)[l].kind # "approve"
          /\ \A l \in DOMAIN (z \o t) : (z \o t)[l].kind # "approve"
        BY <3>1, <3>2
    <3> QED
        BY <3>1, <3>2, <3>3, <3>4
  <2>7. ApprovalJustified'
      BY <2>6, EnqueueJustified
  <2> QED
      BY <1>0, <2>1, <2>7
<1>9. CASE DecideUser /\ ~GiveUp
  <2> DEFINE a == [kind |-> IF Cur.verdict = "accepted" THEN "invite" ELSE "refuse",
                   user |-> Cur.user]
             b == [kind |-> "stopPoll", poll |-> Cur.poll]
             ms == <<a, b>>
  <2>1. /\ next <= Len(feed) /\ Cur.kind = "userPress" /\ UNCHANGED forms
        /\ SetUserStatus(Cur.user, Cur.verdict)
        /\ Enqueue(ms) \/ UNCHANGED outbox
      BY <1>9 DEF DecideUser, Begin
  <2>2. /\ Cur.user \in Users /\ Cur.verdict \in Verdicts /\ Cur.poll \in Nat
        /\ next \in DOMAIN feed /\ Cur = feed[next]
      BY <2>1, CurType, UpdateFields
  <2>3. PressedUser(Cur.user, Cur.verdict)
      BY <2>1, <2>2 DEF PressedUser
  <2>4. Vouched'
    <3>1. \A w \in Users : users'[w] = IF w = Cur.user THEN Cur.verdict ELSE users[w]
        BY <2>1, <2>2 DEF SetUserStatus, TypesOK
    <3> QED
        BY <2>2, <2>3, <3>1 DEF Vouched, Verdicts, EverMember, PressedUser
  <2>5. a \in Message /\ b \in Message /\ a.kind # "approve" /\ b.kind # "approve"
      BY <2>2 DEF Message, UserMessages
  <2> HIDE DEF a, b
  <2>6. ms \in Seq(Message) /\ \A l \in DOMAIN ms : ms[l].kind # "approve"
      BY <2>5
  <2> HIDE DEF ms
  <2>7. Enqueue(ms) => ApprovalJustified'
      BY <2>6, EnqueueJustified
  <2> QED
      BY <1>0, <2>1, <2>4, <2>7
<1> QED
    BY <1>1, <1>2, <1>3, <1>4, <1>5, <1>6, <1>7, <1>8, <1>9 DEF Processor

\* Sending, and the re-queue of a failed approval, grants nothing not pressed for.
LEMMA SendJustified ==
    ASSUME Inv, SendMessage
    PROVE  Honest' /\ Vouched' /\ PublicFormJustified' /\ ApprovalJustified'
<1>1. UNCHANGED <<users, forms, req, feed, members>>
    BY DEF SendMessage, db
<1>2. \A k \in DOMAIN outbox' : \E l \in DOMAIN outbox : outbox'[k] = outbox[l]
  <2> DEFINE rest == Tail(outbox)
             m == Head(outbox)
  <2>1. outbox \in Seq(Message) /\ outbox # <<>>
      BY DEF Inv, TypeOK, TypesOK, SendMessage
  <2>2. /\ m = outbox[1] /\ 1 \in DOMAIN outbox /\ m \in Message
        /\ rest \in Seq(Message)
        /\ \A k \in DOMAIN rest : k + 1 \in DOMAIN outbox /\ rest[k] = outbox[k + 1]
      BY <2>1
  <2>3. outbox' = rest \/ outbox' = Append(rest, m)
      BY DEF SendMessage
  <2> HIDE DEF rest, m
  <2> QED
      BY <2>2, <2>3
<1> QED
    BY <1>1, <1>2 DEF Inv, Honest, Vouched, PublicFormJustified, ApprovalJustified, Owner,
                      EverMember, PressedUser, PressedForm

\* The web handlers publish no form and make nobody active.
LEMMA WebJustified ==
    ASSUME Inv, NEW r \in Requests, Web(r)
    PROVE  Honest' /\ Vouched' /\ PublicFormJustified' /\ ApprovalJustified'
<1> USE DEF Inv, TypeOK
<1>1. UNCHANGED <<users, feed, members>>
    BY DEF Web
<1>2. Vouched'
    BY <1>1 DEF Vouched, EverMember, PressedUser
<1>3. Honest'
  <2>1. ASSUME NEW q, req' = [req EXCEPT ![r] = q],
               q.pc # "idle" => (q.active => EverMember(q.user))
        PROVE  Honest'
      BY <1>1, <2>1 DEF Honest, EverMember, TypesOK
  <2>2. CASE Authenticate(r)
    <3>1. PICK u \in Users :
             req' = [req EXCEPT ![r] = [pc |-> "authed", user |-> u, active |-> IsActive(u)]]
        BY <2>2 DEF Authenticate
    <3>2. IsActive(u) => EverMember(u)
        BY DEF IsActive, Vouched
    <3> QED
        BY <2>1, <3>1, <3>2
  <2>3. CASE req' = [req EXCEPT ![r] = Idle]
      BY <2>1, <2>3 DEF Idle
  <2>4. CASE StampForm(r)
      BY <2>1, <2>4 DEF StampForm, Honest
  <2>5. CASE CreateForm(r)
    <3>1. req[r].active => EverMember(req[r].user)
        BY <2>5 DEF CreateForm, Honest
    <3> DEFINE q == [pc |-> "created", user |-> req[r].user,
                     active |-> req[r].active, form |-> Len(forms) + 1]
    <3>2. CASE req' = [req EXCEPT ![r] = q]
        BY <2>1, <3>1, <3>2
    <3> QED
        BY <2>3, <2>5, <3>2 DEF CreateForm
  <2> QED
      BY <2>2, <2>3, <2>4, <2>5 DEF Web, RefuseForm, NotifyOfForm
<1>4. PublicFormJustified'
  <2>1. CASE UNCHANGED forms
      BY <1>1, <2>1 DEF PublicFormJustified, Owner, EverMember, PressedForm
  <2> DEFINE f == [owner |-> req[r].user, created |-> req[r].stamp,
                   status |-> NewFormStatus(req[r].active)]
  <2>2. CASE CreateForm(r) /\ forms' = Append(forms, f)
    <3>1. req[r].pc = "stamped" /\ req[r] \in Request
        BY <2>2 DEF CreateForm, TypesOK
    <3>2. req[r].active \in BOOLEAN /\ (req[r].active => EverMember(req[r].user))
        BY <3>1 DEF Request, Honest
    <3>3. f.status = "accepted" => EverMember(f.owner)
        BY <3>2 DEF NewFormStatus
    <3> HIDE DEF f
    <3>4. \A i \in DOMAIN forms' : (i \in DOMAIN forms /\ forms'[i] = forms[i]) \/ forms'[i] = f
        BY <2>2 DEF TypesOK
    <3> QED
        BY <1>1, <3>3, <3>4 DEF PublicFormJustified, Owner, EverMember, PressedForm
  <2> QED
      BY <2>1, <2>2 DEF Web, Authenticate, RefuseForm, StampForm, CreateForm, NotifyOfForm
<1>5. ApprovalJustified'
  <2>1. CASE UNCHANGED outbox
      BY <1>1, <2>1 DEF ApprovalJustified, EverMember, PressedUser
  <2>2. CASE NotifyOfForm(r)
    <3> DEFINE i == req[r].form
               a == [kind |-> "groupPost", form |-> i]
               b == Notice(i, "received")
               c == [kind |-> "adminForm", form |-> i]
    <3>1. req[r].pc = "created" /\ req[r] \in Request
        BY <2>2 DEF NotifyOfForm, TypesOK
    <3>2. i \in Nat /\ req[r].active \in BOOLEAN
        BY <3>1 DEF Request
    <3>3. /\ a \in Message /\ b \in Message /\ c \in Message
          /\ a.kind # "approve" /\ b.kind # "approve" /\ c.kind # "approve"
        BY <3>2 DEF Message, Notice, FormMessages, Notices
    <3>4. Enqueue(<<a>>) \/ Enqueue(<<b, c>>)
        BY <2>2, <3>2 DEF NotifyOfForm
    <3> HIDE DEF a, b, c
    <3>5. /\ <<a>> \in Seq(Message) /\ <<b, c>> \in Seq(Message)
          /\ \A l \in DOMAIN <<a>> : <<a>>[l].kind # "approve"
          /\ \A l \in DOMAIN <<b, c>> : <<b, c>>[l].kind # "approve"
        BY <3>3
    <3>6. PICK ms \in Seq(Message) : Enqueue(ms) /\ \A l \in DOMAIN ms : ms[l].kind # "approve"
        BY <3>4, <3>5
    <3> QED
        BY <1>1, <3>6, EnqueueJustified
  <2> QED
      BY <2>1, <2>2 DEF Web, Authenticate, RefuseForm, StampForm, CreateForm
<1> QED
    BY <1>2, <1>3, <1>4, <1>5

\* What a crash leaves in the database and at Telegram was justified before it.
LEMMA CrashJustified ==
    ASSUME Inv, Crash \/ Confirm
    PROVE  Honest' /\ Vouched' /\ PublicFormJustified' /\ ApprovalJustified'
<1>1. UNCHANGED <<users, forms, feed, members>>
    BY DEF Crash, Confirm, db
<1>2. UNCHANGED <<req, outbox>> \/ (req' = [r \in Requests |-> Idle] /\ outbox' = <<>>)
    BY DEF Crash, Confirm
<1>3. Vouched' /\ PublicFormJustified'
    BY <1>1 DEF Inv, Vouched, PublicFormJustified, Owner, EverMember, PressedUser, PressedForm
<1>4. Honest'
  <2>1. \A r \in Requests : req'[r].pc # "idle" => req'[r] = req[r]
      BY <1>2 DEF Idle
  <2> QED
      BY <1>1, <2>1 DEF Inv, Honest, EverMember
<1>5. ApprovalJustified'
  <2>1. CASE UNCHANGED outbox
      BY <1>1, <2>1 DEF Inv, ApprovalJustified, EverMember, PressedUser
  <2>2. CASE outbox' = <<>>
      BY <2>2 DEF ApprovalJustified
  <2> QED
      BY <1>2, <2>1, <2>2
<1> QED
    BY <1>3, <1>4, <1>5

\* What happens among people is recorded: a step adds the evidence it needs.
LEMMA PeopleJustified ==
    ASSUME Inv, People
    PROVE  Honest' /\ Vouched' /\ PublicFormJustified' /\ ApprovalJustified'
<1> USE DEF Inv, TypeOK
<1>1. UNCHANGED <<users, forms, req, outbox>>
    BY DEF People, db
<1>2. PICK e \in Update : /\ feed' = Append(feed, e) /\ UpdateRefersToRow(e)
                          /\ members' \subseteq Users \X Groups
    BY PeopleStep
<1>3. /\ \A u : EverMember(u) => EverMember(u)'
      /\ \A u, v : PressedUser(u, v) => PressedUser(u, v)'
      /\ \A i, v : PressedForm(i, v) => PressedForm(i, v)'
      /\ \A u : e.kind = "message" /\ u \in e.joined => EverMember(u)'
      /\ DOMAIN feed' = DOMAIN feed \cup {Len(feed) + 1}
      /\ \A k \in DOMAIN feed : feed'[k] = feed[k]
      /\ feed'[Len(feed) + 1] = e
    BY <1>2, LogGrows
<1>4. Vouched'
    BY <1>1, <1>3 DEF Vouched
<1>5. PublicFormJustified'
    BY <1>1, <1>3 DEF PublicFormJustified, Owner
<1>6. ApprovalJustified'
    BY <1>1, <1>3 DEF ApprovalJustified
<1>7. ASSUME \A m \in members' : EverMember(m[1])',
             e.kind = "message" =>
                /\ e.from # NoUser /\ e.chat = MainGroup => EverMember(e.from)'
                /\ e.left # NoUser => EverMember(e.left)'
      PROVE  Honest'
  <2> DEFINE Evidence(k) ==
          feed[k].kind = "message" =>
            /\ feed[k].from # NoUser /\ feed[k].chat = MainGroup => EverMember(feed[k].from)
            /\ feed[k].left # NoUser => EverMember(feed[k].left)
  <2>1. ASSUME NEW k \in DOMAIN feed
        PROVE  Evidence(k)'
    <3>1. Evidence(k)
        BY DEF Honest
    <3>2. feed'[k] = feed[k]
        BY <1>3
    <3> QED
        BY <1>3, <3>1, <3>2
  <2>2. ASSUME NEW n, feed'[n] = e
        PROVE  Evidence(n)'
      BY <1>7, <2>2
  <2>3. \A k \in DOMAIN feed' : Evidence(k)'
      BY <1>3, <2>1, <2>2
  <2>4. \A r \in Requests : req'[r].pc # "idle" => (req'[r].active => EverMember(req[r].user)')
      BY <1>1, <1>3 DEF Honest
  <2> QED
      BY <1>7, <2>3, <2>4 DEF Honest
<1>8. \A m \in members : EverMember(m[1])'
    BY <1>3 DEF Honest
<1>9. NoUser \notin Users /\ Private \notin Groups /\ MainGroup \in Groups
    BY ConstantsAssumption
<1>10. \A u \in Users, g \in Groups : <<u, g>> \in members => EverMember(u)'
    BY <1>8
<1>11. CASE Write
  <2>1. PICK u \in Users, c \in Groups \cup {Private} :
           (c = Private \/ <<u, c>> \in members) /\ feed' = Append(feed, TextMessage(u, c))
      BY <1>11 DEF Write, Happens
  <2> DEFINE d == TextMessage(u, c)
  <2>2. d.from = u /\ d.chat = c /\ d.left = NoUser
      BY DEF TextMessage
  <2>3. e = d
      BY <1>2, <1>3, <2>1 DEF TypesOK
  <2>4. e.chat = MainGroup => EverMember(e.from)'
      BY <1>9, <1>10, <2>1, <2>2, <2>3
  <2>5. UNCHANGED members
      BY <1>11 DEF Write
  <2> QED
      BY <1>4, <1>5, <1>6, <1>7, <1>8, <2>2, <2>3, <2>4, <2>5
<1>12. CASE Join
  <2>1. PICK who \in (SUBSET Users) \ {{}}, g \in Groups, by \in Users \cup {NoUser} :
           /\ by = NoUser \/ who = {by} \/ <<by, g>> \in members
           /\ members' = members \cup (who \X {g})
           /\ feed' = Append(feed, [TextMessage(by, g) EXCEPT !.joined = who])
      BY <1>12 DEF Join, Happens
  <2> DEFINE d == [TextMessage(by, g) EXCEPT !.joined = who]
  <2>2. d.kind = "message" /\ d.from = by /\ d.joined = who /\ d.left = NoUser
      BY DEF TextMessage
  <2>3. e = d
      BY <1>2, <1>3, <2>1 DEF TypesOK
  <2>4. \A u \in who : EverMember(u)'
      BY <1>3, <2>2, <2>3
  <2>5. \A m \in members' : EverMember(m[1])'
    <3>1. \A m \in who \X {g} : m[1] \in who
        OBVIOUS
    <3> QED
        BY <1>8, <2>1, <2>4, <3>1
  <2>6. by # NoUser => EverMember(by)'
      BY <1>10, <2>1, <2>4
  <2> QED
      BY <1>4, <1>5, <1>6, <1>7, <2>2, <2>3, <2>5, <2>6
<1>13. CASE Leave
  <2>1. PICK m \in members : \E by \in {m[1], NoUser} :
           /\ members' = members \ {m}
           /\ feed' = Append(feed, [TextMessage(by, m[2]) EXCEPT !.left = m[1]])
      BY <1>13 DEF Leave, Happens
  <2>2. PICK by \in {m[1], NoUser} :
           /\ members' = members \ {m}
           /\ feed' = Append(feed, [TextMessage(by, m[2]) EXCEPT !.left = m[1]])
      BY <2>1
  <2> DEFINE d == [TextMessage(by, m[2]) EXCEPT !.left = m[1]]
  <2>3. d.from = by /\ d.left = m[1]
      BY DEF TextMessage
  <2>4. e = d
      BY <1>2, <1>3, <2>2 DEF TypesOK
  <2>5. EverMember(m[1])'
      BY <1>8
  <2> QED
      BY <1>4, <1>5, <1>6, <1>7, <1>8, <2>2, <2>3, <2>4, <2>5
<1>14. CASE AskToJoin \/ PressForm \/ PressPoll
  <2>1. UNCHANGED members
      BY <1>14 DEF AskToJoin, PressForm, PressPoll
  <2>2. \E d : feed' = Append(feed, d) /\ d.kind # "message"
    <3>1. CASE AskToJoin
      <4>1. PICK u \in Users : feed' = Append(feed, [kind |-> "joinRequest", from |-> u])
          BY <3>1 DEF AskToJoin, Happens
      <4> QED
          BY <4>1
    <3>2. CASE PressForm
      <4>1. PICK i \in keyboards, v \in Verdicts :
               feed' = Append(feed, [kind |-> "formPress", form |-> i, verdict |-> v])
          BY <3>2 DEF PressForm, Happens
      <4> QED
          BY <4>1
    <3>3. CASE PressPoll
      <4>1. PICK p \in DOMAIN polls, v \in Verdicts :
               feed' = Append(feed, [kind |-> "userPress", user |-> polls[p].user,
                                     poll |-> p, verdict |-> v])
          BY <3>3 DEF PressPoll, Happens
      <4> QED
          BY <4>1
    <3> QED
        BY <1>14, <3>1, <3>2, <3>3
  <2>3. e.kind # "message"
      BY <1>2, <1>3, <2>2 DEF TypesOK
  <2> QED
      BY <1>4, <1>5, <1>6, <1>7, <1>8, <2>1, <2>3
<1>15. Honest'
    BY <1>11, <1>12, <1>13, <1>14 DEF People
<1> QED
    BY <1>4, <1>5, <1>6, <1>15

\* Inv is inductive.
LEMMA InvStep ==
    ASSUME Inv, [Next]_vars
    PROVE  Inv'
<1>1. TypeOK'
  <2>1. CASE UNCHANGED vars
      BY <2>1 DEF Inv, vars, db, bot, chat, TypeOK, TypesOK, IdsOK, PcOK, Cur,
                  UpdateRefersToRow, MessageRefersToRow
  <2>2. CASE Next
      BY <2>2, ProcessorType, SendType, WebType, CrashType, PeopleType DEF Next, Inv
  <2> QED
      BY <2>1, <2>2
<1>2. Honest' /\ Vouched' /\ PublicFormJustified' /\ ApprovalJustified'
  <2>1. CASE UNCHANGED vars
    <3>1. UNCHANGED <<users, forms, req, outbox, feed, members>>
        BY <2>1 DEF vars, db
    <3>2. Honest'
        BY <3>1 DEF Inv, Honest, EverMember
    <3>3. Vouched'
        BY <3>1 DEF Inv, Vouched, EverMember, PressedUser
    <3>4. PublicFormJustified'
      <4>1. /\ \A u : EverMember(u) => EverMember(u)'
            /\ \A i, v : PressedForm(i, v) => PressedForm(i, v)'
          BY <3>1 DEF EverMember, PressedForm
      <4>2. \A i \in DOMAIN forms : Owner(i)' = Owner(i)
          BY <3>1 DEF Owner
      <4> QED
          BY <3>1, <4>1, <4>2 DEF Inv, PublicFormJustified
    <3>5. ApprovalJustified'
        BY <3>1 DEF Inv, ApprovalJustified, EverMember, PressedUser
    <3> QED
        BY <3>2, <3>3, <3>4, <3>5
  <2>2. CASE Processor
    <3>1. UNCHANGED <<req, feed, members>>
        BY <2>2 DEF Processor
    <3>2. Honest'
        BY <3>1 DEF Inv, Honest, EverMember
    <3> QED
        BY <2>2, <3>2, ProcessorJustified
  <2>3. CASE SendMessage \/ Crash \/ Confirm \/ People
      BY <2>3, SendJustified, CrashJustified, PeopleJustified
  <2>4. CASE \E r \in Requests : Web(r)
      BY <2>4, WebJustified
  <2> QED
      BY <2>1, <2>2, <2>3, <2>4 DEF Next
<1> QED
    BY <1>1, <1>2 DEF Inv

\* The bot starts with empty tables, an empty log and nothing to send.
LEMMA InvInit == Init => Inv
<1> SUFFICES ASSUME Init
             PROVE  Inv
    OBVIOUS
<1>1. TypeOK
    BY ConstantsAssumption DEF Init, TypeOK, TypesOK, IdsOK, PcOK, Statuses, Request, Idle
<1>2. \A m \in members : EverMember(m[1])
  <2>1. \A m \in Founders : m[1] \in Users /\ m[2] \in Groups /\ m = <<m[1], m[2]>>
      BY ConstantsAssumption
  <2> QED
      BY <2>1 DEF Init, EverMember
<1>3. Honest
    BY <1>2 DEF Init, Honest, Idle
<1>4. Vouched /\ PublicFormJustified /\ ApprovalJustified
    BY DEF Init, Vouched, PublicFormJustified, ApprovalJustified, Verdicts
<1> QED
    BY <1>1, <1>3, <1>4 DEF Inv

\* In every reachable state each status, public form and approval goes back to an
\* update somebody sent, and every id names a row (Processor, Sender and web handlers).
THEOREM InvHolds == Spec => []Inv
    BY InvInit, InvStep, PTL DEF Spec

\* Vouched: no crash, lost or repeated update, failed statement or interleaving
\* with a web request makes somebody a member, or accepted, without a reason.
THEOREM StatusesVouched == Spec => []Vouched
<1>1. Inv => Vouched
    BY DEF Inv
<1> QED
    BY <1>1, InvHolds, PTL

\* PublicFormJustified: an accepted form was accepted by the administrator or
\* its author had been in a chat.
THEOREM PublicFormsJustified == Spec => []PublicFormJustified
<1>1. Inv => PublicFormJustified
    BY DEF Inv
<1> QED
    BY <1>1, InvHolds, PTL

\* ApprovalJustified: whoever the bot lets into the chat had been there or was
\* accepted by the administrator.
THEOREM ApprovalsJustified == Spec => []ApprovalJustified
<1>1. Inv => ApprovalJustified
    BY DEF Inv
<1> QED
    BY <1>1, InvHolds, PTL
=============================================================================
