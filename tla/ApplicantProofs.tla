-------------------------- MODULE ApplicantProofs --------------------------
(***************************************************************************)
(* What an applicant can rely on, for any number of people, chats, web     *)
(* requests, forms and updates: a form that awaits a decision has buttons, *)
(* a newcomer whose form was posted has a poll, the author's last notice   *)
(* is true, who has left is not taken for a member, and the two pages that *)
(* show forms agree.                                                       *)
(*                                                                         *)
(* Messages live in memory and are sent once, so the first three need      *)
(* that none is lost (NothingLost).  Nor does anybody hear of what was done *)
(* when its answer is lost: the first and the third need the answers of    *)
(* statements (Answered), the second that of the post to the chat          *)
(* (PostsAnswered).  The third also needs that no message is put off, the   *)
(* fourth that no statement fails.  Each theorem names what it needs;      *)
(* everything else may fail.                                               *)
(***************************************************************************)
EXTENDS ModerationProofs

\* No message is lost: the process does not die and Telegram takes what the
\* sender sends, now or, after code 429, later.
NothingLost == "crash" \notin Faults /\ "send" \notin Faults

\* Whoever is told that a statement failed can rely on its having no effect.
Answered == "dbAnswer" \notin Faults

\* The same of the synchronous post to the chat.
PostsAnswered == "groupAnswer" \notin Faults

\* No update is lost and no statement of a handler fails.
NothingSkipped == Answered /\ "crash" \notin Faults /\ "db" \notin Faults

-----------------------------------------------------------------------------
(* The invariants that are inductive.                                      *)

\* A keyboard is only taken away from a form that was decided, and a form
\* without moderation needs none.
ButtonsInv ==
    /\ PendingFormHasButtons
    /\ \A k \in DOMAIN outbox :
          outbox[k].kind = "dropKeyboard" => forms[outbox[k].form].status # "new"
    /\ pc = "announce" => forms[Cur.form].status # "new"
    /\ \A r \in Requests :
          req[r].pc = "created" /\ req[r].active => forms[req[r].form].status # "new"

Known(u)   == users[u] # "absent"
Settled(u) == users[u] \notin {"absent", "new"}

\* Whoever has a row keeps it, and who is no longer new never is again.  So
\* what was posted without a poll belongs to somebody who needs none, and
\* only polls about those who were decided upon are stopped.
PollsInv ==
    /\ \A i \in DOMAIN forms : Known(Owner(i))
    /\ \A r \in Requests :
          req[r].pc # "idle" =>
            /\ Known(req[r].user) /\ (req[r].active => Settled(req[r].user))
            /\ req[r].pc = "created" => Owner(req[r].form) = req[r].user
    /\ \A k \in DOMAIN outbox :
          /\ outbox[k].kind = "groupPost" => Settled(Owner(outbox[k].form))
          /\ outbox[k].kind = "stopPoll" => Settled(polls[outbox[k].poll].user)
    /\ \A k \in DOMAIN feed :
          feed[k].kind = "userPress" => feed[k].user = polls[feed[k].poll].user
    /\ NewcomerHasPoll

\* Is this message a notice about form i?
About(m, i) == m.kind = "notice" /\ m.form = i

Unpressed(i) == \A v \in Verdicts : ~PressedForm(i, v)

\* Nobody has been told about this form, and the administrator has not seen it.
Untold(i) ==
    /\ told[i] = "nothing" /\ i \notin keyboards /\ Unpressed(i)
    /\ \A k \in DOMAIN outbox :
          outbox[k].kind \in {"notice", "adminForm"} => outbox[k].form # i

\* The last notice about the form, delivered or on its way, fits its status.
LastWordFits(i) ==
    /\ \A k \in DOMAIN outbox :
          About(outbox[k], i) /\ (\A l \in DOMAIN outbox : About(outbox[l], i) => l <= k)
            => outbox[k].text \in Fits(forms[i].status)
    /\ (\A k \in DOMAIN outbox : ~About(outbox[k], i)) => told[i] \in Fits(forms[i].status)

Storing(r, i) == req[r].pc = "created" /\ req[r].form = i

\* Whoever has the last word says what is true; the exceptions are a form whose
\* request is not over, one about which the processor is to say something, and
\* one that nobody moderates.
NoticesInv ==
    /\ \A r \in Requests : \A i \in DOMAIN forms :
          Storing(r, i) =>
            /\ Untold(i) /\ forms[i].status = NewFormStatus(req[r].active)
            /\ \A s \in Requests : Storing(s, i) => s = r
    /\ \A i \in DOMAIN forms :
          \/ LastWordFits(i)
          \/ \E r \in Requests : Storing(r, i)
          \/ pc = "announce" /\ Cur.form = i
          \/ forms[i].status = "accepted" /\ Unpressed(i)
    /\ \A i \in DOMAIN forms :
          forms[i].status = "accepted" /\ Unpressed(i) => Untold(i)
    /\ pc = "announce" => forms[Cur.form].status = "accepted"

\* Does update k make u a member, does it say that u has left?
Enters(u, k) ==
    /\ feed[k].kind = "message"
    /\ \/ feed[k].from = u /\ feed[k].chat = MainGroup
       \/ u \in feed[k].joined

Leaves(u, k) == feed[k].kind = "message" /\ feed[k].left = u

\* The bot has yet to read that u has left, in update k or later.
LeavesFrom(u, k) == \E l \in DOMAIN feed : l >= k /\ Leaves(u, l)

Outside(u) == \A g \in Groups : <<u, g>> \notin members

\* What makes somebody a member who is in no chat any more is followed by the
\* news that they left.
LeaversInv ==
    /\ \A k \in DOMAIN feed :
          feed[k].kind = "message" /\ feed[k].joined # {} => feed[k].left = NoUser
    /\ \A u \in Users :
          Outside(u) =>
            /\ IsActive(u) => LeavesFrom(u, next)
            /\ \A k \in DOMAIN feed : k >= next /\ Enters(u, k) => LeavesFrom(u, k)

\* The latest of these forms.
LatestOf(S) == {i \in S : \A j \in S : forms[j].created <= forms[i].created}

\* Every time stamp is the clock's, and no two are the same; whichever forms
\* one looks at, one of them is the latest (which is an induction over their
\* number, and so part of what is inductive).
StampsInv ==
    /\ \A i \in DOMAIN forms : forms[i].created <= clock
    /\ \A i, j \in DOMAIN forms : forms[i].created = forms[j].created => i = j
    /\ \A r \in Requests :
          req[r].pc = "stamped" =>
            /\ req[r].stamp <= clock
            /\ \A i \in DOMAIN forms : forms[i].created # req[r].stamp
            /\ \A s \in Requests :
                  req[s].pc = "stamped" /\ req[s].stamp = req[r].stamp => s = r
    /\ \A S \in SUBSET DOMAIN forms : S # {} => LatestOf(S) # {}

-----------------------------------------------------------------------------
(* What a step does, as far as forms, notices and polls are concerned.     *)

\* The processor works on something else than a form; a poll is stopped only
\* together with a decision about the person it is about.
Elsewhere(ms) ==
    /\ UNCHANGED <<forms, posted>> /\ pc # "announce" /\ pc' # "announce"
    /\ \A l \in DOMAIN ms :
          \/ ms[l].kind \in {"approve", "decline", "invite", "refuse"}
          \/ /\ ms[l] = [kind |-> "stopPoll", poll |-> Cur.poll]
             /\ next \in DOMAIN feed /\ Cur.kind = "userPress"
             /\ users'[Cur.user] \notin {"absent", "new"}

\* It works on a press of a button under form i.
OnForm(i, v) ==
    /\ next \in DOMAIN feed /\ Cur.kind = "formPress" /\ Cur.verdict = v
    /\ i = Cur.form /\ i \in DOMAIN forms

Rejects(ms) ==
    \E i \in DOMAIN forms :
        /\ OnForm(i, "rejected") /\ SetFormStatus(i, "rejected")
        /\ ms = <<Notice(i, "rejected"), DropKeyboard(i)>>
        /\ pc # "announce" /\ pc' = "idle" /\ UNCHANGED <<users, posted>>

Accepts(ms) ==
    \E i \in DOMAIN forms :
        /\ OnForm(i, "accepted") /\ SetFormStatus(i, "accepted")
        /\ ms = <<>>
        /\ pc # "announce" /\ pc' = "announce" /\ UNCHANGED <<users, next, posted>>

Announces(ms) ==
    \E i \in DOMAIN forms :
        LET said == Notice(i, IF IsActive(Owner(i)) THEN "approved" ELSE "onVote")
            poll == [kind |-> "poll", user |-> Owner(i)]
        IN  /\ OnForm(i, "accepted") /\ UNCHANGED <<users, forms>>
            /\ pc = "announce" /\ pc' = "idle"
            /\ \/ /\ ms = <<said, DropKeyboard(i)>>
                  /\ \/ posted' = posted
                     \/ /\ IsActive(Owner(i)) \/ ~PostsAnswered
                        /\ posted' = posted \cup {i}
               \/ /\ ms = <<poll, said, DropKeyboard(i)>>
                  /\ posted' = posted \cup {i}

\* The decision is stored, but its answer is lost and nothing comes of it.
DecidesUnheard(ms) ==
    /\ ~Answered /\ ms = <<>>
    /\ \E i \in DOMAIN forms, v \in Verdicts :
          /\ OnForm(i, v) /\ SetFormStatus(i, v)
          /\ pc # "announce" /\ pc' = "idle" /\ UNCHANGED <<users, posted>>

\* One message in front of two.
LEMMA ThreeInARow ==
    ASSUME NEW S, NEW a \in S, NEW b \in S, NEW c \in S
    PROVE  <<a>> \o <<b, c>> = <<a, b, c>> /\ <<a, b, c>> \in Seq(S)
<1>1. <<a>> \in Seq(S) /\ <<b, c>> \in Seq(S) /\ <<a, b, c>> \in Seq(S)
  OBVIOUS
<1>2. Len(<<a>>) = 1 /\ Len(<<b, c>>) = 2 /\ Len(<<a, b, c>>) = 3
  OBVIOUS
<1>3. /\ <<a>> \o <<b, c>> \in Seq(S) /\ Len(<<a>> \o <<b, c>>) = 3
      /\ \A i \in 1..3 : (<<a>> \o <<b, c>>)[i] = IF i <= 1 THEN <<a>>[i] ELSE <<b, c>>[i - 1]
  BY <1>1, <1>2, ConcatProperties
<1>4. \A i \in 1..3 : (<<a>> \o <<b, c>>)[i] = <<a, b, c>>[i]
  BY <1>3
<1> QED
  BY <1>1, <1>2, <1>3, <1>4, SeqEqual

\* One of these is what a step of the processor does.
LEMMA ProcessorDoes ==
    ASSUME TypeOK, Processor
    PROVE  /\ UNCHANGED <<clock, req, feed, confirmed, crashes, members, keyboards,
                          polls, told>>
           /\ \E ms \in Seq(Message) :
                 /\ Enqueue(ms)
                 /\ \/ Elsewhere(ms) \/ Rejects(ms) \/ Accepts(ms)
                    \/ Announces(ms) \/ DecidesUnheard(ms)
<1> USE DEF TypeOK
<1>1. UNCHANGED <<clock, req, feed, confirmed, crashes, members, keyboards, polls, told>>
    BY DEF Processor, chat
<1>2. <<>> \in Seq(Message) /\ outbox \o <<>> = outbox /\ DOMAIN <<>> = {}
    BY DEF TypesOK
<1>3. ASSUME UNCHANGED <<forms, outbox, posted>>, pc # "announce", pc' # "announce"
      PROVE  Enqueue(<<>>) /\ Elsewhere(<<>>)
    BY <1>2, <1>3 DEF Enqueue, Elsewhere
<1>4. CASE GiveUp /\ pc # "announce"
    BY <1>1, <1>2, <1>3, <1>4 DEF GiveUp, Done, db
<1>5. CASE RecordSender
  <2>1. UNCHANGED <<forms, outbox, posted>> /\ pc # "announce" /\ pc' # "announce"
    BY <1>5 DEF RecordSender, Begin, GiveUp, GiveUpAfter, Done, db
  <2> QED
    BY <1>1, <1>2, <1>3, <2>1
<1>6. CASE AddMember \/ DropMember \/ EndMessage
  <2>1. UNCHANGED <<forms, outbox, posted>> /\ pc # "announce" /\ pc' # "announce"
    BY <1>6 DEF AddMember, DropMember, EndMessage, GiveUp, GiveUpAfter, Done, db
  <2> QED
    BY <1>1, <1>2, <1>3, <2>1
<1>7. CASE AnswerJoinRequest /\ ~GiveUp
  <2> DEFINE m == [kind |-> IF MayEnter(users[Cur.from]) THEN "approve" ELSE "decline",
                   user |-> Cur.from]
  <2>1. Cur.kind = "joinRequest" /\ next <= Len(feed) /\ pc = "idle"
    BY <1>7 DEF AnswerJoinRequest, Begin
  <2>2. Cur.from \in Users
    BY <2>1, CurType, UpdateFields
  <2>3. m \in Message /\ m.kind \in {"approve", "decline"}
    BY <2>2 DEF Message, UserMessages
  <2>4. Enqueue(<<m>>) /\ UNCHANGED <<forms, posted>> /\ pc' = "idle"
    BY <1>7 DEF AnswerJoinRequest, Done, db
  <2> HIDE DEF m
  <2>5. <<m>> \in Seq(Message) /\ \A l \in DOMAIN <<m>> : <<m>>[l] = m
    BY <2>3
  <2> QED
    BY <1>1, <2>1, <2>3, <2>4, <2>5 DEF Elsewhere
<1>8. CASE DecideForm /\ ~GiveUp
  <2>1. Cur.kind = "formPress" /\ next <= Len(feed) /\ pc = "idle"
    BY <1>8 DEF DecideForm, Begin
  <2>2. Cur.form \in DOMAIN forms /\ Cur.form \in Nat /\ next \in DOMAIN feed
    BY <2>1, CurType, UpdateFields DEF IdsOK, UpdateRefersToRow
  <2>3. CASE /\ Cur.verdict = "rejected" /\ SetFormStatus(Cur.form, "rejected")
             /\ Enqueue(<<Notice(Cur.form, "rejected"), DropKeyboard(Cur.form)>>)
             /\ Done /\ UNCHANGED <<users, posted>>
    <3> DEFINE ms == <<Notice(Cur.form, "rejected"), DropKeyboard(Cur.form)>>
    <3>1. ms \in Seq(Message)
      BY <2>2 DEF Notice, DropKeyboard, Message, FormMessages, Notices
    <3>2. /\ Enqueue(ms) /\ SetFormStatus(Cur.form, "rejected")
          /\ pc' = "idle" /\ UNCHANGED <<users, posted>>
      BY <2>3 DEF Done
    <3>3. Rejects(ms)
      BY <2>1, <2>2, <2>3, <3>2 DEF Rejects, OnForm
    <3> HIDE DEF ms
    <3> QED
      BY <1>1, <3>1, <3>2, <3>3
  <2>4. CASE /\ Cur.verdict = "accepted" /\ SetFormStatus(Cur.form, "accepted")
             /\ pc' = "announce" /\ UNCHANGED <<next, todo, users, outbox, posted>>
    <3>1. Accepts(<<>>) /\ Enqueue(<<>>)
      BY <1>2, <2>1, <2>2, <2>4 DEF Accepts, OnForm, Enqueue
    <3> QED
      BY <1>1, <1>2, <3>1
  <2>5. CASE SetFormStatus(Cur.form, Cur.verdict) /\ CanFail("dbAnswer") /\ Done
             /\ UNCHANGED <<users, outbox, posted>>
    <3>1. Cur.verdict \in Verdicts
      BY <2>1, CurType, UpdateFields
    <3>2. DecidesUnheard(<<>>) /\ Enqueue(<<>>)
      BY <1>2, <2>1, <2>2, <2>5, <3>1
      DEF DecidesUnheard, OnForm, Enqueue, Done, CanFail, Answered
    <3> QED
      BY <1>1, <1>2, <3>2
  <2> QED
    BY <1>8, <2>3, <2>4, <2>5 DEF DecideForm
<1>9. CASE Announce
  <2>1. /\ next <= Len(feed) /\ Cur.kind = "formPress" /\ Cur.verdict = "accepted"
        /\ pc = "announce" /\ pc' = "idle" /\ UNCHANGED <<users, forms>>
    BY <1>9 DEF Announce, PcOK, Done, db
  <2>2. Cur.form \in DOMAIN forms /\ Cur.form \in Nat /\ next \in DOMAIN feed
    BY <2>1, CurType, UpdateFields DEF IdsOK, UpdateRefersToRow
  <2>3. Owner(Cur.form) \in Users
    <3>1. forms[Cur.form] \in Form
      BY <2>2 DEF TypesOK
    <3> QED
      BY <3>1 DEF Owner, Form
  <2> DEFINE i == Cur.form
             said == Notice(i, IF IsActive(Owner(i)) THEN "approved" ELSE "onVote")
             poll == [kind |-> "poll", user |-> Owner(i)]
             drop == DropKeyboard(i)
  <2>4. PICK arrived \in BOOLEAN, ok \in BOOLEAN :
           /\ ok => arrived
           /\ arrived /\ ~ok => ~PostsAnswered
           /\ posted' = IF arrived THEN posted \cup {i} ELSE posted
           /\ Enqueue((IF ok /\ ~IsActive(Owner(i)) THEN <<poll>> ELSE <<>>) \o <<said, drop>>)
    BY <1>9 DEF Announce, CanFail, PostsAnswered
  <2>5. said \in Message /\ drop \in Message
    BY <2>2 DEF Notice, DropKeyboard, Message, FormMessages, Notices
  <2>6. poll \in Message
    BY <2>3 DEF Message, UserMessages
  <2>7. OnForm(i, "accepted") /\ i \in DOMAIN forms
    BY <2>1, <2>2 DEF OnForm
  <2>8. CASE ok /\ ~IsActive(Owner(i))
    <3>1. Announces(<<poll, said, drop>>)
      BY <2>1, <2>4, <2>7, <2>8 DEF Announces
    <3> HIDE DEF poll, said, drop
    <3>2. <<poll>> \o <<said, drop>> = <<poll, said, drop>> /\ <<poll, said, drop>> \in Seq(Message)
      BY <2>5, <2>6, ThreeInARow
    <3> QED
      BY <1>1, <2>4, <2>8, <3>1, <3>2
  <2>9. CASE ~(ok /\ ~IsActive(Owner(i)))
    <3>1. Announces(<<said, drop>>)
      BY <2>1, <2>4, <2>7, <2>9 DEF Announces
    <3> HIDE DEF poll, said, drop
    <3>2. <<>> \o <<said, drop>> = <<said, drop>> /\ <<said, drop>> \in Seq(Message)
      BY <2>5
    <3> QED
      BY <1>1, <2>4, <2>9, <3>1, <3>2
  <2> QED
    BY <2>8, <2>9
<1>10. CASE DecideUser /\ ~GiveUp
  <2>1. Cur.kind = "userPress" /\ next <= Len(feed) /\ pc = "idle"
    BY <1>10 DEF DecideUser, Begin
  <2>2. /\ Cur.user \in Users /\ Cur.verdict \in Verdicts
        /\ Cur.poll \in Nat /\ next \in DOMAIN feed
    BY <2>1, CurType, UpdateFields
  <2> DEFINE a == [kind |-> IF Cur.verdict = "accepted" THEN "invite" ELSE "refuse",
                   user |-> Cur.user]
             b == [kind |-> "stopPoll", poll |-> Cur.poll]
  <2>3. a \in Message /\ b \in Message /\ a.kind \in {"invite", "refuse"}
    BY <2>2 DEF Message, UserMessages
  <2>4. /\ Enqueue(<<a, b>>) \/ UNCHANGED outbox
        /\ SetUserStatus(Cur.user, Cur.verdict)
        /\ UNCHANGED <<forms, posted>> /\ pc' = "idle" /\ UNCHANGED feed
    BY <1>1, <1>10 DEF DecideUser, Done
  <2>5. users'[Cur.user] \in Verdicts
    BY <2>2, <2>4 DEF SetUserStatus, TypesOK
  <2>6. users'[Cur.user] \notin {"absent", "new"}
    BY <2>5 DEF Verdicts
  <2> HIDE DEF a
  <2>7. <<a, b>> \in Seq(Message)
    BY <2>3
  <2>8. Elsewhere(<<a, b>>)
    BY <2>1, <2>2, <2>3, <2>4, <2>6 DEF Elsewhere
  <2>9. UNCHANGED outbox => Enqueue(<<>>) /\ Elsewhere(<<>>)
    BY <1>3, <2>1, <2>4
  <2> QED
    BY <1>1, <1>2, <2>4, <2>7, <2>8, <2>9
<1> QED
  <2>1. GiveUp => pc # "announce" \/ Announce
    BY DEF Processor, RecordSender, AddMember, DropMember, EndMessage,
           AnswerJoinRequest, DecideForm, DecideUser, Begin
  <2> QED
    BY <1>4, <1>5, <1>6, <1>7, <1>8, <1>9, <1>10, <2>1 DEF Processor

\* Rows of forms stay where they are; their status changes only to a verdict.
LEMMA FormsKept ==
    ASSUME TypesOK, NEW ms,
           \/ Elsewhere(ms) \/ Rejects(ms) \/ Accepts(ms)
           \/ Announces(ms) \/ DecidesUnheard(ms)
    PROVE  /\ DOMAIN forms' = DOMAIN forms
           /\ \A i \in DOMAIN forms :
                 /\ forms'[i].owner = forms[i].owner
                 /\ forms'[i].created = forms[i].created
                 /\ forms'[i].status = forms[i].status \/ forms'[i].status \in Verdicts
<1>1. ASSUME NEW i \in DOMAIN forms, NEW v \in Verdicts, SetFormStatus(i, v)
      PROVE  /\ DOMAIN forms' = DOMAIN forms
             /\ \A j \in DOMAIN forms :
                   /\ forms'[j].owner = forms[j].owner
                   /\ forms'[j].created = forms[j].created
                   /\ forms'[j].status = forms[j].status \/ forms'[j].status \in Verdicts
  BY <1>1, SetFormType DEF TypesOK
<1>2. CASE Elsewhere(ms) \/ Announces(ms)
  BY <1>2 DEF Elsewhere, Announces
<1>3. CASE Rejects(ms) \/ Accepts(ms) \/ DecidesUnheard(ms)
  BY <1>1, <1>3 DEF Rejects, Accepts, DecidesUnheard, Verdicts
<1> QED
  BY <1>2, <1>3

\* Whoever has a row keeps it, and who is no longer new never is again.
LEMMA UsersKept ==
    ASSUME TypeOK, Processor, NEW u \in Users
    PROVE  (Known(u) => Known(u)') /\ (Settled(u) => Settled(u)')
<1> USE DEF TypeOK
<1>1. ASSUME NEW w \in Users, NEW s \in {"new", "active", "not_active"},
             UpdateOrCreateUser(w, s)
      PROVE  (Known(u) => Known(u)') /\ (Settled(u) => Settled(u)')
  BY <1>1 DEF UpdateOrCreateUser, Known, Settled, TypesOK
<1>2. CASE UNCHANGED users
  BY <1>2 DEF Known, Settled
<1>3. GiveUp => UNCHANGED users
  BY DEF GiveUp, db
<1>4. ASSUME NEW w \in Users, NEW s \in {"new", "active", "not_active"},
             GiveUpAfter(w, s)
      PROVE  (Known(u) => Known(u)') /\ (Settled(u) => Settled(u)')
  BY <1>1, <1>4 DEF GiveUpAfter
<1>5. CASE RecordSender
  <2>1. Cur.kind = "message" /\ next <= Len(feed)
    BY <1>5 DEF RecordSender, Begin
  <2>2. Cur.from \in Users \cup {NoUser}
    BY <2>1, CurType, UpdateFields
  <2>3. SenderStatus(Cur.chat) \in {"new", "active", "not_active"}
    BY DEF SenderStatus
  <2> QED
    BY <1>1, <1>2, <1>3, <1>4, <1>5, <2>2, <2>3 DEF RecordSender
<1>6. CASE AddMember
  <2>1. todo \subseteq Users
    BY DEF TypesOK
  <2> QED
    BY <1>1, <1>2, <1>3, <1>4, <1>6, <2>1 DEF AddMember
<1>7. CASE DropMember
  <2>1. Cur.kind = "message" /\ next <= Len(feed) /\ Cur.left # NoUser
    BY <1>7 DEF DropMember, PcOK
  <2>2. Cur.left \in Users
    BY <2>1, CurType, UpdateFields
  <2> QED
    BY <1>1, <1>2, <1>3, <1>7, <2>2 DEF DropMember
<1>8. CASE EndMessage \/ AnswerJoinRequest \/ DecideForm \/ Announce
  BY <1>2, <1>3, <1>8 DEF EndMessage, AnswerJoinRequest, DecideForm, Announce, db
<1>9. CASE DecideUser
  <2>1. Cur.kind = "userPress" /\ next <= Len(feed)
    BY <1>9 DEF DecideUser, Begin
  <2>2. Cur.user \in Users /\ Cur.verdict \in Verdicts
    BY <2>1, CurType, UpdateFields
  <2>3. CASE SetUserStatus(Cur.user, Cur.verdict)
    BY <2>2, <2>3 DEF SetUserStatus, Known, Settled, TypesOK, Verdicts
  <2> QED
    BY <1>2, <1>3, <1>9, <2>3 DEF DecideUser
<1> QED
  BY <1>5, <1>6, <1>7, <1>8, <1>9 DEF Processor

\* The outbox as a queue: the head and what comes after it.
LEMMA OutboxHead ==
    ASSUME TypesOK, outbox # <<>>
    PROVE  /\ Head(outbox) = outbox[1] /\ Head(outbox) \in Message
           /\ 1 \in DOMAIN outbox /\ DOMAIN outbox = 1..Len(outbox) /\ Len(outbox) \in Nat
           /\ Tail(outbox) \in Seq(Message) /\ DOMAIN Tail(outbox) = 1..(Len(outbox) - 1)
           /\ \A k \in DOMAIN Tail(outbox) :
                 k + 1 \in DOMAIN outbox /\ Tail(outbox)[k] = outbox[k + 1]
           /\ \A k \in DOMAIN outbox :
                 k = 1 \/ (k - 1 \in DOMAIN Tail(outbox) /\ Tail(outbox)[k - 1] = outbox[k])
<1>1. outbox \in Seq(Message) /\ Len(outbox) \in Nat
  BY DEF TypesOK
<1>2. DOMAIN outbox = 1..Len(outbox) /\ 1 \in DOMAIN outbox
  BY <1>1
<1>3. /\ Tail(outbox) \in Seq(Message) /\ Len(Tail(outbox)) = Len(outbox) - 1
      /\ \A k \in 1..(Len(outbox) - 1) : Tail(outbox)[k] = outbox[k + 1]
  BY <1>1, HeadTailProperties
<1>4. Head(outbox) = outbox[1] /\ Head(outbox) \in Message
  BY <1>1, <1>2
<1> QED
  BY <1>1, <1>2, <1>3, <1>4

\* What Enqueue makes of the outbox, by position.
LEMMA OutboxBehind ==
    ASSUME TypesOK, NEW ms \in Seq(Message), Enqueue(ms)
    PROVE  /\ outbox' \in Seq(Message)
           /\ DOMAIN outbox = 1..Len(outbox) /\ Len(outbox) \in Nat
           /\ DOMAIN ms = 1..Len(ms) /\ Len(ms) \in Nat
           /\ DOMAIN outbox' = 1..(Len(outbox) + Len(ms))
           /\ \A k \in DOMAIN outbox : k \in DOMAIN outbox' /\ outbox'[k] = outbox[k]
           /\ \A l \in DOMAIN ms : /\ Len(outbox) + l \in DOMAIN outbox'
                                   /\ outbox'[Len(outbox) + l] = ms[l]
           /\ \A k \in DOMAIN outbox' :
                 \/ k \in DOMAIN outbox /\ outbox'[k] = outbox[k]
                 \/ \E l \in DOMAIN ms : k = Len(outbox) + l /\ outbox'[k] = ms[l]
<1>1. outbox \in Seq(Message) /\ outbox' = outbox \o ms
  BY DEF TypesOK, Enqueue
<1>2. /\ outbox' \in Seq(Message) /\ Len(outbox') = Len(outbox) + Len(ms)
      /\ \A k \in 1..Len(outbox) : outbox'[k] = outbox[k]
      /\ \A l \in 1..Len(ms) : outbox'[Len(outbox) + l] = ms[l]
  <2>1. \A k \in 1..Len(outbox') :
           outbox'[k] = IF k <= Len(outbox) THEN outbox[k] ELSE ms[k - Len(outbox)]
    BY <1>1, ConcatProperties
  <2>2. outbox' \in Seq(Message) /\ Len(outbox') = Len(outbox) + Len(ms)
    BY <1>1, ConcatProperties
  <2> QED
    BY <1>1, <2>1, <2>2
<1>3. DOMAIN outbox = 1..Len(outbox) /\ DOMAIN ms = 1..Len(ms) /\ DOMAIN outbox' = 1..Len(outbox')
      /\ Len(outbox) \in Nat /\ Len(ms) \in Nat
  BY <1>1, <1>2, LenProperties
<1>4. ASSUME NEW k \in DOMAIN outbox', k \notin DOMAIN outbox
      PROVE  \E l \in DOMAIN ms : k = Len(outbox) + l /\ outbox'[k] = ms[l]
  <2>1. k - Len(outbox) \in DOMAIN ms
    BY <1>2, <1>3, <1>4
  <2> QED
    BY <1>2, <1>3, <1>4, <2>1
<1> QED
  BY <1>2, <1>3, <1>4

\* What a step of the sender does when nothing is lost.
LEMMA SenderDoes ==
    ASSUME TypeOK, NothingLost, SendMessage
    PROVE  /\ outbox # <<>>
           /\ UNCHANGED <<users, forms, clock, req, next, pc, todo, feed, members>>
           /\ \/ Arrive(Head(outbox)) /\ outbox' = Tail(outbox)
              \/ /\ "429" \in Faults /\ outbox' = Append(Tail(outbox), Head(outbox))
                 /\ UNCHANGED <<keyboards, polls, told, posted>>
  BY DEF SendMessage, NothingLost, CanFail, chat, db, bot

\* Every message of the outbox is sent now or stays there, and none is new.
LEMMA SenderKeeps ==
    ASSUME TypeOK, NothingLost, SendMessage
    PROVE  /\ \A k \in DOMAIN outbox :
                 \/ k = 1 /\ Arrive(Head(outbox)) /\ outbox[k] = Head(outbox)
                 \/ \E l \in DOMAIN outbox' : outbox'[l] = outbox[k]
           /\ \A l \in DOMAIN outbox' : \E k \in DOMAIN outbox : outbox'[l] = outbox[k]
<1> DEFINE h == Head(outbox)
           t == Tail(outbox)
<1>1. /\ outbox # <<>>
      /\ (Arrive(h) /\ outbox' = t) \/ outbox' = Append(t, h)
  BY SenderDoes
<1>2. /\ h = outbox[1] /\ h \in Message /\ 1 \in DOMAIN outbox
      /\ t \in Seq(Message)
      /\ \A k \in DOMAIN t : k + 1 \in DOMAIN outbox /\ t[k] = outbox[k + 1]
      /\ \A k \in DOMAIN outbox : k = 1 \/ (k - 1 \in DOMAIN t /\ t[k - 1] = outbox[k])
  BY <1>1, OutboxHead DEF TypeOK
<1> HIDE DEF h, t
<1>3. CASE Arrive(h) /\ outbox' = t
  BY <1>2, <1>3 DEF h
<1>4. CASE outbox' = Append(t, h)
  <2>1. /\ DOMAIN outbox' = DOMAIN t \cup {Len(t) + 1}
        /\ \A k \in DOMAIN t : outbox'[k] = t[k]
        /\ outbox'[Len(t) + 1] = h
    BY <1>2, <1>4
  <2> QED
    BY <1>2, <2>1
<1> QED
  BY <1>1, <1>3, <1>4

\* People add one update to the log; a button that is pressed is there, and a
\* poll is about the person it names.
LEMMA PeopleDo ==
    ASSUME TypeOK, People
    PROVE  /\ UNCHANGED <<users, forms, clock, req, next, pc, todo, outbox, keyboards,
                          polls, told, posted>>
           /\ \E e \in Update :
                 /\ feed' = Append(feed, e)
                 /\ e.kind = "formPress" => e.form \in keyboards
                 /\ e.kind = "userPress" => e.poll \in DOMAIN polls /\ e.user = polls[e.poll].user
<1> USE DEF TypeOK
<1>1. UNCHANGED <<users, forms, clock, req, next, pc, todo, outbox, keyboards,
                  polls, told, posted>>
  BY DEF People, db, bot, chat
<1>2. PICK e \in Update : feed' = Append(feed, e)
  BY PeopleStep
<1>3. feed'[Len(feed) + 1] = e
  BY <1>2 DEF TypesOK
<1>4. \A f : feed' = Append(feed, f) => e = f
  BY <1>3 DEF TypesOK
<1>5. CASE Write
  <2>1. PICK u \in Users, c \in Groups \cup {Private} : feed' = Append(feed, TextMessage(u, c))
    BY <1>5 DEF Write, Happens
  <2>2. e.kind = "message"
    BY <1>4, <2>1 DEF TextMessage
  <2> QED
    BY <1>1, <1>2, <2>2
<1>6. CASE Join
  <2>1. PICK who \in (SUBSET Users) \ {{}}, g \in Groups, by \in Users \cup {NoUser} :
           feed' = Append(feed, [TextMessage(by, g) EXCEPT !.joined = who])
    BY <1>6 DEF Join, Happens
  <2>2. e.kind = "message"
    BY <1>4, <2>1 DEF TextMessage
  <2> QED
    BY <1>1, <1>2, <2>2
<1>7. CASE Leave
  <2>1. PICK m \in members :
           \E by \in {m[1], NoUser} :
               feed' = Append(feed, [TextMessage(by, m[2]) EXCEPT !.left = m[1]])
    BY <1>7 DEF Leave, Happens
  <2>2. e.kind = "message"
    BY <1>4, <2>1 DEF TextMessage
  <2> QED
    BY <1>1, <1>2, <2>2
<1>8. CASE AskToJoin
  <2>1. PICK u \in Users : feed' = Append(feed, [kind |-> "joinRequest", from |-> u])
    BY <1>8 DEF AskToJoin, Happens
  <2>2. e.kind = "joinRequest"
    BY <1>4, <2>1
  <2> QED
    BY <1>1, <1>2, <2>2
<1>9. CASE PressForm
  <2>1. PICK i \in keyboards, v \in Verdicts :
           feed' = Append(feed, [kind |-> "formPress", form |-> i, verdict |-> v])
    BY <1>9 DEF PressForm, Happens
  <2>2. e.kind = "formPress" /\ e.form = i
    BY <1>4, <2>1
  <2> QED
    BY <1>1, <1>2, <2>2
<1>10. CASE PressPoll
  <2>1. PICK q \in DOMAIN polls, v \in Verdicts :
           feed' = Append(feed, [kind |-> "userPress", user |-> polls[q].user,
                                 poll |-> q, verdict |-> v])
    BY <1>10 DEF PressPoll, Happens
  <2>2. e.kind = "userPress" /\ e.poll = q /\ e.user = polls[q].user
    BY <1>4, <2>1
  <2> QED
    BY <1>1, <1>2, <2>2
<1> QED
  BY <1>5, <1>6, <1>7, <1>8, <1>9, <1>10 DEF People

\* A request that stores nothing and tells nobody.
Prepares(r) ==
    /\ Authenticate(r) \/ RefuseForm(r) \/ StampForm(r) \/ req'[r] = Idle
    /\ req[r].pc # "created" /\ req'[r].pc # "created"
    /\ UNCHANGED <<forms, told, outbox>>

\* It stores form number n, and ends there if it gets no answer.
Stores(r, n) ==
    /\ req[r].pc = "stamped" /\ req[r] \in Request
    /\ \/ req'[r] = [pc |-> "created", user |-> req[r].user,
                     active |-> req[r].active, form |-> n]
       \/ ~Answered /\ req'[r] = Idle
    /\ n \notin DOMAIN forms /\ DOMAIN forms' = DOMAIN forms \cup {n}
    /\ \A i \in DOMAIN forms : forms'[i] = forms[i] /\ told'[i] = told[i]
    /\ forms'[n] = [owner |-> req[r].user, created |-> req[r].stamp,
                    status |-> NewFormStatus(req[r].active)]
    /\ told'[n] = "nothing"
    /\ UNCHANGED <<clock, outbox>>

\* It has the form ms announced in the chat, or sent to the administrator.
Publishes(r, ms) ==
    /\ req[r].pc = "created" /\ req'[r] = Idle /\ UNCHANGED <<clock, forms, told>>
    /\ \/ req[r].active /\ ms = <<[kind |-> "groupPost", form |-> req[r].form]>>
       \/ ~req[r].active /\ ms = <<Notice(req[r].form, "received"),
                                   [kind |-> "adminForm", form |-> req[r].form]>>

\* One of these is what a step of a web request does.
LEMMA RequestDoes ==
    ASSUME TypeOK, NEW r \in Requests, Web(r)
    PROVE  /\ UNCHANGED <<users, next, pc, todo, feed, members, keyboards, polls, posted>>
           /\ \A s \in Requests : s # r => req'[s] = req[s]
           /\ \/ Prepares(r)
              \/ \E n \in Nat : Stores(r, n)
              \/ \E ms \in Seq(Message) : Enqueue(ms) /\ Publishes(r, ms)
<1> USE DEF TypeOK
<1>1. UNCHANGED <<users, next, pc, todo, feed, members, keyboards, polls, posted>>
  BY DEF Web, bot
<1>2. req \in [Requests -> Request] /\ req[r] \in Request
  BY DEF TypesOK
<1>3. \A q : req' = [req EXCEPT ![r] = q] =>
                req'[r] = q /\ \A s \in Requests : s # r => req'[s] = req[s]
  BY <1>2
<1>4. CASE Authenticate(r) \/ RefuseForm(r) \/ StampForm(r)
  <2>1. /\ req[r].pc # "created" /\ UNCHANGED <<forms, told, outbox>>
        /\ \E q : req' = [req EXCEPT ![r] = q] /\ q.pc # "created"
    BY <1>4 DEF Authenticate, RefuseForm, StampForm, Idle
  <2> QED
    BY <1>1, <1>3, <1>4, <2>1 DEF Prepares
<1>5. CASE CreateForm(r)
  <2>1. req[r].pc = "stamped" /\ UNCHANGED <<clock, outbox>>
    BY <1>5 DEF CreateForm
  <2>2. req[r].user \in Users /\ req[r].active \in BOOLEAN /\ req[r].stamp \in Nat
    BY <1>2, <2>1 DEF Request
  <2>3. CASE req' = [req EXCEPT ![r] = Idle] /\ UNCHANGED <<forms, told>>
    <3>1. req'[r] = Idle /\ Idle.pc = "idle" /\ \A s \in Requests : s # r => req'[s] = req[s]
      BY <1>3, <2>3 DEF Idle
    <3> QED
      BY <1>1, <2>1, <2>3, <3>1 DEF Prepares
  <2> DEFINE f == [owner |-> req[r].user, created |-> req[r].stamp,
                   status |-> NewFormStatus(req[r].active)]
             n == Len(forms) + 1
             q == [pc |-> "created", user |-> req[r].user,
                   active |-> req[r].active, form |-> n]
  <2>4. CASE /\ forms' = Append(forms, f) /\ told' = Append(told, "nothing")
             /\ \/ req' = [req EXCEPT ![r] = q]
                \/ ~Answered /\ req' = [req EXCEPT ![r] = Idle]
    <3>1. f \in Form
      BY <2>2 DEF Form, FormStates, Verdicts, NewFormStatus
    <3>2. /\ req'[r] = q \/ (~Answered /\ req'[r] = Idle)
          /\ \A s \in Requests : s # r => req'[s] = req[s]
      BY <1>3, <2>4
    <3> HIDE DEF f
    <3>3. /\ DOMAIN forms' = DOMAIN forms \cup {n}
          /\ n \notin DOMAIN forms /\ n \in Nat
          /\ \A i \in DOMAIN forms : forms'[i] = forms[i]
          /\ forms'[n] = f
      BY <2>4, <3>1 DEF TypesOK
    <3>4. /\ \A i \in DOMAIN forms : told'[i] = told[i]
          /\ told'[n] = "nothing"
      <4>1. told \in Seq(Notices) /\ Len(told) = Len(forms) /\ DOMAIN forms = 1..Len(forms)
        BY LenProperties DEF TypesOK
      <4> QED
        BY <2>4, <4>1
    <3> HIDE DEF n
    <3>5. Stores(r, n)
      BY <1>2, <2>1, <3>2, <3>3, <3>4 DEF Stores, f
    <3> QED
      BY <1>1, <3>2, <3>3, <3>5
  <2> QED
    BY <1>5, <2>3, <2>4 DEF CreateForm, CanFail, Answered
<1>6. CASE NotifyOfForm(r)
  <2>1. req[r].pc = "created" /\ req' = [req EXCEPT ![r] = Idle] /\ UNCHANGED <<clock, forms, told>>
    BY <1>6 DEF NotifyOfForm
  <2>2. req[r].form \in Nat /\ req[r].active \in BOOLEAN
    BY <1>2, <2>1 DEF Request
  <2> DEFINE i == req[r].form
             a == [kind |-> "groupPost", form |-> i]
             b == Notice(i, "received")
             c == [kind |-> "adminForm", form |-> i]
             ms == IF req[r].active THEN <<a>> ELSE <<b, c>>
  <2>3. a \in Message /\ b \in Message /\ c \in Message
    BY <2>2 DEF Message, Notice, FormMessages, Notices
  <2>4. ms \in Seq(Message)
    BY <2>3
  <2>5. Enqueue(ms)
    BY <1>6, <2>2 DEF NotifyOfForm
  <2>6. req'[r] = Idle /\ \A s \in Requests : s # r => req'[s] = req[s]
    BY <1>3, <2>1
  <2>7. Publishes(r, ms)
    BY <2>1, <2>6 DEF Publishes
  <2> HIDE DEF ms
  <2> QED
    BY <1>1, <2>4, <2>5, <2>6, <2>7
<1> QED
  BY <1>4, <1>5, <1>6 DEF Web

-----------------------------------------------------------------------------
(* A form that awaits a decision has its buttons. *)

\* The processor takes buttons away only when it has decided.
LEMMA ButtonsProcessor ==
    ASSUME TypeOK, ButtonsInv, Processor
    PROVE  ButtonsInv'
<1> USE DEF TypeOK
<1>1. UNCHANGED <<clock, req, feed, confirmed, crashes, members, keyboards, polls, told>>
  BY ProcessorDoes
<1>2. PICK ms \in Seq(Message) :
         /\ Enqueue(ms)
         /\ \/ Elsewhere(ms) \/ Rejects(ms) \/ Accepts(ms)
            \/ Announces(ms) \/ DecidesUnheard(ms)
  BY ProcessorDoes
<1>3. /\ DOMAIN forms' = DOMAIN forms
      /\ \A i \in DOMAIN forms : forms'[i].status = "new" => forms[i].status = "new"
  BY <1>2, FormsKept DEF Verdicts
<1>4. /\ \A k \in DOMAIN outbox : k \in DOMAIN outbox' /\ outbox'[k] = outbox[k]
      /\ \A k \in DOMAIN outbox' :
            \/ k \in DOMAIN outbox /\ outbox'[k] = outbox[k]
            \/ \E l \in DOMAIN ms : outbox'[k] = ms[l]
  BY <1>2, OutboxBehind
<1>5. PendingFormHasButtons'
  <2> SUFFICES ASSUME NEW i \in DOMAIN forms, forms[i].status = "new"
               PROVE  \/ i \in keyboards'
                      \/ \E k \in DOMAIN outbox' : outbox'[k] = [kind |-> "adminForm", form |-> i]
                      \/ \E r \in Requests : req'[r].pc = "created" /\ req'[r].form = i
    BY <1>3 DEF PendingFormHasButtons, Undecided, Queued
  <2>1. \/ i \in keyboards
        \/ \E k \in DOMAIN outbox : outbox[k] = [kind |-> "adminForm", form |-> i]
        \/ \E r \in Requests : req[r].pc = "created" /\ req[r].form = i
    BY DEF ButtonsInv, PendingFormHasButtons, Undecided, Queued
  <2> QED
    BY <1>1, <1>4, <2>1
<1>6. ASSUME NEW l \in DOMAIN ms, ms[l].kind = "dropKeyboard"
      PROVE  forms'[ms[l].form].status # "new"
  <2>1. ~Elsewhere(ms) /\ ~Accepts(ms) /\ ~DecidesUnheard(ms)
    BY <1>6 DEF Elsewhere, Accepts, DecidesUnheard
  <2>2. CASE Rejects(ms)
    <3>1. PICK i \in DOMAIN forms :
             /\ SetFormStatus(i, "rejected")
             /\ ms = <<Notice(i, "rejected"), DropKeyboard(i)>>
      BY <2>2 DEF Rejects
    <3>2. forms'[i].status = "rejected"
      BY <3>1, SetFormType DEF TypesOK, Verdicts
    <3> QED
      BY <1>6, <3>1, <3>2 DEF Notice, DropKeyboard
  <2>3. CASE Announces(ms)
    <3>1. PICK i \in DOMAIN forms :
             /\ OnForm(i, "accepted") /\ UNCHANGED forms /\ pc = "announce"
             /\ ms[l] = DropKeyboard(i)
      BY <1>6, <2>3 DEF Announces, Notice
    <3>2. forms'[i].status # "new"
      BY <3>1 DEF ButtonsInv, OnForm
    <3>3. ms[l].form = i
      BY <3>1 DEF DropKeyboard
    <3> QED
      BY <3>2, <3>3
  <2> QED
    BY <1>2, <2>1, <2>2, <2>3
<1>7. \A k \in DOMAIN outbox' :
         outbox'[k].kind = "dropKeyboard" => forms'[outbox'[k].form].status # "new"
  <2>1. \A k \in DOMAIN outbox : outbox[k].kind = "dropKeyboard" =>
           outbox[k].form \in DOMAIN forms /\ forms'[outbox[k].form].status # "new"
    BY <1>3 DEF ButtonsInv, IdsOK, MessageRefersToRow, FormMessages
  <2> QED
    BY <1>4, <1>6, <2>1
<1>8. pc' = "announce" => forms'[Cur'.form].status # "new"
  <2> SUFFICES ASSUME pc' = "announce"
               PROVE  forms'[Cur'.form].status # "new"
    OBVIOUS
  <2>1. Accepts(ms)
    BY <1>2 DEF Elsewhere, Rejects, Announces, DecidesUnheard
  <2>2. Cur' = Cur
    BY <1>1, <2>1 DEF Accepts, Cur
  <2>3. PICK i \in DOMAIN forms : i = Cur.form /\ SetFormStatus(i, "accepted")
    BY <2>1 DEF Accepts, OnForm
  <2>4. forms'[i].status = "accepted"
    BY <2>3, SetFormType DEF TypesOK, Verdicts
  <2> QED
    BY <2>2, <2>3, <2>4
<1>9. \A r \in Requests :
         req'[r].pc = "created" /\ req'[r].active => forms'[req'[r].form].status # "new"
  BY <1>1, <1>3 DEF ButtonsInv, IdsOK
<1> QED
  BY <1>5, <1>7, <1>8, <1>9 DEF ButtonsInv

\* The sender brings the buttons, and takes away those of decided forms.
LEMMA ButtonsSender ==
    ASSUME TypeOK, NothingLost, ButtonsInv, SendMessage
    PROVE  ButtonsInv'
<1> USE DEF TypeOK
<1>1. UNCHANGED <<forms, req, next, pc, feed>>
  BY SenderDoes
<1>2. \A k \in DOMAIN outbox :
         \/ k = 1 /\ Arrive(Head(outbox)) /\ outbox[k] = Head(outbox)
         \/ \E l \in DOMAIN outbox' : outbox'[l] = outbox[k]
  BY SenderKeeps
<1>3. \A l \in DOMAIN outbox' : \E k \in DOMAIN outbox : outbox'[l] = outbox[k]
  BY SenderKeeps
<1>4. PendingFormHasButtons'
  <2> SUFFICES ASSUME NEW i \in DOMAIN forms, forms[i].status = "new"
               PROVE  \/ i \in keyboards'
                      \/ \E k \in DOMAIN outbox' : outbox'[k] = [kind |-> "adminForm", form |-> i]
                      \/ \E r \in Requests : req'[r].pc = "created" /\ req'[r].form = i
    BY <1>1 DEF PendingFormHasButtons, Undecided, Queued
  <2>1. CASE i \in keyboards
    <3>1. Head(outbox) = outbox[1] /\ 1 \in DOMAIN outbox
      BY OutboxHead, SenderDoes
    <3>2. outbox[1].kind = "dropKeyboard" => outbox[1].form # i
      BY <3>1 DEF ButtonsInv
    <3> QED
      BY <2>1, <3>1, <3>2, SenderDoes DEF Arrive
  <2>2. CASE \E k \in DOMAIN outbox : outbox[k] = [kind |-> "adminForm", form |-> i]
    BY <1>2, <2>2 DEF Arrive
  <2>3. CASE \E r \in Requests : req[r].pc = "created" /\ req[r].form = i
    BY <1>1, <2>3
  <2> QED
    BY <2>1, <2>2, <2>3 DEF ButtonsInv, PendingFormHasButtons, Undecided, Queued
<1> QED
  BY <1>1, <1>3, <1>4 DEF ButtonsInv, Cur

\* A form comes with its request, which announces it.
LEMMA ButtonsWeb ==
    ASSUME TypeOK, Answered, ButtonsInv, NEW r \in Requests, Web(r)
    PROVE  ButtonsInv'
<1> USE DEF TypeOK
<1> DEFINE HasButtons(i) ==
               \/ i \in keyboards
               \/ \E k \in DOMAIN outbox : outbox[k] = [kind |-> "adminForm", form |-> i]
               \/ \E s \in Requests : req[s].pc = "created" /\ req[s].form = i
           Drops == \A k \in DOMAIN outbox :
               outbox[k].kind = "dropKeyboard" => forms[outbox[k].form].status # "new"
           Quiet == \A s \in Requests :
               req[s].pc = "created" /\ req[s].active => forms[req[s].form].status # "new"
<1>1. UNCHANGED <<next, pc, feed, keyboards>> /\ \A s \in Requests : s # r => req'[s] = req[s]
  BY RequestDoes
<1>2. /\ \A i \in DOMAIN forms : forms[i].status = "new" => HasButtons(i)
      /\ Drops /\ Quiet
  BY DEF ButtonsInv, PendingFormHasButtons, Undecided, Queued
<1>3. Cur' = Cur /\ (pc = "announce" => forms[Cur.form].status # "new")
  BY <1>1 DEF ButtonsInv, Cur
<1>4. pc = "announce" => Cur.form \in DOMAIN forms
  BY CurType DEF PcOK, IdsOK, UpdateRefersToRow
<1>5. SUFFICES /\ \A i \in DOMAIN forms' : forms'[i].status = "new" => HasButtons(i)'
               /\ Drops' /\ Quiet'
               /\ pc = "announce" => forms'[Cur.form].status # "new"
  BY <1>1, <1>3 DEF ButtonsInv, PendingFormHasButtons, Undecided, Queued
<1>6. CASE Prepares(r)
  BY <1>1, <1>2, <1>3, <1>6 DEF Prepares
<1>7. ASSUME NEW n \in Nat, Stores(r, n)
      PROVE  /\ \A i \in DOMAIN forms' : forms'[i].status = "new" => HasButtons(i)'
             /\ Drops' /\ Quiet'
             /\ pc = "announce" => forms'[Cur.form].status # "new"
  <2> USE <1>7 DEF Stores
  <2>1. HasButtons(n)'
    OBVIOUS
  <2>2. ASSUME NEW i \in DOMAIN forms, forms[i].status = "new"
        PROVE  HasButtons(i)'
    BY <1>1, <1>2, <2>2
  <2>3. Drops'
    <3>1. \A k \in DOMAIN outbox :
             outbox[k].kind = "dropKeyboard" => outbox[k].form \in DOMAIN forms
      BY DEF IdsOK, MessageRefersToRow, FormMessages
    <3> QED
      BY <1>2, <3>1
  <2>4. Quiet'
    <3>1. req[r].active => forms'[n].status # "new"
      BY DEF NewFormStatus
    <3>2. \A s \in Requests : req[s].pc = "created" => req[s].form \in DOMAIN forms
      BY DEF IdsOK
    <3> QED
      BY <1>1, <1>2, <3>1, <3>2
  <2> QED
    BY <1>3, <1>4, <2>1, <2>2, <2>3, <2>4
<1>8. ASSUME NEW ms \in Seq(Message), Enqueue(ms), Publishes(r, ms)
      PROVE  /\ \A i \in DOMAIN forms' : forms'[i].status = "new" => HasButtons(i)'
             /\ Drops' /\ Quiet'
             /\ pc = "announce" => forms'[Cur.form].status # "new"
  <2>1. /\ \A k \in DOMAIN outbox : k \in DOMAIN outbox' /\ outbox'[k] = outbox[k]
        /\ \A l \in DOMAIN ms : /\ Len(outbox) + l \in DOMAIN outbox'
                                /\ outbox'[Len(outbox) + l] = ms[l]
        /\ \A k \in DOMAIN outbox' :
              \/ k \in DOMAIN outbox /\ outbox'[k] = outbox[k]
              \/ \E l \in DOMAIN ms : outbox'[k] = ms[l]
    BY <1>8, OutboxBehind
  <2>2. UNCHANGED forms /\ req[r].pc = "created" /\ req'[r].pc = "idle"
    BY <1>8 DEF Publishes, Idle
  <2>3. \A l \in DOMAIN ms : ms[l].kind # "dropKeyboard"
    BY <1>8 DEF Publishes, Notice
  <2>4. forms[req[r].form].status = "new" =>
           \E l \in DOMAIN ms : ms[l] = [kind |-> "adminForm", form |-> req[r].form]
    <3>1. forms[req[r].form].status = "new" => ~req[r].active
      BY <1>2, <2>2
    <3>2. ~req[r].active => 2 \in DOMAIN ms /\ ms[2] = [kind |-> "adminForm", form |-> req[r].form]
      BY <1>8 DEF Publishes
    <3> QED
      BY <3>1, <3>2
  <2>5. ASSUME NEW i \in DOMAIN forms, forms[i].status = "new"
        PROVE  HasButtons(i)'
    <3>1. CASE i = req[r].form
      BY <2>1, <2>4, <2>5, <3>1
    <3>2. CASE i # req[r].form
      BY <1>1, <1>2, <2>1, <2>5, <3>2
    <3> QED
      BY <3>1, <3>2
  <2>6. Drops'
    BY <1>2, <2>1, <2>2, <2>3
  <2>7. Quiet'
    BY <1>1, <1>2, <2>2
  <2> QED
    BY <1>3, <2>2, <2>5, <2>6, <2>7
<1> QED
  BY <1>6, <1>7, <1>8, RequestDoes

\* Without crashes and refusals every step keeps the buttons where they are due.
LEMMA ButtonsStep ==
    ASSUME TypeOK, NothingLost, Answered, ButtonsInv, [Next]_vars
    PROVE  ButtonsInv'
<1>1. CASE UNCHANGED <<forms, outbox, keyboards, req, next, pc, feed>>
  BY <1>1 DEF ButtonsInv, PendingFormHasButtons, Undecided, Queued, Cur
<1>2. CASE People
  <2>1. UNCHANGED <<forms, outbox, keyboards, req, next, pc>>
    BY <1>2, PeopleDo
  <2>2. pc = "announce" => Cur' = Cur
    <3>1. PICK e \in Update : feed' = Append(feed, e)
      BY <1>2, PeopleDo
    <3>2. pc = "announce" => next \in DOMAIN feed
      BY CurType DEF TypeOK, PcOK
    <3>3. \A k \in DOMAIN feed : feed'[k] = feed[k]
      BY <3>1, LogGrows DEF TypeOK
    <3> QED
      BY <2>1, <3>2, <3>3 DEF Cur
  <2> QED
    BY <2>1, <2>2 DEF ButtonsInv, PendingFormHasButtons, Undecided, Queued
<1>3. UNCHANGED vars \/ Confirm => UNCHANGED <<forms, outbox, keyboards, req, next, pc, feed>>
  BY DEF vars, Confirm, db, bot, chat
<1>4. ~Crash
  BY DEF Crash, CanFail, NothingLost
<1> QED
  BY <1>1, <1>2, <1>3, <1>4, ButtonsProcessor, ButtonsSender, ButtonsWeb DEF Next

\* PendingFormHasButtons: as long as the process lives, Telegram takes what it is
\* sent and statements that take effect are answered, no form is stranded,
\* whatever statements and posts fail, and whatever becomes of its author while
\* the request is served.
THEOREM FormsHaveButtons ==
    ASSUME NothingLost, Answered
    PROVE  Spec => []PendingFormHasButtons
<1>1. Init => ButtonsInv
  BY DEF Init, ButtonsInv, PendingFormHasButtons, Undecided, Idle
<1>2. TypeOK /\ ButtonsInv /\ [Next]_vars => ButtonsInv'
  BY ButtonsStep
<1>3. ButtonsInv => PendingFormHasButtons
  BY DEF ButtonsInv
<1> QED
  BY <1>1, <1>2, <1>3, TypeCorrect, PTL DEF Spec

-----------------------------------------------------------------------------
(* A newcomer whose form was posted has a poll. *)

\* The processor posts a form together with a poll, unless its author is a
\* member, and stops a poll only with a decision.
LEMMA PollsProcessor ==
    ASSUME TypeOK, PostsAnswered, PollsInv, Processor
    PROVE  PollsInv'
<1> USE DEF TypeOK
<1>1. UNCHANGED <<clock, req, feed, confirmed, crashes, members, keyboards, polls, told>>
  BY ProcessorDoes
<1>2. PICK ms \in Seq(Message) :
         /\ Enqueue(ms)
         /\ \/ Elsewhere(ms) \/ Rejects(ms) \/ Accepts(ms)
            \/ Announces(ms) \/ DecidesUnheard(ms)
  BY ProcessorDoes
<1>3. DOMAIN forms' = DOMAIN forms /\ \A i \in DOMAIN forms : Owner(i)' = Owner(i)
  BY <1>2, FormsKept DEF Owner
<1>4. /\ \A k \in DOMAIN outbox : k \in DOMAIN outbox' /\ outbox'[k] = outbox[k]
      /\ \A l \in DOMAIN ms : /\ Len(outbox) + l \in DOMAIN outbox'
                              /\ outbox'[Len(outbox) + l] = ms[l]
      /\ \A k \in DOMAIN outbox' :
            \/ k \in DOMAIN outbox /\ outbox'[k] = outbox[k]
            \/ \E l \in DOMAIN ms : outbox'[k] = ms[l]
  BY <1>2, OutboxBehind
<1>5. \A u \in Users : /\ users[u] # "absent" => users'[u] # "absent"
                       /\ users[u] \notin {"absent", "new"} => users'[u] \notin {"absent", "new"}
  BY UsersKept DEF Known, Settled
<1>6. \A i \in DOMAIN forms : Owner(i) \in Users /\ users[Owner(i)] # "absent"
  <2>1. \A i \in DOMAIN forms : forms[i] \in Form
    BY DEF TypesOK
  <2> QED
    BY <2>1 DEF Owner, Form, PollsInv, Known
<1>7. \A q \in DOMAIN polls : polls[q].user \in Users
  <2>1. polls \in Seq([user: Users, open: BOOLEAN])
    BY DEF TypesOK
  <2>2. \A q \in DOMAIN polls : polls[q] \in [user: Users, open: BOOLEAN]
    BY <2>1, LenProperties, ElementOfSeq
  <2> QED
    BY <2>2
<1>8. \A r \in Requests : req[r].pc # "idle" => req[r].user \in Users
  <2>1. \A r \in Requests : req[r] \in Request
    BY DEF TypesOK
  <2> QED
    BY <2>1 DEF Request
<1>9. /\ \A i \in DOMAIN forms' : Known(Owner(i))'
      /\ \A r \in Requests :
            req'[r].pc # "idle" =>
              /\ Known(req[r].user)' /\ (req'[r].active => Settled(req[r].user)')
              /\ req'[r].pc = "created" => Owner(req[r].form)' = req'[r].user
  BY <1>1, <1>3, <1>5, <1>6, <1>8 DEF PollsInv, Known, Settled, IdsOK
<1>10. ASSUME NEW l \in DOMAIN ms, ms[l].kind = "groupPost"
       PROVE  FALSE
  <2>1. ~Elsewhere(ms) /\ ~Accepts(ms) /\ ~Rejects(ms) /\ ~DecidesUnheard(ms)
    BY <1>10 DEF Elsewhere, Accepts, Rejects, DecidesUnheard, Notice, DropKeyboard
  <2>2. ~Announces(ms)
    BY <1>10 DEF Announces, Notice, DropKeyboard
  <2> QED
    BY <1>2, <2>1, <2>2
<1>11. ASSUME NEW l \in DOMAIN ms, ms[l].kind = "stopPoll"
       PROVE  users'[polls[ms[l].poll].user] \notin {"absent", "new"}
  <2>1. ~Rejects(ms) /\ ~Accepts(ms) /\ ~DecidesUnheard(ms)
    BY <1>11 DEF Accepts, Rejects, DecidesUnheard, Notice, DropKeyboard
  <2>2. ~Announces(ms)
    BY <1>11 DEF Announces, Notice, DropKeyboard
  <2>3. /\ ms[l].poll = Cur.poll /\ next \in DOMAIN feed /\ Cur.kind = "userPress"
        /\ users'[Cur.user] \notin {"absent", "new"}
    BY <1>2, <1>11, <2>1, <2>2 DEF Elsewhere
  <2> QED
    BY <2>3 DEF PollsInv, Cur
<1>12. \A k \in DOMAIN outbox' :
          /\ outbox'[k].kind = "groupPost" =>
               users'[Owner(outbox[k].form)'] \notin {"absent", "new"}
          /\ outbox'[k].kind = "stopPoll" =>
               users'[polls'[outbox'[k].poll].user] \notin {"absent", "new"}
  <2>1. \A k \in DOMAIN outbox :
           /\ outbox[k].kind = "groupPost" =>
                /\ outbox[k].form \in DOMAIN forms
                /\ users'[Owner(outbox[k].form)] \notin {"absent", "new"}
           /\ outbox[k].kind = "stopPoll" =>
                users'[polls[outbox[k].poll].user] \notin {"absent", "new"}
    BY <1>5, <1>6, <1>7 DEF PollsInv, Settled, IdsOK, MessageRefersToRow, FormMessages
  <2> QED
    BY <1>1, <1>3, <1>4, <1>10, <1>11, <2>1
<1>13. ASSUME NEW i \in posted', users'[Owner(i)'] = "new"
       PROVE  \/ \E q \in DOMAIN polls : polls[q].user = Owner(i) /\ polls[q].open
              \/ \E k \in DOMAIN outbox' : outbox'[k] = [kind |-> "poll", user |-> Owner(i)]
  <2>1. CASE i \in posted
    <3>1. i \in DOMAIN forms
      BY <2>1 DEF IdsOK
    <3>2. users[Owner(i)] = "new"
      BY <1>3, <1>5, <1>6, <1>13, <3>1
    <3> QED
      BY <1>4, <2>1, <3>2 DEF PollsInv, NewcomerHasPoll, Queued
  <2>2. CASE i \notin posted
    <3>1. Announces(ms)
      BY <1>2, <1>13, <2>2 DEF Elsewhere, Rejects, Accepts, DecidesUnheard
    <3>2. PICK j \in DOMAIN forms :
             /\ UNCHANGED <<users, forms>>
             /\ posted' = posted \cup {j}
             /\ \/ IsActive(Owner(j))
                \/ 1 \in DOMAIN ms /\ ms[1] = [kind |-> "poll", user |-> Owner(j)]
      BY <1>13, <2>2, <3>1 DEF Announces
    <3>3. i = j /\ ~IsActive(Owner(j))
      BY <1>3, <1>13, <2>2, <3>2 DEF IsActive
    <3>4. 1 \in DOMAIN ms /\ ms[1] = [kind |-> "poll", user |-> Owner(i)]
      BY <3>2, <3>3
    <3> QED
      BY <1>4, <3>4
  <2> QED
    BY <2>1, <2>2
<1>14. NewcomerHasPoll'
  <2>1. \A i \in posted' : i \in DOMAIN forms
    <3>1. TypeOK'
      BY ProcessorType
    <3> QED
      BY <1>3, <3>1 DEF IdsOK
  <2> QED
    BY <1>1, <1>3, <1>13, <2>1 DEF NewcomerHasPoll, Queued
<1> QED
  BY <1>1, <1>9, <1>12, <1>14 DEF PollsInv, Known, Settled

\* Polls are never forgotten; one is closed when its stopPoll arrives.
LEMMA PollsKept ==
    ASSUME TypeOK, NothingLost, SendMessage
    PROVE  /\ \A q \in DOMAIN polls :
                 /\ q \in DOMAIN polls' /\ polls'[q].user = polls[q].user
                 /\ \/ polls'[q].open = polls[q].open
                    \/ Head(outbox).kind = "stopPoll" /\ Head(outbox).poll = q
           /\ Arrive(Head(outbox)) /\ Head(outbox).kind = "poll" =>
                 \E q \in DOMAIN polls' : polls'[q] = [user |-> Head(outbox).user, open |-> TRUE]
<1> DEFINE m == Head(outbox)
<1>1. polls \in Seq([user: Users, open: BOOLEAN])
  BY DEF TypeOK, TypesOK
<1>2. CASE UNCHANGED polls /\ ~(Arrive(m) /\ m.kind = "poll")
  BY <1>2
<1>3. CASE Arrive(m) /\ m.kind = "poll"
  <2>1. polls' = Append(polls, [user |-> m.user, open |-> TRUE])
    BY <1>3 DEF Arrive
  <2> HIDE DEF m
  <2>2. /\ DOMAIN polls' = DOMAIN polls \cup {Len(polls) + 1}
        /\ \A q \in DOMAIN polls : polls'[q] = polls[q]
        /\ polls'[Len(polls) + 1] = [user |-> m.user, open |-> TRUE]
    BY <1>1, <2>1
  <2> QED
    BY <2>2 DEF m
<1>4. CASE Arrive(m) /\ m.kind = "stopPoll"
  <2>1. polls' = [polls EXCEPT ![m.poll].open = FALSE]
    BY <1>4 DEF Arrive
  <2>2. DOMAIN polls' = DOMAIN polls
    BY <2>1
  <2>3. ASSUME NEW q \in DOMAIN polls
        PROVE  polls'[q].user = polls[q].user /\ (polls'[q].open = polls[q].open \/ m.poll = q)
    <3>1. polls[q] \in [user: Users, open: BOOLEAN]
      BY <1>1, LenProperties, ElementOfSeq
    <3> HIDE DEF m
    <3> QED
      BY <2>1, <3>1
  <2> QED
    BY <1>4, <2>2, <2>3
<1>5. Arrive(m) \/ UNCHANGED polls
  BY SenderDoes
<1>6. Arrive(m) /\ m.kind \notin {"poll", "stopPoll"} => UNCHANGED polls
  BY DEF Arrive
<1> QED
  BY <1>2, <1>3, <1>4, <1>5, <1>6

\* The sender opens polls, and stops those about people who were decided upon.
LEMMA PollsSender ==
    ASSUME TypeOK, NothingLost, PollsInv, SendMessage
    PROVE  PollsInv'
<1> USE DEF TypeOK
<1>1. UNCHANGED <<users, forms, req, feed>> /\ outbox # <<>>
  BY SenderDoes
<1>2. \A k \in DOMAIN outbox :
         \/ k = 1 /\ Arrive(Head(outbox)) /\ outbox[k] = Head(outbox)
         \/ \E l \in DOMAIN outbox' : outbox'[l] = outbox[k]
  BY SenderKeeps
<1>3. \A l \in DOMAIN outbox' : \E k \in DOMAIN outbox : outbox'[l] = outbox[k]
  BY SenderKeeps
<1>4. \A q \in DOMAIN polls :
         /\ q \in DOMAIN polls' /\ polls'[q].user = polls[q].user
         /\ \/ polls'[q].open = polls[q].open
            \/ Head(outbox).kind = "stopPoll" /\ Head(outbox).poll = q
  BY PollsKept
<1>5. Arrive(Head(outbox)) /\ Head(outbox).kind = "poll" =>
         \E q \in DOMAIN polls' : polls'[q] = [user |-> Head(outbox).user, open |-> TRUE]
  BY PollsKept
<1>6. Head(outbox) = outbox[1] /\ 1 \in DOMAIN outbox
  BY <1>1, OutboxHead
<1>7. \A l \in DOMAIN outbox' :
         /\ outbox'[l].kind = "groupPost" =>
              users[forms[outbox'[l].form].owner] \notin {"absent", "new"}
         /\ outbox'[l].kind = "stopPoll" =>
              users[polls'[outbox'[l].poll].user] \notin {"absent", "new"}
  <2>1. \A k \in DOMAIN outbox :
           /\ outbox[k].kind = "groupPost" =>
                users[forms[outbox[k].form].owner] \notin {"absent", "new"}
           /\ outbox[k].kind = "stopPoll" =>
                /\ outbox[k].poll \in DOMAIN polls
                /\ users[polls[outbox[k].poll].user] \notin {"absent", "new"}
    BY DEF PollsInv, Settled, Owner, IdsOK, MessageRefersToRow
  <2> QED
    BY <1>3, <1>4, <2>1
<1>8. \A k \in DOMAIN feed :
         feed[k].kind = "userPress" => feed[k].user = polls'[feed[k].poll].user
  BY <1>4 DEF PollsInv, IdsOK, UpdateRefersToRow
<1>9. ASSUME NEW i \in posted', users[Owner(i)] = "new"
      PROVE  \/ \E q \in DOMAIN polls' : polls'[q].user = Owner(i) /\ polls'[q].open
             \/ \E l \in DOMAIN outbox' : outbox'[l] = [kind |-> "poll", user |-> Owner(i)]
  <2>1. i \in posted
    <3>1. CASE Arrive(Head(outbox)) /\ Head(outbox).kind = "groupPost"
      <4>1. posted' = posted \cup {outbox[1].form}
        BY <1>6, <3>1 DEF Arrive
      <4>2. Settled(Owner(outbox[1].form))
        BY <1>6, <3>1 DEF PollsInv
      <4> QED
        BY <1>9, <4>1, <4>2 DEF Settled
    <3>2. CASE ~(Arrive(Head(outbox)) /\ Head(outbox).kind = "groupPost")
      BY <3>2, SenderDoes DEF Arrive
    <3> QED
      BY <3>1, <3>2
  <2>2. CASE \E q \in DOMAIN polls : polls[q].user = Owner(i) /\ polls[q].open
    <3>1. PICK q \in DOMAIN polls : polls[q].user = Owner(i) /\ polls[q].open
      BY <2>2
    <3>2. ~(Head(outbox).kind = "stopPoll" /\ Head(outbox).poll = q)
      BY <1>6, <1>9, <3>1 DEF PollsInv, Settled
    <3> QED
      BY <1>4, <3>1, <3>2
  <2>3. CASE \E k \in DOMAIN outbox : outbox[k] = [kind |-> "poll", user |-> Owner(i)]
    BY <1>2, <1>5, <2>3
  <2> QED
    BY <1>9, <2>1, <2>2, <2>3 DEF PollsInv, NewcomerHasPoll, Queued
<1>10. NewcomerHasPoll'
  BY <1>1, <1>9 DEF NewcomerHasPoll, Queued, Owner
<1> QED
  BY <1>1, <1>7, <1>8, <1>10 DEF PollsInv, Known, Settled, Owner

\* A request works for somebody who has a row, and publishes without a poll
\* only what a member wrote.
LEMMA PollsWeb ==
    ASSUME TypeOK, PollsInv, NEW r \in Requests, Web(r)
    PROVE  PollsInv'
<1> USE DEF TypeOK
<1> DEFINE ReqOK(s) ==
               req[s].pc # "idle" =>
                 /\ Known(req[s].user) /\ (req[s].active => Settled(req[s].user))
                 /\ req[s].pc = "created" => Owner(req[s].form) = req[s].user
           FormsOK == \A i \in DOMAIN forms : Known(Owner(i))
           OutboxOK == \A k \in DOMAIN outbox :
               /\ outbox[k].kind = "groupPost" => Settled(Owner(outbox[k].form))
               /\ outbox[k].kind = "stopPoll" => Settled(polls[outbox[k].poll].user)
<1>1. /\ UNCHANGED <<users, feed, polls, posted>>
      /\ \A s \in Requests : s # r => req'[s] = req[s]
  BY RequestDoes
<1>2. FormsOK /\ OutboxOK /\ (\A s \in Requests : ReqOK(s)) /\ NewcomerHasPoll
  BY DEF PollsInv
<1>3. \A s \in Requests : req[s].pc = "created" => req[s].form \in DOMAIN forms
  BY DEF IdsOK
<1>4. ASSUME /\ \A i \in DOMAIN forms : i \in DOMAIN forms' /\ forms'[i].owner = forms[i].owner
             /\ \A k \in DOMAIN outbox : k \in DOMAIN outbox' /\ outbox'[k] = outbox[k],
             FormsOK', OutboxOK', ReqOK(r)'
      PROVE  PollsInv'
  <2>1. \A s \in Requests : s # r => ReqOK(s)'
    BY <1>1, <1>2, <1>3, <1>4 DEF Known, Settled, Owner
  <2>2. NewcomerHasPoll'
    BY <1>1, <1>2, <1>4 DEF NewcomerHasPoll, Queued, Owner, IdsOK
  <2>3. \A k \in DOMAIN feed' : feed'[k].kind = "userPress" => feed'[k].user = polls'[feed'[k].poll].user
    BY <1>1 DEF PollsInv
  <2> QED
    BY <1>4, <2>1, <2>2, <2>3 DEF PollsInv
<1>5. CASE Prepares(r)
  <2>1. FormsOK' /\ OutboxOK'
    BY <1>1, <1>2, <1>5 DEF Prepares, Known, Settled, Owner
  <2>2. ReqOK(r)'
    <3>1. req \in [Requests -> Request] /\ req'[r].pc # "created"
      BY <1>5 DEF TypesOK, Prepares
    <3>2. CASE Authenticate(r)
      <4>1. PICK u \in Users :
               /\ users[u] # "absent"
               /\ req' = [req EXCEPT ![r] =
                            [pc |-> "authed", user |-> u, active |-> IsActive(u)]]
        BY <3>2 DEF Authenticate
      <4>2. req'[r] = [pc |-> "authed", user |-> u, active |-> IsActive(u)]
        BY <3>1, <4>1
      <4>3. req'[r].user = u /\ req'[r].pc = "authed" /\ req'[r].active = IsActive(u)
        BY <4>2
      <4>4. req'[r].active => users[u] = "active"
        BY <4>3, Zenon DEF IsActive
      <4> QED
        BY <1>1, <4>1, <4>3, <4>4 DEF Known, Settled
    <3>3. CASE RefuseForm(r) \/ req'[r] = Idle
      BY <3>1, <3>3 DEF RefuseForm, Idle
    <3>4. CASE StampForm(r)
      BY <1>1, <1>2, <3>1, <3>4 DEF StampForm, Known, Settled
    <3> QED
      BY <1>5, <3>2, <3>3, <3>4 DEF Prepares
  <2>3. UNCHANGED <<forms, outbox>>
    BY <1>5 DEF Prepares
  <2> QED
    BY <1>4, <2>1, <2>2, <2>3
<1>6. ASSUME NEW n \in Nat, Stores(r, n)
      PROVE  PollsInv'
  <2>1. /\ DOMAIN forms' = DOMAIN forms \cup {n} /\ forms'[n].owner = req[r].user
        /\ \A i \in DOMAIN forms : forms'[i] = forms[i]
        /\ outbox' = outbox /\ req[r].pc = "stamped"
        /\ \/ req'[r] = [pc |-> "created", user |-> req[r].user,
                         active |-> req[r].active, form |-> n]
           \/ req'[r].pc = "idle"
    BY <1>6 DEF Stores, Idle
  <2>2. FormsOK' /\ ReqOK(r)'
    BY <1>1, <1>2, <2>1 DEF Known, Settled, Owner
  <2>3. OutboxOK'
    <3>1. \A k \in DOMAIN outbox :
             outbox[k].kind = "groupPost" => outbox[k].form \in DOMAIN forms
      BY DEF IdsOK, MessageRefersToRow, FormMessages
    <3> QED
      BY <1>1, <1>2, <2>1, <3>1 DEF Settled, Owner
  <2> QED
    BY <1>4, <2>1, <2>2, <2>3
<1>7. ASSUME NEW ms \in Seq(Message), Enqueue(ms), Publishes(r, ms)
      PROVE  PollsInv'
  <2>1. /\ \A k \in DOMAIN outbox : k \in DOMAIN outbox' /\ outbox'[k] = outbox[k]
        /\ \A k \in DOMAIN outbox' :
              \/ k \in DOMAIN outbox /\ outbox'[k] = outbox[k]
              \/ \E l \in DOMAIN ms : outbox'[k] = ms[l]
    BY <1>7, OutboxBehind
  <2>2. UNCHANGED forms /\ req[r].pc = "created" /\ req'[r].pc = "idle"
    BY <1>7 DEF Publishes, Idle
  <2>3. \A l \in DOMAIN ms : /\ ms[l].kind # "stopPoll"
                             /\ ms[l].kind = "groupPost" => ms[l].form = req[r].form /\ req[r].active
    BY <1>7 DEF Publishes, Notice
  <2>4. req[r].active => Settled(Owner(req[r].form))
    BY <1>2, <2>2
  <2>5. OutboxOK'
    <3>1. \A k \in DOMAIN outbox' :
             /\ outbox'[k].kind = "groupPost" => Settled(Owner(outbox'[k].form))
             /\ outbox'[k].kind = "stopPoll" => Settled(polls[outbox'[k].poll].user)
      BY <1>2, <2>1, <2>3, <2>4
    <3> QED
      BY <1>1, <2>2, <3>1 DEF Settled, Owner
  <2>6. FormsOK' /\ ReqOK(r)'
    BY <1>1, <1>2, <2>2 DEF Known, Owner
  <2> QED
    BY <1>4, <2>1, <2>2, <2>5, <2>6
<1> QED
  BY <1>5, <1>6, <1>7, RequestDoes

\* Without crashes and refusals every step keeps polls where they are due.
LEMMA PollsStep ==
    ASSUME TypeOK, NothingLost, PostsAnswered, PollsInv, [Next]_vars
    PROVE  PollsInv'
<1>1. CASE UNCHANGED <<users, forms, outbox, polls, req, feed, posted>>
  BY <1>1 DEF PollsInv, NewcomerHasPoll, Queued, Known, Settled, Owner
<1>2. CASE People
  <2>1. UNCHANGED <<users, forms, outbox, polls, req, posted>>
    BY <1>2, PeopleDo
  <2>2. PICK e \in Update : /\ feed' = Append(feed, e)
                            /\ e.kind = "userPress" => e.user = polls[e.poll].user
    BY <1>2, PeopleDo
  <2>3. /\ DOMAIN feed' = DOMAIN feed \cup {Len(feed) + 1}
        /\ \A k \in DOMAIN feed : feed'[k] = feed[k]
        /\ feed'[Len(feed) + 1] = e
    BY <2>2, LogGrows DEF TypeOK
  <2> QED
    BY <2>1, <2>2, <2>3 DEF PollsInv, NewcomerHasPoll, Queued, Known, Settled, Owner
<1>3. UNCHANGED vars \/ Confirm => UNCHANGED <<users, forms, outbox, polls, req, feed, posted>>
  BY DEF vars, Confirm, db, bot, chat
<1>4. ~Crash
  BY DEF Crash, CanFail, NothingLost
<1> QED
  BY <1>1, <1>2, <1>3, <1>4, PollsProcessor, PollsSender, PollsWeb DEF Next

\* NewcomerHasPoll: as long as the process lives, Telegram takes what it is sent
\* and a form that it posted is not taken for one it did not, nobody whose form
\* stands in the chat waits there without a poll, although statements and posts
\* fail, statements lose their answers, and polls are answered and stopped.
THEOREM NewcomersHavePolls ==
    ASSUME NothingLost, PostsAnswered
    PROVE  Spec => []NewcomerHasPoll
<1>1. Init => PollsInv
  BY DEF Init, PollsInv, NewcomerHasPoll, Idle
<1>2. TypeOK /\ PollsInv /\ [Next]_vars => PollsInv'
  BY PollsStep
<1>3. PollsInv => NewcomerHasPoll
  BY DEF PollsInv
<1> QED
  BY <1>1, <1>2, <1>3, TypeCorrect, PTL DEF Spec

-----------------------------------------------------------------------------
(* Authors are told the truth. *)

\* What is put behind the outbox has the last word, or leaves it as it was.
LEMMA LastWordBehind ==
    ASSUME TypeOK, NEW i \in DOMAIN forms, NEW ms \in Seq(Message), Enqueue(ms),
           \A l \in DOMAIN ms : About(ms[l], i) => ms[l].text \in Fits(forms'[i].status),
           \/ \E l \in DOMAIN ms : About(ms[l], i)
           \/ LastWordFits(i) /\ told'[i] = told[i] /\ forms'[i].status = forms[i].status
    PROVE  LastWordFits(i)'
<1>1. /\ DOMAIN outbox = 1..Len(outbox) /\ Len(outbox) \in Nat
      /\ DOMAIN ms = 1..Len(ms) /\ Len(ms) \in Nat
      /\ DOMAIN outbox' = 1..(Len(outbox) + Len(ms))
      /\ \A k \in DOMAIN outbox : k \in DOMAIN outbox' /\ outbox'[k] = outbox[k]
      /\ \A l \in DOMAIN ms : /\ Len(outbox) + l \in DOMAIN outbox'
                              /\ outbox'[Len(outbox) + l] = ms[l]
      /\ \A k \in DOMAIN outbox' :
            \/ k \in DOMAIN outbox /\ outbox'[k] = outbox[k]
            \/ \E l \in DOMAIN ms : k = Len(outbox) + l /\ outbox'[k] = ms[l]
  BY OutboxBehind DEF TypeOK
<1>2. ASSUME NEW k \in DOMAIN outbox', About(outbox'[k], i),
             \A l \in DOMAIN outbox' : About(outbox'[l], i) => l <= k
      PROVE  outbox'[k].text \in Fits(forms'[i].status)
  <2>1. CASE \E l \in DOMAIN ms : k = Len(outbox) + l /\ outbox'[k] = ms[l]
    BY <1>2, <2>1
  <2>2. CASE k \in DOMAIN outbox /\ outbox'[k] = outbox[k]
    <3>1. ~\E l \in DOMAIN ms : About(ms[l], i)
      BY <1>1, <1>2, <2>2
    <3>2. \A l \in DOMAIN outbox : About(outbox[l], i) => l <= k
      BY <1>1, <1>2
    <3> QED
      BY <1>2, <2>2, <3>1, <3>2 DEF LastWordFits
  <2> QED
    BY <1>1, <2>1, <2>2
<1>3. (\A k \in DOMAIN outbox' : ~About(outbox'[k], i)) => told'[i] \in Fits(forms'[i].status)
  BY <1>1 DEF LastWordFits
<1> QED
  BY <1>2, <1>3 DEF LastWordFits, About

\* A form that a request has just stored and one without moderation stay as
\* they are while the processor works.
LEMMA UntoldKept ==
    ASSUME TypeOK, Processor, NEW ms \in Seq(Message), Enqueue(ms),
           \/ Elsewhere(ms) \/ Rejects(ms) \/ Accepts(ms)
           \/ Announces(ms) \/ DecidesUnheard(ms),
           NEW i \in DOMAIN forms, Untold(i)
    PROVE  Untold(i)' /\ forms'[i].status = forms[i].status
<1> USE DEF TypeOK
<1>1. UNCHANGED <<feed, keyboards, told>>
  BY ProcessorDoes
<1>2. ASSUME NEW v \in Verdicts, OnForm(i, v)
      PROVE  FALSE
  BY <1>2 DEF OnForm, Untold, Unpressed, PressedForm, Cur
<1>3. ASSUME NEW l \in DOMAIN ms, ms[l].kind \in {"notice", "adminForm"}
      PROVE  ms[l].form # i
  BY <1>2, <1>3 DEF Elsewhere, Rejects, Accepts, Announces, DecidesUnheard,
                    Notice, DropKeyboard, Verdicts
<1>4. forms'[i].status = forms[i].status
  <2>1. CASE Elsewhere(ms) \/ Announces(ms)
    BY <2>1 DEF Elsewhere, Announces
  <2>2. CASE Rejects(ms) \/ Accepts(ms) \/ DecidesUnheard(ms)
    <3>1. PICK j \in DOMAIN forms, v \in Verdicts : OnForm(j, v) /\ SetFormStatus(j, v)
      BY <2>2 DEF Rejects, Accepts, DecidesUnheard, Verdicts
    <3> QED
      BY <1>2, <3>1, SetFormType DEF TypesOK
  <2> QED
    BY <2>1, <2>2
<1>5. \A k \in DOMAIN outbox' :
         outbox'[k].kind \in {"notice", "adminForm"} => outbox'[k].form # i
  BY <1>3, OutboxBehind DEF Untold
<1> QED
  BY <1>1, <1>4, <1>5 DEF Untold, Unpressed, PressedForm

\* The processor tells the author what it has decided.
LEMMA NoticesProcessor ==
    ASSUME TypeOK, Answered, NoticesInv, Processor
    PROVE  NoticesInv'
<1> USE DEF TypeOK
<1>1. UNCHANGED <<clock, req, feed, confirmed, crashes, members, keyboards, polls, told>>
  BY ProcessorDoes
<1>2. PICK ms \in Seq(Message) :
         /\ Enqueue(ms)
         /\ Elsewhere(ms) \/ Rejects(ms) \/ Accepts(ms) \/ Announces(ms)
  BY ProcessorDoes DEF DecidesUnheard
<1>3. DOMAIN forms' = DOMAIN forms
  BY <1>2, FormsKept
<1>4. \A i \in DOMAIN forms : Untold(i) => Untold(i)' /\ forms'[i].status = forms[i].status
  BY <1>2, UntoldKept
<1>5. \A i : Unpressed(i)' <=> Unpressed(i)
  BY <1>1 DEF Unpressed, PressedForm
<1>6. pc' = "announce" =>
         /\ Accepts(ms) /\ Cur' = Cur /\ Cur.form \in DOMAIN forms
         /\ forms'[Cur.form].status = "accepted"
  <2> SUFFICES ASSUME pc' = "announce"
               PROVE  /\ Accepts(ms) /\ Cur' = Cur /\ Cur.form \in DOMAIN forms
                      /\ forms'[Cur.form].status = "accepted"
    OBVIOUS
  <2>1. Accepts(ms)
    BY <1>2 DEF Elsewhere, Rejects, Announces
  <2>2. PICK i \in DOMAIN forms : OnForm(i, "accepted") /\ SetFormStatus(i, "accepted")
    BY <2>1 DEF Accepts
  <2>3. forms'[i].status = "accepted"
    BY <2>2, SetFormType DEF TypesOK, Verdicts
  <2>4. Cur' = Cur
    BY <1>1, <2>1 DEF Accepts, Cur
  <2> QED
    BY <2>1, <2>2, <2>3, <2>4 DEF OnForm
<1>7. ASSUME NEW i \in DOMAIN forms, forms'[i].status = "accepted", Unpressed(i)
      PROVE  Untold(i)'
  <2>1. forms[i].status = "accepted"
    <3>1. \A j \in DOMAIN forms, v \in Verdicts : OnForm(j, v) => j # i
      BY <1>7 DEF OnForm, Unpressed, PressedForm, Cur
    <3>2. CASE Elsewhere(ms) \/ Announces(ms)
      BY <1>7, <3>2 DEF Elsewhere, Announces
    <3>3. CASE Rejects(ms) \/ Accepts(ms)
      <4>1. PICK j \in DOMAIN forms, v \in Verdicts : OnForm(j, v) /\ SetFormStatus(j, v)
        BY <3>3 DEF Rejects, Accepts, Verdicts
      <4> QED
        BY <1>7, <3>1, <4>1, SetFormType DEF TypesOK
    <3> QED
      BY <1>2, <3>2, <3>3
  <2> QED
    BY <1>4, <1>7, <2>1 DEF NoticesInv
<1>8. ASSUME NEW i \in DOMAIN forms
      PROVE  \/ LastWordFits(i)'
             \/ \E r \in Requests : Storing(r, i)
             \/ pc' = "announce" /\ Cur'.form = i
             \/ forms'[i].status = "accepted" /\ Unpressed(i)
  <2>1. CASE \E r \in Requests : Storing(r, i)
    BY <2>1
  <2>2. CASE forms[i].status = "accepted" /\ Unpressed(i)
    BY <1>4, <2>2 DEF NoticesInv
  <2>3. CASE LastWordFits(i) /\ ~(pc = "announce" /\ Cur.form = i)
    <3>1. CASE /\ \A l \in DOMAIN ms : ~About(ms[l], i)
               /\ forms'[i].status = forms[i].status
      BY <1>1, <1>2, <2>3, <3>1, LastWordBehind
    <3>2. CASE Elsewhere(ms)
      <4>1. /\ \A l \in DOMAIN ms : ~About(ms[l], i)
            /\ forms'[i].status = forms[i].status
        BY <3>2 DEF Elsewhere, About
      <4> QED
        BY <3>1, <4>1
    <3>3. CASE Rejects(ms)
      <4>1. PICK j \in DOMAIN forms :
               /\ SetFormStatus(j, "rejected")
               /\ ms = <<Notice(j, "rejected"), DropKeyboard(j)>>
        BY <3>3 DEF Rejects
      <4>2. forms'[i].status = IF i = j THEN "rejected" ELSE forms[i].status
        BY <4>1, SetFormType DEF TypesOK, Verdicts
      <4>3. CASE i # j
        <5>1. \A l \in DOMAIN ms : ~About(ms[l], i)
          BY <4>1, <4>3 DEF Notice, DropKeyboard, About
        <5> QED
          BY <3>1, <4>2, <4>3, <5>1
      <4>4. CASE i = j
        <5>1. /\ 1 \in DOMAIN ms /\ About(ms[1], i)
              /\ \A l \in DOMAIN ms : About(ms[l], i) => ms[l].text = "rejected"
          BY <4>1, <4>4 DEF Notice, DropKeyboard, About
        <5>2. "rejected" \in Fits(forms'[i].status)
          BY <4>2, <4>4 DEF Fits
        <5> QED
          BY <1>2, <5>1, <5>2, LastWordBehind
      <4> QED
        BY <4>3, <4>4
    <3>4. CASE Accepts(ms)
      <4>1. PICK j \in DOMAIN forms :
               /\ OnForm(j, "accepted") /\ SetFormStatus(j, "accepted") /\ ms = <<>>
               /\ pc' = "announce"
        BY <3>4 DEF Accepts
      <4>2. forms'[i].status = IF i = j THEN "accepted" ELSE forms[i].status
        BY <4>1, SetFormType DEF TypesOK, Verdicts
      <4>3. CASE i # j
        BY <3>1, <4>1, <4>2, <4>3
      <4>4. CASE i = j
        BY <1>6, <4>1, <4>4 DEF OnForm
      <4> QED
        BY <4>3, <4>4
    <3>5. CASE Announces(ms)
      <4>1. pc = "announce" /\ Cur.form # i /\ UNCHANGED forms
        BY <2>3, <3>5 DEF Announces
      <4>2. \A l \in DOMAIN ms : ~About(ms[l], i)
        BY <3>5, <4>1 DEF Announces, OnForm, Notice, DropKeyboard, About
      <4> QED
        BY <3>1, <4>1, <4>2
    <3> QED
      BY <1>2, <3>2, <3>3, <3>4, <3>5
  <2>4. CASE pc = "announce" /\ Cur.form = i
    <3>1. Announces(ms) /\ forms[i].status = "accepted"
      BY <1>2, <2>4 DEF Elsewhere, Rejects, Accepts, NoticesInv
    <3>2. forms'[i].status = "accepted"
      BY <3>1 DEF Announces
    <3>3. PICK l \in DOMAIN ms : About(ms[l], i)
      BY <2>4, <3>1 DEF Announces, OnForm, Notice, About
    <3>4. \A n \in DOMAIN ms : About(ms[n], i) => ms[n].text \in {"approved", "onVote"}
      BY <3>1 DEF Announces, Notice, DropKeyboard, About
    <3>5. Fits(forms'[i].status) = {"approved", "onVote"}
      BY <3>2 DEF Fits
    <3> QED
      BY <1>2, <3>3, <3>4, <3>5, LastWordBehind
  <2> QED
    BY <2>1, <2>2, <2>3, <2>4 DEF NoticesInv
<1>9. \A r \in Requests : \A i \in DOMAIN forms :
         Storing(r, i) =>
           /\ Untold(i)' /\ forms'[i].status = NewFormStatus(req[r].active)
           /\ \A s \in Requests : Storing(s, i) => s = r
  BY <1>4 DEF NoticesInv
<1>10. \A r \in Requests : \A i : Storing(r, i)' <=> Storing(r, i)
  BY <1>1 DEF Storing
<1>11. \A r \in Requests, i \in DOMAIN forms' :
         Storing(r, i)' =>
           /\ Untold(i)' /\ forms'[i].status = NewFormStatus(req'[r].active)
           /\ \A s \in Requests : Storing(s, i)' => s = r
  BY <1>1, <1>3, <1>9, <1>10
<1>12. \A i \in DOMAIN forms' :
          \/ LastWordFits(i)'
          \/ \E r \in Requests : Storing(r, i)'
          \/ pc' = "announce" /\ Cur'.form = i
          \/ forms'[i].status = "accepted" /\ Unpressed(i)'
  BY <1>3, <1>5, <1>8, <1>10
<1>13. \A i \in DOMAIN forms' : forms'[i].status = "accepted" /\ Unpressed(i)' => Untold(i)'
  BY <1>3, <1>5, <1>7
<1> QED
  BY <1>6, <1>11, <1>12, <1>13 DEF NoticesInv

\* What Telegram takes is the author's news if it is about their form, and a
\* keyboard only appears with the form that is sent to the administrator.
LEMMA ArrivalOf ==
    ASSUME TypeOK, NEW m \in Message, Arrive(m), NEW i \in DOMAIN forms
    PROVE  /\ About(m, i) => told'[i] = m.text
           /\ ~About(m, i) => told'[i] = told[i]
           /\ i \in keyboards' => i \in keyboards \/ (m.kind = "adminForm" /\ m.form = i)
<1>1. told \in Seq(Notices) /\ i \in DOMAIN told
  BY LenProperties DEF TypeOK, TypesOK
<1>2. told' = IF m.kind = "notice" THEN [told EXCEPT ![m.form] = m.text] ELSE told
  BY DEF Arrive
<1>3. /\ About(m, i) => told'[i] = m.text
      /\ ~About(m, i) => told'[i] = told[i]
  BY <1>1, <1>2 DEF About
<1>4. i \in keyboards' => i \in keyboards \/ (m.kind = "adminForm" /\ m.form = i)
  BY DEF Arrive
<1> QED
  BY <1>3, <1>4

\* The sender delivers the oldest notice first, so the last word stays the last.
LEMMA NoticesSender ==
    ASSUME TypeOK, NothingLost, "429" \notin Faults, NoticesInv, SendMessage
    PROVE  NoticesInv'
<1> USE DEF TypeOK
<1> DEFINE h == Head(outbox)
<1>1. /\ outbox # <<>> /\ Arrive(h) /\ outbox' = Tail(outbox)
      /\ UNCHANGED <<forms, req, next, pc, feed>>
  BY SenderDoes
<1>2. /\ h = outbox[1] /\ h \in Message /\ 1 \in DOMAIN outbox /\ DOMAIN outbox = 1..Len(outbox)
      /\ DOMAIN outbox' = 1..(Len(outbox) - 1) /\ Len(outbox) \in Nat
      /\ \A k \in DOMAIN outbox' : k + 1 \in DOMAIN outbox /\ outbox'[k] = outbox[k + 1]
      /\ \A k \in DOMAIN outbox :
            k = 1 \/ (k - 1 \in DOMAIN outbox' /\ outbox'[k - 1] = outbox[k])
  BY <1>1, OutboxHead
<1> HIDE DEF h
<1>3. ASSUME NEW i \in DOMAIN forms
      PROVE  /\ About(h, i) => told'[i] = h.text
             /\ ~About(h, i) => told'[i] = told[i]
             /\ i \in keyboards' => i \in keyboards \/ (h.kind = "adminForm" /\ h.form = i)
  BY <1>1, <1>2, ArrivalOf
<1>4. ASSUME NEW i \in DOMAIN forms, Untold(i)
      PROVE  Untold(i)'
  <2>1. h.kind \in {"notice", "adminForm"} => h.form # i
    BY <1>2, <1>4 DEF Untold
  <2>2. told'[i] = "nothing" /\ i \notin keyboards'
    BY <1>3, <1>4, <2>1 DEF Untold, About
  <2>3. \A k \in DOMAIN outbox' :
           outbox'[k].kind \in {"notice", "adminForm"} => outbox'[k].form # i
    BY <1>2, <1>4 DEF Untold
  <2>4. Unpressed(i)'
    BY <1>1, <1>4 DEF Untold, Unpressed, PressedForm
  <2> QED
    BY <2>2, <2>3, <2>4 DEF Untold
<1>5. ASSUME NEW i \in DOMAIN forms, LastWordFits(i)
      PROVE  LastWordFits(i)'
  <2>1. ASSUME NEW k \in DOMAIN outbox', About(outbox'[k], i),
               \A l \in DOMAIN outbox' : About(outbox'[l], i) => l <= k
        PROVE  outbox'[k].text \in Fits(forms'[i].status)
    <3>1. k + 1 \in DOMAIN outbox /\ outbox'[k] = outbox[k + 1] /\ k \in Nat
      BY <1>2
    <3>2. \A l \in DOMAIN outbox : About(outbox[l], i) => l <= k + 1
      BY <1>2, <2>1, <3>1
    <3> QED
      BY <1>1, <1>5, <2>1, <3>1, <3>2 DEF LastWordFits
  <2>2. ASSUME \A k \in DOMAIN outbox' : ~About(outbox'[k], i)
        PROVE  told'[i] \in Fits(forms'[i].status)
    <3>1. \A k \in DOMAIN outbox : About(outbox[k], i) => k = 1
      BY <1>2, <2>2
    <3>2. CASE About(h, i)
      <4>1. outbox[1].text \in Fits(forms[i].status)
        BY <1>2, <1>5, <3>1, <3>2 DEF LastWordFits
      <4> QED
        BY <1>1, <1>2, <1>3, <3>2, <4>1
    <3>3. CASE ~About(h, i)
      <4>1. \A k \in DOMAIN outbox : ~About(outbox[k], i)
        BY <1>2, <3>1, <3>3
      <4> QED
        BY <1>1, <1>3, <1>5, <3>3, <4>1 DEF LastWordFits
    <3> QED
      BY <3>2, <3>3
  <2> QED
    BY <2>1, <2>2 DEF LastWordFits, About
<1>6. \A i : /\ Unpressed(i)' <=> Unpressed(i)
             /\ \A r \in Requests : Storing(r, i)' <=> Storing(r, i)
  BY <1>1 DEF Unpressed, PressedForm, Storing
<1>7. Cur' = Cur
  BY <1>1 DEF Cur
<1>8. \A r \in Requests : \A i \in DOMAIN forms' :
         Storing(r, i)' =>
           /\ Untold(i)' /\ forms'[i].status = NewFormStatus(req'[r].active)
           /\ \A s \in Requests : Storing(s, i)' => s = r
  BY <1>1, <1>4, <1>6 DEF NoticesInv
<1>9. \A i \in DOMAIN forms' :
         \/ LastWordFits(i)'
         \/ \E r \in Requests : Storing(r, i)'
         \/ pc' = "announce" /\ Cur'.form = i
         \/ forms'[i].status = "accepted" /\ Unpressed(i)'
  BY <1>1, <1>5, <1>6, <1>7 DEF NoticesInv
<1>10. \A i \in DOMAIN forms' : forms'[i].status = "accepted" /\ Unpressed(i)' => Untold(i)'
  BY <1>1, <1>4, <1>6 DEF NoticesInv
<1>11. pc' = "announce" => forms'[Cur'.form].status = "accepted"
  BY <1>1, <1>7 DEF NoticesInv
<1> QED
  BY <1>8, <1>9, <1>10, <1>11 DEF NoticesInv

\* A request's first words about its form are true, whatever has happened to
\* the author's row since it read it.
LEMMA NoticesWeb ==
    ASSUME TypeOK, Answered, NoticesInv, NEW r \in Requests, Web(r)
    PROVE  NoticesInv'
<1> USE DEF TypeOK
<1>1. /\ UNCHANGED <<users, next, pc, feed, keyboards>>
      /\ \A s \in Requests : s # r => req'[s] = req[s]
  BY RequestDoes
<1>2. Cur' = Cur /\ \A i : Unpressed(i)' <=> Unpressed(i)
  BY <1>1 DEF Cur, Unpressed, PressedForm
<1>3. pc = "announce" => Cur.form \in DOMAIN forms /\ forms[Cur.form].status = "accepted"
  <2> SUFFICES ASSUME pc = "announce"
               PROVE  Cur.form \in DOMAIN forms /\ forms[Cur.form].status = "accepted"
    OBVIOUS
  <2>1. next \in DOMAIN feed /\ Cur.kind = "formPress"
    BY CurType DEF PcOK
  <2> QED
    BY <2>1 DEF IdsOK, UpdateRefersToRow, Cur, NoticesInv
<1>4. CASE Prepares(r)
  <2>1. UNCHANGED <<forms, told, outbox>> /\ req[r].pc # "created" /\ req'[r].pc # "created"
    BY <1>4 DEF Prepares
  <2>2. \A s \in Requests : \A i : Storing(s, i)' <=> Storing(s, i)
    BY <1>1, <2>1 DEF Storing
  <2>3. \A i : (Untold(i)' <=> Untold(i)) /\ (LastWordFits(i)' <=> LastWordFits(i))
    BY <1>1, <1>2, <2>1 DEF Untold, LastWordFits, About
  <2>4. \A s \in Requests : \A i \in DOMAIN forms' :
           Storing(s, i)' =>
             /\ Untold(i)' /\ forms'[i].status = NewFormStatus(req'[s].active)
             /\ \A q \in Requests : Storing(q, i)' => q = s
    <3>1. \A s \in Requests : \A i : Storing(s, i) => req'[s] = req[s]
      BY <1>1, <2>1 DEF Storing
    <3> QED
      BY <2>1, <2>2, <2>3, <3>1 DEF NoticesInv
  <2>5. /\ \A i \in DOMAIN forms' :
             \/ LastWordFits(i)'
             \/ \E s \in Requests : Storing(s, i)'
             \/ pc' = "announce" /\ Cur'.form = i
             \/ forms'[i].status = "accepted" /\ Unpressed(i)'
        /\ \A i \in DOMAIN forms' : forms'[i].status = "accepted" /\ Unpressed(i)' => Untold(i)'
        /\ pc' = "announce" => forms'[Cur'.form].status = "accepted"
    BY <1>1, <1>2, <2>1, <2>2, <2>3 DEF NoticesInv
  <2> QED
    BY <2>4, <2>5 DEF NoticesInv
<1>5. ASSUME NEW n \in Nat, Stores(r, n)
      PROVE  NoticesInv'
  <2>1. /\ req'[r] = [pc |-> "created", user |-> req[r].user,
                      active |-> req[r].active, form |-> n]
        /\ n \notin DOMAIN forms /\ DOMAIN forms' = DOMAIN forms \cup {n}
        /\ \A i \in DOMAIN forms : forms'[i] = forms[i] /\ told'[i] = told[i]
        /\ forms'[n].status = NewFormStatus(req[r].active)
        /\ told'[n] = "nothing" /\ outbox' = outbox /\ req[r].pc = "stamped"
    BY <1>5 DEF Stores
  <2>2. Untold(n)'
    <3>1. n \notin keyboards' /\ Unpressed(n)
      BY <1>1, <2>1 DEF IdsOK, UpdateRefersToRow, Unpressed, PressedForm
    <3>2. \A k \in DOMAIN outbox :
             outbox[k].kind \in {"notice", "adminForm"} => outbox[k].form # n
      BY <2>1 DEF IdsOK, MessageRefersToRow, FormMessages
    <3> QED
      BY <1>2, <2>1, <3>1, <3>2 DEF Untold
  <2>3. \A i \in DOMAIN forms :
           (Untold(i)' <=> Untold(i)) /\ (LastWordFits(i)' <=> LastWordFits(i))
    BY <1>1, <1>2, <2>1 DEF Untold, LastWordFits, About
  <2>4. \A s \in Requests : \A i \in DOMAIN forms :
           /\ Storing(s, i)' <=> Storing(s, i)
           /\ Storing(s, i) => req'[s] = req[s]
    BY <1>1, <2>1 DEF Storing
  <2>5. /\ Storing(r, n)'
        /\ req'[r].active = req[r].active
        /\ \A s \in Requests : Storing(s, n)' => s = r
    <3>1. \A s \in Requests : ~Storing(s, n)
      BY <2>1 DEF Storing, IdsOK
    <3> QED
      BY <1>1, <2>1, <3>1 DEF Storing
  <2>6. \A s \in Requests : \A i \in DOMAIN forms' :
           Storing(s, i)' =>
             /\ Untold(i)' /\ forms'[i].status = NewFormStatus(req'[s].active)
             /\ \A q \in Requests : Storing(q, i)' => q = s
    <3>1. ASSUME NEW s \in Requests, NEW i \in DOMAIN forms, Storing(s, i)'
          PROVE  /\ Untold(i)' /\ forms'[i].status = NewFormStatus(req'[s].active)
                 /\ \A q \in Requests : Storing(q, i)' => q = s
      BY <2>1, <2>3, <2>4, <3>1 DEF NoticesInv
    <3> QED
      BY <2>1, <2>2, <2>5, <3>1
  <2>7. \A i \in DOMAIN forms' :
           \/ LastWordFits(i)'
           \/ \E s \in Requests : Storing(s, i)'
           \/ pc' = "announce" /\ Cur'.form = i
           \/ forms'[i].status = "accepted" /\ Unpressed(i)'
    BY <1>1, <1>2, <2>1, <2>3, <2>4, <2>5 DEF NoticesInv
  <2>8. \A i \in DOMAIN forms' : forms'[i].status = "accepted" /\ Unpressed(i)' => Untold(i)'
    BY <1>2, <2>1, <2>2, <2>3 DEF NoticesInv
  <2>9. pc' = "announce" => forms'[Cur'.form].status = "accepted"
    BY <1>1, <1>2, <1>3, <2>1
  <2> QED
    BY <2>6, <2>7, <2>8, <2>9 DEF NoticesInv
<1>6. ASSUME NEW ms \in Seq(Message), Enqueue(ms), Publishes(r, ms)
      PROVE  NoticesInv'
  <2>1. UNCHANGED <<forms, told>> /\ req[r].pc = "created" /\ req'[r].pc = "idle"
    BY <1>6 DEF Publishes, Idle
  <2> PICK n \in DOMAIN forms : n = req[r].form
    BY <2>1 DEF IdsOK
  <2>2. /\ Untold(n) /\ forms[n].status = NewFormStatus(req[r].active)
        /\ \A s \in Requests : Storing(s, n) => s = r
    BY <2>1 DEF NoticesInv, Storing
  <2>3. req[r].active \in BOOLEAN
    BY <2>1 DEF TypesOK, Request
  <2>4. \A l \in DOMAIN ms :
           ms[l].kind \in {"notice", "adminForm"} => ms[l].form = n /\ ~req[r].active
    BY <1>6 DEF Publishes, Notice
  <2>5. \A s \in Requests : \A i :
           /\ Storing(s, i)' => Storing(s, i) /\ s # r /\ i # n /\ req'[s] = req[s]
           /\ Storing(s, i) => Storing(s, i)' \/ i = n
    BY <1>1, <2>1, <2>2 DEF Storing
  <2>6. ASSUME NEW i \in DOMAIN forms, Untold(i), i # n \/ req[r].active
        PROVE  Untold(i)'
    <3>1. \A l \in DOMAIN ms : ms[l].kind \in {"notice", "adminForm"} => ms[l].form # i
      BY <2>4, <2>6
    <3>2. \A k \in DOMAIN outbox' :
             outbox'[k].kind \in {"notice", "adminForm"} => outbox'[k].form # i
      BY <1>6, <2>6, <3>1, OutboxBehind DEF Untold
    <3> QED
      BY <1>1, <1>2, <2>1, <2>6, <3>2 DEF Untold
  <2>7. ASSUME NEW i \in DOMAIN forms, i # n, LastWordFits(i)
        PROVE  LastWordFits(i)'
    <3>1. \A l \in DOMAIN ms : ~About(ms[l], i)
      BY <2>4, <2>7 DEF About
    <3> QED
      BY <1>6, <2>1, <2>7, <3>1, LastWordBehind
  <2>8. \/ LastWordFits(n)'
        \/ forms[n].status = "accepted" /\ Unpressed(n)
    <3>1. CASE req[r].active
      BY <2>2, <3>1 DEF NewFormStatus, Untold
    <3>2. CASE ~req[r].active
      <4>1. ms = <<Notice(n, "received"), [kind |-> "adminForm", form |-> n]>>
        BY <1>6, <3>2 DEF Publishes
      <4>2. /\ 1 \in DOMAIN ms /\ About(ms[1], n)
            /\ \A l \in DOMAIN ms : About(ms[l], n) => ms[l].text = "received"
        BY <4>1 DEF Notice, About
      <4>3. "received" \in Fits(forms'[n].status)
        BY <2>1, <2>2, <3>2 DEF Fits, NewFormStatus
      <4> QED
        BY <1>6, <2>2, <4>2, <4>3, LastWordBehind
    <3> QED
      BY <3>1, <3>2
  <2>9. forms[n].status = "accepted" => req[r].active
    BY <2>2, <2>3 DEF NewFormStatus
  <2>10. \A s \in Requests : \A i \in DOMAIN forms' :
            Storing(s, i)' =>
              /\ Untold(i)' /\ forms'[i].status = NewFormStatus(req'[s].active)
              /\ \A q \in Requests : Storing(q, i)' => q = s
    <3>1. ASSUME NEW s \in Requests, NEW i \in DOMAIN forms, Storing(s, i)'
          PROVE  /\ Untold(i)' /\ forms'[i].status = NewFormStatus(req'[s].active)
                 /\ \A q \in Requests : Storing(q, i)' => q = s
      <4>1. Storing(s, i) /\ i # n /\ req'[s] = req[s]
        BY <2>5, <3>1
      <4>2. /\ Untold(i) /\ forms[i].status = NewFormStatus(req[s].active)
            /\ \A q \in Requests : Storing(q, i) => q = s
        BY <4>1 DEF NoticesInv
      <4> QED
        BY <2>1, <2>5, <2>6, <4>1, <4>2
    <3> QED
      BY <2>1, <3>1
  <2>11. \A i \in DOMAIN forms' :
            \/ LastWordFits(i)'
            \/ \E s \in Requests : Storing(s, i)'
            \/ pc' = "announce" /\ Cur'.form = i
            \/ forms'[i].status = "accepted" /\ Unpressed(i)'
    BY <1>1, <1>2, <2>1, <2>5, <2>7, <2>8 DEF NoticesInv
  <2>12. \A i \in DOMAIN forms' : forms'[i].status = "accepted" /\ Unpressed(i)' => Untold(i)'
    BY <1>2, <2>1, <2>6, <2>9 DEF NoticesInv
  <2>13. pc' = "announce" => forms'[Cur'.form].status = "accepted"
    BY <1>1, <1>2, <1>3, <2>1
  <2> QED
    BY <2>10, <2>11, <2>12, <2>13 DEF NoticesInv
<1> QED
  BY <1>4, <1>5, <1>6, RequestDoes

\* A button that is pressed was there, so nobody has decided about a form the
\* administrator has not seen.
LEMMA NoticesPeople ==
    ASSUME TypeOK, NoticesInv, People
    PROVE  NoticesInv'
<1>1. UNCHANGED <<forms, req, next, pc, outbox, keyboards, told>>
  BY PeopleDo
<1>2. PICK e \in Update : /\ feed' = Append(feed, e)
                          /\ e.kind = "formPress" => e.form \in keyboards
  BY PeopleDo
<1>3. /\ DOMAIN feed' = DOMAIN feed \cup {Len(feed) + 1}
      /\ \A k \in DOMAIN feed : feed'[k] = feed[k]
      /\ feed'[Len(feed) + 1] = e
  BY <1>2, LogGrows DEF TypeOK
<1>4. \A i : i \notin keyboards => (Unpressed(i)' <=> Unpressed(i))
  BY <1>2, <1>3 DEF Unpressed, PressedForm
<1>5. \A i : Unpressed(i)' => Unpressed(i)
  BY <1>3 DEF Unpressed, PressedForm
<1>6. \A i : Untold(i) => Untold(i)' /\ Unpressed(i)'
  BY <1>1, <1>4 DEF Untold
<1>7. \A i : /\ LastWordFits(i)' <=> LastWordFits(i)
             /\ \A r \in Requests : Storing(r, i)' <=> Storing(r, i)
  BY <1>1 DEF LastWordFits, About, Storing
<1>8. pc = "announce" => Cur' = Cur
  BY <1>1, <1>3, CurType DEF TypeOK, PcOK, Cur
<1>9. \A r \in Requests : \A i \in DOMAIN forms' :
         Storing(r, i)' =>
           /\ Untold(i)' /\ forms'[i].status = NewFormStatus(req'[r].active)
           /\ \A s \in Requests : Storing(s, i)' => s = r
  BY <1>1, <1>6, <1>7 DEF NoticesInv
<1>10. \A i \in DOMAIN forms' :
          \/ LastWordFits(i)'
          \/ \E r \in Requests : Storing(r, i)'
          \/ pc' = "announce" /\ Cur'.form = i
          \/ forms'[i].status = "accepted" /\ Unpressed(i)'
  BY <1>1, <1>6, <1>7, <1>8 DEF NoticesInv
<1>11. \A i \in DOMAIN forms' : forms'[i].status = "accepted" /\ Unpressed(i)' => Untold(i)'
  BY <1>1, <1>5, <1>6 DEF NoticesInv
<1>12. pc' = "announce" => forms'[Cur'.form].status = "accepted"
  BY <1>1, <1>8 DEF NoticesInv
<1> QED
  BY <1>9, <1>10, <1>11, <1>12 DEF NoticesInv

\* While nothing is lost or put off, every step leaves the last word true.
LEMMA NoticesStep ==
    ASSUME TypeOK, NothingLost, Answered, "429" \notin Faults, NoticesInv, [Next]_vars
    PROVE  NoticesInv'
<1>1. CASE UNCHANGED <<forms, req, next, pc, outbox, feed, keyboards, told>>
  <2>1. \A i : /\ LastWordFits(i)' <=> LastWordFits(i)
               /\ Untold(i)' <=> Untold(i)
               /\ Unpressed(i)' <=> Unpressed(i)
               /\ \A r \in Requests : Storing(r, i)' <=> Storing(r, i)
    BY <1>1 DEF LastWordFits, About, Storing, Untold, Unpressed, PressedForm
  <2>2. Cur' = Cur
    BY <1>1 DEF Cur
  <2> QED
    BY <1>1, <2>1, <2>2 DEF NoticesInv
<1>2. UNCHANGED vars \/ Confirm => UNCHANGED <<forms, req, next, pc, outbox, feed, keyboards, told>>
  BY DEF vars, Confirm, db, bot, chat
<1>3. ~Crash
  BY DEF Crash, CanFail, NothingLost
<1> QED
  BY <1>1, <1>2, <1>3, NoticesProcessor, NoticesSender, NoticesWeb, NoticesPeople DEF Next

\* AuthorInformed: as long as the process lives, Telegram takes every message
\* when it is sent and statements that take effect are answered, an author whose last notice does not fit the form
\* has another one coming, although statements and posts to the chat fail,
\* buttons are pressed again and again, and requests run side by side.
THEOREM AuthorsInformed ==
    ASSUME NothingLost, Answered, "429" \notin Faults
    PROVE  Spec => []AuthorInformed
<1>1. Init => NoticesInv
  BY DEF Init, NoticesInv, Storing, Idle
<1>2. TypeOK /\ NoticesInv /\ [Next]_vars => NoticesInv'
  BY NoticesStep
<1>3. TypeOK /\ NoticesInv => AuthorInformed
  <2> SUFFICES ASSUME TypeOK, NoticesInv, NEW i \in DOMAIN forms, LastWordFits(i)
               PROVE  \/ told[i] \in Fits(forms[i].status)
                      \/ \E text \in Notices : Queued(Notice(i, text))
    BY DEF NoticesInv, AuthorInformed, Storing, Unpressed
  <2>1. ASSUME NEW k \in DOMAIN outbox, About(outbox[k], i)
        PROVE  \E text \in Notices : outbox[k] = Notice(i, text)
    <3>1. outbox[k] \in Message /\ outbox[k].kind = "notice" /\ outbox[k].form = i
      BY <2>1, ElementOfSeq, LenProperties DEF TypeOK, TypesOK, About
    <3>2. outbox[k] \in [kind: {"notice"}, form: Nat, text: Notices]
      BY <3>1 DEF Message, FormMessages, UserMessages
    <3> QED
      BY <3>1, <3>2 DEF Notice
  <2> QED
    BY <2>1 DEF LastWordFits, Queued
<1> QED
  BY <1>1, <1>2, <1>3, TypeCorrect, PTL DEF Spec

-----------------------------------------------------------------------------
(* The index page and /info agree. *)

\* Whatever else happens to forms, their time stamps stay.
LEMMA StampsKept ==
    ASSUME StampsInv, UNCHANGED <<clock, req>>, DOMAIN forms' = DOMAIN forms,
           \A i \in DOMAIN forms : forms'[i].created = forms[i].created
    PROVE  StampsInv'
<1>1. \A S \in SUBSET DOMAIN forms : LatestOf(S)' = LatestOf(S)
  BY DEF LatestOf
<1> QED
  BY <1>1 DEF StampsInv

\* Two requests never read the same time.
LEMMA StampsWeb ==
    ASSUME TypeOK, StampsInv, NEW r \in Requests, Web(r)
    PROVE  StampsInv'
<1> USE DEF TypeOK
<1>1. \A s \in Requests : s # r => req'[s] = req[s]
  BY RequestDoes
<1>2. /\ clock \in Nat
      /\ \A i \in DOMAIN forms : forms[i].created \in Nat
      /\ \A s \in Requests : req[s].pc = "stamped" => req[s].stamp \in Nat
  <2>1. \A i \in DOMAIN forms : forms[i] \in Form
    BY ElementOfSeq, LenProperties DEF TypesOK
  <2>2. clock \in Nat /\ \A s \in Requests : req[s] \in Request
    BY ConstantsAssumption DEF TypesOK
  <2> QED
    BY <2>1, <2>2 DEF Form, Request
<1>3. CASE Prepares(r)
  <2>1. UNCHANGED forms /\ (\A S : LatestOf(S)' = LatestOf(S))
    BY <1>3 DEF Prepares, LatestOf
  <2>2. CASE StampForm(r)
    <3>1. /\ clock' = clock + 1
          /\ req'[r].stamp = clock + 1
      BY <2>2 DEF StampForm, TypesOK
    <3>2. \A s \in Requests : s # r /\ req'[s].pc = "stamped" =>
             req'[s].stamp = req[s].stamp /\ req[s].stamp <= clock
      BY <1>1 DEF StampsInv
    <3>3. \A s \in Requests :
             req'[s].pc = "stamped" =>
               /\ req'[s].stamp <= clock'
               /\ \A i \in DOMAIN forms' : forms'[i].created # req'[s].stamp
               /\ \A q \in Requests :
                     req'[q].pc = "stamped" /\ req'[q].stamp = req'[s].stamp => q = s
      <4>1. ASSUME NEW s \in Requests, req'[s].pc = "stamped", s # r
            PROVE  /\ req'[s].stamp <= clock'
                   /\ \A i \in DOMAIN forms' : forms'[i].created # req'[s].stamp
                   /\ \A q \in Requests :
                         req'[q].pc = "stamped" /\ req'[q].stamp = req'[s].stamp => q = s
        BY <1>1, <1>2, <2>1, <3>1, <3>2, <4>1 DEF StampsInv
      <4>2. /\ req'[r].stamp <= clock'
            /\ \A i \in DOMAIN forms' : forms'[i].created # req'[r].stamp
            /\ \A q \in Requests :
                  req'[q].pc = "stamped" /\ req'[q].stamp = req'[r].stamp => q = r
        BY <1>1, <1>2, <2>1, <3>1, <3>2 DEF StampsInv
      <4> QED
        BY <4>1, <4>2
    <3>4. \A i \in DOMAIN forms' : forms'[i].created <= clock'
      BY <1>2, <2>1, <3>1 DEF StampsInv
    <3> QED
      BY <2>1, <3>3, <3>4 DEF StampsInv
  <2>3. CASE ~StampForm(r)
    <3>1. clock' = clock
      BY <2>3 DEF Web, Authenticate, RefuseForm, CreateForm, NotifyOfForm
    <3>2. req'[r].pc # "stamped"
      BY <1>3, <2>3 DEF Prepares, Authenticate, RefuseForm, Idle, TypesOK
    <3> QED
      BY <1>1, <2>1, <3>1, <3>2 DEF StampsInv
  <2> QED
    BY <2>2, <2>3
<1>4. ASSUME NEW n \in Nat, Stores(r, n)
      PROVE  StampsInv'
  <2>1. /\ n \notin DOMAIN forms /\ DOMAIN forms' = DOMAIN forms \cup {n}
        /\ \A i \in DOMAIN forms : forms'[i] = forms[i]
        /\ forms'[n].created = req[r].stamp
        /\ req[r].pc = "stamped" /\ req'[r].pc # "stamped" /\ clock' = clock
    BY <1>4 DEF Stores, Idle
  <2>2. /\ \A i \in DOMAIN forms' : forms'[i].created <= clock'
        /\ \A i, j \in DOMAIN forms' : forms'[i].created = forms'[j].created => i = j
    BY <1>2, <2>1 DEF StampsInv
  <2>3. \A s \in Requests :
           req'[s].pc = "stamped" =>
             /\ req'[s].stamp <= clock'
             /\ \A i \in DOMAIN forms' : forms'[i].created # req'[s].stamp
             /\ \A q \in Requests :
                   req'[q].pc = "stamped" /\ req'[q].stamp = req'[s].stamp => q = s
    BY <1>1, <2>1 DEF StampsInv
  <2>4. ASSUME NEW S \in SUBSET DOMAIN forms', S # {}
        PROVE  LatestOf(S)' # {}
    <3>1. CASE S = {n}
      BY <1>2, <2>1, <3>1 DEF LatestOf
    <3>2. CASE S # {n}
      <4> DEFINE T == S \ {n}
      <4>1. T \in SUBSET DOMAIN forms /\ T # {}
        BY <2>1, <2>4, <3>2
      <4>2. PICK i \in T : \A j \in T : forms[j].created <= forms[i].created
        BY <4>1 DEF StampsInv, LatestOf
      <4>3. /\ i \in S /\ \A j \in T : forms'[j].created <= forms'[i].created
            /\ \A j \in S : j = n \/ j \in T
            /\ \A j \in DOMAIN forms' : forms'[j].created \in Nat
        BY <1>2, <2>1, <4>1, <4>2
      <4> QED
        BY <2>4, <4>3 DEF LatestOf
    <3> QED
      BY <3>1, <3>2
  <2> QED
    BY <2>2, <2>3, <2>4 DEF StampsInv
<1>5. ASSUME NEW ms, Publishes(r, ms)
      PROVE  StampsInv'
  <2>1. UNCHANGED <<clock, forms>> /\ req'[r].pc = "idle" /\ (\A S : LatestOf(S)' = LatestOf(S))
    BY <1>5 DEF Publishes, Idle, LatestOf
  <2> QED
    BY <1>1, <2>1 DEF StampsInv
<1> QED
  BY <1>3, <1>4, <1>5, RequestDoes

\* No step makes two stamps equal.
LEMMA StampsStep ==
    ASSUME TypeOK, StampsInv, [Next]_vars
    PROVE  StampsInv'
<1>1. CASE UNCHANGED <<clock, req, forms>>
  BY <1>1, StampsKept
<1>2. CASE Processor
  BY <1>2, ProcessorDoes, FormsKept, StampsKept DEF TypeOK
<1>3. CASE Crash
  <2>1. UNCHANGED <<clock, forms>> /\ \A r \in Requests : req'[r].pc # "stamped"
    BY <1>3 DEF Crash, db, Idle
  <2>2. \A S : LatestOf(S)' = LatestOf(S)
    BY <2>1 DEF LatestOf
  <2> QED
    BY <2>1, <2>2 DEF StampsInv
<1>4. UNCHANGED vars \/ SendMessage \/ Confirm \/ People => UNCHANGED <<clock, req, forms>>
  BY DEF vars, SendMessage, Confirm, People, db
<1> QED
  BY <1>1, <1>2, <1>3, <1>4, StampsWeb DEF Next

\* IndexAgreesWithInfo: whatever fails, and in whatever order two requests of
\* one person store their forms, the index page lists exactly the form that
\* /info shows, and nobody without one.
THEOREM PagesAgree == Spec => []IndexAgreesWithInfo
<1>1. Init => StampsInv
  BY DEF Init, StampsInv, Idle
<1>2. TypeOK /\ StampsInv /\ [Next]_vars => StampsInv'
  BY StampsStep
<1>3. TypeOK /\ StampsInv => IndexAgreesWithInfo
  <2> SUFFICES ASSUME TypeOK, StampsInv, NEW u \in Users
               PROVE  LET listed == {i \in GetAllAcceptedFormsWithUser : Owner(i) = u}
                      IN  IF IsActive(u) /\ AcceptedForms(u) # {}
                          THEN \E i \in AcceptedForms(u) : listed = {i} /\ GetActualForm(u) = {i}
                          ELSE listed = {}
    BY DEF IndexAgreesWithInfo
  <2> DEFINE listed == {i \in GetAllAcceptedFormsWithUser : Owner(i) = u}
  <2>1. listed = IF IsActive(u) THEN GetActualForm(u) ELSE {}
    BY DEF GetAllAcceptedFormsWithUser, GetActualForm, AcceptedForms, Owner
  <2>2. GetActualForm(u) = LatestOf(AcceptedForms(u)) /\ AcceptedForms(u) \in SUBSET DOMAIN forms
    BY DEF GetActualForm, LatestOf, AcceptedForms
  <2>3. \A i \in DOMAIN forms : forms[i].created \in Nat
    <3>1. \A i \in DOMAIN forms : forms[i] \in Form
      BY ElementOfSeq, LenProperties DEF TypeOK, TypesOK
    <3> QED
      BY <3>1 DEF Form
  <2>4. CASE AcceptedForms(u) = {}
    BY <2>1, <2>4 DEF GetActualForm
  <2>5. CASE AcceptedForms(u) # {}
    <3>1. PICK i \in GetActualForm(u) : TRUE
      BY <2>2, <2>5 DEF StampsInv
    <3>2. ASSUME NEW j \in GetActualForm(u)
          PROVE  j = i
      <4>1. /\ i \in DOMAIN forms /\ j \in DOMAIN forms
            /\ forms[i].created <= forms[j].created /\ forms[j].created <= forms[i].created
        BY DEF GetActualForm, AcceptedForms
      <4> QED
        BY <2>3, <4>1 DEF StampsInv
    <3>3. GetActualForm(u) = {i} /\ i \in AcceptedForms(u)
      BY <3>1, <3>2 DEF GetActualForm
    <3> QED
      BY <2>1, <2>5, <3>3
  <2> QED
    BY <2>4, <2>5
<1> QED
  BY <1>1, <1>2, <1>3, TypeCorrect, PTL DEF Spec

-----------------------------------------------------------------------------
(* Who has left is no member. *)

\* The processor either stays with its update and makes a member only of
\* somebody whom the update shows in a chat, or goes on to the next one and
\* has then made a former member of who left.
LEMMA ProcessorReads ==
    ASSUME TypeOK, NothingSkipped, LeaversInv, Processor
    PROVE  /\ UNCHANGED <<feed, members>> /\ next \in DOMAIN feed
           /\ \/ /\ next' = next
                 /\ \A u \in Users : IsActive(u)' => IsActive(u) \/ Enters(u, next)
              \/ /\ next' = next + 1
                 /\ \A u \in Users : IsActive(u)' => IsActive(u) /\ ~Leaves(u, next)
<1> USE DEF TypeOK
<1>1. UNCHANGED <<feed, members>> /\ users \in [Users -> Statuses]
  BY DEF Processor, TypesOK
<1>2. ~GiveUp /\ \A u, status : ~GiveUpAfter(u, status)
  BY DEF NothingSkipped, Answered, GiveUp, GiveUpAfter, CanFail
<1>3. ASSUME NEW w \in Users, NEW status, UpdateOrCreateUser(w, status), NEW u \in Users
      PROVE  IsActive(u)' => \/ IsActive(u) /\ (u = w => status # "not_active")
                             \/ u = w /\ status = "active"
  BY <1>1, <1>3 DEF UpdateOrCreateUser, IsActive
<1>4. CASE RecordSender
  <2>1. Cur.kind = "message" /\ next <= Len(feed)
    BY <1>4 DEF RecordSender, Begin
  <2>2. next \in DOMAIN feed /\ Cur.from \in Users \cup {NoUser}
    BY <2>1, CurType, UpdateFields
  <2>3. /\ next' = next
        /\ IF Cur.from = NoUser THEN UNCHANGED users
           ELSE UpdateOrCreateUser(Cur.from, SenderStatus(Cur.chat))
    BY <1>2, <1>4 DEF RecordSender
  <2>4. ASSUME NEW u \in Users, IsActive(u)'
        PROVE  IsActive(u) \/ Enters(u, next)
    <3>1. CASE UNCHANGED users
      BY <2>4, <3>1 DEF IsActive
    <3>2. CASE Cur.from # NoUser /\ UpdateOrCreateUser(Cur.from, SenderStatus(Cur.chat))
      <4>1. IsActive(u) \/ (u = Cur.from /\ SenderStatus(Cur.chat) = "active")
        BY <1>3, <2>2, <2>4, <3>2
      <4>2. SenderStatus(Cur.chat) = "active" => Cur.chat = MainGroup
        BY DEF SenderStatus
      <4> QED
        BY <2>1, <4>1, <4>2 DEF Enters, Cur
    <3> QED
      BY <2>3, <3>1, <3>2
  <2> QED
    BY <1>1, <2>2, <2>3, <2>4
<1>5. CASE AddMember
  <2>1. PICK w \in todo : UpdateOrCreateUser(w, "active") /\ next' = next
    BY <1>2, <1>5 DEF AddMember
  <2>2. /\ next \in DOMAIN feed /\ Cur.kind = "message"
        /\ w \in Cur.joined /\ w \in Users
    BY <1>5, <2>1, CurType DEF AddMember, PcOK, TypesOK
  <2>3. \A u \in Users : IsActive(u)' => IsActive(u) \/ Enters(u, next)
    BY <1>3, <2>1, <2>2 DEF Enters, Cur
  <2> QED
    BY <1>1, <2>1, <2>2, <2>3
<1>6. CASE DropMember
  <2>1. UpdateOrCreateUser(Cur.left, "not_active") /\ Cur.left # NoUser /\ next' = next + 1
    BY <1>2, <1>6 DEF DropMember, Done
  <2>2. next \in DOMAIN feed /\ Cur.left \in Users
    <3>1. Cur.kind = "message" /\ next <= Len(feed)
      BY <1>6 DEF DropMember, PcOK
    <3> QED
      BY <2>1, <3>1, CurType, UpdateFields
  <2>3. \A u \in Users : IsActive(u)' => IsActive(u) /\ ~Leaves(u, next)
    BY <1>3, <2>1, <2>2 DEF Leaves, Cur
  <2> QED
    BY <1>1, <2>1, <2>2, <2>3
<1>7. CASE EndMessage
  <2>1. next' = next + 1 /\ UNCHANGED users
    BY <1>7 DEF EndMessage, Done, db
  <2>2. next \in DOMAIN feed /\ Cur.left = NoUser
    <3>1. next \in DOMAIN feed /\ Cur.kind = "message"
      BY <1>7, CurType DEF EndMessage, PcOK
    <3> QED
      BY <1>7, <3>1 DEF EndMessage, LeaversInv, Cur
  <2>3. \A u \in Users : ~Leaves(u, next)
    BY <2>2, ConstantsAssumption DEF Leaves, Cur
  <2> QED
    BY <1>1, <2>1, <2>2, <2>3 DEF IsActive
<1>8. CASE AnswerJoinRequest \/ DecideForm \/ Announce
  <2>1. /\ UNCHANGED users /\ next <= Len(feed) /\ Cur.kind # "message"
        /\ next' = next \/ next' = next + 1
    BY <1>2, <1>8 DEF AnswerJoinRequest, DecideForm, Announce, Begin, PcOK, Done, db
  <2>2. next \in DOMAIN feed /\ \A u : ~Leaves(u, next)
    BY <2>1, CurType DEF Leaves, Cur
  <2> QED
    BY <1>1, <2>1, <2>2 DEF IsActive
<1>9. CASE DecideUser
  <2>1. /\ SetUserStatus(Cur.user, Cur.verdict) /\ next <= Len(feed)
        /\ Cur.kind = "userPress" /\ next' = next + 1
    BY <1>2, <1>9 DEF DecideUser, Begin, Done
  <2>2. /\ next \in DOMAIN feed /\ Cur.user \in Users /\ Cur.verdict \in Verdicts
        /\ \A u : ~Leaves(u, next)
    BY <2>1, CurType, UpdateFields DEF Leaves, Cur
  <2>3. \A u \in Users : IsActive(u)' => IsActive(u)
    BY <1>1, <2>1, <2>2 DEF SetUserStatus, IsActive, Verdicts
  <2> QED
    BY <1>1, <2>1, <2>2, <2>3
<1> QED
  BY <1>4, <1>5, <1>6, <1>7, <1>8, <1>9 DEF Processor

\* Reading on never leaves the news of a departure behind unread.
LEMMA LeaversProcessor ==
    ASSUME TypeOK, NothingSkipped, LeaversInv, Processor
    PROVE  LeaversInv'
<1>1. /\ UNCHANGED <<feed, members>> /\ next \in DOMAIN feed
      /\ \/ /\ next' = next
            /\ \A u \in Users : IsActive(u)' => IsActive(u) \/ Enters(u, next)
         \/ /\ next' = next + 1
            /\ \A u \in Users : IsActive(u)' => IsActive(u) /\ ~Leaves(u, next)
  BY ProcessorReads
<1>2. DOMAIN feed = 1..Len(feed) /\ Len(feed) \in Nat /\ next \in Nat
  BY <1>1, LenProperties DEF TypeOK, TypesOK
<1>3. \A u : \A k : /\ Leaves(u, k)' <=> Leaves(u, k)
                    /\ Enters(u, k)' <=> Enters(u, k)
                    /\ Outside(u)' <=> Outside(u)
  BY <1>1 DEF Leaves, Enters, Outside
<1>4. \A u : \A k : LeavesFrom(u, k)' <=> LeavesFrom(u, k)
  BY <1>1, <1>3 DEF LeavesFrom
<1>5. ASSUME NEW u \in Users, Outside(u)
      PROVE  /\ IsActive(u)' => LeavesFrom(u, next')
             /\ \A k \in DOMAIN feed : k >= next' /\ Enters(u, k) => LeavesFrom(u, k)
  <2>1. /\ IsActive(u) => LeavesFrom(u, next)
        /\ \A k \in DOMAIN feed : k >= next /\ Enters(u, k) => LeavesFrom(u, k)
    BY <1>5 DEF LeaversInv
  <2>2. CASE next' = next /\ (IsActive(u)' => IsActive(u) \/ Enters(u, next))
    BY <1>1, <1>2, <2>1, <2>2
  <2>3. CASE next' = next + 1 /\ (IsActive(u)' => IsActive(u) /\ ~Leaves(u, next))
    <3>1. LeavesFrom(u, next) /\ ~Leaves(u, next) => LeavesFrom(u, next + 1)
      BY <1>2 DEF LeavesFrom
    <3> QED
      BY <1>2, <2>1, <2>3, <3>1
  <2> QED
    BY <1>1, <2>2, <2>3
<1>6. ASSUME NEW u \in Users, Outside(u)'
      PROVE  /\ IsActive(u)' => LeavesFrom(u, next)'
             /\ \A k \in DOMAIN feed' : k >= next' /\ Enters(u, k)' => LeavesFrom(u, k)'
  <2>1. LeavesFrom(u, next') => LeavesFrom(u, next)'
    BY <1>1 DEF LeavesFrom, Leaves
  <2> QED
    BY <1>1, <1>3, <1>4, <1>5, <1>6, <2>1
<1> QED
  BY <1>1, <1>6 DEF LeaversInv

\* What people do, as far as chats are concerned: only somebody who is in a
\* chat, or comes into it, is seen there, and nobody gets out unnoticed.
LEMMA PeopleMove ==
    ASSUME TypeOK, People
    PROVE  \E e \in Update :
              /\ feed' = Append(feed, e)
              /\ e.kind = "message" /\ e.joined # {} => e.left = NoUser
              /\ \A u \in Users : Outside(u)' =>
                    \/ e.kind = "message" /\ e.left = u
                    \/ /\ Outside(u)
                       /\ e.kind = "message" =>
                             u \notin e.joined /\ ~(e.from = u /\ e.chat = MainGroup)
<1> USE DEF TypeOK
<1>1. PICK e \in Update : feed' = Append(feed, e)
  BY PeopleStep
<1>2. feed'[Len(feed) + 1] = e
  BY <1>1 DEF TypesOK
<1>3. \A f : feed' = Append(feed, f) => e = f
  BY <1>2 DEF TypesOK
<1>4. MainGroup \in Groups /\ Private # MainGroup /\ NoUser \notin Users
  BY ConstantsAssumption
<1>5. CASE Write
  <2>1. PICK u \in Users, c \in Groups \cup {Private} :
           /\ c = Private \/ <<u, c>> \in members
           /\ feed' = Append(feed, TextMessage(u, c))
    BY <1>5 DEF Write, Happens
  <2>2. e.joined = {} /\ e.from = u /\ e.chat = c /\ members' = members
    BY <1>3, <1>5, <2>1 DEF TextMessage, Write
  <2> QED
    BY <1>1, <1>4, <2>1, <2>2 DEF Outside
<1>6. CASE Join
  <2>1. PICK who \in (SUBSET Users) \ {{}}, g \in Groups, by \in Users \cup {NoUser} :
           /\ by = NoUser \/ who = {by} \/ <<by, g>> \in members
           /\ members' = members \cup (who \X {g})
           /\ feed' = Append(feed, [TextMessage(by, g) EXCEPT !.joined = who])
    BY <1>6 DEF Join, Happens
  <2>2. e.joined = who /\ e.from = by /\ e.chat = g /\ e.left = NoUser
    BY <1>3, <2>1 DEF TextMessage
  <2>3. \A u \in who : <<u, g>> \in members'
    BY <2>1
  <2>4. ASSUME NEW u \in Users, Outside(u)'
        PROVE  Outside(u) /\ u \notin who /\ ~(by = u /\ g = MainGroup)
    BY <1>4, <2>1, <2>3, <2>4 DEF Outside
  <2> QED
    BY <1>1, <2>2, <2>4
<1>7. CASE Leave
  <2>1. PICK m \in members : \E by \in {m[1], NoUser} :
           /\ members' = members \ {m}
           /\ feed' = Append(feed, [TextMessage(by, m[2]) EXCEPT !.left = m[1]])
    BY <1>7 DEF Leave, Happens
  <2>2. PICK by \in {m[1], NoUser} :
           /\ members' = members \ {m}
           /\ feed' = Append(feed, [TextMessage(by, m[2]) EXCEPT !.left = m[1]])
    BY <2>1
  <2>3. e.kind = "message" /\ e.joined = {} /\ e.from = by /\ e.left = m[1]
    BY <1>3, <2>2 DEF TextMessage
  <2>4. ASSUME NEW u \in Users, Outside(u)', u # m[1]
        PROVE  Outside(u) /\ by # u
    BY <1>4, <2>2, <2>4 DEF Outside
  <2> QED
    BY <1>1, <2>3, <2>4
<1>8. CASE AskToJoin \/ PressForm \/ PressPoll
  <2>1. members' = members
    BY <1>8 DEF AskToJoin, PressForm, PressPoll
  <2>2. CASE AskToJoin
    <3>1. PICK u \in Users : feed' = Append(feed, [kind |-> "joinRequest", from |-> u])
      BY <2>2 DEF AskToJoin, Happens
    <3> QED
      BY <1>1, <1>3, <2>1, <3>1 DEF Outside
  <2>3. CASE PressForm
    <3>1. PICK i \in keyboards, v \in Verdicts :
             feed' = Append(feed, [kind |-> "formPress", form |-> i, verdict |-> v])
      BY <2>3 DEF PressForm, Happens
    <3> QED
      BY <1>1, <1>3, <2>1, <3>1 DEF Outside
  <2>4. CASE PressPoll
    <3>1. PICK q \in DOMAIN polls, v \in Verdicts :
             feed' = Append(feed, [kind |-> "userPress", user |-> polls[q].user,
                                   poll |-> q, verdict |-> v])
      BY <2>4 DEF PressPoll, Happens
    <3> QED
      BY <1>1, <1>3, <2>1, <3>1 DEF Outside
  <2> QED
    BY <1>8, <2>2, <2>3, <2>4
<1> QED
  BY <1>5, <1>6, <1>7, <1>8 DEF People

\* Whoever gets out of the last chat leaves word of it behind everything else.
LEMMA LeaversPeople ==
    ASSUME TypeOK, LeaversInv, People
    PROVE  LeaversInv'
<1>1. PICK e \in Update :
         /\ feed' = Append(feed, e)
         /\ e.kind = "message" /\ e.joined # {} => e.left = NoUser
         /\ \A u \in Users : Outside(u)' =>
               \/ e.kind = "message" /\ e.left = u
               \/ /\ Outside(u)
                  /\ e.kind = "message" =>
                        u \notin e.joined /\ ~(e.from = u /\ e.chat = MainGroup)
  BY PeopleMove
<1>2. UNCHANGED <<users, next>>
  BY PeopleDo
<1> DEFINE n == Len(feed) + 1
<1>3. /\ DOMAIN feed' = DOMAIN feed \cup {n} /\ feed'[n] = e
      /\ \A k \in DOMAIN feed : feed'[k] = feed[k]
  BY <1>1, LogGrows DEF TypeOK
<1>4. DOMAIN feed = 1..Len(feed) /\ Len(feed) \in Nat /\ next \in 1..n
  BY LenProperties DEF TypeOK, TypesOK
<1> HIDE DEF n
<1>5. \A k \in DOMAIN feed' : feed'[k].kind = "message" /\ feed'[k].joined # {} => feed'[k].left = NoUser
  BY <1>1, <1>3 DEF LeaversInv
<1>6. ASSUME NEW u \in Users, Outside(u)'
      PROVE  /\ IsActive(u)' => LeavesFrom(u, next)'
             /\ \A k \in DOMAIN feed' : k >= next' /\ Enters(u, k)' => LeavesFrom(u, k)'
  <2>1. CASE e.kind = "message" /\ e.left = u
    <3>1. n \in DOMAIN feed' /\ feed'[n].kind = "message" /\ feed'[n].left = u
      BY <1>3, <2>1
    <3>2. n >= next' /\ \A k \in DOMAIN feed' : n >= k
      BY <1>2, <1>3, <1>4 DEF n
    <3> QED
      BY <3>1, <3>2 DEF LeavesFrom, Leaves
  <2>2. CASE /\ Outside(u)
             /\ e.kind = "message" => u \notin e.joined /\ ~(e.from = u /\ e.chat = MainGroup)
    <3>1. \A k \in DOMAIN feed : LeavesFrom(u, k) => LeavesFrom(u, k)'
      BY <1>3 DEF LeavesFrom, Leaves
    <3>2. LeavesFrom(u, next) => LeavesFrom(u, next)'
      BY <1>2, <1>3 DEF LeavesFrom, Leaves
    <3>3. \A k \in DOMAIN feed' : Enters(u, k)' => k \in DOMAIN feed /\ Enters(u, k)
      BY <1>3, <2>2 DEF Enters
    <3> QED
      BY <1>2, <2>2, <3>1, <3>2, <3>3 DEF LeaversInv, IsActive
  <2> QED
    BY <1>1, <1>6, <2>1, <2>2
<1> QED
  BY <1>5, <1>6 DEF LeaversInv

\* LeaverNotActive: as long as the process lives and no statement fails, the
\* table has caught up with whoever left once every update is read, although
\* a farewell first makes the person active and messages of theirs may still
\* lie in the log.
THEOREM LeaversNotActive ==
    ASSUME NothingSkipped
    PROVE  Spec => []LeaverNotActive
<1>1. Init => LeaversInv
  BY DEF Init, LeaversInv, IsActive
<1>2. TypeOK /\ LeaversInv /\ [Next]_vars => LeaversInv'
  <2> SUFFICES ASSUME TypeOK, LeaversInv, [Next]_vars
               PROVE  LeaversInv'
    OBVIOUS
  <2>1. CASE UNCHANGED <<users, next, feed, members>>
    BY <2>1 DEF LeaversInv, IsActive, Outside, Enters, Leaves, LeavesFrom
  <2>2. \/ UNCHANGED vars \/ SendMessage \/ Confirm
        \/ \E r \in Requests : Web(r)
        => UNCHANGED <<users, next, feed, members>>
    BY DEF vars, SendMessage, Confirm, Web, db, bot
  <2>3. ~Crash
    BY DEF Crash, CanFail, NothingSkipped
  <2> QED
    BY <2>1, <2>2, <2>3, LeaversProcessor, LeaversPeople DEF Next
<1>3. TypeOK /\ LeaversInv => LeaverNotActive
  <2> SUFFICES ASSUME TypeOK, LeaversInv, next > Len(feed),
                      NEW u \in Users, IsActive(u), Outside(u)
               PROVE  FALSE
    BY DEF LeaverNotActive, Outside
  <2>1. DOMAIN feed = 1..Len(feed) /\ Len(feed) \in Nat /\ next \in Nat
    BY LenProperties DEF TypeOK, TypesOK
  <2>2. LeavesFrom(u, next)
    BY DEF LeaversInv
  <2> QED
    BY <2>1, <2>2 DEF LeavesFrom
<1> QED
  BY <1>1, <1>2, <1>3, TypeCorrect, PTL DEF Spec
=============================================================================
