----------------------------- MODULE Moderation -----------------------------
(***************************************************************************)
(* How a newcomer gets into the community chat: the users and forms tables *)
(* (pkg/database), the bot's update processor and its handlers             *)
(* (pkg/telegram/bot.go), the web handler that submits a form              *)
(* (pkg/views/views.go), and the outbox through which both write to        *)
(* Telegram.  Telegram itself (chats, buttons, the log of updates) is the  *)
(* environment.                                                            *)
(*                                                                         *)
(* Three kinds of process interleave: the single processor goroutine, the  *)
(* single sender goroutine and one goroutine per web request.  Texts,      *)
(* names and the contents of a form are left out.  Replies no property     *)
(* depends on (pong, /info, /login, welcome, the administrator's notices)  *)
(* are not put into the outbox; the capacity of the queues is the subject  *)
(* of module BotPipeline.                                                  *)
(***************************************************************************)
EXTENDS Integers, Sequences

CONSTANTS
    Users,        \* people other than the administrator
    NoUser,       \* stands for the administrator or a bot in a user's place
    Groups,       \* group chats the bot sits in
    MainGroup,    \* the community chat (groupID)
    Private,      \* a private chat with the bot
    Founders,     \* pairs <<user, group>>: who is in a chat before the bot starts
    Requests,     \* web requests that may be in progress at the same time
    Faults,       \* which failures may happen
    Acts,         \* what people may do in this instance
    MaxEvents,    \* bound: updates Telegram has for the bot
    MaxForms,     \* bound: forms submitted
    MaxCrashes    \* bound: crashes of the bot

\* A call may fail without effect, or take effect and lose its answer: then
\* the code is told of a failure all the same (dbAnswer, groupAnswer).
FaultKinds ==
    {"db", "dbAnswer", "send", "groupSend", "groupAnswer", "429", "crash"}
ActKinds   == {"write", "join", "leave", "ask", "pressForm", "pressPoll"}

ASSUME ConstantsAssumption ==
    /\ NoUser \notin Users
    /\ MainGroup \in Groups
    /\ Private \notin Groups
    /\ Founders \subseteq Users \X Groups
    /\ Faults \subseteq FaultKinds /\ Acts \subseteq ActKinds
    /\ MaxEvents \in Nat /\ MaxForms \in Nat /\ MaxCrashes \in Nat

VARIABLES
    \* PostgreSQL
    users,        \* status of each user's row
    forms,        \* rows of forms; the id of a row is its index
    \* the bot process
    clock,        \* time.Now: every reading is later than the one before
    req,          \* web requests
    next,         \* the update being processed, or to be processed next
    pc,           \* where the processor is in that update
    todo,         \* new chat members still to be recorded
    outbox,       \* messagesChan
    \* Telegram
    feed,         \* all updates so far, by update id
    confirmed,    \* updates up to here are never delivered again
    crashes,
    members,      \* pairs <<user, group>>: who is in which chat
    keyboards,    \* forms whose accept/reject buttons the administrator sees
    polls,        \* polls in the community chat
    told,         \* last notice about a form that reached its author
    posted        \* forms that were posted in the community chat

db   == <<users, forms>>
bot  == <<next, pc, todo>>
chat == <<keyboards, polls, told>>
vars == <<db, clock, req, bot, outbox, feed, confirmed, crashes, members,
          chat, posted>>

Verdicts   == {"accepted", "rejected"}
FormStates == {"new"} \cup Verdicts
Statuses   == {"absent", "new", "active", "not_active"} \cup Verdicts
Notices    == {"nothing", "received", "approved", "onVote", "rejected"}

Form == [owner: Users, created: Nat, status: FormStates]

\* An update is a message, a request to join, or a press of a button under a
\* form (sent to the administrator) or under a poll (sent to the chat).
Update ==
    [kind: {"message"}, from: Users \cup {NoUser}, chat: Groups \cup {Private},
     joined: SUBSET Users, left: Users \cup {NoUser}]
    \cup [kind: {"joinRequest"}, from: Users]
    \cup [kind: {"formPress"}, form: Nat, verdict: Verdicts]
    \cup [kind: {"userPress"}, user: Users, poll: Nat, verdict: Verdicts]

FormMessages == {"adminForm", "dropKeyboard", "groupPost"}
UserMessages == {"poll", "invite", "refuse", "approve", "decline"}

Message ==
    [kind: {"notice"}, form: Nat, text: Notices]
    \cup [kind: FormMessages, form: Nat]
    \cup [kind: UserMessages, user: Users]
    \cup [kind: {"stopPoll"}, poll: Nat]

Idle == [pc |-> "idle"]

Request ==
    [pc: {"idle"}]
    \cup [pc: {"authed"}, user: Users, active: BOOLEAN]
    \cup [pc: {"stamped"}, user: Users, active: BOOLEAN, stamp: Nat]
    \cup [pc: {"created"}, user: Users, active: BOOLEAN, form: Nat]

Init ==
    /\ users = [u \in Users |-> "absent"]
    /\ forms = <<>>
    /\ clock = 0
    /\ req = [r \in Requests |-> Idle]
    /\ next = 1 /\ pc = "idle" /\ todo = {}
    /\ outbox = <<>>
    /\ feed = <<>> /\ confirmed = 0 /\ crashes = 0
    /\ members = Founders
    /\ keyboards = {} /\ polls = <<>> /\ told = <<>>
    /\ posted = {}

-----------------------------------------------------------------------------
(* The users table.                                                        *)
(* Names that end in _ and a word are faulty variants of the definition that *)
(* follows them; no action uses them.  They show that a property is not     *)
(* true of any program.                                                     *)

UpdateOrCreateUser_Sticky(u, status) ==  \* nobody is ever made inactive
    users' = [users EXCEPT ![u] =
        IF @ = "absent" \/ status = "active" THEN status ELSE @]

\* A row that exists only ever moves to active or not_active here; a missing
\* row is created with whatever status the caller has.
UpdateOrCreateUser(u, status) ==
    users' = [users EXCEPT ![u] =
        IF @ = "absent" \/ status \in {"active", "not_active"} THEN status ELSE @]

SetUserStatus(u, status) == users' = [users EXCEPT ![u] = status]

SetFormStatus_Once(i, status) ==  \* a second press changes nothing
    forms' = [forms EXCEPT ![i].status = IF @ = "new" THEN status ELSE @]

SetFormStatus(i, status) == forms' = [forms EXCEPT ![i].status = status]

CanFail(kind) == kind \in Faults

-----------------------------------------------------------------------------
(* The update processor: one update at a time, in order. *)

Cur == feed[next]

Begin(kind) == pc = "idle" /\ next <= Len(feed) /\ Cur.kind = kind

Done_Skipping == pc' = "idle" /\ todo' = {} /\ next' = next + 2

Done == pc' = "idle" /\ todo' = {} /\ next' = next + 1

Enqueue(messages) == outbox' = outbox \o messages

GiveUp_Tidy ==  \* takes the buttons away on every way out
    /\ CanFail("db") /\ Done
    /\ Enqueue(CASE Cur.kind = "formPress" -> <<[kind |-> "dropKeyboard", form |-> Cur.form]>>
                 [] Cur.kind = "userPress" -> <<[kind |-> "stopPoll", poll |-> Cur.poll]>>
                 [] OTHER                  -> <<>>)
    /\ UNCHANGED <<db, posted>>

\* A statement of the handler fails without effect; it logs and returns.
GiveUp == CanFail("db") /\ Done /\ UNCHANGED <<db, outbox, posted>>

\* UpdateOrCreateUser has changed the row and then fails to read it again, or
\* has changed or created it and does not get the answer.
GiveUpAfter(u, status) ==
    /\ CanFail("dbAnswer") \/ (CanFail("db") /\ users[u] # "absent")
    /\ UpdateOrCreateUser(u, status) /\ Done
    /\ UNCHANGED <<forms, outbox, posted>>

SenderStatus_AnyChat(c) == "active"

\* Writing in the community chat proves membership; writing elsewhere proves
\* nothing.
SenderStatus(c) == IF c = MainGroup THEN "active" ELSE "new"

\* processMessage, first half: the author's row.
RecordSender ==
    /\ Begin("message")
    /\ \/ /\ IF Cur.from = NoUser
                THEN UNCHANGED users
                ELSE UpdateOrCreateUser(Cur.from, SenderStatus(Cur.chat))
          /\ pc' = "dispatch" /\ todo' = Cur.joined
          /\ UNCHANGED <<next, forms, outbox, posted>>
       \/ Cur.from # NoUser /\ (GiveUp \/ GiveUpAfter(Cur.from, SenderStatus(Cur.chat)))

\* processNewChatMembers: one statement per new member, in any group.
AddMember ==
    /\ pc = "dispatch"
    /\ \/ \E u \in todo :
            /\ UpdateOrCreateUser(u, "active")
            /\ todo' = todo \ {u}
            /\ UNCHANGED <<next, pc, forms, outbox, posted>>
       \/ todo # {} /\ GiveUp
       \/ \E u \in todo : GiveUpAfter(u, "active")

\* processLeftChatMember.  The statement is the last thing it does, so a lost
\* answer makes no difference.
DropMember ==
    /\ pc = "dispatch" /\ Cur.joined = {} /\ Cur.left # NoUser
    /\ \/ /\ UpdateOrCreateUser(Cur.left, "not_active")
          /\ Done
          /\ UNCHANGED <<forms, outbox, posted>>
       \/ GiveUp

\* Any other message, and the end of one that announces new members.
EndMessage ==
    /\ pc = "dispatch" /\ todo = {} /\ (Cur.joined # {} \/ Cur.left = NoUser)
    /\ Done
    /\ UNCHANGED <<db, outbox, posted>>

MayEnter_UnlessRejected(status) == status # "rejected"

MayEnter(status) == status \in {"active", "accepted", "not_active"}

\* processChatJoinRequest.
AnswerJoinRequest ==
    /\ Begin("joinRequest")
    /\ \/ /\ Enqueue(<<[kind |-> IF MayEnter(users[Cur.from])
                                    THEN "approve" ELSE "decline",
                        user |-> Cur.from]>>)
          /\ Done
          /\ UNCHANGED <<db, posted>>
       \/ GiveUp

Notice(i, text) == [kind |-> "notice", form |-> i, text |-> text]
DropKeyboard(i) == [kind |-> "dropKeyboard", form |-> i]

\* processFormCallbackQuery up to the change of the form's status.  Nothing
\* asks what the status was.  A rejection needs no answer from Telegram and
\* ends here; so does a decision whose answer is lost, stored but silent.
DecideForm ==
    /\ Begin("formPress")
    /\ \/ /\ Cur.verdict = "rejected"
          /\ SetFormStatus(Cur.form, "rejected")
          /\ Enqueue(<<Notice(Cur.form, "rejected"), DropKeyboard(Cur.form)>>)
          /\ Done
          /\ UNCHANGED <<users, posted>>
       \/ /\ Cur.verdict = "accepted"
          /\ SetFormStatus(Cur.form, "accepted")
          /\ pc' = "announce"
          /\ UNCHANGED <<next, todo, users, outbox, posted>>
       \/ GiveUp
       \/ /\ CanFail("dbAnswer")
          /\ SetFormStatus(Cur.form, Cur.verdict)
          /\ Done
          /\ UNCHANGED <<users, outbox, posted>>

Owner(i)    == forms[i].owner
IsActive(u) == users[u] = "active"

Announce_OrReturn ==  \* returns when the post to the chat fails
    /\ pc = "announce"
    /\ IF CanFail("groupSend") THEN UNCHANGED <<posted, outbox>>
       ELSE Enqueue(<<Notice(Cur.form, "onVote"), DropKeyboard(Cur.form)>>) /\ UNCHANGED posted
    /\ Done
    /\ UNCHANGED db

\* The rest of an acceptance: the form is posted by a call that waits for
\* Telegram's answer.  Without one, whether the form arrived or not, the poll
\* is skipped, and nothing else is.
\* (The user row was read before the form was accepted; only this goroutine
\* writes user rows, so it is still what the row says.)
Announce ==
    /\ pc = "announce"
    /\ \E arrived, answered \in BOOLEAN :
         /\ answered => arrived
         /\ ~answered => CanFail(IF arrived THEN "groupAnswer" ELSE "groupSend")
         /\ LET i    == Cur.form
                poll == IF answered /\ ~IsActive(Owner(i))
                           THEN <<[kind |-> "poll", user |-> Owner(i)]>> ELSE <<>>
            IN  /\ posted' = IF arrived THEN posted \cup {i} ELSE posted
                /\ Enqueue(poll \o
                     <<Notice(i, IF IsActive(Owner(i)) THEN "approved" ELSE "onVote"),
                       DropKeyboard(i)>>)
    /\ Done
    /\ UNCHANGED db

\* processUserCallbackQuery.
DecideUser ==
    /\ Begin("userPress")
    /\ \/ /\ SetUserStatus(Cur.user, Cur.verdict)
          /\ Enqueue(<<[kind |-> IF Cur.verdict = "accepted"
                                    THEN "invite" ELSE "refuse",
                        user |-> Cur.user],
                       [kind |-> "stopPoll", poll |-> Cur.poll]>>)
          /\ Done
          /\ UNCHANGED <<forms, posted>>
       \/ GiveUp
       \/ /\ CanFail("dbAnswer")
          /\ SetUserStatus(Cur.user, Cur.verdict)
          /\ Done
          /\ UNCHANGED <<forms, outbox, posted>>

Processor ==
    /\ \/ RecordSender \/ AddMember \/ DropMember \/ EndMessage
       \/ AnswerJoinRequest \/ DecideForm \/ Announce \/ DecideUser
    /\ UNCHANGED <<clock, req, feed, confirmed, crashes, members, chat>>

-----------------------------------------------------------------------------
(* The sender: takes the oldest message and sends it. *)

\* What Telegram does with a message it takes.
Arrive(m) ==
    /\ keyboards' = CASE m.kind = "adminForm"    -> keyboards \cup {m.form}
                      [] m.kind = "dropKeyboard" -> keyboards \ {m.form}
                      [] OTHER                   -> keyboards
    /\ polls' = CASE m.kind = "poll"     -> Append(polls, [user |-> m.user, open |-> TRUE])
                  [] m.kind = "stopPoll" -> [polls EXCEPT ![m.poll].open = FALSE]
                  [] OTHER               -> polls
    /\ told' = IF m.kind = "notice" THEN [told EXCEPT ![m.form] = m.text] ELSE told
    /\ posted' = IF m.kind = "groupPost" THEN posted \cup {m.form} ELSE posted

\* startProcessingMessages: sent (the answer may be lost: the code only logs
\* that); refused or failed and dropped; or refused with code 429 and put back,
\* at the end of the queue.
SendMessage ==
    /\ outbox # <<>>
    /\ \/ Arrive(Head(outbox)) /\ outbox' = Tail(outbox)
       \/ /\ CanFail("send")
          /\ outbox' = Tail(outbox)
          /\ UNCHANGED <<chat, posted>>
       \/ /\ CanFail("429")
          /\ outbox' = Append(Tail(outbox), Head(outbox))
          /\ UNCHANGED <<chat, posted>>
    /\ UNCHANGED <<db, clock, req, bot, feed, confirmed, crashes, members>>

-----------------------------------------------------------------------------
(* A web request that submits a form. *)

\* TokenAuth.Auth: the row is read once, the handler works with the copy.
Authenticate(r) ==
    /\ req[r].pc = "idle"
    /\ \E u \in Users :
         /\ users[u] # "absent"
         /\ req' = [req EXCEPT ![r] =
                [pc |-> "authed", user |-> u, active |-> IsActive(u)]]
    /\ UNCHANGED <<clock, forms, told, outbox>>

\* profileForm refuses a birth date it cannot parse.
RefuseForm(r) ==
    /\ req[r].pc = "authed"
    /\ req' = [req EXCEPT ![r] = Idle]
    /\ UNCHANGED <<clock, forms, told, outbox>>

\* CreateForm reads the clock ...
StampForm(r) ==
    /\ req[r].pc = "authed"
    /\ clock < MaxForms
    /\ clock' = clock + 1
    /\ req' = [req EXCEPT ![r] = [pc |-> "stamped", user |-> req[r].user,
                                  active |-> req[r].active, stamp |-> clock + 1]]
    /\ UNCHANGED <<forms, told, outbox>>

NewFormStatus_Unmoderated(active) == "accepted"

\* Active participants update their profile without moderation.
NewFormStatus(active) == IF active THEN "accepted" ELSE "new"

\* ... and later the database numbers the rows in the order they arrive.  If
\* the answer is lost, the row is there and the request ends without a word.
CreateForm(r) ==
    /\ req[r].pc = "stamped"
    /\ \/ /\ forms' = Append(forms, [owner   |-> req[r].user,
                                     created |-> req[r].stamp,
                                     status  |-> NewFormStatus(req[r].active)])
          /\ told' = Append(told, "nothing")
          /\ \/ req' = [req EXCEPT ![r] = [pc |-> "created", user |-> req[r].user,
                                           active |-> req[r].active,
                                           form |-> Len(forms) + 1]]
             \/ CanFail("dbAnswer") /\ req' = [req EXCEPT ![r] = Idle]
       \/ /\ CanFail("db")
          /\ req' = [req EXCEPT ![r] = Idle]
          /\ UNCHANGED <<forms, told>>
    /\ UNCHANGED <<clock, outbox>>

NotifyOfForm_Reread(r) ==  \* looks at the row again instead of the copy
    /\ req[r].pc = "created"
    /\ LET i == req[r].form
       IN  Enqueue(IF IsActive(req[r].user)
                   THEN <<[kind |-> "groupPost", form |-> i]>>
                   ELSE <<Notice(i, "received"), [kind |-> "adminForm", form |-> i]>>)
    /\ req' = [req EXCEPT ![r] = Idle]
    /\ UNCHANGED <<clock, forms, told>>

\* An active member's form goes straight to the chat; anyone else gets a
\* receipt, and the administrator the form with its two buttons.
NotifyOfForm(r) ==
    /\ req[r].pc = "created"
    /\ LET i == req[r].form
       IN  Enqueue(IF req[r].active
                   THEN <<[kind |-> "groupPost", form |-> i]>>
                   ELSE <<Notice(i, "received"), [kind |-> "adminForm", form |-> i]>>)
    /\ req' = [req EXCEPT ![r] = Idle]
    /\ UNCHANGED <<clock, forms, told>>

Web(r) ==
    /\ \/ Authenticate(r) \/ RefuseForm(r) \/ StampForm(r) \/ CreateForm(r)
       \/ NotifyOfForm(r)
    /\ UNCHANGED <<users, bot, feed, confirmed, crashes, members, keyboards,
                   polls, posted>>

-----------------------------------------------------------------------------
(* The process dies and is started again: channels and goroutines are gone, *)
(* and getUpdates with offset 0 returns whatever was not confirmed.         *)

Crash ==
    /\ CanFail("crash") /\ crashes < MaxCrashes
    /\ crashes' = crashes + 1
    /\ next' = confirmed + 1 /\ pc' = "idle" /\ todo' = {}
    /\ outbox' = <<>>
    /\ req' = [r \in Requests |-> Idle]
    /\ UNCHANGED <<db, clock, feed, confirmed, members, chat, posted>>

\* The getter asks for more: updates it has been given, processed or not,
\* are thereby confirmed.  Only Crash depends on it.
Confirm ==
    /\ CanFail("crash") /\ confirmed < Len(feed)
    /\ confirmed' \in (confirmed + 1)..Len(feed)
    /\ UNCHANGED <<db, clock, req, bot, outbox, feed, crashes, members, chat, posted>>

-----------------------------------------------------------------------------
(* People. *)

Happens(act, update) ==
    act \in Acts /\ Len(feed) < MaxEvents /\ feed' = Append(feed, update)

TextMessage(from, group) ==
    [kind |-> "message", from |-> from, chat |-> group, joined |-> {}, left |-> NoUser]

\* Only somebody in a group writes there; anyone may write to the bot.
Write ==
    /\ \E u \in Users, c \in Groups \cup {Private} :
         /\ c = Private \/ <<u, c>> \in members
         /\ Happens("write", TextMessage(u, c))
    /\ UNCHANGED members

\* One person joins, or a member or the administrator adds several.
Join ==
    \E who \in (SUBSET Users) \ {{}}, g \in Groups, by \in Users \cup {NoUser} :
        /\ \A u \in who : <<u, g>> \notin members
        /\ by = NoUser \/ who = {by} \/ <<by, g>> \in members
        /\ members' = members \cup (who \X {g})
        /\ Happens("join", [TextMessage(by, g) EXCEPT !.joined = who])

\* Somebody leaves, or the administrator removes them.
Leave ==
    \E m \in members : \E by \in {m[1], NoUser} :
        /\ members' = members \ {m}
        /\ Happens("leave", [TextMessage(by, m[2]) EXCEPT !.left = m[1]])

AskToJoin ==
    /\ \E u \in Users : Happens("ask", [kind |-> "joinRequest", from |-> u])
    /\ UNCHANGED members

\* The administrator presses a button that is still there.
PressForm ==
    /\ \E i \in keyboards, v \in Verdicts :
         Happens("pressForm", [kind |-> "formPress", form |-> i, verdict |-> v])
    /\ UNCHANGED members

PressPoll ==
    /\ \E p \in DOMAIN polls, v \in Verdicts :
         /\ polls[p].open
         /\ Happens("pressPoll", [kind |-> "userPress", user |-> polls[p].user,
                                    poll |-> p, verdict |-> v])
    /\ UNCHANGED members

People ==
    /\ Write \/ Join \/ Leave \/ AskToJoin \/ PressForm \/ PressPoll
    /\ UNCHANGED <<db, clock, req, bot, outbox, confirmed, crashes, chat, posted>>

-----------------------------------------------------------------------------
Next ==
    \/ Processor
    \/ SendMessage
    \/ \E r \in Requests : Web(r)
    \/ Crash
    \/ Confirm
    \/ People

Spec == Init /\ [][Next]_vars

\* The goroutines are scheduled fairly: the processor and the sender loop for
\* ever, and a request that was accepted is served.  People, failures and the
\* arrival of requests are not fair.
Fairness ==
    /\ WF_vars(Processor)
    /\ WF_vars(SendMessage)
    /\ \A r \in Requests : WF_vars(req[r].pc # "idle" /\ Web(r))

FairSpec == Spec /\ Fairness

-----------------------------------------------------------------------------
(* What the site and /info show of a member. *)

AcceptedForms(u) == {i \in DOMAIN forms : /\ forms[i].owner = u
                                          /\ forms[i].status = "accepted"}

GetActualForm_ById(u) == {i \in AcceptedForms(u) : \A j \in AcceptedForms(u) : j <= i}

\* GetActualForm: ORDER BY created_at DESC LIMIT 1.  Empty if there is none.
GetActualForm(u) ==
    {i \in AcceptedForms(u) :
        \A j \in AcceptedForms(u) : forms[j].created <= forms[i].created}

\* GetAllAcceptedFormsWithUser: created_at = (SELECT MAX(created_at) ...).
GetAllAcceptedFormsWithUser ==
    {i \in DOMAIN forms :
        /\ forms[i].status = "accepted"
        /\ IsActive(Owner(i))
        /\ \A j \in DOMAIN forms :
              forms[j].owner = forms[i].owner /\ forms[j].status = "accepted"
                => forms[j].created <= forms[i].created}

-----------------------------------------------------------------------------
(* What must hold. *)

\* Every variable has its type, the processor's position lies within the log,
\* ...
TypesOK ==
    /\ users \in [Users -> Statuses]
    /\ forms \in Seq(Form) /\ told \in Seq(Notices) /\ Len(told) = Len(forms)
    /\ clock \in 0..MaxForms
    /\ req \in [Requests -> Request]
    /\ next \in 1..(Len(feed) + 1)
    /\ pc \in {"idle", "dispatch", "announce"}
    /\ todo \subseteq Users
    /\ outbox \in Seq(Message)
    /\ feed \in Seq(Update)
    /\ confirmed \in 0..Len(feed)
    /\ crashes \in 0..MaxCrashes
    /\ members \subseteq Users \X Groups
    /\ polls \in Seq([user: Users, open: BOOLEAN])

UpdateRefersToRow(e) ==
    /\ e.kind = "formPress" => e.form \in DOMAIN forms
    /\ e.kind = "userPress" => e.poll \in DOMAIN polls

MessageRefersToRow(m) ==
    /\ m.kind \in FormMessages \cup {"notice"} => m.form \in DOMAIN forms
    /\ m.kind = "stopPoll" => m.poll \in DOMAIN polls

\* ... and every id that a button, a message, a request or a chat refers to is
\* that of an existing row or poll: GetFormByID and StopPoll never miss.
IdsOK ==
    /\ keyboards \subseteq DOMAIN forms
    /\ posted \subseteq DOMAIN forms
    /\ \A r \in Requests : req[r].pc = "created" => req[r].form \in DOMAIN forms
    /\ \A k \in DOMAIN feed : UpdateRefersToRow(feed[k])
    /\ \A k \in DOMAIN outbox : MessageRefersToRow(outbox[k])

\* Between two steps the processor is inside the handler it says it is in.
PcOK ==
    /\ pc = "dispatch" => /\ next <= Len(feed) /\ Cur.kind = "message"
                          /\ todo \subseteq Cur.joined
    /\ pc = "announce" => /\ next <= Len(feed) /\ Cur.kind = "formPress"
                          /\ Cur.verdict = "accepted"

TypeOK == TypesOK /\ IdsOK /\ PcOK

\* Was u ever in one of the chats?
EverMember(u) ==
    \/ \E g \in Groups : <<u, g>> \in Founders
    \/ \E k \in DOMAIN feed : feed[k].kind = "message" /\ u \in feed[k].joined

\* Did the administrator press this button for u?
PressedUser(u, v) ==
    \E k \in DOMAIN feed :
        feed[k].kind = "userPress" /\ feed[k].user = u /\ feed[k].verdict = v

PressedForm(i, v) ==
    \E k \in DOMAIN feed :
        feed[k].kind = "formPress" /\ feed[k].form = i /\ feed[k].verdict = v

\* What the bot's knowledge of people rests on: whoever is, speaks or leaves in
\* a chat has been there, and so had the author of a request that Auth found
\* active.  (Telegram's part of the bargain, and what it makes of the copies.)
Honest ==
    /\ \A m \in members : EverMember(m[1])
    /\ \A k \in DOMAIN feed :
          feed[k].kind = "message" =>
            /\ feed[k].from # NoUser /\ feed[k].chat = MainGroup
                  => EverMember(feed[k].from)
            /\ feed[k].left # NoUser => EverMember(feed[k].left)
    /\ \A r \in Requests :
          req[r].pc # "idle" => (req[r].active => EverMember(req[r].user))

\* A status never comes out of nowhere: whoever the table calls a present or
\* former member has been in a chat, and an acceptance or refusal is the
\* administrator's.  This must survive crashes, updates that are lost or
\* delivered twice, and statements that fail, or lose their answer, half way
\* through a handler (processMessage, processNewChatMembers,
\* processUserCallbackQuery).
Vouched ==
    \A u \in Users :
        /\ users[u] \in {"active", "not_active"} => EverMember(u)
        /\ users[u] \in Verdicts => PressedUser(u, users[u])

\* Nothing is public that nobody answers for: an accepted form was accepted
\* by the administrator, or its author had been in a chat when it was sent
\* (profileForm trusts the copy of the row that Auth read some time earlier).
PublicFormJustified ==
    \A i \in DOMAIN forms :
        forms[i].status = "accepted" =>
            PressedForm(i, "accepted") \/ EverMember(Owner(i))

\* The bot lets nobody into the chat (processChatJoinRequest) who was neither
\* there before nor accepted by the administrator, even when the approval
\* waits in the outbox while the person's status changes.
ApprovalJustified ==
    \A k \in DOMAIN outbox :
        outbox[k].kind = "approve" =>
            \/ EverMember(outbox[k].user)
            \/ PressedUser(outbox[k].user, "accepted")

\* The inductive invariant behind the four.
Inv == TypeOK /\ Honest /\ Vouched /\ PublicFormJustified /\ ApprovalJustified

\* Once every update has been processed, whoever is active is in a chat:
\* neither the order of the two statements that the farewell message of a
\* person who leaves by themselves takes (active, then not_active) nor what
\* they wrote before leaving resurrects a leaver.  (Without lost updates and
\* statements that fail or lose their answer.)
LeaverNotActive ==
    next > Len(feed) =>
        \A u \in Users :
            IsActive(u) => \E g \in Groups : <<u, g>> \in members

Queued(m) == \E k \in DOMAIN outbox : outbox[k] = m

\* Which notices fit a form that is in this state.
Fits(status) == CASE status = "new"      -> {"received"}
                  [] status = "accepted" -> {"approved", "onVote"}
                  [] status = "rejected" -> {"rejected"}

\* Authors are not misled about their form: when no notice about it is on its
\* way, the last one they got fits the form's status, however often and in
\* whatever order the administrator's buttons were pressed, and although the
\* statement or the post to the chat may fail.  (profileForm,
\* processFormCallbackQuery.  Not so when Telegram puts a notice off: it goes
\* to the end of the queue, behind later ones.  Nor when the answer to the
\* statement that decides is lost: the decision stands and nobody hears of it.)
AuthorInformed ==
    \A i \in DOMAIN forms :
        \/ told[i] \in Fits(forms[i].status)
        \/ \E text \in Notices : Queued(Notice(i, text))
        \/ \E r \in Requests : req[r].pc = "created" /\ req[r].form = i
        \/ pc = "announce" /\ Cur.form = i
        \/ forms[i].status = "accepted" /\ ~\E v \in Verdicts : PressedForm(i, v)

Undecided(i) == i \in DOMAIN forms /\ forms[i].status = "new"

\* No form is stranded: as long as it awaits a decision, the administrator
\* sees its buttons or is about to, whatever statements fail, and although the
\* author's status may change while the request is being served.  (If
\* Telegram takes the message, and no statement takes effect and loses its
\* answer: such a form is stored and nobody is told.)
PendingFormHasButtons ==
    \A i \in DOMAIN forms :
        Undecided(i) =>
            \/ i \in keyboards
            \/ Queued([kind |-> "adminForm", form |-> i])
            \/ \E r \in Requests : req[r].pc = "created" /\ req[r].form = i

\* No applicant is stranded: while a newcomer whose form was posted in the
\* chat is still undecided, there is an open poll about them, or one is on
\* its way (sendNewFormToGroup, processUserCallbackQuery).  Not so when Telegram
\* posted the form and the answer was lost: sendNewFormToGroup takes that for a
\* failure and makes no poll.
NewcomerHasPoll ==
    \A i \in posted :
        users[Owner(i)] = "new" =>
            \/ \E p \in DOMAIN polls : polls[p].user = Owner(i) /\ polls[p].open
            \/ Queued([kind |-> "poll", user |-> Owner(i)])

\* The index page and /info agree: an active member with an accepted form is
\* listed exactly once, with the one form that /info shows, and nobody else is
\* listed, even when two of a person's requests were stored in the opposite
\* order of their time stamps.
IndexAgreesWithInfo ==
    \A u \in Users :
        LET listed == {i \in GetAllAcceptedFormsWithUser : Owner(i) = u}
        IN  IF IsActive(u) /\ AcceptedForms(u) # {}
            THEN \E i \in AcceptedForms(u) : listed = {i} /\ GetActualForm(u) = {i}
            ELSE listed = {}

\* Every form that needs a decision reaches the administrator, if Telegram takes
\* the message and the answer of CreateForm is not lost.
FormReachesModerator ==
    \A i \in 1..MaxForms : Undecided(i) ~> (i \in keyboards \/ ~Undecided(i))

Decided(i) ==
    \E v \in Verdicts : i \in DOMAIN forms /\ forms[i].status = v /\ PressedForm(i, v)

ToldVerdict(i) == i \in DOMAIN told /\ told[i] \in Fits(forms[i].status)

\* Every decision about a form that was stored reaches its author, even when
\* posting the form to the chat fails, and however often it is revised (if the
\* statement that stored it got its answer).
DecisionReachesAuthor == \A i \in 1..MaxForms : Decided(i) ~> ToldVerdict(i)

\* AcceptFormReply (templates.go:76) tells the author that the form "was sent
\* to the chat for a vote".
AcceptNoticeTruthful == \A i \in DOMAIN told : told[i] = "onVote" => i \in posted
=============================================================================
