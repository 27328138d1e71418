----------------------------- MODULE SiteProofs -----------------------------
(***************************************************************************)
(* For any people, failures and bounds: the state is well typed, a row of  *)
(* tokens belongs to a user the bot knows and holds the newest uuid made   *)
(* for them, dead links stay dead, and whoever sees the index is known.    *)
(***************************************************************************)
EXTENDS Site, SequenceTheorems, TLAPS

\* A row of tokens refers to a row of users, and its uuid was made for them;
\* processLoginCommand starts with a row of users.
TokensOK ==
    /\ \A u \in Users : tokens[u].uuid # None =>
          users[u] # "absent" /\ issued[tokens[u].uuid] = u
    /\ pc = "login" => users[feed[next]] # "absent"

\* The index is somebody's.
IndexOwned == tab.pc \in {"answered", "shown"} /\ tab.page = "index" => tab.user \in Users

IndexOK == IndexOwned /\ IndexForKnownPeople

SInv == TypeOK /\ TokensOK /\ IndexOK

\* Rows of users are never deleted, and known people stay known.
RowsStay ==
    \A u \in Users :
        /\ users[u] # "absent" => users'[u] # "absent"
        /\ users[u] \notin {"absent", "new"} => users'[u] \notin {"absent", "new"}

-----------------------------------------------------------------------------
(* The operators. *)

\* Append stays within the elements' set.
LEMMA LongerSeq ==
    ASSUME NEW S, NEW seq \in Seq(S), NEW e \in S
    PROVE  Append(seq, e) \in Seq(S)
OBVIOUS

\* UpdateOrCreateUser keeps the type and forgets nobody.
LEMMA UserWritten ==
    ASSUME TypeOK, NEW u \in Users, NEW status \in {"new", "active", "not_active"},
           UpdateOrCreateUser(u, status)
    PROVE  users' \in [Users -> Statuses] /\ RowsStay /\ users'[u] # "absent"
BY DEF TypeOK, UpdateOrCreateUser, Statuses, RowsStay

\* A new token is the newest: no other has its number.
LEMMA TokenMade ==
    ASSUME TypeOK, NEW u \in Users, CreateOrProlongToken(u)
    PROVE  /\ NewToken = Len(issued) + 1 /\ NewToken \notin DOMAIN issued
           /\ issued' \in Seq(Users)
           /\ DOMAIN issued' = DOMAIN issued \cup {NewToken}
           /\ issued'[NewToken] = u
           /\ \A k \in DOMAIN issued : issued'[k] = issued[k]
           /\ Tokens \subseteq Tokens' /\ NewToken \in Tokens'
           /\ tokens' \in [Users -> [uuid: Tokens', valid: BOOLEAN]]
           /\ tokens'[u] = [uuid |-> NewToken, valid |-> TRUE]
           /\ \A v \in Users \ {u} : tokens'[v] = tokens[v]
<1>1. issued \in Seq(Users) /\ tokens \in [Users -> [uuid: Tokens, valid: BOOLEAN]]
  BY DEF TypeOK
<1>2. issued' = Append(issued, u) /\ NewToken = Len(issued) + 1
  BY DEF CreateOrProlongToken, NewToken
<1>3. DOMAIN issued = 1..Len(issued) /\ Len(issued) \in Nat
  BY <1>1
<1>4. /\ issued' \in Seq(Users) /\ Len(issued') = Len(issued) + 1
      /\ issued'[Len(issued) + 1] = u
      /\ \A k \in 1..Len(issued) : issued'[k] = issued[k]
  BY <1>1, <1>2
<1>5. DOMAIN issued' = DOMAIN issued \cup {NewToken} /\ NewToken \notin DOMAIN issued
  BY <1>2, <1>3, <1>4
<1>6. Tokens \subseteq Tokens' /\ NewToken \in Tokens'
  BY <1>5 DEF Tokens
<1>7. /\ tokens' \in [Users -> [uuid: Tokens', valid: BOOLEAN]]
      /\ tokens'[u] = [uuid |-> NewToken, valid |-> TRUE]
      /\ \A v \in Users \ {u} : tokens'[v] = tokens[v]
  BY <1>1, <1>6 DEF CreateOrProlongToken
<1> QED
  BY <1>2, <1>3, <1>4, <1>5, <1>6, <1>7

\* States of the tab stay such when there are more tokens.
LEMMA TabTypeGrows ==
    ASSUME tab \in TabState, Tokens \subseteq Tokens', UNCHANGED tab
    PROVE  tab' \in TabState'
BY DEF TabState

\* The index shown stays justified while rows change.
LEMMA IndexStays ==
    ASSUME IndexOK, RowsStay, UNCHANGED tab
    PROVE  IndexOK'
BY DEF IndexOK, IndexOwned, IndexForKnownPeople, RowsStay

\* A page or a request that is not the index needs no justification.
LEMMA IndexLeft ==
    ASSUME tab'.pc \in {"asked", "redirected"} \/ tab'.page # "index"
    PROVE  IndexOK'
BY DEF IndexOK, IndexOwned, IndexForKnownPeople

\* What the tokens and the feed say stays when only rows of users change.
LEMMA TokensStay ==
    ASSUME TokensOK, TypeOK, RowsStay, UNCHANGED <<tokens, issued>>,
           pc' = "login" => users'[feed'[next']] # "absent"
    PROVE  TokensOK'
BY DEF TokensOK, RowsStay

-----------------------------------------------------------------------------
(* The bot. *)

\* The bounds are kept.
LEMMA BoundsType ==
    ASSUME TypeOK, (\E kind : Fault(kind)) \/ Calm
    PROVE  faults' \in 0..MaxFaults /\ changes' \in 0..MaxChanges
BY SiteAssumption DEF TypeOK, Fault, Calm, bounds

\* The processor leaves an update with its position inside the feed.
LEMMA DoneType ==
    ASSUME TypeOK, Done, next <= Len(feed), UNCHANGED feed
    PROVE  pc' = "idle" /\ next' \in 1..(Len(feed') + 1)
<1>1. Len(feed) \in Nat /\ next \in 1..(Len(feed) + 1)
  BY DEF TypeOK
<1> QED
  BY <1>1 DEF Done

\* processMessage.
LEMMA RecordSenderInv ==
    ASSUME SInv, RecordSender
    PROVE  SInv'
<1>1. TypeOK /\ TokensOK /\ IndexOK
  BY DEF SInv
<1>2. /\ next \in 1..(Len(feed) + 1) /\ next <= Len(feed) /\ Len(feed) \in Nat
      /\ feed[next] \in Users /\ feed' = feed /\ sent' = sent /\ outbox' = outbox
      /\ UNCHANGED <<tokens, issued, cookie, tab>>
  BY <1>1 DEF RecordSender, Fails, TypeOK, browser
<1>3. /\ users' \in [Users -> Statuses] /\ RowsStay
      /\ pc' = "login" => users'[feed[next]] # "absent"
  <2>1. CASE UpdateOrCreateUser(feed[next], "new")
    BY <1>1, <1>2, <2>1, UserWritten
  <2>2. CASE UNCHANGED users /\ Fails
    BY <1>1, <2>2 DEF TypeOK, RowsStay, Fails, Done
  <2> QED
    BY <2>1, <2>2 DEF RecordSender
<1>4. pc' \in {"idle", "login"} /\ next' \in 1..(Len(feed') + 1)
      /\ (pc' = "login" => next' = next)
  BY <1>1, <1>2, DoneType DEF RecordSender, Fails
<1>5. faults' \in 0..MaxFaults /\ changes' \in 0..MaxChanges
  BY <1>1, BoundsType DEF RecordSender, Fails
<1>6. TypeOK'
  BY <1>1, <1>2, <1>3, <1>4, <1>5 DEF TypeOK, Tokens, TabState
<1>7. TokensOK' /\ IndexOK'
  BY <1>1, <1>2, <1>3, <1>4, TokensStay, IndexStays
<1> QED
  BY <1>6, <1>7 DEF SInv

\* processLoginCommand.
LEMMA LoginInv ==
    ASSUME SInv, Login
    PROVE  SInv'
<1>1. TypeOK /\ TokensOK /\ IndexOK
  BY DEF SInv
<1>2. /\ next <= Len(feed) /\ feed[next] \in Users /\ users[feed[next]] # "absent"
      /\ feed' = feed /\ sent' = sent /\ UNCHANGED <<users, cookie, tab>> /\ Done
  BY <1>1 DEF Login, TypeOK, TokensOK, browser
<1>3. pc' = "idle" /\ next' \in 1..(Len(feed') + 1)
  BY <1>1, <1>2, DoneType
<1>4. faults' \in 0..MaxFaults /\ changes' \in 0..MaxChanges
  BY <1>1, BoundsType DEF Login
<1>5. IndexOK'
  BY <1>1, <1>2, IndexStays DEF RowsStay
<1>6. CASE CreateOrProlongToken(feed[next])
  <2>1. /\ issued' \in Seq(Users) /\ Tokens \subseteq Tokens' /\ NewToken \in DOMAIN issued'
        /\ DOMAIN issued \subseteq DOMAIN issued'
        /\ tokens' \in [Users -> [uuid: Tokens', valid: BOOLEAN]]
    BY <1>1, <1>2, <1>6, TokenMade
  <2>2. outbox' \in Seq(DOMAIN issued')
    <3>1. outbox \in Seq(DOMAIN issued')
      <4>1. outbox \in Seq(DOMAIN issued)
        BY <1>1 DEF TypeOK
      <4> QED
        BY <2>1, <4>1, SeqMonotonic, Zenon
    <3>2. outbox' = outbox \/ outbox' = Append(outbox, NewToken)
      BY DEF Login
    <3> DEFINE uuids == DOMAIN issued'
    <3>3. outbox \in Seq(uuids) /\ NewToken \in uuids
      BY <2>1, <3>1
    <3> HIDE DEF uuids
    <3>4. outbox' \in Seq(uuids)
      BY <3>2, <3>3, LongerSeq
    <3> QED
      BY <3>4 DEF uuids
  <2>3. tab' \in TabState'
    BY <1>1, <1>2, <2>1, TabTypeGrows DEF TypeOK
  <2>4. TypeOK'
    BY <1>1, <1>2, <1>3, <1>4, <2>1, <2>2, <2>3 DEF TypeOK
  <2>5. TokensOK'
    <3>1. SUFFICES ASSUME NEW u \in Users, tokens'[u].uuid # None
                   PROVE  users'[u] # "absent" /\ issued'[tokens'[u].uuid] = u
      BY <1>3 DEF TokensOK
    <3>2. CASE u = feed[next]
      BY <1>1, <1>2, <1>6, <3>2, TokenMade
    <3>3. CASE u # feed[next]
      <4>1. tokens'[u] = tokens[u] /\ \A k \in DOMAIN issued : issued'[k] = issued[k]
        BY <1>1, <1>2, <1>6, <3>3, TokenMade
      <4>2. tokens[u].uuid \in DOMAIN issued
        BY <1>1, <3>1, <4>1 DEF TypeOK, Tokens
      <4> QED
        BY <1>1, <1>2, <3>1, <4>1, <4>2 DEF TokensOK
    <3> QED
      BY <3>2, <3>3
  <2> QED
    BY <1>5, <2>4, <2>5 DEF SInv
<1>7. CASE UNCHANGED <<tokens, issued, outbox>>
  <2>1. TypeOK'
    BY <1>1, <1>2, <1>3, <1>4, <1>7 DEF TypeOK, Tokens, TabState
  <2>2. TokensOK'
    BY <1>1, <1>2, <1>3, <1>7 DEF TokensOK
  <2> QED
    BY <1>5, <2>1, <2>2 DEF SInv
<1> QED
  BY <1>6, <1>7 DEF Login

\* startProcessingMessages.
LEMMA SendMessageInv ==
    ASSUME SInv, SendMessage
    PROVE  SInv'
<1>1. TypeOK /\ TokensOK /\ IndexOK
  BY DEF SInv
<1>2. /\ UNCHANGED <<users, tokens, issued, cookie, tab, feed, next, pc>>
      /\ faults' \in 0..MaxFaults /\ changes' \in 0..MaxChanges
  BY <1>1, BoundsType DEF SendMessage, db, browser
<1>3. /\ outbox \in Seq(DOMAIN issued) /\ Head(outbox) \in DOMAIN issued
      /\ Tail(outbox) \in Seq(DOMAIN issued)
  BY <1>1 DEF SendMessage, TypeOK
<1>4. outbox' \in Seq(DOMAIN issued) /\ sent' \subseteq DOMAIN issued
  <2>1. sent' \subseteq DOMAIN issued
    BY <1>1, <1>3 DEF SendMessage, TypeOK
  <2>2. outbox' = Tail(outbox) \/ outbox' = Append(Tail(outbox), Head(outbox))
    BY DEF SendMessage
  <2> DEFINE uuids == DOMAIN issued
  <2>3. Tail(outbox) \in Seq(uuids) /\ Head(outbox) \in uuids
    BY <1>3
  <2> HIDE DEF uuids
  <2>4. outbox' \in Seq(uuids)
    BY <2>2, <2>3, LongerSeq
  <2> QED
    BY <2>1, <2>4 DEF uuids
<1>5. TypeOK'
  BY <1>1, <1>2, <1>4 DEF TypeOK, Tokens, TabState
<1>6. TokensOK' /\ IndexOK'
  BY <1>1, <1>2 DEF TokensOK, IndexOK, IndexOwned, IndexForKnownPeople
<1> QED
  BY <1>5, <1>6 DEF SInv

\* Other updates write rows of users.
LEMMA OtherUpdateInv ==
    ASSUME SInv, OtherUpdate
    PROVE  SInv'
<1>1. TypeOK /\ TokensOK /\ IndexOK
  BY DEF SInv
<1>2. users' \in [Users -> Statuses] /\ RowsStay
  <2>1. ASSUME NEW u \in Users, NEW status \in {"active", "not_active", "new"},
               UpdateOrCreateUser(u, status)
        PROVE  users' \in [Users -> Statuses] /\ RowsStay
    BY <1>1, <2>1, UserWritten
  <2>2. ASSUME NEW u \in Users, NEW status \in {"accepted", "rejected", "banned"},
               users' = [users EXCEPT ![u] = status]
        PROVE  users' \in [Users -> Statuses] /\ RowsStay
    BY <1>1, <2>2 DEF TypeOK, Statuses, RowsStay
  <2> QED
    BY <2>1, <2>2 DEF OtherUpdate
<1>3. faults' \in 0..MaxFaults /\ changes' \in 0..MaxChanges
  <2>1. changes < MaxChanges /\ changes' = changes + 1 /\ faults' = faults
    BY DEF OtherUpdate
  <2>2. faults \in 0..MaxFaults /\ changes \in 0..MaxChanges
    BY <1>1 DEF TypeOK
  <2> QED
    BY <2>1, <2>2, SiteAssumption
<1>4. UNCHANGED <<tokens, issued, feed, next, pc, outbox, sent, cookie, tab>> /\ pc = "idle"
  BY DEF OtherUpdate, bot, browser
<1>5. TypeOK'
  BY <1>1, <1>2, <1>3, <1>4 DEF TypeOK, Tokens, TabState
<1>6. TokensOK' /\ IndexOK'
  BY <1>1, <1>2, <1>4, TokensStay, IndexStays
<1> QED
  BY <1>5, <1>6 DEF SInv

\* A token expires.
LEMMA ExpireInv ==
    ASSUME SInv, Expire
    PROVE  SInv'
<1>1. TypeOK /\ TokensOK /\ IndexOK
  BY DEF SInv
<1>2. UNCHANGED <<users, issued, feed, next, pc, outbox, sent, cookie, tab, faults, changes>>
  BY DEF Expire, Calm, bot, browser, bounds
<1>3. PICK u \in Users : tokens' = [tokens EXCEPT ![u].valid = FALSE]
  BY DEF Expire
<1>4. tokens \in [Users -> [uuid: Tokens, valid: BOOLEAN]]
  BY <1>1 DEF TypeOK
<1>5. /\ tokens' \in [Users -> [uuid: Tokens, valid: BOOLEAN]]
      /\ \A v \in Users : tokens'[v].uuid = tokens[v].uuid
  BY <1>3, <1>4
<1>6. TypeOK'
  BY <1>1, <1>2, <1>5 DEF TypeOK, Tokens, TabState
<1>7. TokensOK' /\ IndexOK'
  BY <1>1, <1>2, <1>5 DEF TokensOK, IndexOK, IndexOwned, IndexForKnownPeople
<1> QED
  BY <1>6, <1>7 DEF SInv

-----------------------------------------------------------------------------
(* The web server and the browser. *)

\* A step of the tab or of the cookie leaves the bot and the tables alone.
LEMMA TabInv ==
    ASSUME SInv, UNCHANGED <<db, bot>>, Calm \/ Fault("db"),
           cookie' \in Tokens, tab' \in TabState, IndexOK'
    PROVE  SInv'
<1>1. TypeOK /\ TokensOK
  BY DEF SInv
<1>2. UNCHANGED <<users, tokens, issued, feed, next, pc, outbox, sent>>
  BY DEF db, bot
<1>3. faults' \in 0..MaxFaults /\ changes' \in 0..MaxChanges
  BY <1>1, BoundsType
<1>4. Tokens' = Tokens /\ TabState' = TabState
  BY <1>2 DEF Tokens, TabState
<1>5. TypeOK' /\ TokensOK'
  BY <1>1, <1>2, <1>3, <1>4 DEF TypeOK, TokensOK
<1> QED
  BY <1>5 DEF SInv

\* Redirects and pages are states of the tab.
LEMMA AnswerTypes ==
    /\ \A route \in Routes, token \in Tokens \cup {Keep} : Redirect(route, token) \in TabState
    /\ \A route \in Routes \cup {"link"}, token \in Tokens : Asks(route, token) \in TabState
    /\ \A name \in Pages, user \in Users \cup {Nobody} :
          Page(name, user) \in TabState /\ Show(Page(name, user)) \in TabState
BY DEF TabState, Redirect, Asks, Page, Show

\* Login page, Auth and ProfileRedirect: the index is shown to known people only.
LEMMA ServeInv ==
    ASSUME SInv, Serve
    PROVE  SInv'
<1>1. /\ TypeOK /\ tab \in TabState /\ tab.pc = "asked" /\ UNCHANGED <<db, bot>>
      /\ Calm \/ Fault("db")
  BY DEF Serve, ServeLogin, ServeLink, ServeNothing, ServePage, SInv, TypeOK
<1>2. tab.route \in Routes \cup {"link"} /\ tab.token \in Tokens
  BY <1>1 DEF TabState
<1>3. None \in Tokens /\ UNCHANGED users
  BY <1>1 DEF Tokens, db
<1>4. ASSUME NEW answer \in TabState, Answers(answer),
             answer.pc = "redirected" \/ answer.page # "index"
      PROVE  SInv'
  BY <1>1, <1>4, TabInv, IndexLeft DEF Answers, SInv, TypeOK
<1>5. ASSUME NEW route \in Routes, NEW token \in Tokens \cup {Keep}, Answers(Redirect(route, token))
      PROVE  SInv'
  BY <1>4, <1>5, AnswerTypes DEF Redirect
<1>6. CASE ServeLogin \/ ServeNothing
  <2>1. Answers(Show(Other))
    BY <1>6 DEF ServeLogin, ServeNothing
  <2>2. Show(Other) \in TabState /\ Show(Other).page # "index"
    BY AnswerTypes DEF Other, Pages, Show, Page
  <2> QED
    BY <1>4, <2>1, <2>2
<1>7. CASE ServeLink
  BY <1>2, <1>5, <1>7 DEF ServeLink, Routes
<1>8. CASE ServePage
  <2>1. CASE Answers(Refuse)
    BY <1>3, <1>5, <2>1 DEF Refuse, Routes
  <2>2. ASSUME NEW u \in Users, Owns(u, tab.token), Answers(Authenticated(tab.route, u))
        PROVE  SInv'
    <3>1. CASE users[u] = "banned" \/ ProfileRedirect(tab.route, u)
      BY <1>5, <2>2, <3>1 DEF Authenticated, Routes
    <3> DEFINE name == IF tab.route = "/" THEN "index" ELSE "profile"
    <3>2. CASE ~(users[u] = "banned" \/ ProfileRedirect(tab.route, u))
      <4>1. Answers(Show(Page(name, u)))
        BY <2>2, <3>2 DEF Authenticated, Handle
      <4>2. name = "index" => users[u] \notin {"absent", "new"}
        BY <2>2, <3>2 DEF Owns, ProfileRedirect
      <4>3. /\ name \in Pages /\ Show(Page(name, u)) \in TabState
            /\ Show(Page(name, u)).page = name /\ Show(Page(name, u)).user = u
        BY AnswerTypes DEF Pages, Show, Page
      <4>4. tab' = Show(Page(name, u)) /\ UNCHANGED cookie
        BY <4>1 DEF Answers
      <4>5. IndexOK'
        BY <1>3, <4>2, <4>3, <4>4 DEF IndexOK, IndexOwned, IndexForKnownPeople
      <4> QED
        BY <1>1, <4>3, <4>4, <4>5, TabInv DEF TypeOK
    <3> QED
      BY <3>1, <3>2
  <2> QED
    BY <1>8, <2>1, <2>2 DEF ServePage
<1> QED
  BY <1>6, <1>7, <1>8 DEF Serve

\* The browser shows a page or follows a redirect.
LEMMA ReceiveInv ==
    ASSUME SInv, Receive
    PROVE  SInv'
<1>1. /\ TypeOK /\ IndexOK /\ tab \in TabState /\ cookie \in Tokens
      /\ UNCHANGED <<db, bot>> /\ Calm /\ UNCHANGED users
  BY DEF Receive, SInv, TypeOK, db
<1>2. CASE tab.pc = "redirected"
  <2>1. tab.route \in Routes /\ tab.set \in Tokens \cup {Keep}
    BY <1>1, <1>2 DEF TabState
  <2>2. cookie' \in Tokens /\ tab' = Asks(tab.route, cookie')
    BY <1>1, <1>2, <2>1 DEF Receive
  <2>3. tab' \in TabState /\ tab'.pc = "asked"
    BY <2>1, <2>2, AnswerTypes DEF Asks
  <2> QED
    BY <1>1, <2>2, <2>3, TabInv, IndexLeft
<1>3. CASE tab.pc = "answered"
  <2>1. tab.page \in Pages /\ tab.user \in Users \cup {Nobody}
    BY <1>1, <1>3 DEF TabState
  <2>2. cookie' \in Tokens /\ tab' = Page(tab.page, tab.user)
    BY <1>1, <1>3 DEF Receive
  <2>3. tab' \in TabState /\ tab'.page = tab.page /\ tab'.user = tab.user
    BY <2>1, <2>2, AnswerTypes DEF Page
  <2>4. IndexOK'
    BY <1>1, <1>3, <2>3 DEF IndexOK, IndexOwned, IndexForKnownPeople
  <2> QED
    BY <1>1, <2>2, <2>3, <2>4, TabInv
<1> QED
  BY <1>2, <1>3 DEF Receive

\* Somebody asks for a page or follows a link.
LEMMA VisitInv ==
    ASSUME SInv, Visit
    PROVE  SInv'
<1>1. /\ TypeOK /\ cookie \in Tokens /\ sent \subseteq Tokens
      /\ UNCHANGED <<db, bot, cookie>> /\ Calm
  BY DEF Visit, SInv, TypeOK, Tokens
<1>2. PICK route \in Routes \cup {"link"}, token \in Tokens : tab' = Asks(route, token)
  BY <1>1 DEF Visit, Routes
<1>3. tab' \in TabState /\ tab'.pc = "asked"
  BY <1>2, AnswerTypes DEF Asks
<1> QED
  BY <1>1, <1>3, TabInv, IndexLeft

\* Another tab changes the cookie.
LEMMA CookieChangesInv ==
    ASSUME SInv, CookieChanges
    PROVE  SInv'
<1>1. /\ TypeOK /\ IndexOK /\ tab \in TabState /\ cookie' \in Tokens
      /\ UNCHANGED <<db, bot, tab, users>> /\ Calm
  BY DEF CookieChanges, SInv, TypeOK, Tokens, db
<1>2. IndexOK'
  BY <1>1 DEF IndexOK, IndexOwned, IndexForKnownPeople
<1> QED
  BY <1>1, <1>2, TabInv

\* Somebody sends /login.
LEMMA AskInv ==
    ASSUME SInv, Ask
    PROVE  SInv'
<1>1. TypeOK /\ TokensOK /\ IndexOK
  BY DEF SInv
<1>2. UNCHANGED <<users, tokens, issued, next, pc, outbox, sent, cookie, tab, faults, changes>>
  BY DEF Ask, Calm, db, browser, bounds
<1>3. PICK u \in Users : feed' = Append(feed, u)
  BY DEF Ask
<1>4. feed \in Seq(Users) /\ next \in 1..(Len(feed) + 1) /\ Len(feed) \in Nat
  BY <1>1 DEF TypeOK
<1>5. /\ feed' \in Seq(Users) /\ Len(feed') = Len(feed) + 1
      /\ next <= Len(feed) => feed'[next] = feed[next]
  BY <1>3, <1>4
<1>6. TypeOK'
  <2>1. next' \in 1..(Len(feed') + 1) /\ (pc' = "login" => next' <= Len(feed'))
    BY <1>1, <1>2, <1>4, <1>5 DEF TypeOK
  <2> QED
    BY <1>1, <1>2, <1>5, <2>1 DEF TypeOK, Tokens, TabState
<1>7. TokensOK' /\ IndexOK'
  BY <1>1, <1>2, <1>5 DEF TypeOK, TokensOK, IndexOK, IndexOwned, IndexForKnownPeople
<1> QED
  BY <1>6, <1>7 DEF SInv

\* The process dies and starts again.
LEMMA CrashInv ==
    ASSUME SInv, Crash
    PROVE  SInv'
<1>1. TypeOK /\ TokensOK /\ IndexOK /\ tab \in TabState
  BY DEF SInv, TypeOK
<1>2. /\ UNCHANGED <<users, tokens, issued, feed, sent, cookie>>
      /\ next' \in 1..(Len(feed') + 1) /\ pc' = "idle"
      /\ outbox' \in Seq(DOMAIN issued)
  BY DEF Crash, db
<1>3. faults' \in 0..MaxFaults /\ changes' \in 0..MaxChanges
  BY <1>1, BoundsType DEF Crash
<1>4. tab' = tab \/ tab' = Other
  BY DEF Crash
<1>5. Other \in TabState /\ Other.page # "index"
  BY AnswerTypes DEF Other, Page, Pages
<1>6. TypeOK'
  BY <1>1, <1>2, <1>3, <1>4, <1>5 DEF TypeOK, Tokens, TabState
<1>7. TokensOK'
  BY <1>1, <1>2 DEF TokensOK
<1>8. IndexOK'
  BY <1>1, <1>2, <1>4, <1>5, IndexLeft DEF IndexOK, IndexOwned, IndexForKnownPeople
<1> QED
  BY <1>6, <1>7, <1>8 DEF SInv

-----------------------------------------------------------------------------
(* The theorems. *)

\* The invariant holds in the beginning.
LEMMA SInvInit == Init => SInv
<1> SUFFICES ASSUME Init PROVE SInv
  OBVIOUS
<1>1. Page("other", Nobody) \in TabState /\ Page("other", Nobody).page = "other"
  BY AnswerTypes DEF Pages, Page
<1>2. TypeOK
  <2>1. /\ users \in [Users -> Statuses] /\ issued \in Seq(Users)
        /\ tokens \in [Users -> [uuid: Tokens, valid: BOOLEAN]] /\ cookie \in Tokens
    BY DEF Init, Statuses, Tokens, NoLink
  <2>2. feed \in Seq(Users) /\ next \in 1..(Len(feed) + 1) /\ pc = "idle"
    BY DEF Init
  <2>3. outbox \in Seq(DOMAIN issued) /\ sent \subseteq DOMAIN issued
    BY DEF Init
  <2>4. faults \in 0..MaxFaults /\ changes \in 0..MaxChanges
    BY SiteAssumption DEF Init
  <2> QED
    BY <1>1, <2>1, <2>2, <2>3, <2>4 DEF TypeOK, Init, Other
<1>3. TokensOK
  BY DEF Init, TokensOK, NoLink
<1>4. IndexOK
  BY <1>1 DEF Init, Other, IndexOK, IndexOwned, IndexForKnownPeople
<1> QED
  BY <1>2, <1>3, <1>4 DEF SInv

\* ... and every step keeps it.
LEMMA SInvNext == SInv /\ [Next]_vars => SInv'
<1> SUFFICES ASSUME SInv, [Next]_vars PROVE SInv'
  OBVIOUS
<1>1. CASE UNCHANGED vars
  BY <1>1 DEF vars, db, bot, browser, bounds, SInv, TypeOK, Tokens, TabState, TokensOK, IndexOK,
       IndexOwned, IndexForKnownPeople
<1>2. CASE Next
  BY <1>2, RecordSenderInv, LoginInv, SendMessageInv, OtherUpdateInv, ExpireInv, ServeInv,
     ReceiveInv, VisitInv, CookieChangesInv, AskInv, CrashInv DEF Next, Processor
<1> QED
  BY <1>1, <1>2

\* Tokens refer to people the bot knows, and hold the uuid made for them.
THEOREM SInvHolds == Spec => []SInv
BY SInvInit, SInvNext, PTL DEF Spec

\* Every reachable state is well typed (TypeOK).
THEOREM SiteTypeCorrect == Spec => []TypeOK
<1>1. SInv => TypeOK
  BY DEF SInv
<1> QED
  BY <1>1, SInvHolds, PTL

\* The index is seen by people the bot has got to know (IndexForKnownPeople).
THEOREM IndexIsForKnownPeople == Spec => []IndexForKnownPeople
<1>1. SInv => IndexForKnownPeople
  BY DEF SInv, IndexOK
<1> QED
  BY <1>1, SInvHolds, PTL

\* What a step does to one person's token: nothing, an end, or a new one.
LEMMA TokenStep ==
    ASSUME SInv, [Next]_vars, NEW u \in Users
    PROVE  \/ UNCHANGED issued /\ tokens'[u].uuid = tokens[u].uuid
              /\ (tokens'[u].valid => tokens[u].valid)
           \/ \E v \in Users : CreateOrProlongToken(v)
<1>1. tokens \in [Users -> [uuid: Tokens, valid: BOOLEAN]]
  BY DEF SInv, TypeOK
<1>2. CASE Expire
  <2>1. PICK v \in Users : tokens' = [tokens EXCEPT ![v].valid = FALSE]
    BY <1>2 DEF Expire
  <2>2. UNCHANGED issued
    BY <1>2 DEF Expire
  <2>3. tokens'[u].uuid = tokens[u].uuid /\ (tokens'[u].valid => tokens[u].valid)
    BY <1>1, <2>1
  <2> QED
    BY <2>2, <2>3
<1>3. CASE Login
  <2>1. feed[next] \in Users
    BY <1>3 DEF Login, SInv, TypeOK
  <2> QED
    BY <1>3, <2>1 DEF Login
<1>4. CASE UNCHANGED <<tokens, issued>>
  BY <1>4
<1>5. Next => Expire \/ Login \/ UNCHANGED <<tokens, issued>>
  BY DEF Next, Processor, RecordSender, SendMessage, OtherUpdate, Serve, Receive, Visit,
       CookieChanges, Ask, Crash, db
<1> QED
  BY <1>2, <1>3, <1>4, <1>5 DEF vars, db

\* A token opens nobody's account but its owner's, and none that it did not
\* open before.
LEMMA OldTokens ==
    ASSUME SInv, [Next]_vars, SInv', NEW token \in DOMAIN issued, NEW u \in Users,
           Owns(u, token)'
    PROVE  u = issued[token] /\ Owns(u, token)
<1>1. /\ tokens'[u].uuid = token /\ tokens'[u].valid /\ token # None
      /\ issued'[token] = u
  <2>1. issued \in Seq(Users)
    BY DEF SInv, TypeOK
  <2>2. token # None
    BY <2>1 DEF None
  <2>3. tokens'[u].uuid = token /\ tokens'[u].valid
    BY DEF Owns
  <2> QED
    BY <2>2, <2>3 DEF SInv, TokensOK
<1>2. CASE UNCHANGED issued /\ tokens'[u].uuid = tokens[u].uuid
           /\ (tokens'[u].valid => tokens[u].valid)
  BY <1>1, <1>2 DEF Owns, SInv, TokensOK
<1>3. ASSUME NEW v \in Users, CreateOrProlongToken(v)
      PROVE  u = issued[token] /\ Owns(u, token)
  <2>1. v # u /\ tokens'[u] = tokens[u] /\ issued'[token] = issued[token]
    BY <1>1, <1>3, TokenMade DEF SInv
  <2> QED
    BY <1>1, <2>1 DEF Owns, SInv, TokensOK
<1> QED
  BY <1>2, <1>3, TokenStep

\* A link that has stopped working never works again, nor for anyone else
\* (DeadLinksStayDead).
THEOREM DeadLinks == Spec => DeadLinksStayDead
<1>1. ASSUME SInv, SInv', [Next]_vars, NEW token \in DOMAIN issued
      PROVE  /\ ~Opens(token) => ~Opens(token)'
             /\ \A u \in Users : Owns(u, token)' => u = issued[token]
  BY <1>1, OldTokens DEF Opens
<1>2. SInv /\ SInv' /\ [Next]_vars =>
        [\A token \in DOMAIN issued :
            /\ ~Opens(token) => ~Opens(token)'
            /\ \A u \in Users : Owns(u, token)' => u = issued[token]]_vars
  BY <1>1
<1> QED
  BY <1>2, SInvHolds, PTL DEF Spec, DeadLinksStayDead
=============================================================================
