-------------------------------- MODULE Site --------------------------------
(***************************************************************************)
(* How a person gets from the bot to the pages of the site: /login makes a *)
(* token and answers with a link (pkg/telegram, pkg/database), the link    *)
(* puts the token into the browser's cookie, and every further request is  *)
(* let through, or redirected, by two middlewares (pkg/middleware).        *)
(*                                                                         *)
(* One tab of a browser is modelled; the other tabs share its cookie and   *)
(* may change it at any moment.  What the other handlers of the bot do to  *)
(* a row of users (Moderation) is one action here, and the queue of        *)
(* updates (BotPipeline) is reduced to its /login commands.                *)
(***************************************************************************)
EXTENDS Integers, Sequences

CONSTANTS
    Users,      \* people
    Nobody,     \* stands for the owner of a page that is nobody's
    Faults,     \* which failures may happen
    MaxAsks,    \* bound: /login commands
    MaxFaults,  \* bound: failures
    MaxChanges  \* bound: changes of status by other updates

ASSUME SiteAssumption ==
    /\ Nobody \notin Users
    /\ Faults \subseteq {"db", "send", "429", "crash"}
    /\ MaxAsks \in Nat /\ MaxFaults \in Nat /\ MaxChanges \in Nat

VARIABLES
    \* PostgreSQL
    users,    \* status of each user's row
    tokens,   \* each user's row of tokens
    issued,   \* history: for whom each uuid was made; a uuid is its index
    \* the bot
    feed,     \* who has sent /login, in the order of the updates
    next,     \* the update being processed, or to be processed next
    pc,       \* where the processor is in that update
    outbox,   \* links in messagesChan
    \* people
    sent,     \* links that have arrived in their owner's chat
    cookie,   \* the browser's token
    tab,      \* what the tab is doing
    \* bounds
    faults, changes

db     == <<users, tokens, issued>>
bot    == <<feed, next, pc, outbox, sent>>
browser == <<cookie, tab>>
bounds == <<faults, changes>>
vars   == <<db, bot, browser, bounds>>

Statuses == {"absent", "new", "active", "not_active", "accepted", "rejected", "banned"}

None   == 0          \* no token
NoLink == [uuid |-> None, valid |-> FALSE]

Routes == {"/", "/profile", "/login", "/ban"}
Pages  == {"index", "profile", "other"}

\* Other pages (nothing yet, Telegram's, an error) are nobody's.
\* A page is made of the copy of the user row that Auth has read.
Page(name, user) == [pc |-> "shown", page |-> name, user |-> user]
Other == Page("other", Nobody)

\* A request carries the cookie of the moment in which it is sent.
Asks(route, token) == [pc |-> "asked", route |-> route, token |-> token]

Init ==
    /\ users = [u \in Users |-> "absent"]
    /\ tokens = [u \in Users |-> NoLink]
    /\ issued = <<>>
    /\ feed = <<>> /\ next = 1 /\ pc = "idle"
    /\ outbox = <<>> /\ sent = {}
    /\ cookie = None
    /\ tab = Other
    /\ faults = 0 /\ changes = 0

Fault(kind) ==
    kind \in Faults /\ faults < MaxFaults /\ faults' = faults + 1 /\ UNCHANGED changes

Calm == UNCHANGED bounds

-----------------------------------------------------------------------------
(* The bot.  Names that end in _ and a word are faulty variants of the       *)
(* definition that follows them; no action uses them.                        *)

UpdateOrCreateUser_Overwrite(u, status) ==  \* writes whatever status it is given
    users' = [users EXCEPT ![u] = status]

\* Only active and not_active are written into a row that exists.
UpdateOrCreateUser(u, status) ==
    users' = [users EXCEPT ![u] =
        IF @ = "absent" \/ status \in {"active", "not_active"} THEN status ELSE @]

Done_Skipping == pc' = "idle" /\ next' = next + 2

Done == pc' = "idle" /\ next' = next + 1

Fails == Fault("db") /\ Done /\ UNCHANGED <<feed, outbox, sent>>

\* processMessage: the row of who writes in a private chat.
RecordSender ==
    /\ pc = "idle" /\ next <= Len(feed)
    /\ \/ /\ UpdateOrCreateUser(feed[next], "new")
          /\ pc' = "login"
          /\ Calm /\ UNCHANGED <<feed, next, outbox, sent>>
       \/ Fails /\ (UNCHANGED users \/ UpdateOrCreateUser(feed[next], "new"))
    /\ UNCHANGED <<tokens, issued, browser>>

NewToken == Len(issued) + 1

CreateOrProlongToken_Keep(u) ==  \* the conflicting row keeps its uuid
    /\ tokens' = [tokens EXCEPT ![u] =
                     IF @ = NoLink THEN [uuid |-> NewToken, valid |-> TRUE]
                     ELSE [@ EXCEPT !.valid = TRUE]]
    /\ issued' = Append(issued, u)

\* A new uuid and a new date; a row there is gets both.
CreateOrProlongToken(u) ==
    /\ tokens' = [tokens EXCEPT ![u] = [uuid |-> NewToken, valid |-> TRUE]]
    /\ issued' = Append(issued, u)

\* processLoginCommand.  The statement may fail without effect, or succeed
\* without an answer: then the old link is dead and there is no new one.
Login ==
    /\ pc = "login" /\ Done
    /\ \/ /\ CreateOrProlongToken(feed[next])
          /\ outbox' = Append(outbox, NewToken)
          /\ Calm
       \/ /\ Fault("db")
          /\ UNCHANGED outbox
          /\ CreateOrProlongToken(feed[next]) \/ UNCHANGED <<tokens, issued>>
    /\ UNCHANGED <<users, feed, sent, browser>>

Processor == RecordSender \/ Login

\* startProcessingMessages: delivered, dropped, or put at the end of the queue.
SendMessage ==
    /\ outbox # <<>>
    /\ \/ outbox' = Tail(outbox) /\ sent' = sent \cup {Head(outbox)} /\ Calm
       \/ outbox' = Tail(outbox) /\ Fault("send") /\ UNCHANGED sent
       \/ outbox' = Append(Tail(outbox), Head(outbox)) /\ Fault("429") /\ UNCHANGED sent
    /\ UNCHANGED <<db, feed, next, pc, browser>>

\* Somebody joins, leaves, is decided upon or, by hand, banned: the processor
\* writes the row between two updates of /login.
OtherUpdate ==
    /\ pc = "idle" /\ changes < MaxChanges
    /\ changes' = changes + 1 /\ UNCHANGED faults
    /\ \E u \in Users :
         \/ \E status \in {"active", "not_active", "new"} : UpdateOrCreateUser(u, status)
         \/ /\ users[u] # "absent"
            /\ \E status \in {"accepted", "rejected", "banned"} :
                 users' = [users EXCEPT ![u] = status]
    /\ UNCHANGED <<tokens, issued, bot, browser>>

\* A month goes by.
Expire ==
    /\ \E u \in Users :
         tokens[u].valid /\ tokens' = [tokens EXCEPT ![u].valid = FALSE]
    /\ Calm /\ UNCHANGED <<users, issued, bot, browser>>

-----------------------------------------------------------------------------
(* The web server. *)

\* GetUserByToken: whose token is it, if it is valid?
Owns(u, token) ==
    tokens[u].uuid = token /\ tokens[u].valid /\ users[u] # "absent"

\* An answer redirects, and may set or clear the cookie, or it is a page.
Keep == -1

Redirect(route, set) == [pc |-> "redirected", route |-> route, set |-> set]
Show(page)           == [page EXCEPT !.pc = "answered"]

\* Auth gives up: no cookie, no such token, or the database does not answer.
Refuse == Redirect("/login", None)

\* The handler behind the middlewares.
Handle(route, user) == Show(Page(IF route = "/" THEN "index" ELSE "profile", user))

ProfileRedirect_Everywhere(route, u) == users[u] = "new"  \* for /profile, too

\* ProfileRedirectMiddleware is used for the index and the users' pages only.
ProfileRedirect(route, u) == route = "/" /\ users[u] = "new"

Authenticated(route, u) ==
    IF users[u] = "banned" THEN Redirect("/ban", Keep)
    ELSE IF ProfileRedirect(route, u) THEN Redirect("/profile", Keep)
    ELSE Handle(route, u)

Answers(answer) == tab' = answer /\ UNCHANGED cookie

\* Without a token the login page leads to Telegram; it puts whatever token it
\* is given into the cookie.
ServeLogin ==
    /\ tab.route = "/login"
    /\ Answers(Show(Other))
    /\ Calm

ServeLink ==
    /\ tab.route = "link"
    /\ Answers(Redirect("/", tab.token))
    /\ Calm

\* /ban has no route.
ServeNothing ==
    /\ tab.route = "/ban"
    /\ Answers(Show(Other))
    /\ Calm

ServePage ==
    /\ tab.route \in {"/", "/profile"}
    /\ LET token == tab.token
       IN  \/ /\ \E u \in Users :
                   Owns(u, token) /\ Answers(Authenticated(tab.route, u))
              /\ Calm
           \/ /\ \A u \in Users : ~Owns(u, token)
              /\ Answers(Refuse)
              /\ Calm
           \/ token # None /\ Fault("db") /\ Answers(Refuse)

Serve ==
    /\ tab.pc = "asked"
    /\ ServeLogin \/ ServeLink \/ ServeNothing \/ ServePage
    /\ UNCHANGED <<db, bot>>

-----------------------------------------------------------------------------
(* The browser. *)

\* The cookie is changed first, then the redirect is followed.
Receive ==
    /\ \/ /\ tab.pc = "redirected"
          /\ cookie' = IF tab.set = Keep THEN cookie ELSE tab.set
          /\ tab' = Asks(tab.route, cookie')
       \/ /\ tab.pc = "answered"
          /\ tab' = Page(tab.page, tab.user)
          /\ UNCHANGED cookie
    /\ Calm /\ UNCHANGED <<db, bot>>

\* Somebody follows a link from the chat, or asks for a page.
Visit ==
    /\ tab.pc = "shown"
    /\ \/ \E link \in sent : tab' = Asks("link", link)
       \/ \E route \in {"/", "/profile"} : tab' = Asks(route, cookie)
    /\ Calm /\ UNCHANGED <<db, bot, cookie>>

\* The cookie lives for a day; a link in another tab replaces it, and so does
\* an answer that refuses another tab's request, however late it comes.
CookieChanges ==
    /\ cookie' \in ({None} \cup sent) \ {cookie}
    /\ Calm /\ UNCHANGED <<db, bot, tab>>

Ask ==
    /\ Len(feed) < MaxAsks
    /\ \E u \in Users : feed' = Append(feed, u)
    /\ Calm /\ UNCHANGED <<db, next, pc, outbox, sent, browser>>

\* The process dies and is started again: requests break off, the channels
\* are empty, and updates may have been lost or be handed out again.
Crash ==
    /\ Fault("crash")
    /\ next' \in 1..(Len(feed) + 1) /\ pc' = "idle" /\ outbox' = <<>>
    /\ tab' = IF tab.pc = "asked" THEN Other ELSE tab
    /\ UNCHANGED <<db, feed, sent, cookie>>

-----------------------------------------------------------------------------
Next ==
    \/ Processor \/ SendMessage \/ OtherUpdate \/ Expire
    \/ Serve \/ Receive \/ Visit \/ CookieChanges
    \/ Ask \/ Crash

Spec == Init /\ [][Next]_vars

\* Goroutines are scheduled and answers arrive; people need not do anything.
Fairness ==
    /\ WF_vars(Processor) /\ WF_vars(SendMessage)
    /\ WF_vars(Serve) /\ WF_vars(Receive)

FairSpec == Spec /\ Fairness

-----------------------------------------------------------------------------
(* What must hold. *)

Tokens == {None} \cup DOMAIN issued

TabState ==
    [pc: {"shown", "answered"}, page: Pages, user: Users \cup {Nobody}]
    \cup [pc: {"asked"}, route: Routes \cup {"link"}, token: Tokens]
    \cup [pc: {"redirected"}, route: Routes, set: Tokens \cup {Keep}]

\* Types; and no link, cookie or request carries a token that was never made.
TypeOK ==
    /\ users \in [Users -> Statuses]
    /\ issued \in Seq(Users)
    /\ tokens \in [Users -> [uuid: Tokens, valid: BOOLEAN]]
    /\ feed \in Seq(Users) /\ next \in 1..(Len(feed) + 1)
    /\ pc \in {"idle", "login"} /\ (pc = "login" => next <= Len(feed))
    /\ outbox \in Seq(DOMAIN issued) /\ sent \subseteq DOMAIN issued
    /\ cookie \in Tokens
    /\ tab \in TabState
    /\ faults \in 0..MaxFaults /\ changes \in 0..MaxChanges

\* The index is for people the bot has got to know: whoever sees it is not, and
\* never again becomes, somebody without a status of their own, although the
\* page rests on a copy of the row and the person goes on writing to the bot
\* (which writes "new" for whoever it does not know).
IndexForKnownPeople ==
    tab.pc \in {"answered", "shown"} =>
        (tab.page = "index" => users[tab.user] \notin {"absent", "new"})

\* Does the link, or the cookie made of it, let its owner in?
Opens(token) == \E u \in Users : Owns(u, token)

\* A link that has stopped working, because it has expired or because a newer
\* one was asked for, never works again, in whatever order commands, crashes
\* and repeated updates come; nor does it open anyone else's account.
DeadLinksStayDead ==
    [][\A token \in DOMAIN issued :
          /\ ~Opens(token) => ~Opens(token)'
          /\ \A u \in Users : Owns(u, token)' => u = issued[token]]_vars

\* Every visit ends on a page: the redirects of login page, Auth and
\* ProfileRedirect make no circle, whatever happens to the row, the token and
\* the cookie between two of them.
VisitsEnd == tab.pc # "shown" ~> tab.pc = "shown"

Waits(u) == \E k \in next..Len(feed) : feed[k] = u

\* The newest link of u has arrived.
HasLink(u) == tokens[u].uuid \in sent

\* When failures have ceased, whoever asks for a link gets one that is theirs
\* and not replaced already, whatever an earlier failure left behind.
LinkArrives ==
    \A u \in Users : (Waits(u) /\ faults = MaxFaults) ~> HasLink(u)
=============================================================================
