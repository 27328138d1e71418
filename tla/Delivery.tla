------------------------------ MODULE Delivery ------------------------------
(***************************************************************************)
(* What the bot promises of the updates it gets and the messages it sends, *)
(* whatever goroutines and channels lie in between and however they fail:  *)
(* a process takes the updates one after the other and leaves none out; a  *)
(* message is accepted once, and then delivered or given up, once; a new    *)
(* process may repeat updates, but misses few.                             *)
(***************************************************************************)
EXTENDS Integers

CONSTANTS
    Messages,
    Window     \* how many updates a restart may lose

VARIABLES
    arrived,    \* there have been the updates 1..arrived
    base,       \* the living process is not given 1..base
    taken,      \* the update it has taken last
    open,       \* is it still working on that one?
    accepted,   \* messages it has accepted
    delivered,  \* ... those that have reached Telegram
    refused     \* ... and those given up: Telegram refused them or did not answer

dvars == <<arrived, base, taken, open, accepted, delivered, refused>>

DInit ==
    /\ arrived = 0 /\ base = 0 /\ taken = 0 /\ open = FALSE
    /\ accepted = {} /\ delivered = {} /\ refused = {}

Arrive == arrived' = arrived + 1 /\ UNCHANGED <<base, taken, open, accepted, delivered, refused>>

\* The next update; it may be dealt with in no time.
Take ==
    /\ ~open /\ taken < arrived
    /\ taken' = taken + 1 /\ open' \in BOOLEAN
    /\ UNCHANGED <<arrived, base, accepted, delivered, refused>>

Close ==
    /\ open /\ open' = FALSE
    /\ UNCHANGED <<arrived, base, taken, accepted, delivered, refused>>

\* The last message about an update may be what its handler ends with.
Accept(m) ==
    /\ m \notin accepted /\ accepted' = accepted \cup {m}
    /\ open' \in {open, FALSE}
    /\ UNCHANGED <<arrived, base, taken, delivered, refused>>

Waiting == accepted \ (delivered \cup refused)

Deliver(m) ==
    /\ m \in Waiting /\ delivered' = delivered \cup {m}
    /\ UNCHANGED <<arrived, base, taken, open, accepted, refused>>

Refuse(m) ==
    /\ m \in Waiting /\ refused' = refused \cup {m}
    /\ UNCHANGED <<arrived, base, taken, open, accepted, delivered>>

Finished == IF open THEN taken - 1 ELSE taken

\* The process dies with its messages.  Its successor gets again what was not
\* confirmed; what was confirmed and not finished is lost.
Restart ==
    /\ base' \in base..arrived /\ base' - Finished <= Window
    /\ taken' = base' /\ open' = FALSE
    /\ accepted' = {} /\ delivered' = {} /\ refused' = {}
    /\ UNCHANGED arrived

DNext ==
    \/ Arrive \/ Take \/ Close \/ Restart
    \/ \E m \in Messages : Accept(m) \/ Deliver(m) \/ Refuse(m)

DSpec == DInit /\ [][DNext]_dvars
=============================================================================
