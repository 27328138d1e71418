---------------------------- MODULE Occurrences ----------------------------
(***************************************************************************)
(* What the scheduler promises of the occurrences of its jobs, whatever    *)
(* processes there are and however they fail: each occurrence of a         *)
(* schedule is handed out once, in the order of the schedule and without   *)
(* leaving one out, and performed at most once after that.                 *)
(***************************************************************************)
EXTENDS Integers

CONSTANTS
    Jobs,
    NextOccurrence(_, _)   \* the first time after t at which job j is to run

NoRow == -1

Occurrence == [job: Jobs, for: Nat]

VARIABLES
    due,    \* when each job is to run next
    hand,   \* occurrences handed out and not performed yet
    done    \* occurrences performed

ovars == <<due, hand, done>>

OInit ==
    /\ due = [j \in Jobs |-> NoRow]
    /\ hand = {} /\ done = {}

\* A job gets its first occurrence, and never another first one.
Enter(j) ==
    /\ due[j] = NoRow /\ due'[j] \in Nat
    /\ due' = [due EXCEPT ![j] = due'[j]]
    /\ UNCHANGED <<hand, done>>

\* Some jobs advance by one occurrence each; the occurrences they leave behind
\* are handed out, or all lost on the way.
Take(J) ==
    /\ \A j \in J : /\ due[j] # NoRow
                    /\ NextOccurrence(j, due[j]) \in Nat
                    /\ NextOccurrence(j, due[j]) > due[j]
    /\ due' = [j \in Jobs |-> IF j \in J THEN NextOccurrence(j, due[j]) ELSE due[j]]
    /\ hand' \in {hand, hand \cup {[job |-> j, for |-> due[j]] : j \in J}}
    /\ UNCHANGED done

Perform(k) ==
    /\ k \in hand
    /\ hand' = hand \ {k} /\ done' = done \cup {k}
    /\ UNCHANGED due

\* Whoever held them died, or has no handler for them.
Lose == hand' \subseteq hand /\ UNCHANGED <<due, done>>

ONext ==
    \/ \E j \in Jobs : Enter(j)
    \/ \E J \in SUBSET Jobs : Take(J)
    \/ \E k \in hand : Perform(k)
    \/ Lose

OSpec == OInit /\ [][ONext]_ovars
=============================================================================
