---------------------------- MODULE MCScheduler ----------------------------
(* Instances of Scheduler for TLC. *)
EXTENDS Scheduler, TLC

CONSTANTS s1, s2, cleanup, often, never

\* The clean-up has its turn every third unit of time, "often" every other one,
\* and "never" (a date such as February 30th) at no time.
MCNextOccurrence(j, t) ==
    CASE j = cleanup -> 3 * (t \div 3 + 1)
      [] j = often   -> 2 * (t \div 2 + 1)
      [] OTHER       -> 0

\* s2 is the release before s1: it lacks the handler of "often".
TwoReleases == (s1 :> {cleanup, often}) @@ (s2 :> {cleanup})

\* One release, two processes.
SameRelease == [s \in Schedulers |-> Jobs]
=============================================================================
