-------------------------- MODULE SchedulerProofs --------------------------
(***************************************************************************)
(* Proofs about Scheduler: Inv is inductive, no occurrence is performed    *)
(* twice, and the scheduler implements Occurrences, for any number of      *)
(* schedulers and jobs, any schedules, any failures and any clock bound.   *)
(***************************************************************************)
EXTENDS Scheduler, TLAPS

USE DEF Zero, NoRow

\* Nothing is no occurrence.
LEMMA NothingIsNoOccurrence == Nothing \notin Occurrence
BY DEF Nothing, Occurrence

\* Before any process runs there are no rows, locks or runs in hand.
LEMMA InitInv == Init => Inv
<1> SUFFICES ASSUME Init PROVE Inv
  OBVIOUS
<1>1. TypeOK
  BY SchedulerAssumption DEF Init, TypeOK, Outcomes, Run
<1> QED
  BY <1>1 DEF Init, Inv, RunsInThePast, HeldRunHasRow, LocksExclude, HandsExclude, HandedOut

\* The next occurrence is a time, perhaps the zero time.
LEMMA NextOccurrenceInNat ==
    ASSUME NEW j \in Jobs, NEW t \in 0..MaxTime
    PROVE  NextOccurrence(j, t) \in Nat
BY SchedulerAssumption

-----------------------------------------------------------------------------
(* Inv is inductive: one lemma per action. *)

LEMMA BootInv ==
    ASSUME Inv, NEW s \in Schedulers, Boot(s), now' = now
    PROVE  Inv'
<1> USE DEF Boot
<1>1. TypeOK'
  BY SchedulerAssumption DEF Inv, TypeOK, Working
<1>2. RunsInThePast' /\ HeldRunHasRow' /\ LocksExclude' /\ HandsExclude' /\ HandedOut'
  BY DEF Inv, RunsInThePast, HeldRunHasRow, RowOf, LocksExclude, HandsExclude, HandedOut
<1> QED
  BY <1>1, <1>2 DEF Inv

\* Ensuring a job leaves the schedule of the others alone, and a job that is
\* new has neither runs nor occurrences in anybody's hand.
LEMMA StartInv ==
    ASSUME Inv, NEW s \in Schedulers, Start(s), now' = now
    PROVE  Inv'
<1>1. CASE \E j \in todo[s] :
             /\ EnsureScheduledJob(j)
             /\ todo' = [todo EXCEPT ![s] = @ \ {j}]
             /\ UNCHANGED pc
  <2>1. PICK j \in todo[s] : /\ EnsureScheduledJob(j)
                             /\ todo' = [todo EXCEPT ![s] = @ \ {j}]
                             /\ UNCHANGED pc
    BY <1>1
  <2>2. j \in Jobs /\ now \in 0..MaxTime
    BY DEF Inv, TypeOK
  <2>3. next' \in [Jobs -> Nat \cup {NoRow}]
    BY <2>1, <2>2, NextOccurrenceInNat DEF EnsureScheduledJob, Inv, TypeOK
  <2>4. \A i \in Jobs : next[i] # NoRow => next'[i] = next[i]
    BY <2>1, <2>2 DEF EnsureScheduledJob, Inv, TypeOK
  <2>5. TypeOK'
    BY <2>1, <2>3 DEF Start, Inv, TypeOK, Working
  <2>6. RunsInThePast' /\ HeldRunHasRow' /\ LocksExclude' /\ HandsExclude' /\ HandedOut'
    <3>1. \A i \in Jobs, n \in Nat : n < next[i] => n < next'[i]
      BY <2>3, <2>4 DEF Inv, TypeOK
    <3>2. RunsInThePast'
      BY <3>1 DEF Start, Inv, TypeOK, RunsInThePast, Run
    <3>3. HeldRunHasRow' /\ HandsExclude'
      BY DEF Start, Inv, HeldRunHasRow, RowOf, HandsExclude
    <3>4. LocksExclude'
      BY <2>4 DEF Start, Inv, LocksExclude
    <3>5. HandedOut'
      BY <3>1 DEF Start, Inv, TypeOK, HandedOut, Occurrence
    <3> QED
      BY <3>2, <3>3, <3>4, <3>5
  <2> QED
    BY <2>5, <2>6 DEF Inv
<1>2. CASE UNCHANGED next
  <2>1. TypeOK'
    BY <1>2 DEF Start, EnsureScheduledJob, Inv, TypeOK, Working
  <2>2. RunsInThePast' /\ HeldRunHasRow' /\ LocksExclude' /\ HandsExclude' /\ HandedOut'
    BY <1>2 DEF Start, Inv, RunsInThePast, HeldRunHasRow, RowOf, LocksExclude, HandsExclude, HandedOut
  <2> QED
    BY <2>1, <2>2 DEF Inv
<1> QED
  BY <1>1, <1>2 DEF Start

\* Locking rows that are due and not locked keeps the locks disjoint.
LEMMA SelectInv ==
    ASSUME Inv, NEW s \in Schedulers, Select(s), now' = now
    PROVE  Inv'
<1> PICK J \in SUBSET Available : locked' = [locked EXCEPT ![s] = J]
  BY DEF Select
<1>1. J \subseteq Jobs
  BY DEF Available, Due
<1>2. TypeOK'
  BY <1>1 DEF Select, Inv, TypeOK, Working
<1>3. LocksExclude'
  <2> SUFFICES ASSUME NEW t \in Schedulers, NEW j \in Jobs, j \in locked'[t]
               PROVE  /\ next[j] # NoRow /\ next[j] <= now
                      /\ \A u \in Schedulers : j \in locked'[u] => u = t
    BY DEF LocksExclude, Select
  <2>1. j \in J => next[j] # NoRow /\ next[j] <= now /\ \A u \in Schedulers : j \notin locked[u]
    BY DEF Available, Due, Locked
  <2>2. \A u \in Schedulers : locked'[u] = IF u = s THEN J ELSE locked[u]
    BY DEF Inv, TypeOK
  <2> QED
    BY <2>1, <2>2 DEF Inv, LocksExclude
<1>4. RunsInThePast' /\ HeldRunHasRow' /\ HandsExclude' /\ HandedOut'
  BY DEF Select, Inv, RunsInThePast, HeldRunHasRow, RowOf, HandsExclude, HandedOut
<1> QED
  BY <1>2, <1>3, <1>4 DEF Inv

\* Jobs that are locked move forward, and what they leave behind is in
\* nobody's hand yet.
LEMMA CommitInv ==
    ASSUME Inv, NEW s \in Schedulers, Commit(s), now' = now
    PROVE  Inv'
<1> DEFINE new == {[job |-> j, for |-> next[j]] : j \in locked[s]}
           rows == {[job |-> j, for |-> next[j], status |-> "running",
                     finished |-> 0] : j \in locked[s]}
<1>1. \A j \in locked[s] : /\ j \in Jobs /\ next[j] \in Nat /\ next[j] <= now
                           /\ next'[j] \in Nat /\ next'[j] > next[j]
  <2> TAKE j \in locked[s]
  <2>1. j \in Jobs /\ next[j] \in Nat /\ next[j] <= now
    BY DEF Inv, TypeOK, LocksExclude
  <2>2. next[j] \in 0..MaxTime
    BY <2>1, SchedulerAssumption DEF Inv, TypeOK
  <2>3. next'[j] = Following(j)
    BY <2>1 DEF Commit
  <2>4. Following(j) > next[j]
    <3>1. ~Refused(j)
      BY DEF Commit
    <3> QED
      BY <3>1 DEF Refused
  <2> QED
    BY <2>1, <2>2, <2>3, <2>4, NextOccurrenceInNat DEF Following
<1>2. \A j \in Jobs : j \notin locked[s] => next'[j] = next[j]
  BY DEF Commit
<1>3. next' \in [Jobs -> Nat \cup {NoRow}]
  <2>1. next' = [j \in Jobs |-> IF j \in locked[s] THEN Following(j) ELSE next[j]]
    BY DEF Commit
  <2> QED
    BY <2>1, <1>1, <1>2 DEF Inv, TypeOK
<1>4. \A j \in Jobs, n \in Nat : n < next[j] => n < next'[j]
  BY <1>1, <1>2, <1>3 DEF Inv, TypeOK
<1>5. \/ hand' = hand
      \/ hand' = [hand EXCEPT ![s] = new] /\ pc'[s] = "working"
  <2>1. \/ hand' = hand
        \/ hand' = [hand EXCEPT ![s] = new] /\ pc' = [pc EXCEPT ![s] = "working"]
    BY DEF Commit
  <2> HIDE DEF new
  <2> QED
    BY <2>1 DEF Inv, TypeOK
<1>6. \A k \in new : k.job \in locked[s] /\ k.for = next[k.job] /\ k \in Occurrence
  BY <1>1 DEF Occurrence
<1>7. hand[s] = {} /\ cur[s] = Nothing
  BY DEF Commit, Inv, TypeOK, Working
<1>8. TypeOK'
  <2>1. runs' \subseteq Run
    <3>1. rows \subseteq Run
      BY <1>1 DEF Run
    <3> QED
      BY <3>1 DEF Commit, Inv, TypeOK
  <2>2. hand' \in [Schedulers -> SUBSET Occurrence]
    BY <1>5, <1>6 DEF Inv, TypeOK
  <2>3. /\ pc' \in [Schedulers -> {"down", "starting", "idle", "claiming", "working",
                                   "handling", "finishing"}]
        /\ \A t \in Schedulers : t # s => pc'[t] = pc[t] /\ hand'[t] = hand[t] /\ locked'[t] = locked[t]
        /\ pc'[s] \in {"working", "idle"} /\ locked'[s] = {}
    BY <1>5 DEF Commit, Inv, TypeOK
  <2>4. \A t \in Schedulers :
          /\ locked'[t] # {} => pc'[t] = "claiming"
          /\ hand'[t] # {} => Working(t)'
          /\ cur'[t] # Nothing <=> pc'[t] \in {"handling", "finishing"}
    BY <1>5, <1>7, <2>3 DEF Commit, Inv, TypeOK, Working
  <2>5. cancelled' \subseteq {t \in Schedulers : pc'[t] \notin {"down", "starting"}}
    BY <2>3 DEF Commit, Inv, TypeOK
  <2>6. locked' \in [Schedulers -> SUBSET Jobs]
    BY DEF Commit, Inv, TypeOK
  <2> QED
    BY <1>3, <2>1, <2>2, <2>3, <2>4, <2>5, <2>6 DEF Commit, Inv, TypeOK
<1>9. RunsInThePast'
  <2>1. \A r \in rows : r.for <= now /\ r.for < next'[r.job]
    BY <1>1 DEF Inv, TypeOK
  <2>2. \A r \in runs : r.for <= now /\ r.for < next'[r.job]
    BY <1>4 DEF Inv, TypeOK, RunsInThePast, Run
  <2> QED
    BY <2>1, <2>2 DEF Commit, RunsInThePast
<1>10. HeldRunHasRow'
  <2> SUFFICES ASSUME NEW t \in Schedulers, NEW k \in hand'[t] \cup {cur'[t]}, k # Nothing
               PROVE  RowOf(k)' # {}
    BY DEF HeldRunHasRow
  <2>1. CASE k \in hand[t] \cup {cur[t]}
    BY <2>1 DEF Commit, Inv, HeldRunHasRow, RowOf
  <2>2. CASE k \in new
    <3>1. PICK j \in locked[s] : k = [job |-> j, for |-> next[j]]
      BY <2>2
    <3>2. [job |-> j, for |-> next[j], status |-> "running", finished |-> 0] \in runs'
      BY <3>1 DEF Commit
    <3>3. [job |-> j, for |-> next[j], status |-> "running", finished |-> 0] \in RowOf(k)'
      BY <3>1, <3>2 DEF RowOf
    <3> QED
      BY <3>3
  <2>3. k \in hand[t] \cup {cur[t]} \/ k \in new
    BY <1>5 DEF Commit, Inv, TypeOK
  <2> QED
    BY <2>1, <2>2, <2>3
<1>11. LocksExclude'
  <2>1. \A t \in Schedulers : locked'[t] = IF t = s THEN {} ELSE locked[t]
    BY DEF Commit, Inv, TypeOK
  <2>2. \A t \in Schedulers : \A j \in locked'[t] : j \notin locked[s]
    BY <2>1 DEF Inv, TypeOK, LocksExclude
  <2> QED
    BY <1>2, <2>1, <2>2 DEF Inv, LocksExclude
<1>12. \A k \in new : /\ k \notin executed
                      /\ \A t \in Schedulers : k \notin hand[t] /\ k # cur[t]
  <2> TAKE k \in new
  <2>1. ~(k.for < next[k.job]) /\ k # Nothing
    BY <1>1, <1>6, NothingIsNoOccurrence
  <2> QED
    BY <2>1 DEF Inv, HandedOut
<1>13. HandsExclude'
  <2>1. CASE hand' = hand
    BY <2>1 DEF Commit, Inv, HandsExclude
  <2>2. CASE hand' = [hand EXCEPT ![s] = new]
    <3>1. \A t \in Schedulers : hand'[t] = IF t = s THEN new ELSE hand[t]
      BY <2>2 DEF Inv, TypeOK
    <3>2. cur' = cur
      BY DEF Commit
    <3> HIDE DEF new
    <3> QED
      BY <3>1, <3>2, <1>12 DEF Inv, HandsExclude
  <2> QED
    BY <1>5, <2>1, <2>2
<1>14. HandedOut'
  <2>1. \A t \in Schedulers : \A k \in hand'[t] : k \in hand[t] \/ k \in new
    BY <1>5 DEF Inv, TypeOK
  <2>2. \A k \in new : k.for < next'[k.job]
    BY <1>1, <1>6
  <2>3. \A k \in Occurrence : k.for < next[k.job] => k.for < next'[k.job]
    BY <1>4 DEF Occurrence
  <2>4. cur' = cur /\ executed' = executed
    BY DEF Commit
  <2> HIDE DEF new
  <2> QED
    BY <2>1, <2>2, <2>3, <2>4, <1>12 DEF Inv, TypeOK, HandedOut
<1> QED
  BY <1>8, <1>9, <1>10, <1>11, <1>13, <1>14 DEF Inv

\* A rolled-back claim only frees its locks.
LEMMA RollbackInv ==
    ASSUME Inv, NEW s \in Schedulers, Rollback(s), now' = now
    PROVE  Inv'
<1>1. TypeOK'
  BY DEF Rollback, Inv, TypeOK, Working
<1>2. LocksExclude'
  BY DEF Rollback, Inv, TypeOK, LocksExclude
<1>3. RunsInThePast' /\ HeldRunHasRow' /\ HandsExclude' /\ HandedOut'
  BY DEF Rollback, Inv, RunsInThePast, HeldRunHasRow, RowOf, HandsExclude, HandedOut
<1> QED
  BY <1>1, <1>2, <1>3 DEF Inv

\* The run that is begun leaves the hand; if there is a handler, it joins the
\* occurrences performed, to which it did not belong.
LEMMA BeginInv ==
    ASSUME Inv, NEW s \in Schedulers, Begin(s), now' = now
    PROVE  Inv'
<1> PICK k \in hand[s] :
         /\ hand' = [hand EXCEPT ![s] = @ \ {k}]
         /\ cur' = [cur EXCEPT ![s] = k]
         /\ \/ /\ pc' = [pc EXCEPT ![s] = "handling"]
               /\ executed' = executed \cup {k} /\ outcome' = outcome
            \/ /\ pc' = [pc EXCEPT ![s] = "finishing"]
               /\ outcome' = [outcome EXCEPT ![s] = "failed"] /\ executed' = executed
  BY DEF Begin
<1>1. k \in Occurrence /\ k # Nothing
  BY NothingIsNoOccurrence DEF Inv, TypeOK
<1>2. \A t \in Schedulers : /\ hand'[t] = IF t = s THEN hand[s] \ {k} ELSE hand[t]
                            /\ cur'[t] = IF t = s THEN k ELSE cur[t]
  BY DEF Inv, TypeOK
<1>3. pc[s] = "working" /\ cur[s] = Nothing
  BY DEF Begin, Inv, TypeOK
<1>4. UNCHANGED <<next, runs, cancelled, todo, locked>>
  BY DEF Begin
<1>5. TypeOK'
  <2>1. \A t \in Schedulers : t # s => pc'[t] = pc[t]
    BY DEF Inv, TypeOK
  <2>2. pc'[s] \in {"handling", "finishing"}
    BY DEF Inv, TypeOK
  <2>3. \A t \in Schedulers :
          /\ locked'[t] # {} => pc'[t] = "claiming"
          /\ hand'[t] # {} => Working(t)'
          /\ cur'[t] # Nothing <=> pc'[t] \in {"handling", "finishing"}
    BY <1>1, <1>2, <1>3, <1>4, <2>1, <2>2 DEF Inv, TypeOK, Working
  <2>4. outcome' \in [Schedulers -> Outcomes]
    BY DEF Inv, TypeOK, Outcomes
  <2>5. /\ hand' \in [Schedulers -> SUBSET Occurrence]
        /\ cur' \in [Schedulers -> Occurrence \cup {Nothing}]
        /\ executed' \subseteq Occurrence
    BY <1>1 DEF Inv, TypeOK
  <2>6. pc' \in [Schedulers -> {"down", "starting", "idle", "claiming", "working",
                                "handling", "finishing"}]
    BY DEF Inv, TypeOK
  <2>7. cancelled' \subseteq {t \in Schedulers : pc'[t] \notin {"down", "starting"}}
    BY <1>4, <2>1, <2>2 DEF Inv, TypeOK
  <2> QED
    BY <1>4, <2>3, <2>4, <2>5, <2>6, <2>7 DEF Inv, TypeOK
<1>6. HeldRunHasRow'
  BY <1>2, <1>4 DEF Inv, HeldRunHasRow, RowOf
<1>7. HandsExclude'
  BY <1>1, <1>2, <1>3 DEF Inv, HandsExclude
<1>8. HandedOut'
  <2>1. k.for < next[k.job] /\ \A t \in Schedulers : t # s => k \notin hand[t]
    BY DEF Inv, HandedOut, HandsExclude
  <2> QED
    BY <1>1, <1>2, <1>4, <2>1 DEF Inv, HandedOut
<1>9. RunsInThePast' /\ LocksExclude'
  BY <1>4 DEF Inv, RunsInThePast, LocksExclude
<1> QED
  BY <1>5, <1>6, <1>7, <1>8, <1>9 DEF Inv

\* The clean-up deletes no row that is running.
LEMMA HandleInv ==
    ASSUME Inv, NEW s \in Schedulers, Handle(s), now' = now
    PROVE  Inv'
<1>1. runs' \subseteq runs /\ \A r \in runs : r.status = "running" => r \in runs'
  BY DEF Handle, Expired, Outcomes
<1>2. \A k : RowOf(k)' = RowOf(k)
  BY <1>1 DEF RowOf
<1>3. UNCHANGED <<next, cancelled, todo, locked, hand, cur, executed>>
  BY DEF Handle
<1>4. TypeOK'
  <2>1. outcome' \in [Schedulers -> Outcomes]
    BY DEF Handle, Inv, TypeOK, Outcomes
  <2>2. pc' = [pc EXCEPT ![s] = "finishing"] /\ pc[s] = "handling"
    BY DEF Handle
  <2> QED
    BY <1>1, <1>3, <2>1, <2>2 DEF Inv, TypeOK, Working
<1>5. HeldRunHasRow'
  BY <1>2, <1>3 DEF Inv, HeldRunHasRow
<1>6. RunsInThePast' /\ LocksExclude' /\ HandsExclude' /\ HandedOut'
  BY <1>1, <1>3 DEF Inv, RunsInThePast, LocksExclude, HandsExclude, HandedOut
<1> QED
  BY <1>4, <1>5, <1>6 DEF Inv

\* Only the row of the run that ends is changed, and nobody else holds it.
LEMMA FinishInv ==
    ASSUME Inv, NEW s \in Schedulers, Finish(s), now' = now
    PROVE  Inv'
<1>1. cur[s] # Nothing /\ cur[s] \in Occurrence /\ outcome[s] \in Outcomes
  BY DEF Finish, Inv, TypeOK
<1>2. \A t \in Schedulers : cur'[t] = IF t = s THEN Nothing ELSE cur[t]
  BY DEF Finish, Inv, TypeOK
<1>3. UNCHANGED <<next, cancelled, todo, locked, hand, outcome, executed>>
  BY DEF Finish
<1>4. \A r \in runs' :
         r \in Run /\ \E q \in runs : r.job = q.job /\ r.for = q.for
  <2>1. CASE FinishJobRun(cur[s], outcome[s])
    <3>1. TAKE r \in runs'
    <3>2. CASE r \in runs
      BY <3>2 DEF Inv, TypeOK
    <3>3. CASE r \notin runs
      <4>1. PICK q \in RowOf(cur[s]) : r = [q EXCEPT !.status = outcome[s], !.finished = now]
        BY <2>1, <3>3 DEF FinishJobRun
      <4>2. q \in runs /\ q \in Run /\ now \in Nat
        BY DEF RowOf, Inv, TypeOK
      <4>3. r \in Run /\ r.job = q.job /\ r.for = q.for
        BY <1>1, <4>1, <4>2 DEF Run
      <4> QED
        BY <4>2, <4>3
    <3> QED
      BY <3>2, <3>3
  <2>2. CASE runs' = runs
    BY <2>2 DEF Inv, TypeOK
  <2> QED
    BY <2>1, <2>2 DEF Finish
<1>5. \A k \in Occurrence : k # cur[s] => RowOf(k) \subseteq runs'
  <2> SUFFICES ASSUME NEW k \in Occurrence, k # cur[s], NEW r \in RowOf(k)
               PROVE  r \in runs'
    OBVIOUS
  <2>1. r \in runs /\ r.job = k.job /\ r.for = k.for
    BY DEF RowOf
  <2>2. r \notin RowOf(cur[s])
    BY <1>1, <2>1 DEF RowOf, Occurrence
  <2> QED
    BY <2>1, <2>2 DEF Finish, FinishJobRun
<1>6. TypeOK'
  <2>1. pc[s] = "finishing"
    BY DEF Finish
  <2>2. \A t \in Schedulers : t # s => pc'[t] = pc[t]
    BY DEF Finish, Continue, Inv, TypeOK
  <2>3. pc'[s] \in {"idle", "working"} /\ (hand[s] # {} => pc'[s] = "working")
    BY DEF Finish, Continue, Inv, TypeOK
  <2>4. \A t \in Schedulers :
          /\ locked'[t] # {} => pc'[t] = "claiming"
          /\ hand'[t] # {} => Working(t)'
          /\ cur'[t] # Nothing <=> pc'[t] \in {"handling", "finishing"}
    BY <1>2, <1>3, <2>1, <2>2, <2>3 DEF Inv, TypeOK, Working
  <2>5. pc' \in [Schedulers -> {"down", "starting", "idle", "claiming", "working",
                                "handling", "finishing"}]
    BY DEF Finish, Continue, Inv, TypeOK
  <2>6. cur' \in [Schedulers -> Occurrence \cup {Nothing}]
    BY DEF Finish, Inv, TypeOK
  <2>7. cancelled' \subseteq {t \in Schedulers : pc'[t] \notin {"down", "starting"}}
    BY <1>3, <2>2, <2>3 DEF Inv, TypeOK
  <2>8. runs' \subseteq Run
    BY <1>4
  <2> QED
    BY <1>3, <2>4, <2>5, <2>6, <2>7, <2>8 DEF Inv, TypeOK
<1>7. RunsInThePast'
  BY <1>3, <1>4 DEF Inv, RunsInThePast
<1>8. HeldRunHasRow'
  <2> SUFFICES ASSUME NEW t \in Schedulers, NEW k \in hand'[t] \cup {cur'[t]}, k # Nothing
               PROVE  RowOf(k)' # {}
    BY DEF HeldRunHasRow
  <2>1. k \in Occurrence /\ k # cur[s] /\ k \in hand[t] \cup {cur[t]}
    BY <1>1, <1>2, <1>3 DEF Inv, TypeOK, HandsExclude
  <2>2. PICK r \in RowOf(k) : TRUE
    BY <2>1 DEF Inv, HeldRunHasRow
  <2>3. r \in runs'
    BY <1>5, <2>1
  <2> QED
    BY <2>3 DEF RowOf
<1>9. LocksExclude' /\ HandsExclude' /\ HandedOut'
  BY <1>2, <1>3, NothingIsNoOccurrence DEF Inv, TypeOK, LocksExclude, HandsExclude, HandedOut
<1> QED
  BY <1>6, <1>7, <1>8, <1>9 DEF Inv

\* A process that ends takes with it nothing but its locks and its hand.
LEMMA DownInv ==
    ASSUME Inv, NEW s \in Schedulers, Down(s), now' = now
    PROVE  Inv'
<1>1. \A t \in Schedulers :
         /\ pc'[t] = IF t = s THEN "down" ELSE pc[t]
         /\ locked'[t] = IF t = s THEN {} ELSE locked[t]
         /\ hand'[t] = IF t = s THEN {} ELSE hand[t]
         /\ cur'[t] = IF t = s THEN Nothing ELSE cur[t]
  BY DEF Down, Inv, TypeOK
<1>2. UNCHANGED <<next, runs, outcome, executed>> /\ cancelled' = cancelled \ {s}
  BY DEF Down
<1>3. TypeOK'
  <2>1. /\ pc' \in [Schedulers -> {"down", "starting", "idle", "claiming", "working",
                                   "handling", "finishing"}]
        /\ todo' \in [Schedulers -> SUBSET Jobs]
        /\ locked' \in [Schedulers -> SUBSET Jobs]
        /\ hand' \in [Schedulers -> SUBSET Occurrence]
        /\ cur' \in [Schedulers -> Occurrence \cup {Nothing}]
    BY DEF Down, Inv, TypeOK
  <2>2. cancelled' \subseteq {t \in Schedulers : pc'[t] \notin {"down", "starting"}}
    BY <1>1, <1>2 DEF Inv, TypeOK
  <2> QED
    BY <1>1, <1>2, <2>1, <2>2 DEF Inv, TypeOK, Working
<1>4. RunsInThePast'
  BY <1>2 DEF Inv, RunsInThePast
<1>5. HeldRunHasRow'
  BY <1>1, <1>2 DEF Inv, HeldRunHasRow, RowOf
<1>6. LocksExclude' /\ HandsExclude' /\ HandedOut'
  BY <1>1, <1>2, NothingIsNoOccurrence DEF Inv, TypeOK, LocksExclude, HandsExclude, HandedOut
<1> QED
  BY <1>3, <1>4, <1>5, <1>6 DEF Inv

\* A cancelled context changes only what the scheduler does next.
LEMMA CancelInv ==
    ASSUME Inv, NEW s \in Schedulers, Cancel(s), now' = now
    PROVE  Inv'
<1>1. TypeOK'
  BY DEF Cancel, Inv, TypeOK, Working
<1>2. RunsInThePast' /\ HeldRunHasRow' /\ LocksExclude' /\ HandsExclude' /\ HandedOut'
  BY DEF Cancel, Inv, RunsInThePast, HeldRunHasRow, RowOf, LocksExclude, HandsExclude, HandedOut
<1> QED
  BY <1>1, <1>2 DEF Inv

\* Time passing keeps every run in the past.
LEMMA TickInv == ASSUME Inv, Tick PROVE Inv'
<1>1. TypeOK'
  BY SchedulerAssumption DEF Tick, Inv, TypeOK, Working
<1>2. RunsInThePast' /\ LocksExclude'
  BY DEF Tick, Inv, TypeOK, RunsInThePast, LocksExclude, Run
<1>3. HeldRunHasRow' /\ HandsExclude' /\ HandedOut'
  BY DEF Tick, Inv, HeldRunHasRow, RowOf, HandsExclude, HandedOut
<1> QED
  BY <1>1, <1>2, <1>3 DEF Inv

\* Inv reads nothing but the variables.
LEMMA StutterInv == ASSUME Inv, UNCHANGED vars PROVE Inv'
<1>1. TypeOK'
  BY DEF vars, Inv, TypeOK, Working
<1>2. RunsInThePast' /\ HeldRunHasRow' /\ LocksExclude' /\ HandsExclude' /\ HandedOut'
  BY DEF vars, Inv, RunsInThePast, HeldRunHasRow, RowOf, LocksExclude, HandsExclude, HandedOut
<1> QED
  BY <1>1, <1>2 DEF Inv

\* Every step, stuttering included.
LEMMA NextInv == Inv /\ [Next]_vars => Inv'
<1> SUFFICES ASSUME Inv, [Next]_vars PROVE Inv'
  OBVIOUS
<1>1. CASE \E s \in Schedulers : (Steps(s) \/ Cancel(s) \/ Crash(s)) /\ UNCHANGED now
  <2> PICK s \in Schedulers : (Steps(s) \/ Cancel(s) \/ Crash(s)) /\ now' = now
    BY <1>1
  <2>1. CASE Boot(s)
    BY <2>1, BootInv
  <2>2. CASE Start(s)
    BY <2>2, StartInv
  <2>3. CASE Select(s)
    BY <2>3, SelectInv
  <2>4. CASE Commit(s)
    BY <2>4, CommitInv
  <2>5. CASE Rollback(s)
    BY <2>5, RollbackInv
  <2>6. CASE Begin(s)
    BY <2>6, BeginInv
  <2>7. CASE Handle(s)
    BY <2>7, HandleInv
  <2>8. CASE Finish(s)
    BY <2>8, FinishInv
  <2>9. CASE Stop(s) \/ Crash(s)
    BY <2>9, DownInv DEF Stop, Crash
  <2>10. CASE Cancel(s)
    BY <2>10, CancelInv
  <2> QED
    BY <2>1, <2>2, <2>3, <2>4, <2>5, <2>6, <2>7, <2>8, <2>9, <2>10 DEF Steps
<1>2. CASE Tick
  BY <1>2, TickInv
<1>3. CASE UNCHANGED vars
  BY <1>3, StutterInv
<1> QED
  BY <1>1, <1>2, <1>3 DEF Next

-----------------------------------------------------------------------------
(* The theorems. *)

\* In every reachable state the tables and the schedulers fit together: locks
\* exclude each other, an occurrence is in one place, and whatever was handed
\* out lies behind the schedule.
THEOREM InvHolds == Spec => []Inv
BY InitInv, NextInv, PTL DEF Spec

\* Every variable has its type, and what a scheduler holds fits where it is.
THEOREM TypeCorrect == Spec => []TypeOK
<1>1. Inv => TypeOK
  BY DEF Inv
<1> QED
  BY <1>1, InvHolds, PTL

\* A claim (ClaimDueScheduledJobs) never trips over the UNIQUE of job_runs, and
\* no run exists before its time.
THEOREM ClaimsNeverConflict == Spec => []RunsInThePast
<1>1. Inv => RunsInThePast
  BY DEF Inv
<1> QED
  BY <1>1, InvHolds, PTL

\* The row of a run somebody works on stays 'running' until FinishJobRun.
THEOREM HeldRunsHaveRows == Spec => []HeldRunHasRow
<1>1. Inv => HeldRunHasRow
  BY DEF Inv
<1> QED
  BY <1>1, InvHolds, PTL

\* No handler is called twice for an occurrence, whatever crashes, overlaps
\* and clean-ups there are.
THEOREM AtMostOnce == Spec => PerformedOnce
<1> DEFINE Fresh == \A s \in Schedulers :
               pc[s] = "working" /\ pc'[s] = "handling" => cur'[s] \notin executed
<1>1. Inv /\ [Next]_vars => [Fresh]_vars
  <2> SUFFICES ASSUME Inv, Next, NEW s \in Schedulers, pc[s] = "working", pc'[s] = "handling"
               PROVE  cur'[s] \notin executed
    BY DEF vars
  <2>1. Begin(s)
    <3>1. PICK t \in Schedulers : Steps(t) \/ Cancel(t) \/ Crash(t)
      BY DEF Next, Tick
    <3>2. t = s
      BY <3>1 DEF Steps, Boot, Start, Select, Commit, Rollback, Begin, Handle, Finish,
                  Continue, Stop, Down, Cancel, Crash, Inv, TypeOK
    <3> QED
      BY <3>1, <3>2 DEF Steps, Boot, Start, Select, Commit, Rollback, Handle, Finish,
                        Continue, Stop, Down, Cancel, Crash, Inv, TypeOK
  <2>2. PICK k \in hand[s] : cur' = [cur EXCEPT ![s] = k]
    BY <2>1 DEF Begin
  <2> QED
    BY <2>2 DEF Inv, TypeOK, HandedOut
<1> QED
  BY <1>1, InvHolds, PTL DEF Spec, PerformedOnce

-----------------------------------------------------------------------------
(* The scheduler implements Occurrences. *)

InHand == UNION {hand[s] : s \in Schedulers}

\* Empty tables: no job is due, nothing is in hand or done.
LEMMA InitRefines == Init => Ledger!OInit
BY DEF Init, Ledger!OInit, Ledger!NoRow

\* Start creates jobs, which the occurrences do not show.
LEMMA StartRefines ==
    ASSUME Inv, NEW s \in Schedulers, Start(s)
    PROVE  (\E j \in Jobs : Ledger!Enter(j)) \/ UNCHANGED <<next, InHand, executed>>
<1>1. CASE \E j \in todo[s] : EnsureScheduledJob(j)
  <2> PICK j \in todo[s] : EnsureScheduledJob(j)
    BY <1>1
  <2>1. j \in Jobs /\ now \in 0..MaxTime
    BY DEF Inv, TypeOK
  <2>2. CASE next[j] = NoRow
    <3>1. next' = [next EXCEPT ![j] = NextOccurrence(j, now)]
      BY <2>1, <2>2 DEF EnsureScheduledJob, Inv, TypeOK
    <3>2. next'[j] = NextOccurrence(j, now)
      BY <2>1, <3>1 DEF Inv, TypeOK
    <3>3. next'[j] \in Nat /\ next' = [next EXCEPT ![j] = next'[j]]
      BY <2>1, <3>1, <3>2, NextOccurrenceInNat
    <3>4. Ledger!Enter(j)
      BY <2>2, <3>3 DEF Start, Ledger!Enter, Ledger!NoRow
    <3> QED
      BY <2>1, <3>4
  <2>3. CASE next[j] # NoRow
    <3>1. next' = next
      BY <2>1, <2>3 DEF EnsureScheduledJob, Inv, TypeOK
    <3> QED
      BY <3>1 DEF Start, InHand
  <2> QED
    BY <2>2, <2>3
<1>2. CASE next' = next
  BY <1>2 DEF Start, InHand
<1> QED
  BY <1>1, <1>2 DEF Start

\* Commit claims the occurrences of the rows it locked.
LEMMA CommitRefines ==
    ASSUME Inv, NEW s \in Schedulers, Commit(s)
    PROVE  \E J \in SUBSET Jobs : Ledger!Take(J)
<1> DEFINE new == {[job |-> j, for |-> next[j]] : j \in locked[s]}
<1>1. \A j \in locked[s] :
         /\ next[j] # NoRow
         /\ NextOccurrence(j, next[j]) \in Nat
         /\ NextOccurrence(j, next[j]) > next[j]
  <2> TAKE j \in locked[s]
  <2>1. j \in Jobs /\ next[j] # NoRow /\ next[j] \in 0..MaxTime
    BY SchedulerAssumption DEF Inv, TypeOK, LocksExclude
  <2>2. ~Refused(j)
    BY DEF Commit
  <2> QED
    BY <2>1, <2>2, NextOccurrenceInNat DEF Refused, Following
<1>2. next' = [j \in Jobs |-> IF j \in locked[s] THEN NextOccurrence(j, next[j]) ELSE next[j]]
  BY DEF Commit, Following
<1>3. InHand' \in {InHand, InHand \cup new}
  <2>1. \/ hand' = hand
        \/ hand' = [hand EXCEPT ![s] = new]
    BY DEF Commit
  <2>2. hand[s] = {}
    BY DEF Commit, Inv, TypeOK, Working
  <2>3. CASE hand' = hand
    BY <2>3 DEF InHand
  <2>4. CASE hand' = [hand EXCEPT ![s] = new]
    <3> HIDE DEF new
    <3>1. \A t \in Schedulers : hand'[t] = IF t = s THEN new ELSE hand[t]
      BY <2>4 DEF Inv, TypeOK
    <3>2. \A k : k \in InHand' <=> k \in InHand \cup new
      BY <2>2, <3>1 DEF InHand
    <3> QED
      BY <3>2
  <2> QED
    BY <2>1, <2>3, <2>4
<1>4. locked[s] \in SUBSET Jobs /\ executed' = executed
  BY DEF Commit, Inv, TypeOK
<1> PICK J \in SUBSET Jobs : J = locked[s]
  BY <1>4
<1>5. Ledger!Take(J)
  BY <1>1, <1>2, <1>3, <1>4 DEF Ledger!Take, Ledger!NoRow, InHand
<1> QED
  BY <1>5

\* Begin starts one claimed occurrence, or sets it aside.
LEMMA BeginRefines ==
    ASSUME Inv, NEW s \in Schedulers, Begin(s)
    PROVE  (\E k \in InHand : Ledger!Perform(k)) \/ Ledger!Lose
<1> PICK k \in hand[s] :
         /\ hand' = [hand EXCEPT ![s] = @ \ {k}]
         /\ executed' \in {executed, executed \cup {k}}
  BY DEF Begin
<1>1. \A t \in Schedulers : hand'[t] = IF t = s THEN hand[s] \ {k} ELSE hand[t]
  BY DEF Inv, TypeOK
<1>2. \A t \in Schedulers : t # s => k \notin hand[t]
  BY DEF Inv, HandsExclude
<1>3. InHand' = InHand \ {k} /\ k \in InHand
  <2>1. \A l : l \in InHand' <=> l \in InHand \ {k}
    BY <1>1, <1>2 DEF InHand
  <2> QED
    BY <2>1 DEF InHand
<1>4. next' = next
  BY DEF Begin
<1>5. CASE executed' = executed \cup {k}
  BY <1>3, <1>4, <1>5 DEF Ledger!Perform, InHand
<1>6. CASE executed' = executed
  BY <1>3, <1>4, <1>6 DEF Ledger!Lose, InHand
<1> QED
  BY <1>5, <1>6

\* A scheduler that goes down abandons the occurrences it held.
LEMMA DownRefines ==
    ASSUME Inv, NEW s \in Schedulers, Down(s)
    PROVE  Ledger!Lose
<1>1. \A t \in Schedulers : hand'[t] \subseteq hand[t]
  BY DEF Down, Inv, TypeOK
<1>2. InHand' \subseteq InHand
  BY <1>1 DEF InHand
<1> QED
  BY <1>2 DEF Down, Ledger!Lose, InHand

\* Every step is a step of the promise or leaves due, hand and done alone.
LEMMA NextRefines == Inv /\ [Next]_vars => [Ledger!ONext]_(Ledger!ovars)
<1> SUFFICES ASSUME Inv, [Next]_vars
             PROVE  Ledger!ONext \/ UNCHANGED <<next, InHand, executed>>
  BY DEF Ledger!ovars, InHand
<1>1. CASE UNCHANGED vars \/ Tick
  BY <1>1 DEF vars, Tick, InHand
<1>2. CASE \E s \in Schedulers : Steps(s) \/ Cancel(s) \/ Crash(s)
  <2> PICK s \in Schedulers : Steps(s) \/ Cancel(s) \/ Crash(s)
    BY <1>2
  <2>1. CASE Start(s)
    BY <2>1, StartRefines DEF Ledger!ONext
  <2>2. CASE Commit(s)
    BY <2>2, CommitRefines DEF Ledger!ONext
  <2>3. CASE Begin(s)
    BY <2>3, BeginRefines DEF Ledger!ONext, InHand
  <2>4. CASE Stop(s) \/ Crash(s)
    BY <2>4, DownRefines DEF Stop, Crash, Ledger!ONext
  <2>5. CASE Boot(s) \/ Select(s) \/ Rollback(s) \/ Handle(s) \/ Finish(s) \/ Cancel(s)
    BY <2>5 DEF Boot, Select, Rollback, Handle, Finish, Cancel, InHand
  <2> QED
    BY <2>1, <2>2, <2>3, <2>4, <2>5 DEF Steps
<1> QED
  BY <1>1, <1>2 DEF Next

\* Claims, locks, crashes and restarts implement the promise of Occurrences:
\* occurrences are handed out in the order of the schedule, none is left out,
\* and each is performed at most once.
THEOREM Implements == Spec => ImplementsOccurrences
BY InitRefines, NextRefines, InvHolds, PTL DEF Spec, ImplementsOccurrences, Ledger!OSpec

-----------------------------------------------------------------------------
(* What the promise is worth. *)

\* An occurrence handed out lies behind its job's schedule, and is in hand or
\* performed, not both.
Behind ==
    /\ next \in [Jobs -> Nat \cup {NoRow}]
    /\ \A k \in InHand \cup executed :
          k.job \in Jobs /\ k.for \in Nat /\ next[k.job] # NoRow /\ k.for < next[k.job]
    /\ InHand \cap executed = {}

\* Only what a job's schedule says is handed out, and the schedule leaves it
\* behind: it is not handed out again.
OnlyOnce ==
    /\ \A k \in InHand' \ InHand : k.for = next[k.job] /\ k.for < next'[k.job]
    /\ \A k \in executed' \ executed : k \in InHand /\ k \notin InHand'
    /\ executed \subseteq executed'
    /\ \A j \in Jobs : next[j] <= next'[j]

\* The occurrences that Take(J) hands out.
LEMMA TakeOnce ==
    ASSUME Behind, NEW J \in SUBSET Jobs, Ledger!Take(J)
    PROVE  Behind' /\ OnlyOnce
<1> DEFINE new == {[job |-> j, for |-> next[j]] : j \in J}
<1>1. /\ \A j \in J : /\ next[j] # NoRow
                      /\ NextOccurrence(j, next[j]) \in Nat
                      /\ NextOccurrence(j, next[j]) > next[j]
      /\ next' = [j \in Jobs |-> IF j \in J THEN NextOccurrence(j, next[j]) ELSE next[j]]
      /\ InHand' \in {InHand, InHand \cup new}
      /\ executed' = executed
  BY DEF Ledger!Take, Ledger!NoRow, InHand
<1>2. /\ next' \in [Jobs -> Nat \cup {NoRow}]
      /\ \A j \in Jobs : next[j] # NoRow => next'[j] # NoRow
      /\ \A j \in Jobs : next[j] <= next'[j]
  BY <1>1 DEF Behind
<1>3. \A k \in new : /\ k.job \in Jobs /\ k.for \in Nat
                     /\ k.for = next[k.job] /\ k.for < next'[k.job] /\ next'[k.job] # NoRow
  BY <1>1 DEF Behind
<1>4. \A k \in InHand \cup executed : k.for < next[k.job]
  BY DEF Behind
<1>5. new \cap executed = {}
  <2> SUFFICES ASSUME NEW k \in new, k \in executed PROVE FALSE
    OBVIOUS
  <2>1. k.for \in Nat /\ k.for = next[k.job] /\ k.for < next[k.job]
    BY <1>3, <1>4
  <2> QED
    BY <2>1
<1> HIDE DEF new
<1>6. \A k \in InHand \cup executed :
         k.job \in Jobs /\ k.for \in Nat /\ next'[k.job] # NoRow /\ k.for < next'[k.job]
  BY <1>2 DEF Behind
<1>7. Behind'
  BY <1>1, <1>2, <1>3, <1>5, <1>6 DEF Behind
<1> QED
  BY <1>1, <1>2, <1>3, <1>7 DEF OnlyOnce

\* Every other step of the promise hands out nothing.
LEMMA PromiseStep == Behind /\ [Ledger!ONext]_(Ledger!ovars) => Behind' /\ OnlyOnce
<1> SUFFICES ASSUME Behind, Ledger!ONext \/ UNCHANGED <<next, InHand, executed>>
             PROVE  Behind' /\ OnlyOnce
  BY DEF Ledger!ovars, InHand
<1>1. ASSUME NEW j \in Jobs, Ledger!Enter(j) PROVE Behind' /\ OnlyOnce
  <2>1. /\ next[j] = NoRow /\ next'[j] \in Nat
        /\ next' = [next EXCEPT ![j] = next'[j]]
        /\ InHand' = InHand /\ executed' = executed
    BY <1>1 DEF Ledger!Enter, Ledger!NoRow, InHand
  <2>2. /\ next' \in [Jobs -> Nat \cup {NoRow}]
        /\ \A i \in Jobs : next'[i] = next[i] \/ next[i] = NoRow
        /\ \A i \in Jobs : next[i] <= next'[i]
    BY <2>1 DEF Behind
  <2> QED
    BY <2>1, <2>2 DEF Behind, OnlyOnce
<1>2. ASSUME NEW J \in SUBSET Jobs, Ledger!Take(J) PROVE Behind' /\ OnlyOnce
  BY <1>2, TakeOnce
<1>3. ASSUME NEW k \in InHand, Ledger!Perform(k) PROVE Behind' /\ OnlyOnce
  <2>1. InHand' = InHand \ {k} /\ executed' = executed \cup {k} /\ next' = next
    BY <1>3 DEF Ledger!Perform, InHand
  <2> QED
    BY <1>3, <2>1 DEF Behind, OnlyOnce
<1>4. CASE Ledger!Lose \/ UNCHANGED <<next, InHand, executed>>
  <2>1. InHand' \subseteq InHand /\ executed' = executed /\ next' = next
    BY <1>4 DEF Ledger!Lose, InHand
  <2> QED
    BY <2>1 DEF Behind, OnlyOnce
<1> QED
  BY <1>1, <1>2, <1>3, <1>4 DEF Ledger!ONext, InHand

\* Whoever keeps the promise of Occurrences hands out each occurrence at most
\* once, in the order of the schedule, and performs it at most once.
THEOREM PromiseIsOnce == Ledger!OSpec => []Behind /\ [][OnlyOnce]_(Ledger!ovars)
<1>1. Ledger!OInit => Behind
  <2> SUFFICES ASSUME Ledger!OInit PROVE Behind
    OBVIOUS
  <2>1. next = [j \in Jobs |-> NoRow] /\ InHand = {} /\ executed = {}
    BY DEF Ledger!OInit, Ledger!NoRow, InHand
  <2> QED
    BY <2>1 DEF Behind
<1> QED
  BY <1>1, PromiseStep, PTL DEF Ledger!OSpec

\* So do the schedulers, however many, and whatever crashes, is lost or overlaps.
THEOREM HandedOutOnce == Spec => [][OnlyOnce]_(Ledger!ovars)
BY PromiseIsOnce, Implements, PTL DEF ImplementsOccurrences
=============================================================================
