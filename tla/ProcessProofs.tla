--------------------------- MODULE ProcessProofs ---------------------------
(***************************************************************************)
(* Proofs about Process: it implements Migration, so that what is proved   *)
(* there holds of whole processes, and it closes the connection pool under *)
(* nobody's feet.                                                          *)
(***************************************************************************)
EXTENDS Process, MigrationProofs

\* What the stage of run says about its parts.
StageOK(p) ==
    /\ stage[p] \in {"starting", "botting", "serving", "draining"} => step[p] = "done"
    /\ ~pool[p] => stage[p] \in {"down", "closed"}
    /\ stage[p] \in {"down", "migrating", "starting", "closed"} => sched[p] \notin Polls
    /\ stage[p] \notin {"serving", "draining"} => requests[p] = 0 \/ cut[p]

PInv == TypeOK /\ MInv /\ \A p \in Processes : StageOK(p)

-----------------------------------------------------------------------------
(* Process implements Migration. *)

\* A step of a process is a step of the migration or leaves it alone.
LEMMA StepsMap == [Next]_vars => [MigrationNext]_mvars
<1> SUFFICES ASSUME [Next]_vars PROVE [MigrationNext]_mvars
  OBVIOUS
<1>1. ASSUME NEW p \in Processes, Start(p) \/ MigrationStep(p) \/ Exit(p) \/ Die(p)
      PROVE  MigrationNext
  BY <1>1 DEF Start, MigrationStep, Exit, Die, Gone, MigrationNext
<1>2. ASSUME NEW p \in Processes,
             \/ Migrated(p) \/ StartScheduler(p) \/ StartBot(p) \/ Shutdown(p) \/ Close(p)
             \/ Request(p) \/ Respond(p) \/ Stall(p) \/ Signal(p) \/ ServerFails(p)
             \/ Poll(p) \/ EndPolling(p)
      PROVE  UNCHANGED mvars
  BY <1>2 DEF Migrated, StartScheduler, StartBot, Shutdown, Close, Request, Respond, Stall,
              Signal, ServerFails, Poll, EndPolling
<1>3. CASE ServerReaps
  BY <1>3 DEF ServerReaps, MigrationNext
<1>4. CASE LaterStarts
  BY <1>4 DEF LaterStarts, MigrationNext
<1>5. CASE UNCHANGED vars
  BY <1>5 DEF vars
<1> QED
  BY <1>1, <1>2, <1>3, <1>4, <1>5 DEF Next, Up, Down

\* A process does what Migration says.
THEOREM ImplementsMigration == Spec => MigrationSpec
<1>1. Init => MigrationInit
  BY DEF Init
<1> QED
  BY <1>1, StepsMap, PTL DEF Spec, MigrationSpec

\* No start of a process fails because of what another one has migrated.
THEOREM ProcessesDoNotConflict == Spec => []NoConflict
BY ImplementsMigration, StartsDoNotConflict, PTL

\* Processes that start, fail and die, and a later release, leave the old schema
\* or the new one.
THEOREM ProcessesUpgrade == Spec => UpgradeAtOnce
BY ImplementsMigration, Upgrades, PTL

-----------------------------------------------------------------------------
(* PInv is inductive. *)

\* Type correctness of the parts that Migration has not.
LEMMA ProcessTypeNext ==
    ASSUME TypeOK, MigrationTypeOK', [Next]_vars
    PROVE  TypeOK'
<1>0. /\ faults \in 0..MaxFaults /\ signals \in 0..MaxSignals
      /\ MaxFaults \in Nat /\ MaxSignals \in Nat /\ MaxRequests \in Nat
  BY ProcessAssumption DEF TypeOK
<1>1. ASSUME NEW p \in Processes
      PROVE  /\ \A to \in Stages : Moves(p, to) => stage' \in [Processes -> Stages]
             /\ Fault => faults' \in 0..MaxFaults /\ signals' = signals
             /\ Calm => faults' = faults /\ signals' = signals
  BY <1>0 DEF TypeOK, Moves, Fault, Calm, bounds
<1>2. ASSUME NEW p \in Processes, Up(p)
      PROVE  TypeOK'
  <2>1. CASE Start(p)
    BY <1>1, <2>1 DEF TypeOK, Start, Stages, server
  <2>2. CASE MigrationStep(p)
    BY <1>1, <2>2 DEF TypeOK, MigrationStep, server
  <2>3. CASE Migrated(p)
    BY <1>1, <2>3 DEF TypeOK, Migrated, Unwind, Stages, server
  <2>4. CASE StartScheduler(p)
    BY <1>1, <2>4 DEF TypeOK, StartScheduler, Unwind, Stages, server, Polls
  <2>5. CASE StartBot(p)
    BY <1>1, <2>5 DEF TypeOK, StartBot, Unwind, Stages, server
  <2> QED
    BY <1>2, <2>1, <2>2, <2>3, <2>4, <2>5 DEF Up
<1>3. ASSUME NEW p \in Processes, Down(p) \/ Die(p)
      PROVE  TypeOK'
  <2>1. CASE Shutdown(p)
    BY <1>1, <2>1 DEF TypeOK, Shutdown, Drained, Unwind, Cut, Stages
  <2>2. CASE Close(p)
    BY <1>1, <2>2 DEF TypeOK, Close, Stages, server
  <2>3. ASSUME Gone(p)
        PROVE  /\ stage' \in [Processes -> Stages] /\ pool' \in [Processes -> BOOLEAN]
               /\ sched' \in [Processes -> {"off", "ended"} \cup Polls]
               /\ cancelled' \in [Processes -> BOOLEAN]
               /\ requests' \in [Processes -> 0..MaxRequests]
               /\ stuck' \in [Processes -> BOOLEAN] /\ cut' \in [Processes -> BOOLEAN]
    BY <1>0, <1>1, <2>3 DEF TypeOK, Gone, Stages
  <2>4. CASE Exit(p) \/ Die(p)
    BY <1>1, <2>3, <2>4 DEF TypeOK, Exit, Die
  <2> QED
    BY <1>3, <2>1, <2>2, <2>4 DEF Down
<1>4. ASSUME NEW p \in Processes, Request(p) \/ Respond(p)
      PROVE  TypeOK'
  <2>1. requests[p] \in 0..MaxRequests
    BY DEF TypeOK
  <2>2. requests' \in [Processes -> 0..MaxRequests]
    BY <1>0, <1>4, <2>1 DEF Request, Respond, TypeOK
  <2> QED
    BY <1>1, <1>4, <2>2 DEF TypeOK, Request, Respond
<1>5. ASSUME NEW p \in Processes, Stall(p) \/ Signal(p) \/ ServerFails(p)
      PROVE  TypeOK'
  <2>1. CASE Stall(p)
    BY <1>1, <2>1 DEF TypeOK, Stall
  <2>2. CASE Signal(p)
    <3>1. stuck' \in [Processes -> BOOLEAN]
      <4>1. PICK full \in {stuck[p], TRUE} : stuck' = [stuck EXCEPT ![p] = full]
        BY <2>2 DEF Signal
      <4>2. full \in BOOLEAN
        BY DEF TypeOK
      <4> QED
        BY <4>1, <4>2 DEF TypeOK
    <3>2. signals' \in 0..MaxSignals /\ faults' = faults
      BY <1>0, <2>2 DEF Signal
    <3>3. /\ stage' \in [Processes -> Stages]
          /\ cancelled' \in [Processes -> BOOLEAN]
      BY <1>1, <2>2 DEF TypeOK, Signal, Stages
    <3> QED
      BY <2>2, <3>1, <3>2, <3>3 DEF TypeOK, Signal
  <2>3. CASE ServerFails(p)
    BY <1>1, <2>3 DEF TypeOK, ServerFails, Unwind, Cut, Stages
  <2> QED
    BY <1>5, <2>1, <2>2, <2>3
<1>6. ASSUME NEW p \in Processes, Poll(p) \/ EndPolling(p)
      PROVE  TypeOK'
  BY <1>1, <1>6 DEF TypeOK, Poll, EndPolling, server, Polls
<1>7. CASE ServerReaps \/ LaterStarts \/ UNCHANGED vars
  BY <1>7 DEF TypeOK, ServerReaps, LaterStarts, vars, server, bounds
<1> QED
  BY <1>2, <1>3, <1>4, <1>5, <1>6, <1>7 DEF Next

\* A step of p leaves what is said of another process alone.
LEMMA OthersStage ==
    ASSUME TypeOK, NEW p \in Processes, NEW q \in Processes, q # p, StageOK(q),
           stage'[q] = stage[q], pool'[q] = pool[q], sched'[q] = sched[q],
           requests'[q] = requests[q], cut'[q] = cut[q], step'[q] = step[q]
    PROVE  StageOK(q)'
BY DEF StageOK

\* The frame of a step of one process.
LEMMA Frame ==
    ASSUME PInv, NEW p \in Processes,
           \/ Up(p) \/ Down(p) \/ Die(p) \/ Request(p) \/ Respond(p) \/ Stall(p) \/ Signal(p)
           \/ ServerFails(p) \/ Poll(p) \/ EndPolling(p),
           NEW q \in Processes, q # p
    PROVE  StageOK(q)'
<1>1. step'[q] = step[q]
  <2>1. step \in [Processes -> Steps \cup Ends]
    BY DEF PInv, TypeOK, MigrationTypeOK
  <2>2. step' = step \/ \E to : Goes(p, to)
    BY DEF Up, Down, Die, Start, MigrationStep, Migrated, StartScheduler, StartBot, Shutdown,
           Close, Exit, Gone, Request, Respond, Stall, Signal, ServerFails, Poll, EndPolling,
           mvars, Enter, Migrate, Begin, TakeLock, CheckSchema, CreateSchema, AddJobs,
           AddBirthDate, Adds, Commit, MigrationFails, Quit
  <2> QED
    BY <2>1, <2>2 DEF Goes
<1>2. /\ stage'[q] = stage[q] /\ pool'[q] = pool[q] /\ sched'[q] = sched[q]
      /\ requests'[q] = requests[q] /\ cut'[q] = cut[q]
  <2>1. CASE Up(p)
    BY <2>1 DEF PInv, TypeOK, Up, Start, MigrationStep, Migrated, StartScheduler, StartBot,
         Unwind, Moves, server
  <2>2. CASE Down(p) \/ Die(p)
    BY <2>2 DEF PInv, TypeOK, Down, Die, Shutdown, Close, Exit, Gone, Drained, Cut, Unwind,
         Moves, server
  <2>3. CASE \/ Request(p) \/ Respond(p) \/ Stall(p) \/ Signal(p) \/ ServerFails(p)
             \/ Poll(p) \/ EndPolling(p)
    BY <2>3 DEF PInv, TypeOK, Request, Respond, Stall, Signal, ServerFails, Poll, EndPolling,
         Cut, Unwind, Moves, server
  <2> QED
    BY <2>1, <2>2, <2>3
<1> QED
  BY <1>1, <1>2, OthersStage DEF PInv

\* On the way up nothing serves before it is migrated, and nothing polls early.
LEMMA UpStage ==
    ASSUME PInv, NEW p \in Processes, Up(p)
    PROVE  StageOK(p)'
<1>1. /\ StageOK(p)
      /\ stage \in [Processes -> Stages] /\ pool \in [Processes -> BOOLEAN]
      /\ sched \in [Processes -> {"off", "ended"} \cup Polls]
  BY DEF PInv, TypeOK
<1>2. CASE Start(p)
  BY <1>1, <1>2 DEF Start, Moves, StageOK, server
<1>3. CASE MigrationStep(p)
  BY <1>1, <1>3 DEF MigrationStep, StageOK, server
<1>4. CASE Migrated(p)
  BY <1>1, <1>4 DEF Migrated, MayServe, Unwind, Moves, StageOK, server, mvars
<1>5. CASE StartScheduler(p)
  BY <1>1, <1>5 DEF StartScheduler, Unwind, Moves, StageOK, server, mvars
<1>6. CASE StartBot(p)
  BY <1>1, <1>6 DEF StartBot, Unwind, Moves, StageOK, server, mvars
<1> QED
  BY <1>2, <1>3, <1>4, <1>5, <1>6 DEF Up

\* On the way down each part has ended before what it needs is taken away.
LEMMA DownStage ==
    ASSUME PInv, NEW p \in Processes, Down(p) \/ Die(p)
    PROVE  StageOK(p)'
<1>1. /\ StageOK(p)
      /\ stage \in [Processes -> Stages] /\ pool \in [Processes -> BOOLEAN]
      /\ sched \in [Processes -> {"off", "ended"} \cup Polls]
      /\ requests \in [Processes -> 0..MaxRequests] /\ cut \in [Processes -> BOOLEAN]
  BY DEF PInv, TypeOK
<1>2. CASE Shutdown(p)
  BY <1>1, <1>2 DEF Shutdown, Drained, Cut, Unwind, Moves, StageOK, mvars
<1>3. CASE Close(p)
  BY <1>1, <1>3 DEF Close, Moves, StageOK, server, mvars
<1>4. CASE Exit(p) \/ Die(p)
  BY <1>1, <1>4 DEF Exit, Die, Gone, Moves, StageOK, Polls
<1> QED
  BY <1>2, <1>3, <1>4 DEF Down

\* Nothing that happens while a process serves changes this.
LEMMA ServeStage ==
    ASSUME PInv, NEW p \in Processes,
           \/ Request(p) \/ Respond(p) \/ Stall(p) \/ Signal(p) \/ ServerFails(p)
           \/ Poll(p) \/ EndPolling(p)
    PROVE  StageOK(p)'
<1>1. /\ StageOK(p)
      /\ stage \in [Processes -> Stages] /\ pool \in [Processes -> BOOLEAN]
      /\ sched \in [Processes -> {"off", "ended"} \cup Polls]
      /\ requests \in [Processes -> 0..MaxRequests] /\ cut \in [Processes -> BOOLEAN]
  BY DEF PInv, TypeOK
<1>2. CASE Request(p) \/ Respond(p)
  BY <1>1, <1>2, ProcessAssumption DEF Request, Respond, StageOK, mvars
<1>3. CASE Stall(p) \/ Signal(p) \/ ServerFails(p)
  BY <1>1, <1>3 DEF Stall, Signal, ServerFails, Cut, Unwind, Moves, StageOK, mvars
<1>4. CASE Poll(p) \/ EndPolling(p)
  BY <1>1, <1>4 DEF Poll, EndPolling, StageOK, server, mvars, Polls
<1> QED
  BY <1>2, <1>3, <1>4

\* Every step, stuttering included.
LEMMA PInvNext == PInv /\ [Next]_vars => PInv'
<1> SUFFICES ASSUME PInv, [Next]_vars PROVE PInv'
  OBVIOUS
<1>1. MInv'
  BY StepsMap, MigrationNextInv DEF PInv
<1>2. TypeOK'
  BY <1>1, ProcessTypeNext DEF PInv, MInv
<1>3. ASSUME NEW q \in Processes PROVE StageOK(q)'
  <2>1. CASE ServerReaps \/ LaterStarts \/ UNCHANGED vars
    BY <2>1 DEF PInv, StageOK, ServerReaps, Reap, LaterStarts, LaterRelease, vars, mvars, server
  <2>2. ASSUME NEW p \in Processes,
               \/ Up(p) \/ Down(p) \/ Die(p) \/ Request(p) \/ Respond(p) \/ Stall(p) \/ Signal(p)
               \/ ServerFails(p) \/ Poll(p) \/ EndPolling(p)
        PROVE  StageOK(q)'
    <3>1. CASE q = p
      BY <2>2, <3>1, UpStage, DownStage, ServeStage
    <3>2. CASE q # p
      BY <2>2, <3>2, Frame
    <3> QED
      BY <3>1, <3>2
  <2> QED
    BY <2>1, <2>2 DEF Next
<1> QED
  BY <1>1, <1>2, <1>3 DEF PInv

\* It holds at the beginning.
LEMMA PInvInit == Init => PInv
<1> SUFFICES ASSUME Init PROVE PInv
  OBVIOUS
<1>1. MInv
  BY MigrationInitInv DEF Init
<1>2. TypeOK
  BY <1>1, ProcessAssumption DEF Init, TypeOK, MInv, Stages
<1>3. ASSUME NEW p \in Processes PROVE StageOK(p)
  BY DEF Init, StageOK, Polls
<1> QED
  BY <1>1, <1>2, <1>3 DEF PInv

-----------------------------------------------------------------------------
(* The theorems. *)

\* Each part of a process works only in the stages that provide for it.
THEOREM PInvHolds == Spec => []PInv
BY PInvInit, PInvNext, PTL DEF Spec

\* Every variable has its type.
THEOREM ProcessTypeCorrect == Spec => []TypeOK
<1>1. PInv => TypeOK
  BY DEF PInv
<1> QED
  BY <1>1, PInvHolds, PTL

\* A process serves only after it has seen the schema of this release, and
\* whatever starts, fails or dies beside it, only a later release replaces it.
THEOREM StartsOnCurrent == Spec => []StartsOnCurrentSchema
<1>1. PInv => StartsOnCurrentSchema
  BY DEF PInv, MInv, StageOK, ViewOK, StartsOnCurrentSchema
<1> QED
  BY <1>1, PInvHolds, PTL

\* The pool outlives the scheduler, and the requests run could wait for.
THEOREM PoolOutlives == Spec => []PoolOutlivesUsers
<1>1. ASSUME PInv PROVE PoolOutlivesUsers
  BY <1>1 DEF PInv, StageOK, PoolOutlivesUsers
<1> QED
  BY <1>1, PInvHolds, PTL
=============================================================================
