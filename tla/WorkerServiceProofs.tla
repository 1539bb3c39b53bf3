------------------------ MODULE WorkerServiceProofs ------------------------
(***************************************************************************)
(* Proofs about WorkerService for any processes, workers, jobs and bounds. *)
(* By their definitions its steps are steps of WorkerPool or leave the     *)
(* pool alone, so what WorkerPoolProofs and WorkerPoolRefinement show of a *)
(* pool holds of the service.  What the service adds is that no worker is  *)
(* at work when the clients are closed; its invariant, ServiceInv, says    *)
(* why: Wait returns when the WaitGroup counts nobody, a busy worker is    *)
(* counted (BusyAreCounted), and a worker that Pool.Start spawns only      *)
(* later finds its context cancelled (ShutdownCancelled) and does not pull.*)
(***************************************************************************)
EXTENDS WorkerService, WorkerPoolRefinement

\* Each step of the service is a step of its pool or a stutter.
LEMMA StepOfPool == ASSUME [ServiceNext]_allVars PROVE [Next]_vars
<1>1. CASE Environment BY <1>1 DEF Environment, Next
<1>2. ASSUME NEW w \in Workers, Goroutine(w) PROVE [Next]_vars
  <2>1. CASE Spawn(w) BY <2>1 DEF Spawn
  <2>2. CASE Work(w) \/ Leave(w) \/ Vanish(w)
    BY <2>2 DEF Work, Leave, Vanish, Next, WorkerStep
  <2> QED BY <1>2, <2>1, <2>2 DEF Goroutine
<1>3. ASSUME NEW p \in Pools, Signal(p) \/ Die(p) \/ Main(p) PROVE [Next]_vars
  <2>1. CASE Signal(p) BY <2>1 DEF Signal, Next, PoolStep
  <2>2. CASE Die(p) \/ WaitPanics(p) BY <2>2 DEF WaitPanics, Die, Next, PoolStep
  <2>3. CASE Wait(p) \/ WaitReturns(p) \/ Close(p) BY <2>3 DEF Wait, WaitReturns, Close
  <2>4. CASE Boot(p) BY <2>4 DEF Boot, Next, PoolStep
  <2> QED BY <1>3, <2>1, <2>2, <2>3, <2>4 DEF Main
<1>4. CASE UNCHANGED allVars BY <1>4 DEF allVars
<1> QED BY <1>1, <1>2, <1>3, <1>4 DEF ServiceNext

\* So what is proved of a pool holds of the service.
LEMMA ServiceIsPool == ServiceSpec => Spec
<1>1. ServiceInit => Init BY DEF ServiceInit
<1>2. [ServiceNext]_allVars => [Next]_vars BY StepOfPool
<1> QED BY <1>1, <1>2, PTL DEF ServiceSpec, Spec

\* No boot, shutdown, early signal or crash of a service makes a job disappear
\* without a recorded outcome.
THEOREM ServiceLosesNoJob == ServiceSpec => []NoJobVanishes
BY ServiceIsPool, JobsDoNotVanish

\* Nor does any of them settle a job twice, or without an outcome: job by job the
\* service is JobDelivery.
THEOREM ServiceDeliversJobs == ServiceSpec => DeliversJobs
BY ServiceIsPool, PoolDeliversJobs

-----------------------------------------------------------------------------
\* What a step of processJob does to the workers' positions: only its worker
\* moves, and it gets busy only under a live context.
LEMMA ProcessJobMoves ==
  ASSUME TypeOK, NEW w \in Workers, ProcessJob(w)
  PROVE  /\ phase' = phase
         /\ \A v \in Workers : v # w => pc'[v] = pc[v]
         /\ pc'[w] \in Busy => pc[w] \in Busy \/ ContextLive(w)
<1> USE DEF TypeOK, Busy, poolVars, Goto, Return
<1>1. CASE PullMessage(w) BY <1>1 DEF PullMessage
<1>2. CASE PullFails(w) BY <1>2 DEF PullFails, workerVars
<1>3. CASE PullNothing(w) BY <1>3 DEF PullNothing, vars, workerVars
<1>4. CASE CheckDue(w) BY <1>4 DEF CheckDue
<1>5. CASE RateLimited(w) BY <1>5 DEF RateLimited
<1>6. CASE UnknownType(w) BY <1>6 DEF UnknownType
<1>7. CASE StartRun(w) BY <1>7 DEF StartRun
<1>8. CASE Drop(w) BY <1>8 DEF Drop
<1>9. CASE FinishRun(w) BY <1>9 DEF FinishRun
<1>10. CASE AckRun(w) BY <1>10 DEF AckRun
<1>11. CASE PushRetry(w) BY <1>11 DEF PushRetry
<1>12. CASE PushRetryFails(w) BY <1>12 DEF PushRetryFails
<1> QED
  BY <1>1, <1>2, <1>3, <1>4, <1>5, <1>6, <1>7, <1>8, <1>9, <1>10, <1>11, <1>12
  DEF ProcessJob

\* At first main serves, nobody is spawned and nobody is busy.
LEMMA InitServiceInv == ServiceInit => ServiceInv
BY DEF ServiceInit, Init, ServiceInv, ServiceTypeOK, Positions, BusyAreCounted,
       ShutdownCancelled, NoWorkAfterClose, Busy

\* Steps that leave the processes and the workers' positions alone.
LEMMA QuietServiceKeeps ==
  ASSUME ServiceInv, UNCHANGED <<main, counted, pc, phase>>
  PROVE  ServiceInv'
BY DEF ServiceInv, ServiceTypeOK, BusyAreCounted, ShutdownCancelled, NoWorkAfterClose

\* A spawned worker is idle.
LEMMA SpawnKeeps == ASSUME ServiceInv, NEW w \in Workers, Spawn(w) PROVE ServiceInv'
BY DEF Spawn, vars, workerVars, poolVars, ServiceInv, ServiceTypeOK, BusyAreCounted,
       ShutdownCancelled, NoWorkAfterClose

\* Past the signal no worker gets busy.
LEMMA WorkKeeps ==
  ASSUME TypeOK, ServiceInv, NEW w \in Workers, Work(w)
  PROVE  ServiceInv'
<1> USE DEF Work, serviceVars, ServiceInv
<1>1. /\ phase' = phase
      /\ \A v \in Workers : v # w => pc'[v] = pc[v]
      /\ pc'[w] \in Busy => pc[w] \in Busy \/ ContextLive(w)
  BY ProcessJobMoves
<1>2. ServiceTypeOK' /\ BusyAreCounted' /\ ShutdownCancelled'
  BY <1>1 DEF ServiceTypeOK, BusyAreCounted, ShutdownCancelled
<1>3. NoWorkAfterClose'
  BY <1>1, ConstantsAssumption
  DEF NoWorkAfterClose, ShutdownCancelled, ContextLive
<1> QED BY <1>2, <1>3

\* A worker that returns is not busy; that it may wake Wait does not matter yet.
LEMMA LeaveKeeps ==
  ASSUME TypeOK, ServiceInv, NEW w \in Workers, Leave(w)
  PROVE  ServiceInv'
<1> USE ConstantsAssumption DEF Leave, Exit, poolVars, ServiceInv, TypeOK
<1>1. /\ ServiceTypeOK'
      /\ \A p \in Pools :
           main'[p] = main[p] \/ (main[p] = "waiting" /\ main'[p] = "woken")
  BY DEF ServiceTypeOK, Positions
<1>2. BusyAreCounted' BY DEF BusyAreCounted, Busy
<1>3. ShutdownCancelled' BY <1>1 DEF ShutdownCancelled
<1>4. NoWorkAfterClose' BY <1>1 DEF NoWorkAfterClose, Busy
<1> QED BY <1>1, <1>2, <1>3, <1>4

LEMMA VanishKeeps ==
  ASSUME TypeOK, ServiceInv, NEW w \in Workers, Vanish(w)
  PROVE  ServiceInv'
BY DEF Vanish, Exit, poolVars, TypeOK, Busy, ServiceInv, ServiceTypeOK, BusyAreCounted,
       ShutdownCancelled, NoWorkAfterClose

\* The signal cancels the context.
LEMMA SignalKeeps ==
  ASSUME TypeOK, ServiceInv, NEW p \in Pools, Signal(p)
  PROVE  ServiceInv'
<1> USE ConstantsAssumption
    DEF Signal, Cancel, Move, workerVars, TypeOK, ServiceInv
<1>1. ServiceTypeOK' BY DEF ServiceTypeOK, Positions
<1>2. BusyAreCounted' BY DEF BusyAreCounted
<1>3. ShutdownCancelled' BY DEF ShutdownCancelled, ServiceTypeOK
<1>4. NoWorkAfterClose' BY DEF NoWorkAfterClose, ServiceTypeOK
<1> QED BY <1>1, <1>2, <1>3, <1>4

\* Where Wait is left for good, the count is zero and so nobody is busy.
LEMMA WaitKeeps ==
  ASSUME ServiceInv, NEW p \in Pools, Wait(p) \/ WaitReturns(p) \/ Close(p)
  PROVE  ServiceInv'
<1> USE ConstantsAssumption
    DEF Wait, WaitReturns, Close, Move, vars, workerVars, poolVars, ServiceInv
<1>1. ServiceTypeOK' /\ BusyAreCounted'
  BY DEF ServiceTypeOK, Positions, BusyAreCounted
<1>2. ShutdownCancelled' BY DEF ShutdownCancelled, ServiceTypeOK
<1>3. NoWorkAfterClose'
  <2> SUFFICES ASSUME NEW w \in Workers, main'[PoolOf[w]] \in {"closing", "ended"}
               PROVE  pc[w] \notin Busy
    BY DEF NoWorkAfterClose
  <2>1. CASE PoolOf[w] # p
    BY <2>1 DEF ServiceTypeOK, NoWorkAfterClose
  <2>2. CASE PoolOf[w] = p /\ main[p] = "closing"
    BY <2>2 DEF NoWorkAfterClose
  <2>3. CASE PoolOf[w] = p /\ main[p] # "closing"
    <3>1. CountedOf(p) = {} BY <2>3 DEF ServiceTypeOK
    <3> QED BY <2>3, <3>1 DEF CountedOf, WorkersOf, BusyAreCounted
  <2> QED BY <2>1, <2>2, <2>3
<1> QED BY <1>1, <1>2, <1>3

\* A crash leaves no worker.
LEMMA DieKeeps == ASSUME TypeOK, ServiceInv, NEW p \in Pools, Die(p) PROVE ServiceInv'
<1> USE ConstantsAssumption
    DEF Die, Crash, Move, WorkersOf, TypeOK, ServiceInv
<1>1. ServiceTypeOK' BY DEF ServiceTypeOK, Positions
<1>2. BusyAreCounted' BY DEF BusyAreCounted, Busy
<1>3. ShutdownCancelled' BY DEF ShutdownCancelled, ServiceTypeOK
<1>4. NoWorkAfterClose' BY DEF NoWorkAfterClose, ServiceTypeOK, Busy
<1> QED BY <1>1, <1>2, <1>3, <1>4

\* A new process serves, and its workers are idle.
LEMMA BootKeeps == ASSUME TypeOK, ServiceInv, NEW p \in Pools, Boot(p) PROVE ServiceInv'
<1> USE ConstantsAssumption
    DEF Boot, Start, Move, WorkersOf, TypeOK, ServiceInv
<1>1. ServiceTypeOK' BY DEF ServiceTypeOK, Positions
<1>2. BusyAreCounted' BY DEF BusyAreCounted, Busy
<1>3. ShutdownCancelled' BY DEF ShutdownCancelled, ServiceTypeOK
<1>4. NoWorkAfterClose' BY DEF NoWorkAfterClose, ServiceTypeOK, Busy
<1> QED BY <1>1, <1>2, <1>3, <1>4

\* Every step keeps the invariant.
LEMMA ServiceNextInv == TypeOK /\ ServiceInv /\ [ServiceNext]_allVars => ServiceInv'
<1> SUFFICES ASSUME TypeOK, ServiceInv, [ServiceNext]_allVars PROVE ServiceInv'
  OBVIOUS
<1>1. CASE Environment
  BY <1>1, QuietServiceKeeps
  DEF Environment, Schedule, QueueStep, BecomeDue, Expire, serviceVars, workerVars, poolVars
<1>2. ASSUME NEW w \in Workers, Goroutine(w) PROVE ServiceInv'
  BY <1>2, SpawnKeeps, WorkKeeps, LeaveKeeps, VanishKeeps DEF Goroutine
<1>3. ASSUME NEW p \in Pools, Signal(p) \/ Die(p) \/ Main(p) PROVE ServiceInv'
  BY <1>3, SignalKeeps, DieKeeps, WaitKeeps, BootKeeps DEF Main, WaitPanics
<1>4. CASE UNCHANGED allVars
  BY <1>4, QuietServiceKeeps DEF allVars, serviceVars, vars, workerVars, poolVars
<1> QED BY <1>1, <1>2, <1>3, <1>4 DEF ServiceNext

\* ServiceInv holds in every reachable state of the service, for any number of
\* processes and workers.
THEOREM ServiceInvariant == ServiceSpec => []ServiceInv
<1>1. ServiceSpec => []TypeOK
  BY ServiceIsPool, TypeCorrect
<1> QED BY <1>1, InitServiceInv, ServiceNextInv, PTL DEF ServiceSpec

\* When main closes the clients, and after, no worker is between a pull and its
\* last call, even if the signal came while Pool.Start was still spawning.
THEOREM ClientsOutliveWork == ServiceSpec => []NoWorkAfterClose
<1>1. ServiceInv => NoWorkAfterClose BY DEF ServiceInv
<1> QED BY <1>1, ServiceInvariant, PTL
=============================================================================
