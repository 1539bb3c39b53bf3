------------------------ MODULE WorkerPoolRefinement ------------------------
(***************************************************************************)
(* WorkerPool implements JobDelivery: seen from the scheduler, whatever    *)
(* the workers, the queue and the pools do to messages only makes a job    *)
(* arrive, stay pending, or settle with an outcome, and a settled job      *)
(* stays settled.                                                          *)
(*                                                                         *)
(* The abstract stage of a job is a function of the queue and the workers; *)
(* StepFacts(j) collects what one step of the pool may do to what that     *)
(* function reads, and is proved action by action from IndInv.             *)
(***************************************************************************)
EXTENDS WorkerPoolProofs

\* What a step may do to job j: it stays scheduled, a new job is queued, its
\* outcomes grow, and only while it is in progress, and once it is no longer
\* in progress it never is again.
StepFacts(j) ==
  /\ Scheduled(j) => Scheduled(j)'
  /\ Scheduled(j)' => Scheduled(j) \/ Queued(j)'
  /\ fate[j] \subseteq fate'[j]
  /\ fate'[j] # fate[j] => InProgress(j)
  /\ InProgress(j)' => InProgress(j) \/ ~Scheduled(j)

\* Steps that touch neither messages nor workers.
LEMMA QuietStep ==
  ASSUME UNCHANGED <<st, body, workerVars, historyVars>>, NEW i \in Jobs
  PROVE  StepFacts(i)
  BY DEF StepFacts, Scheduled, Queued, InProgress, JobOf, workerVars, historyVars

\* The only step that adds a job: it is queued at once.
LEMMA ScheduleStep ==
  ASSUME IndInv, NEW j \in Jobs, Schedule(j), NEW i \in Jobs
  PROVE  StepFacts(i)
<1> USE DEF IndInv, JobOf
<1>1. Scheduled(i) => Scheduled(i)'
  BY DEF TypeOK, Scheduled, Schedule, Push, workerVars, historyVars
<1>2. Scheduled(i)' => Scheduled(i) \/ Queued(i)'
  BY DEF TypeOK, Scheduled, Queued, Schedule, Push, workerVars, historyVars
<1>3. fate[i] \subseteq fate'[i] BY DEF Schedule, Push, workerVars, historyVars
<1>4. fate'[i] # fate[i] => InProgress(i) BY DEF Schedule, Push, workerVars, historyVars
<1>5. InProgress(i)' => InProgress(i) \/ ~Scheduled(i)
  BY DEF TypeOK, Queued, InProgress, Scheduled, UsedHaveBody, HeldAreUsed, Busy,
         Schedule, Push, workerVars, historyVars
<1> QED BY <1>1, <1>2, <1>3, <1>4, <1>5 DEF StepFacts

\* A message that dies was in the queue, so its job was in progress.
LEMMA ExpireStep ==
  ASSUME IndInv, NEW m \in MsgIds, Expire(m), NEW i \in Jobs
  PROVE  StepFacts(i)
<1> USE DEF IndInv, JobOf
<1>1. Scheduled(i) => Scheduled(i)' BY DEF TypeOK, Scheduled, Expire, workerVars
<1>2. Scheduled(i)' => Scheduled(i) \/ Queued(i)'
  BY DEF TypeOK, Scheduled, Queued, Expire, workerVars
<1>3. fate[i] \subseteq fate'[i] BY DEF TypeOK, UsedHaveBody, Body, Expire, workerVars
<1>4. fate'[i] # fate[i] => InProgress(i)
  BY DEF TypeOK, Queued, InProgress, UsedHaveBody, HeldAreUsed, Busy, Body, Expire,
         workerVars
<1>5. InProgress(i)' => InProgress(i) \/ ~Scheduled(i)
  BY DEF TypeOK, Queued, InProgress, Scheduled, UsedHaveBody, HeldAreUsed, Busy, Expire,
         workerVars
<1> QED BY <1>1, <1>2, <1>3, <1>4, <1>5 DEF StepFacts

\* The message stays in the queue, in flight.
LEMMA PullMessageStep ==
  ASSUME IndInv, NEW w \in Workers, PullMessage(w), NEW i \in Jobs
  PROVE  StepFacts(i)
<1> USE DEF IndInv, JobOf
<1>1. Scheduled(i) => Scheduled(i)'
  BY DEF TypeOK, Scheduled, PullMessage, Pull, historyVars
<1>2. Scheduled(i)' => Scheduled(i) \/ Queued(i)'
  BY DEF TypeOK, Scheduled, Queued, PullMessage, Pull, historyVars
<1>3. fate[i] \subseteq fate'[i] BY DEF PullMessage, Pull, historyVars
<1>4. fate'[i] # fate[i] => InProgress(i) BY DEF PullMessage, Pull, historyVars
<1>5. InProgress(i)' => InProgress(i) \/ ~Scheduled(i)
  BY DEF TypeOK, Queued, InProgress, Scheduled, UsedHaveBody, HeldAreUsed, Busy,
         PullMessage, Pull, historyVars
<1> QED BY <1>1, <1>2, <1>3, <1>4, <1>5 DEF StepFacts

\* The message stays in the queue, in flight.
LEMMA PullFailsStep ==
  ASSUME IndInv, NEW w \in Workers, PullFails(w), NEW i \in Jobs
  PROVE  StepFacts(i)
<1> USE DEF IndInv, JobOf
<1>1. Scheduled(i) => Scheduled(i)'
  BY DEF TypeOK, Scheduled, PullFails, Pull, workerVars, historyVars
<1>2. Scheduled(i)' => Scheduled(i) \/ Queued(i)'
  BY DEF TypeOK, Scheduled, Queued, PullFails, Pull, workerVars, historyVars
<1>3. fate[i] \subseteq fate'[i] BY DEF PullFails, Pull, workerVars, historyVars
<1>4. fate'[i] # fate[i] => InProgress(i)
  BY DEF PullFails, Pull, workerVars, historyVars
<1>5. InProgress(i)' => InProgress(i) \/ ~Scheduled(i)
  BY DEF TypeOK, Queued, InProgress, Scheduled, UsedHaveBody, HeldAreUsed, Busy,
         PullFails, Pull, workerVars, historyVars
<1> QED BY <1>1, <1>2, <1>3, <1>4, <1>5 DEF StepFacts

\* The worker keeps the message.
LEMMA CheckDueStep ==
  ASSUME IndInv, NEW w \in Workers, CheckDue(w), NEW i \in Jobs
  PROVE  StepFacts(i)
<1> USE DEF IndInv, JobOf
<1>1. Scheduled(i) => Scheduled(i)'
  BY DEF TypeOK, Scheduled, CheckDue, Goto, queueVars, historyVars
<1>2. Scheduled(i)' => Scheduled(i) \/ Queued(i)'
  BY DEF TypeOK, Scheduled, Queued, CheckDue, Goto, queueVars, historyVars
<1>3. fate[i] \subseteq fate'[i] BY DEF CheckDue, Goto, queueVars, historyVars
<1>4. fate'[i] # fate[i] => InProgress(i) BY DEF CheckDue, Goto, queueVars, historyVars
<1>5. InProgress(i)' => InProgress(i) \/ ~Scheduled(i)
  BY DEF TypeOK, Queued, InProgress, Scheduled, UsedHaveBody, HeldAreUsed, Busy,
         CheckDue, Goto, queueVars, historyVars
<1> QED BY <1>1, <1>2, <1>3, <1>4, <1>5 DEF StepFacts

\* The worker lets go of a message; nothing else changes.
LEMMA RateLimitedStep ==
  ASSUME IndInv, NEW w \in Workers, RateLimited(w), NEW i \in Jobs
  PROVE  StepFacts(i)
<1> USE DEF IndInv, JobOf
<1>1. Scheduled(i) => Scheduled(i)'
  BY DEF TypeOK, Scheduled, RateLimited, Return, queueVars, historyVars
<1>2. Scheduled(i)' => Scheduled(i) \/ Queued(i)'
  BY DEF TypeOK, Scheduled, Queued, RateLimited, Return, queueVars, historyVars
<1>3. fate[i] \subseteq fate'[i] BY DEF RateLimited, Return, queueVars, historyVars
<1>4. fate'[i] # fate[i] => InProgress(i)
  BY DEF RateLimited, Return, queueVars, historyVars
<1>5. InProgress(i)' => InProgress(i) \/ ~Scheduled(i)
  BY DEF TypeOK, Queued, InProgress, Scheduled, UsedHaveBody, HeldAreUsed, Busy,
         RateLimited, Return, queueVars, historyVars
<1> QED BY <1>1, <1>2, <1>3, <1>4, <1>5 DEF StepFacts

\* The worker keeps the message.
LEMMA UnknownTypeStep ==
  ASSUME IndInv, NEW w \in Workers, UnknownType(w), NEW i \in Jobs
  PROVE  StepFacts(i)
<1> USE DEF IndInv, JobOf
<1>1. Scheduled(i) => Scheduled(i)'
  BY DEF TypeOK, Scheduled, UnknownType, Goto, queueVars, historyVars
<1>2. Scheduled(i)' => Scheduled(i) \/ Queued(i)'
  BY DEF TypeOK, Scheduled, Queued, UnknownType, Goto, queueVars, historyVars
<1>3. fate[i] \subseteq fate'[i] BY DEF UnknownType, Goto, queueVars, historyVars
<1>4. fate'[i] # fate[i] => InProgress(i)
  BY DEF UnknownType, Goto, queueVars, historyVars
<1>5. InProgress(i)' => InProgress(i) \/ ~Scheduled(i)
  BY DEF TypeOK, Queued, InProgress, Scheduled, UsedHaveBody, HeldAreUsed, Busy,
         UnknownType, Goto, queueVars, historyVars
<1> QED BY <1>1, <1>2, <1>3, <1>4, <1>5 DEF StepFacts

\* The worker keeps the message.
LEMMA StartRunStep ==
  ASSUME IndInv, NEW w \in Workers, StartRun(w), NEW i \in Jobs
  PROVE  StepFacts(i)
<1> USE DEF IndInv, JobOf
<1>1. Scheduled(i) => Scheduled(i)' BY DEF TypeOK, Scheduled, StartRun, Goto, queueVars
<1>2. Scheduled(i)' => Scheduled(i) \/ Queued(i)'
  BY DEF TypeOK, Scheduled, Queued, StartRun, Goto, queueVars
<1>3. fate[i] \subseteq fate'[i] BY DEF StartRun, Goto, queueVars
<1>4. fate'[i] # fate[i] => InProgress(i) BY DEF StartRun, Goto, queueVars
<1>5. InProgress(i)' => InProgress(i) \/ ~Scheduled(i)
  BY DEF TypeOK, Queued, InProgress, Scheduled, UsedHaveBody, HeldAreUsed, Busy,
         StartRun, Goto, queueVars
<1> QED BY <1>1, <1>2, <1>3, <1>4, <1>5 DEF StepFacts

\* The outcome is recorded while the worker holds the job.
LEMMA DropStep ==
  ASSUME IndInv, NEW w \in Workers, Drop(w), NEW i \in Jobs
  PROVE  StepFacts(i)
<1> USE DEF IndInv, JobOf
<1>1. Scheduled(i) => Scheduled(i)'
  BY DEF TypeOK, Scheduled, Drop, Return, Acked, NotAcked, AckApplies
<1>2. Scheduled(i)' => Scheduled(i) \/ Queued(i)'
  BY DEF TypeOK, Scheduled, Queued, Drop, Return, Acked, NotAcked, AckApplies
<1>3. fate[i] \subseteq fate'[i]
  BY DEF TypeOK, UsedHaveBody, Body, Drop, Return, Acked, NotAcked, AckApplies
<1>4. fate'[i] # fate[i] => InProgress(i)
  BY DEF TypeOK, Queued, InProgress, UsedHaveBody, HeldAreUsed, Busy, Body, Drop,
         Return, Acked, NotAcked, AckApplies
<1>5. InProgress(i)' => InProgress(i) \/ ~Scheduled(i)
  BY DEF TypeOK, Queued, InProgress, Scheduled, UsedHaveBody, HeldAreUsed, Busy, Drop,
         Return, Acked, NotAcked, AckApplies
<1> QED BY <1>1, <1>2, <1>3, <1>4, <1>5 DEF StepFacts

\* The outcome is recorded while the worker holds the job.
LEMMA FinishRunStep ==
  ASSUME IndInv, NEW w \in Workers, FinishRun(w), NEW i \in Jobs
  PROVE  StepFacts(i)
<1> USE DEF IndInv, JobOf
<1>1. Scheduled(i) => Scheduled(i)' BY DEF TypeOK, Scheduled, FinishRun, Goto, queueVars
<1>2. Scheduled(i)' => Scheduled(i) \/ Queued(i)'
  BY DEF TypeOK, Scheduled, Queued, FinishRun, Goto, queueVars
<1>3. fate[i] \subseteq fate'[i]
  BY DEF TypeOK, UsedHaveBody, Body, FinishRun, Goto, queueVars
<1>4. fate'[i] # fate[i] => InProgress(i)
  BY DEF TypeOK, Queued, InProgress, UsedHaveBody, HeldAreUsed, Busy, Body, FinishRun,
         Goto, queueVars
<1>5. InProgress(i)' => InProgress(i) \/ ~Scheduled(i)
  BY DEF TypeOK, Queued, InProgress, Scheduled, UsedHaveBody, HeldAreUsed, Busy,
         FinishRun, Goto, queueVars
<1> QED BY <1>1, <1>2, <1>3, <1>4, <1>5 DEF StepFacts

\* An acknowledgement settles a job at most, it brings none back.
LEMMA AckRunStep ==
  ASSUME IndInv, NEW w \in Workers, AckRun(w), NEW i \in Jobs
  PROVE  StepFacts(i)
<1> USE DEF IndInv, JobOf
<1>1. Scheduled(i) => Scheduled(i)'
  BY DEF TypeOK, Scheduled, AckRun, Goto, Return, Acked, NotAcked, AckApplies,
         historyVars
<1>2. Scheduled(i)' => Scheduled(i) \/ Queued(i)'
  BY DEF TypeOK, Scheduled, Queued, AckRun, Goto, Return, Acked, NotAcked, AckApplies,
         historyVars
<1>3. fate[i] \subseteq fate'[i]
  BY DEF AckRun, Goto, Return, Acked, NotAcked, AckApplies, historyVars
<1>4. fate'[i] # fate[i] => InProgress(i)
  BY DEF AckRun, Goto, Return, Acked, NotAcked, AckApplies, historyVars
<1>5. InProgress(i)' => InProgress(i) \/ ~Scheduled(i)
  BY DEF TypeOK, Queued, InProgress, Scheduled, UsedHaveBody, HeldAreUsed, Busy, AckRun,
         Goto, Return, Acked, NotAcked, AckApplies, historyVars
<1> QED BY <1>1, <1>2, <1>3, <1>4, <1>5 DEF StepFacts

\* The new message is of a job that a worker had in hand.
LEMMA PushRetryStep ==
  ASSUME IndInv, NEW w \in Workers, PushRetry(w), NEW i \in Jobs
  PROVE  StepFacts(i)
<1> USE DEF IndInv, JobOf
<1>1. Scheduled(i) => Scheduled(i)'
  BY DEF TypeOK, Scheduled, PushRetry, Push, Return, historyVars
<1>2. Scheduled(i)' => Scheduled(i) \/ Queued(i)'
  BY DEF TypeOK, Scheduled, Queued, PushRetry, Push, Return, historyVars
<1>3. fate[i] \subseteq fate'[i] BY DEF PushRetry, Push, Return, historyVars
<1>4. fate'[i] # fate[i] => InProgress(i) BY DEF PushRetry, Push, Return, historyVars
<1>5. InProgress(i)' => InProgress(i) \/ ~Scheduled(i)
  BY DEF TypeOK, Queued, InProgress, Scheduled, UsedHaveBody, HeldAreUsed, Busy,
         PushRetry, Push, Return, historyVars
<1> QED BY <1>1, <1>2, <1>3, <1>4, <1>5 DEF StepFacts

\* The loss is recorded while the worker holds the job.
LEMMA PushRetryFailsStep ==
  ASSUME IndInv, NEW w \in Workers, PushRetryFails(w), NEW i \in Jobs
  PROVE  StepFacts(i)
<1> USE DEF IndInv, JobOf
<1>1. Scheduled(i) => Scheduled(i)'
  BY DEF TypeOK, Scheduled, PushRetryFails, Return, queueVars
<1>2. Scheduled(i)' => Scheduled(i) \/ Queued(i)'
  BY DEF TypeOK, Scheduled, Queued, PushRetryFails, Return, queueVars
<1>3. fate[i] \subseteq fate'[i]
  BY DEF TypeOK, UsedHaveBody, Body, PushRetryFails, Return, queueVars
<1>4. fate'[i] # fate[i] => InProgress(i)
  BY DEF TypeOK, Queued, InProgress, UsedHaveBody, HeldAreUsed, Busy, Body,
         PushRetryFails, Return, queueVars
<1>5. InProgress(i)' => InProgress(i) \/ ~Scheduled(i)
  BY DEF TypeOK, Queued, InProgress, Scheduled, UsedHaveBody, HeldAreUsed, Busy,
         PushRetryFails, Return, queueVars
<1> QED BY <1>1, <1>2, <1>3, <1>4, <1>5 DEF StepFacts

\* An idle worker holds nothing.
LEMMA ExitStep ==
  ASSUME IndInv, NEW w \in Workers, Exit(w), NEW i \in Jobs
  PROVE  StepFacts(i)
<1> USE DEF IndInv, JobOf
<1>1. Scheduled(i) => Scheduled(i)'
  BY DEF TypeOK, Scheduled, Exit, queueVars, historyVars
<1>2. Scheduled(i)' => Scheduled(i) \/ Queued(i)'
  BY DEF TypeOK, Scheduled, Queued, Exit, queueVars, historyVars
<1>3. fate[i] \subseteq fate'[i] BY DEF Exit, queueVars, historyVars
<1>4. fate'[i] # fate[i] => InProgress(i) BY DEF Exit, queueVars, historyVars
<1>5. InProgress(i)' => InProgress(i) \/ ~Scheduled(i)
  BY DEF TypeOK, Queued, InProgress, Scheduled, UsedHaveBody, HeldAreUsed, Busy, Exit,
         queueVars, historyVars
<1> QED BY <1>1, <1>2, <1>3, <1>4, <1>5 DEF StepFacts

\* The jobs whose retry is lost were in the hands of the pool's workers.
LEMMA CrashStep ==
  ASSUME IndInv, NEW p \in Pools, Crash(p), NEW i \in Jobs
  PROVE  StepFacts(i)
<1> USE DEF IndInv, JobOf
<1>1. Scheduled(i) => Scheduled(i)'
  BY DEF TypeOK, Scheduled, Crash, WorkersOf, queueVars
<1>2. Scheduled(i)' => Scheduled(i) \/ Queued(i)'
  BY DEF TypeOK, Scheduled, Queued, Crash, WorkersOf, queueVars
<1>3. fate[i] \subseteq fate'[i]
  BY DEF TypeOK, UsedHaveBody, Body, Crash, WorkersOf, queueVars
<1>4. fate'[i] # fate[i] => InProgress(i)
  BY DEF TypeOK, Queued, InProgress, UsedHaveBody, HeldAreUsed, Busy, Body, Crash,
         WorkersOf, queueVars
<1>5. InProgress(i)' => InProgress(i) \/ ~Scheduled(i)
  BY DEF TypeOK, Queued, InProgress, Scheduled, UsedHaveBody, HeldAreUsed, Busy, Crash,
         WorkersOf, queueVars
<1> QED BY <1>1, <1>2, <1>3, <1>4, <1>5 DEF StepFacts

\* The workers of a new process hold nothing.
LEMMA StartStep ==
  ASSUME IndInv, NEW p \in Pools, Start(p), NEW i \in Jobs
  PROVE  StepFacts(i)
<1> USE DEF IndInv, JobOf
<1>1. Scheduled(i) => Scheduled(i)'
  BY DEF TypeOK, Scheduled, Start, WorkersOf, queueVars, historyVars
<1>2. Scheduled(i)' => Scheduled(i) \/ Queued(i)'
  BY DEF TypeOK, Scheduled, Queued, Start, WorkersOf, queueVars, historyVars
<1>3. fate[i] \subseteq fate'[i] BY DEF Start, WorkersOf, queueVars, historyVars
<1>4. fate'[i] # fate[i] => InProgress(i)
  BY DEF Start, WorkersOf, queueVars, historyVars
<1>5. InProgress(i)' => InProgress(i) \/ ~Scheduled(i)
  BY DEF TypeOK, Queued, InProgress, Scheduled, UsedHaveBody, HeldAreUsed, Busy, Start,
         WorkersOf, queueVars, historyVars
<1> QED BY <1>1, <1>2, <1>3, <1>4, <1>5 DEF StepFacts

-----------------------------------------------------------------------------
\* Every step of the pool, taken together.
LEMMA NextStep == ASSUME IndInv, [Next]_vars, NEW i \in Jobs PROVE StepFacts(i)
<1>1. CASE \E j \in Jobs : Schedule(j) BY <1>1, ScheduleStep
<1>2. ASSUME NEW m \in MsgIds, QueueStep(m) PROVE StepFacts(i)
  <2>1. CASE BecomeDue(m) BY <2>1, QuietStep DEF BecomeDue
  <2>2. CASE Expire(m) BY <2>2, ExpireStep
  <2> QED BY <1>2, <2>1, <2>2 DEF QueueStep
<1>3. ASSUME NEW w \in Workers, WorkerStep(w) PROVE StepFacts(i)
  <2>1. CASE PullMessage(w) BY <2>1, PullMessageStep
  <2>2. CASE PullFails(w) BY <2>2, PullFailsStep
  <2>3. CASE PullNothing(w) BY <2>3, QuietStep DEF PullNothing, vars, queueVars
  <2>4. CASE CheckDue(w) BY <2>4, CheckDueStep
  <2>5. CASE RateLimited(w) BY <2>5, RateLimitedStep
  <2>6. CASE UnknownType(w) BY <2>6, UnknownTypeStep
  <2>7. CASE StartRun(w) BY <2>7, StartRunStep
  <2>8. CASE Drop(w) BY <2>8, DropStep
  <2>9. CASE FinishRun(w) BY <2>9, FinishRunStep
  <2>10. CASE AckRun(w) BY <2>10, AckRunStep
  <2>11. CASE PushRetry(w) BY <2>11, PushRetryStep
  <2>12. CASE PushRetryFails(w) BY <2>12, PushRetryFailsStep
  <2>13. CASE Exit(w) BY <2>13, ExitStep
  <2> QED
    BY <1>3, <2>1, <2>2, <2>3, <2>4, <2>5, <2>6, <2>7, <2>8, <2>9, <2>10, <2>11, <2>12, <2>13
    DEF WorkerStep, ProcessJob
<1>4. ASSUME NEW p \in Pools, PoolStep(p) PROVE StepFacts(i)
  <2>1. CASE Stop(p) \/ Cancel(p) BY <2>1, QuietStep DEF Stop, Cancel, queueVars
  <2>2. CASE Crash(p) BY <2>2, CrashStep
  <2>3. CASE Start(p) BY <2>3, StartStep
  <2> QED BY <1>4, <2>1, <2>2, <2>3 DEF PoolStep
<1>5. CASE UNCHANGED vars BY <1>5, QuietStep DEF vars, queueVars
<1> QED BY <1>1, <1>2, <1>3, <1>4, <1>5 DEF Next

\* A step of the pool moves each job as JobDelivery allows.
LEMMA JobStep ==
  ASSUME IndInv, IndInv', [Next]_vars, NEW i \in Jobs
  PROVE  \/ AbstractDelivery!Stay(i)
         \/ AbstractDelivery!Arrive(i)
         \/ AbstractDelivery!Work(i)
         \/ AbstractDelivery!Settle(i)
<1>1. /\ Scheduled(i) => Scheduled(i)'
      /\ Scheduled(i)' => Scheduled(i) \/ Queued(i)'
      /\ fate[i] \subseteq fate'[i]
      /\ fate'[i] # fate[i] => InProgress(i)
      /\ InProgress(i)' => InProgress(i) \/ ~Scheduled(i)
  BY NextStep DEF StepFacts
<1>2. /\ Queued(i)' => InProgress(i)'
      /\ Retrying(i)' => InProgress(i)'
  BY DEF InProgress, Retrying, Busy
<1>3. Scheduled(i)' => InProgress(i)' \/ fate'[i] # {}
  BY <1>2 DEF IndInv, NoJobVanishes
<1>4. InProgress(i) => Scheduled(i)
  BY DEF IndInv, InProgress, Queued, Scheduled, HeldAreUsed, JobOf
<1>5. stage[i] = IF ~Scheduled(i) THEN "new"
                ELSE IF InProgress(i) THEN "pending" ELSE "settled"
  BY DEF stage
<1>6. stage'[i] = IF ~Scheduled(i)' THEN "new"
                 ELSE IF InProgress(i)' THEN "pending" ELSE "settled"
  BY DEF stage
<1>7. CASE ~Scheduled(i) /\ ~Scheduled(i)'
  BY <1>1, <1>4, <1>5, <1>6, <1>7 DEF AbstractDelivery!Stay
<1>8. CASE ~Scheduled(i) /\ Scheduled(i)'
  BY <1>1, <1>2, <1>4, <1>5, <1>6, <1>8 DEF AbstractDelivery!Arrive
<1>9. CASE Scheduled(i) /\ InProgress(i) /\ InProgress(i)'
  BY <1>1, <1>5, <1>6, <1>9 DEF AbstractDelivery!Work
<1>10. CASE Scheduled(i) /\ InProgress(i) /\ ~InProgress(i)'
  BY <1>1, <1>3, <1>5, <1>6, <1>10 DEF AbstractDelivery!Settle
<1>11. CASE Scheduled(i) /\ ~InProgress(i)
  BY <1>1, <1>5, <1>6, <1>11 DEF AbstractDelivery!Stay
<1> QED BY <1>7, <1>8, <1>9, <1>10, <1>11

\* Before the first job is pushed every job is new.
LEMMA InitMaps == Init => AbstractDelivery!Init
<1> SUFFICES ASSUME Init PROVE AbstractDelivery!Init
  OBVIOUS
<1>1. \A j \in Jobs : ~Scheduled(j) BY DEF Init, Scheduled
<1> QED BY <1>1 DEF Init, AbstractDelivery!Init, stage

\* Every step of the pool is a step of JobDelivery, or changes nothing it sees.
LEMMA NextMaps ==
  IndInv /\ IndInv' /\ [Next]_vars => [AbstractDelivery!Next]_<<stage, fate>>
<1> SUFFICES ASSUME IndInv, IndInv', [Next]_vars PROVE AbstractDelivery!Next
  OBVIOUS
<1>1. stage' \in [Jobs -> AbstractDelivery!Stages]
  BY DEF stage, AbstractDelivery!Stages
<1>2. fate' \in [Jobs -> SUBSET Fates]
  BY DEF IndInv, TypeOK
<1> QED BY <1>1, <1>2, JobStep DEF AbstractDelivery!Next

\* Every behaviour of the workers and the queue is, job by job, a behaviour of
\* JobDelivery: a job arrives once, is settled at most once and with an outcome.
THEOREM PoolDeliversJobs == Spec => DeliversJobs
  BY InitMaps, NextMaps, Inductive, PTL DEF Spec, DeliversJobs, AbstractDelivery!Spec
=============================================================================
