-------------------------- MODULE WorkerPoolProofs --------------------------
(***************************************************************************)
(* IndInv of WorkerPool is inductive, for any jobs, messages, workers and  *)
(* pools, any delivery limit and any bound on attempts and halts; the      *)
(* safety properties of the pool follow from it.                           *)
(*                                                                         *)
(* The argument: a delivery is a message with a receipt, a receipt is      *)
(* never used twice (PullMessage raises the message's counter), so at most *)
(* one worker holds a delivery (DeliveriesExclusive).  That worker calls   *)
(* the endpoint once (RunsFollowPC) and pushes at most one retry, after    *)
(* which it no longer holds the delivery (HeldNotRetried): hence           *)
(* OneRetryPerFailedRun.  A message leaves the queue only for an outcome   *)
(* recorded before, or for a retry the worker still has in hand            *)
(* (ResultsRecorded): hence NoJobVanishes.                                 *)
(*                                                                         *)
(* One lemma per action, and in it one step per conjunct of IndInv the     *)
(* action can disturb; the last but one collects the conjuncts whose       *)
(* variables it leaves alone.                                              *)
(***************************************************************************)
EXTENDS WorkerPool, TLAPS

\* The initial states: no message, no delivery, nobody busy.
LEMMA InitInv == Init => IndInv
<1> SUFFICES ASSUME Init PROVE IndInv
  OBVIOUS
<1> USE DEF Init, Busy
<1>1. TypeOK
  BY ConstantsAssumption DEF TypeOK, PCs, Results
<1>2. UsedHaveBody /\ HeldAreUsed /\ RunsAreDeliveries /\ DeliveriesExclusive
  BY DEF UsedHaveBody, HeldAreUsed, RunsAreDeliveries, DeliveriesExclusive
<1>3. RunsFollowPC /\ ResultsRecorded /\ HeldNotRetried
  BY DEF RunsFollowPC, ResultsRecorded, HeldNotRetried
<1>4. OneRetryPerFailedRun /\ NoJobVanishes
  BY DEF OneRetryPerFailedRun, NoJobVanishes, Scheduled
<1> QED
  BY <1>1, <1>2, <1>3, <1>4 DEF IndInv

\* Steps that touch neither messages nor workers: a stop, a cancellation, a
\* message becoming due, an empty pull, a stutter.
LEMMA QuietKeeps ==
  ASSUME IndInv, TypeOK', UNCHANGED <<st, body, deliveries, workerVars, historyVars>>
  PROVE  IndInv'
<1> USE DEF IndInv, Busy, Delivery, JobOf, workerVars, historyVars
<1>1. UsedHaveBody' /\ HeldAreUsed' /\ RunsAreDeliveries' /\ DeliveriesExclusive'
  BY DEF UsedHaveBody, HeldAreUsed, RunsAreDeliveries, DeliveriesExclusive
<1>2. RunsFollowPC' /\ ResultsRecorded' /\ HeldNotRetried'
  BY DEF RunsFollowPC, ResultsRecorded, HeldNotRetried
<1>3. OneRetryPerFailedRun' /\ NoJobVanishes'
  BY DEF OneRetryPerFailedRun, NoJobVanishes, Scheduled, Queued, Retrying
<1> QED
  BY <1>1, <1>2, <1>3

\* A new message: its attempt is the first and it has no parent.
LEMMA ScheduleKeeps == ASSUME IndInv, NEW j \in Jobs, Schedule(j) PROVE IndInv'
<1> USE ConstantsAssumption, NoBodyAssumption DEF IndInv, Busy, Delivery, JobOf
<1>1. TypeOK' BY DEF TypeOK, Body, Schedule, Push, workerVars, poolVars, historyVars
<1>2. UsedHaveBody' BY DEF TypeOK, UsedHaveBody, Body, Schedule, Push
<1>3. HeldAreUsed' BY DEF HeldAreUsed, Schedule, Push, workerVars
<1>4. RunsAreDeliveries' BY DEF RunsAreDeliveries, Schedule, Push, historyVars
<1>5. ResultsRecorded'
  BY DEF TypeOK, HeldAreUsed, ResultsRecorded, Schedule, Push, workerVars, historyVars
<1>6. HeldNotRetried' BY DEF TypeOK, HeldNotRetried, Schedule, Push, workerVars
<1>7. OneRetryPerFailedRun'
  BY DEF TypeOK, OneRetryPerFailedRun, Schedule, Push, historyVars
<1>8. NoJobVanishes'
  BY DEF NoJobVanishes, Scheduled, Queued, Retrying, HeldAreUsed, Schedule, Push,
         workerVars, historyVars
<1>9. DeliveriesExclusive' /\ RunsFollowPC'
  BY DEF DeliveriesExclusive, RunsFollowPC, Schedule, Push, workerVars, poolVars,
         historyVars
<1> QED BY <1>1, <1>2, <1>3, <1>4, <1>5, <1>6, <1>7, <1>8, <1>9

\* A message in flight becomes visible again, or dies with its death recorded.
LEMMA ExpireLosesNoJob ==
  ASSUME IndInv, NEW m \in MsgIds, Expire(m)
  PROVE  NoJobVanishes'
<1> USE DEF IndInv, JobOf
<1> SUFFICES ASSUME NEW j \in Jobs, Scheduled(j)'
             PROVE  (Queued(j) \/ Retrying(j) \/ fate[j] # {})'
  BY DEF NoJobVanishes
<1>1. Scheduled(j) BY DEF Scheduled, Expire, TypeOK
<1>2. CASE fate[j] # {} BY <1>2 DEF Expire, TypeOK, UsedHaveBody, Body
<1>3. CASE Retrying(j) BY <1>3 DEF Expire, Retrying, workerVars
<1>4. ASSUME NEW n \in MsgIds, st[n] \in {"ready", "inflight"}, body[n].job = j
      PROVE Queued(j)' \/ fate'[j] # {}
  <2>1. CASE n # m BY <1>4, <2>1 DEF Expire, Queued, TypeOK
  <2>2. CASE n = m
    <3>1. CASE deliveries[m] < MaxDeliveries BY <1>4, <2>2, <3>1 DEF Expire, Queued, TypeOK
    <3>2. CASE ~(deliveries[m] < MaxDeliveries)
      BY <1>4, <2>2, <3>2 DEF Expire, TypeOK
    <3> QED BY <3>1, <3>2
  <2> QED BY <2>1, <2>2
<1> QED BY <1>1, <1>2, <1>3, <1>4 DEF NoJobVanishes, Queued

\* A message leaves the flight: it stays in the queue, or its death is recorded.
LEMMA ExpireKeeps == ASSUME IndInv, NEW m \in MsgIds, Expire(m) PROVE IndInv'
<1> USE ConstantsAssumption, NoBodyAssumption DEF IndInv, Busy, Delivery, JobOf
<1>1. TypeOK' BY DEF TypeOK, Fates, Expire, workerVars, poolVars
<1>2. UsedHaveBody' BY DEF TypeOK, UsedHaveBody, Expire
<1>3. HeldAreUsed' BY DEF TypeOK, HeldAreUsed, Expire, workerVars
<1>4. RunsAreDeliveries' BY DEF TypeOK, RunsAreDeliveries, Deliveries, Expire
<1>5. ResultsRecorded'
  BY DEF TypeOK, HeldAreUsed, ResultsRecorded, UsedHaveBody, Body, Expire, workerVars
<1>6. HeldNotRetried' BY DEF TypeOK, HeldNotRetried, Expire, workerVars
<1>7. OneRetryPerFailedRun' BY DEF TypeOK, OneRetryPerFailedRun, Deliveries, Expire
<1>8. NoJobVanishes' BY ExpireLosesNoJob
<1>9. DeliveriesExclusive' /\ RunsFollowPC'
  BY DEF DeliveriesExclusive, RunsFollowPC, Expire, workerVars, poolVars
<1> QED BY <1>1, <1>2, <1>3, <1>4, <1>5, <1>6, <1>7, <1>8, <1>9

\* The receipt is above every earlier one, so no other worker and no run has it.
LEMMA PullMessageKeeps == ASSUME IndInv, NEW w \in Workers, PullMessage(w) PROVE IndInv'
<1> USE ConstantsAssumption, NoBodyAssumption DEF IndInv, Busy, Delivery, JobOf
<1>1. TypeOK' BY DEF TypeOK, PCs, PullMessage, Pull, poolVars, historyVars
<1>2. UsedHaveBody' BY DEF UsedHaveBody, PullMessage, Pull
<1>3. HeldAreUsed' BY DEF TypeOK, HeldAreUsed, PullMessage, Pull
<1>4. RunsAreDeliveries'
  BY DEF TypeOK, RunsAreDeliveries, Deliveries, PullMessage, Pull, historyVars
<1>5. DeliveriesExclusive'
  BY DEF TypeOK, DeliveriesExclusive, HeldAreUsed, PullMessage, Pull
<1>6. RunsFollowPC'
  BY DEF TypeOK, RunsFollowPC, RunsAreDeliveries, PullMessage, Pull, historyVars
<1>7. ResultsRecorded' BY DEF TypeOK, ResultsRecorded, PullMessage, Pull, historyVars
<1>8. HeldNotRetried'
  BY DEF TypeOK, HeldNotRetried, RunsAreDeliveries, OneRetryPerFailedRun, PullMessage,
         Pull
<1>9. OneRetryPerFailedRun' BY DEF OneRetryPerFailedRun, PullMessage, Pull, historyVars
<1>10. NoJobVanishes'
  BY DEF NoJobVanishes, Scheduled, Queued, Retrying, PullMessage, Pull, historyVars
<1> QED BY <1>1, <1>2, <1>3, <1>4, <1>5, <1>6, <1>7, <1>8, <1>9, <1>10

\* Only a receipt is spent.
LEMMA PullFailsKeeps == ASSUME IndInv, NEW w \in Workers, PullFails(w) PROVE IndInv'
<1> USE ConstantsAssumption, NoBodyAssumption DEF IndInv, Busy, Delivery, JobOf
<1>1. TypeOK' BY DEF TypeOK, PullFails, Pull, workerVars, poolVars, historyVars
<1>2. UsedHaveBody' BY DEF UsedHaveBody, PullFails, Pull
<1>3. HeldAreUsed' BY DEF TypeOK, HeldAreUsed, PullFails, Pull, workerVars
<1>4. RunsAreDeliveries'
  BY DEF TypeOK, RunsAreDeliveries, Deliveries, PullFails, Pull, historyVars
<1>5. HeldNotRetried' BY DEF HeldNotRetried, PullFails, Pull, workerVars
<1>6. OneRetryPerFailedRun' BY DEF OneRetryPerFailedRun, PullFails, Pull, historyVars
<1>7. NoJobVanishes'
  BY DEF NoJobVanishes, Scheduled, Queued, Retrying, PullFails, Pull, workerVars,
         historyVars
<1>8. DeliveriesExclusive' /\ RunsFollowPC' /\ ResultsRecorded'
  BY DEF DeliveriesExclusive, RunsFollowPC, ResultsRecorded, PullFails, Pull,
         workerVars, poolVars, historyVars
<1> QED BY <1>1, <1>2, <1>3, <1>4, <1>5, <1>6, <1>7, <1>8

\* The worker moves on with the same delivery.
LEMMA CheckDueKeeps == ASSUME IndInv, NEW w \in Workers, CheckDue(w) PROVE IndInv'
<1> USE ConstantsAssumption, NoBodyAssumption DEF IndInv, Busy, Delivery, JobOf
<1>1. TypeOK'
  BY DEF TypeOK, PCs, Results, CheckDue, Goto, queueVars, poolVars, historyVars
<1>2. HeldAreUsed' BY DEF TypeOK, HeldAreUsed, CheckDue, Goto, queueVars
<1>3. DeliveriesExclusive' BY DEF TypeOK, DeliveriesExclusive, CheckDue, Goto
<1>4. RunsFollowPC' BY DEF TypeOK, RunsFollowPC, CheckDue, Goto, historyVars
<1>5. ResultsRecorded'
  BY DEF TypeOK, HeldAreUsed, ResultsRecorded, UsedHaveBody, Body, CheckDue, Goto,
         queueVars, historyVars
<1>6. HeldNotRetried' BY DEF TypeOK, HeldNotRetried, CheckDue, Goto, queueVars
<1>7. NoJobVanishes'
  BY DEF TypeOK, NoJobVanishes, Scheduled, Queued, Retrying, CheckDue, Goto, queueVars,
         historyVars
<1>8. UsedHaveBody' /\ RunsAreDeliveries' /\ OneRetryPerFailedRun'
  BY DEF UsedHaveBody, RunsAreDeliveries, OneRetryPerFailedRun, CheckDue, Goto,
         queueVars, poolVars, historyVars
<1> QED BY <1>1, <1>2, <1>3, <1>4, <1>5, <1>6, <1>7, <1>8

\* The worker drops the message; the queue still has it.
LEMMA RateLimitedKeeps == ASSUME IndInv, NEW w \in Workers, RateLimited(w) PROVE IndInv'
<1> USE ConstantsAssumption, NoBodyAssumption DEF IndInv, Busy, Delivery, JobOf
<1>1. TypeOK'
  BY DEF TypeOK, PCs, Results, RateLimited, Return, queueVars, poolVars, historyVars
<1>2. HeldAreUsed' BY DEF TypeOK, HeldAreUsed, RateLimited, Return, queueVars
<1>3. DeliveriesExclusive' BY DEF TypeOK, DeliveriesExclusive, RateLimited, Return
<1>4. RunsFollowPC' BY DEF TypeOK, RunsFollowPC, RateLimited, Return, historyVars
<1>5. ResultsRecorded'
  BY DEF TypeOK, ResultsRecorded, RateLimited, Return, queueVars, historyVars
<1>6. HeldNotRetried' BY DEF TypeOK, HeldNotRetried, RateLimited, Return, queueVars
<1>7. NoJobVanishes'
  BY DEF NoJobVanishes, Scheduled, Queued, Retrying, RateLimited, Return, queueVars,
         historyVars
<1>8. UsedHaveBody' /\ RunsAreDeliveries' /\ OneRetryPerFailedRun'
  BY DEF UsedHaveBody, RunsAreDeliveries, OneRetryPerFailedRun, RateLimited, Return,
         queueVars, poolVars, historyVars
<1> QED BY <1>1, <1>2, <1>3, <1>4, <1>5, <1>6, <1>7, <1>8

\* The worker moves on with the same delivery.
LEMMA UnknownTypeKeeps == ASSUME IndInv, NEW w \in Workers, UnknownType(w) PROVE IndInv'
<1> USE ConstantsAssumption, NoBodyAssumption DEF IndInv, Busy, Delivery, JobOf
<1>1. TypeOK'
  BY DEF TypeOK, PCs, Results, UnknownType, Goto, queueVars, poolVars, historyVars
<1>2. HeldAreUsed' BY DEF HeldAreUsed, UnknownType, Goto, queueVars
<1>3. DeliveriesExclusive' BY DEF DeliveriesExclusive, UnknownType, Goto
<1>4. RunsFollowPC' BY DEF RunsFollowPC, UnknownType, Goto, historyVars
<1>5. ResultsRecorded'
  BY DEF TypeOK, ResultsRecorded, UnknownType, Goto, queueVars, historyVars
<1>6. HeldNotRetried' BY DEF HeldNotRetried, UnknownType, Goto, queueVars
<1>7. NoJobVanishes'
  BY DEF NoJobVanishes, Scheduled, Queued, Retrying, UnknownType, Goto, queueVars,
         historyVars
<1>8. UsedHaveBody' /\ RunsAreDeliveries' /\ OneRetryPerFailedRun'
  BY DEF UsedHaveBody, RunsAreDeliveries, OneRetryPerFailedRun, UnknownType, Goto,
         queueVars, poolVars, historyVars
<1> QED BY <1>1, <1>2, <1>3, <1>4, <1>5, <1>6, <1>7, <1>8

\* No other worker holds the delivery that enters runs.
LEMMA StartRunKeeps == ASSUME IndInv, NEW w \in Workers, StartRun(w) PROVE IndInv'
<1> USE ConstantsAssumption, NoBodyAssumption DEF IndInv, Busy, Delivery, JobOf
<1>1. TypeOK'
  BY DEF TypeOK, Deliveries, PCs, Results, HeldAreUsed, StartRun, Goto, queueVars,
         poolVars
<1>2. HeldAreUsed' BY DEF HeldAreUsed, StartRun, Goto, queueVars
<1>3. RunsAreDeliveries' BY DEF RunsAreDeliveries, HeldAreUsed, StartRun, queueVars
<1>4. DeliveriesExclusive' BY DEF DeliveriesExclusive, StartRun, Goto
<1>5. RunsFollowPC'
  BY DEF TypeOK, DeliveriesExclusive, RunsFollowPC, RunsAreDeliveries, StartRun, Goto
<1>6. ResultsRecorded' BY DEF ResultsRecorded, StartRun, Goto, queueVars
<1>7. HeldNotRetried' BY DEF HeldNotRetried, StartRun, Goto, queueVars
<1>8. OneRetryPerFailedRun' BY DEF OneRetryPerFailedRun, StartRun, queueVars
<1>9. NoJobVanishes'
  BY DEF NoJobVanishes, Scheduled, Queued, Retrying, StartRun, Goto, queueVars
<1>10. UsedHaveBody' BY DEF UsedHaveBody, StartRun, Goto, queueVars, poolVars
<1> QED BY <1>1, <1>2, <1>3, <1>4, <1>5, <1>6, <1>7, <1>8, <1>9, <1>10

\* The only message that may leave the queue is the one whose outcome is recorded.
LEMMA DropLosesNoJob ==
  ASSUME IndInv, NEW w \in Workers, Drop(w)
  PROVE  NoJobVanishes'
<1> USE DEF IndInv, JobOf
<1> SUFFICES ASSUME NEW j \in Jobs, Scheduled(j)'
             PROVE  (Queued(j) \/ Retrying(j) \/ fate[j] # {})'
  BY DEF NoJobVanishes
<1>1. Scheduled(j) BY DEF Scheduled, Drop, Acked, NotAcked, TypeOK, AckApplies
<1>2. CASE fate[j] # {} BY <1>2 DEF Drop, TypeOK, UsedHaveBody, Body
<1>3. CASE Retrying(j) BY <1>3 DEF Drop, Return, Retrying, TypeOK
<1>4. ASSUME NEW n \in MsgIds, st[n] \in {"ready", "inflight"}, body[n].job = j
      PROVE Queued(j)' \/ fate'[j] # {}
  <2>1. CASE n = held[w] /\ Acked(w) BY <1>4, <2>1 DEF Drop, Acked, NotAcked, TypeOK
  <2>2. CASE n # held[w] \/ NotAcked BY <1>4, <2>2 DEF Drop, Acked, NotAcked, Queued, TypeOK
  <2> QED BY <2>1, <2>2 DEF Drop
<1> QED BY <1>1, <1>2, <1>3, <1>4 DEF NoJobVanishes, Queued

\* What is acknowledged is recorded first in fate.
LEMMA DropKeeps == ASSUME IndInv, NEW w \in Workers, Drop(w) PROVE IndInv'
<1> USE ConstantsAssumption, NoBodyAssumption DEF IndInv, Busy, Delivery, JobOf
<1>1. TypeOK'
  BY DEF TypeOK, PCs, Results, Fates, ResultsRecorded, Drop, Return, Acked, NotAcked,
         poolVars
<1>2. UsedHaveBody' BY DEF TypeOK, UsedHaveBody, Drop, Acked, NotAcked, AckApplies
<1>3. HeldAreUsed' BY DEF TypeOK, HeldAreUsed, Drop, Return, Acked, NotAcked
<1>4. RunsAreDeliveries'
  BY DEF TypeOK, RunsAreDeliveries, Deliveries, Drop, Acked, NotAcked
<1>5. DeliveriesExclusive' BY DEF TypeOK, DeliveriesExclusive, Drop, Return
<1>6. RunsFollowPC' BY DEF TypeOK, RunsFollowPC, Drop, Return
<1>7. ResultsRecorded'
  BY DEF TypeOK, HeldAreUsed, ResultsRecorded, UsedHaveBody, Body, Drop, Return
<1>8. HeldNotRetried'
  BY DEF TypeOK, HeldNotRetried, Drop, Return, Acked, NotAcked, AckApplies
<1>9. OneRetryPerFailedRun'
  BY DEF TypeOK, OneRetryPerFailedRun, RunsFollowPC, Deliveries, Drop, Acked, NotAcked,
         AckApplies
<1>10. NoJobVanishes' BY DropLosesNoJob
<1> QED BY <1>1, <1>2, <1>3, <1>4, <1>5, <1>6, <1>7, <1>8, <1>9, <1>10

\* Every outcome but a retryable failure enters fate before the acknowledgement.
LEMMA FinishRunIsRecorded ==
  ASSUME IndInv, NEW w \in Workers, FinishRun(w)
  PROVE  ResultsRecorded'
<1> USE DEF IndInv, JobOf
<1>1. PICK r \in RunResults :
        /\ Goto(w, "ack", r)
        /\ r # "failed_retry" => fate' = [fate EXCEPT ![JobOf(w)] = @ \cup {r}]
        /\ r = "failed_retry" => fate' = fate
  BY DEF FinishRun
<1>2. JobOf(w) \in Jobs BY DEF FinishRun, HeldAreUsed, UsedHaveBody, Busy, Body
<1>3. \A j \in Jobs : fate[j] # {} => fate'[j] # {} BY <1>1, <1>2 DEF TypeOK
<1>4. \A v \in Workers : pc[v] \in Busy => JobOf(v) \in Jobs /\ JobOf(v)' = JobOf(v)
   BY <1>1 DEF FinishRun, Goto, queueVars, HeldAreUsed, UsedHaveBody, Body
<1>5. pc'[w] = "ack" /\ result'[w] = r /\ (r # "failed_retry" => fate'[JobOf(w)] # {})
   BY <1>1, <1>2 DEF Goto, TypeOK
<1>6. \A v \in Workers : v # w => pc'[v] = pc[v] /\ result'[v] = result[v]
   BY <1>1 DEF Goto, TypeOK
<1>7. pc[w] \in Busy BY DEF FinishRun, Busy
<1> QED BY <1>3, <1>4, <1>5, <1>6, <1>7 DEF ResultsRecorded, RunResults, Busy

\* The result that will be acknowledged is recorded, or is a failure to retry.
LEMMA FinishRunKeeps == ASSUME IndInv, NEW w \in Workers, FinishRun(w) PROVE IndInv'
<1> USE ConstantsAssumption, NoBodyAssumption DEF IndInv, Busy, Delivery, JobOf
<1>1. TypeOK'
  BY DEF TypeOK, Deliveries, PCs, Results, RunResults, Fates, HeldAreUsed, FinishRun,
         Goto, queueVars, poolVars
<1>2. HeldAreUsed' BY DEF HeldAreUsed, FinishRun, Goto, queueVars
<1>3. RunsAreDeliveries' BY DEF RunsAreDeliveries, RunsFollowPC, FinishRun, queueVars
<1>4. DeliveriesExclusive' BY DEF DeliveriesExclusive, FinishRun, Goto
<1>5. RunsFollowPC' BY DEF TypeOK, DeliveriesExclusive, RunsFollowPC, FinishRun, Goto
<1>6. ResultsRecorded' BY FinishRunIsRecorded
<1>7. HeldNotRetried' BY DEF HeldNotRetried, FinishRun, Goto, queueVars
<1>8. OneRetryPerFailedRun' BY DEF OneRetryPerFailedRun, FinishRun, queueVars
<1>9. NoJobVanishes'
  BY DEF TypeOK, NoJobVanishes, Scheduled, Queued, Retrying, FinishRun, Goto, queueVars
<1>10. UsedHaveBody' BY DEF UsedHaveBody, FinishRun, Goto, queueVars, poolVars
<1> QED BY <1>1, <1>2, <1>3, <1>4, <1>5, <1>6, <1>7, <1>8, <1>9, <1>10

\* An acknowledgement changes no content and frees no identity.
LEMMA AckRunRetriesOnce ==
  ASSUME IndInv, NEW w \in Workers, AckRun(w)
  PROVE  OneRetryPerFailedRun'
<1> USE DEF IndInv, JobOf
<1>1. \A m \in MsgIds : st'[m] # "free" <=> st[m] # "free"
  BY DEF AckRun, Acked, NotAcked, AckApplies, TypeOK
<1>2. UNCHANGED <<body, runs, failed>> BY DEF AckRun, historyVars
<1>3. \A d \in runs : d[1] \in MsgIds BY DEF TypeOK, Deliveries
<1> QED BY <1>1, <1>2, <1>3 DEF OneRetryPerFailedRun

\* The acknowledged job has an outcome, or its worker is about to push a retry.
LEMMA AckRunKeeps == ASSUME IndInv, NEW w \in Workers, AckRun(w) PROVE IndInv'
<1> USE ConstantsAssumption, NoBodyAssumption DEF IndInv, Busy, Delivery, JobOf
<1>1. TypeOK'
  BY DEF TypeOK, PCs, Results, ResultsRecorded, AckRun, Goto, Return, Acked, NotAcked,
         poolVars, historyVars
<1>2. UsedHaveBody' BY DEF TypeOK, UsedHaveBody, AckRun, Acked, NotAcked, AckApplies
<1>3. HeldAreUsed' BY DEF TypeOK, HeldAreUsed, AckRun, Goto, Return, Acked, NotAcked
<1>4. RunsAreDeliveries'
  BY DEF TypeOK, RunsAreDeliveries, Deliveries, AckRun, Acked, NotAcked, historyVars
<1>5. DeliveriesExclusive' BY DEF TypeOK, DeliveriesExclusive, AckRun, Goto, Return
<1>6. RunsFollowPC' BY DEF TypeOK, RunsFollowPC, AckRun, Goto, Return, historyVars
<1>7. ResultsRecorded'
  <2>1. UNCHANGED <<body, fate>> BY DEF AckRun, historyVars
  <2>2. \A v \in Workers \ {w} :
          pc'[v] = pc[v] /\ held'[v] = held[v] /\ result'[v] = result[v]
    BY DEF TypeOK, AckRun, Goto, Return
  <2>3. \/ pc'[w] = "retry" /\ result'[w] = "failed_retry"
        \/ pc'[w] = "idle"
    BY DEF TypeOK, AckRun, Goto, Return
  <2> QED BY <2>1, <2>2, <2>3 DEF ResultsRecorded
<1>8. HeldNotRetried'
  BY DEF TypeOK, HeldNotRetried, AckRun, Goto, Return, Acked, NotAcked, AckApplies
<1>9. OneRetryPerFailedRun' BY AckRunRetriesOnce
<1>10. NoJobVanishes'
  BY DEF TypeOK, NoJobVanishes, Scheduled, Queued, Retrying, HeldAreUsed,
         ResultsRecorded, AckRun, Goto, Return, Acked, NotAcked, historyVars
<1> QED BY <1>1, <1>2, <1>3, <1>4, <1>5, <1>6, <1>7, <1>8, <1>9, <1>10

\* The delivery the new message names is one that ran and failed, whose message
\* has the preceding attempt, and that no other message names.
LEMMA PushRetryRetriesOnce ==
  ASSUME IndInv, NEW w \in Workers, PushRetry(w)
  PROVE  OneRetryPerFailedRun'
<1> USE DEF IndInv, JobOf
<1>1. PICK m \in MsgIds : Push(m, JobOf(w), body[held[w]].attempt + 1, {Delivery(w)})
  BY DEF PushRetry
<1>2. UNCHANGED <<runs, failed>> BY DEF PushRetry, historyVars
<1>3. /\ st[m] = "free" /\ st'[m] = "ready"
      /\ body'[m].job = JobOf(w)
      /\ body'[m].attempt = body[held[w]].attempt + 1
      /\ body'[m].parent = {Delivery(w)}
  BY <1>1 DEF Push, TypeOK
<1>4. \A n \in MsgIds : n # m => st'[n] = st[n] /\ body'[n] = body[n]
  BY <1>1 DEF Push, TypeOK
<1>5. /\ held[w] \in MsgIds /\ held[w] # m /\ body[held[w]] \in Body /\ st[held[w]] # "free"
      /\ Delivery(w) \in runs \cap failed
  BY <1>3 DEF PushRetry, HeldAreUsed, UsedHaveBody, Busy, RunsFollowPC, ResultsRecorded,
         RunsAreDeliveries
<1>6. \A n \in MsgIds : st[n] # "free" => Delivery(w) \notin body[n].parent
  BY DEF HeldNotRetried, PushRetry, Busy
<1>7. body[held[w]].attempt \in Nat \ {0} BY <1>5 DEF OneRetryPerFailedRun, Body
<1>8. ASSUME NEW k \in MsgIds, NEW n \in MsgIds, st'[k] # "free", st'[n] # "free", k # n
      PROVE body'[k].parent \cap body'[n].parent = {}
  <2>1. CASE k # m /\ n # m BY <2>1, <1>8, <1>4 DEF OneRetryPerFailedRun
  <2>2. CASE k = m BY <2>2, <1>8, <1>4, <1>6, <1>3
  <2>3. CASE n = m BY <2>3, <1>8, <1>4, <1>6, <1>3
  <2> QED BY <2>1, <2>2, <2>3
<1>9. ASSUME NEW k \in MsgIds, st'[k] # "free"
      PROVE /\ body'[k].attempt > 1 <=> body'[k].parent # {}
            /\ \A d \in body'[k].parent :
                 /\ d \in runs' \cap failed'
                 /\ st'[d[1]] # "free"
                 /\ body'[d[1]].job = body'[k].job
                 /\ body'[d[1]].attempt + 1 = body'[k].attempt
  <2>1. CASE k = m BY <2>1, <1>2, <1>3, <1>4, <1>5, <1>7 DEF Delivery
  <2>2. CASE k # m
    BY <2>2, <1>2, <1>3, <1>4, <1>9 DEF OneRetryPerFailedRun, TypeOK, Deliveries
  <2> QED BY <2>1, <2>2
<1> QED BY <1>8, <1>9 DEF OneRetryPerFailedRun

\* The job moves from the worker to the new message.
LEMMA PushRetryLosesNoJob ==
  ASSUME IndInv, NEW w \in Workers, PushRetry(w)
  PROVE  NoJobVanishes'
<1> USE DEF IndInv, JobOf
<1>0. PICK i \in Jobs : i = JobOf(w)
  BY DEF PushRetry, HeldAreUsed, UsedHaveBody, Busy, Body
<1>1. PICK m \in MsgIds : Push(m, i, body[held[w]].attempt + 1, {Delivery(w)})
  BY <1>0 DEF PushRetry
<1>2. Queued(i)'
  BY <1>1 DEF Push, TypeOK, Queued
<1>3. \A j \in Jobs : Queued(j) => Queued(j)'
  BY <1>1 DEF Push, TypeOK, Queued
<1>4. \A j \in Jobs : Scheduled(j)' => Scheduled(j) \/ j = i
  BY <1>1 DEF Push, TypeOK, Scheduled
<1>5. \A j \in Jobs : Retrying(j) => Retrying(j)' \/ j = i
  <2> SUFFICES ASSUME NEW v \in Workers, v # w, pc[v] = "retry"
               PROVE  pc'[v] = "retry" /\ JobOf(v)' = JobOf(v)
    BY <1>0 DEF Retrying
  <2> QED BY <1>1 DEF PushRetry, Return, TypeOK, HeldAreUsed, Push, Busy
<1>6. fate' = fate BY DEF PushRetry, historyVars
<1> QED BY <1>2, <1>3, <1>4, <1>5, <1>6 DEF NoJobVanishes

\* The pushed message takes over both the job and the delivery from the worker.
LEMMA PushRetryKeeps == ASSUME IndInv, NEW w \in Workers, PushRetry(w) PROVE IndInv'
<1> USE ConstantsAssumption, NoBodyAssumption DEF IndInv, Busy, Delivery, JobOf
<1>1. TypeOK'
  BY DEF TypeOK, Deliveries, PCs, Results, HeldAreUsed, UsedHaveBody, Body, PushRetry,
         Push, Return, poolVars, historyVars
<1>2. UsedHaveBody'
  BY DEF TypeOK, UsedHaveBody, HeldAreUsed, Deliveries, Body, PushRetry, Push
<1>3. HeldAreUsed' BY DEF TypeOK, HeldAreUsed, PushRetry, Push, Return
<1>4. RunsAreDeliveries' BY DEF RunsAreDeliveries, PushRetry, Push, historyVars
<1>5. DeliveriesExclusive' BY DEF TypeOK, DeliveriesExclusive, PushRetry, Return
<1>6. RunsFollowPC' BY DEF TypeOK, RunsFollowPC, PushRetry, Return, historyVars
<1>7. ResultsRecorded'
  BY DEF TypeOK, HeldAreUsed, ResultsRecorded, PushRetry, Push, Return, historyVars
<1>8. HeldNotRetried'
  BY DEF TypeOK, HeldNotRetried, DeliveriesExclusive, PushRetry, Push, Return
<1>9. OneRetryPerFailedRun' BY PushRetryRetriesOnce
<1>10. NoJobVanishes' BY PushRetryLosesNoJob
<1> QED BY <1>1, <1>2, <1>3, <1>4, <1>5, <1>6, <1>7, <1>8, <1>9, <1>10

\* The loss is recorded.
LEMMA PushRetryFailsKeeps == ASSUME IndInv, NEW w \in Workers, PushRetryFails(w) PROVE IndInv'
<1> USE ConstantsAssumption, NoBodyAssumption DEF IndInv, Busy, Delivery, JobOf
<1>1. TypeOK'
  BY DEF TypeOK, PCs, Results, Fates, PushRetryFails, Return, queueVars, poolVars
<1>2. HeldAreUsed' BY DEF TypeOK, HeldAreUsed, PushRetryFails, Return, queueVars
<1>3. DeliveriesExclusive' BY DEF TypeOK, DeliveriesExclusive, PushRetryFails, Return
<1>4. RunsFollowPC' BY DEF TypeOK, RunsFollowPC, PushRetryFails, Return
<1>5. ResultsRecorded' BY DEF TypeOK, ResultsRecorded, PushRetryFails, Return, queueVars
<1>6. HeldNotRetried' BY DEF TypeOK, HeldNotRetried, PushRetryFails, Return, queueVars
<1>7. NoJobVanishes'
  BY DEF TypeOK, NoJobVanishes, Scheduled, Queued, Retrying, PushRetryFails, Return,
         queueVars
<1>8. UsedHaveBody' /\ RunsAreDeliveries' /\ OneRetryPerFailedRun'
  BY DEF UsedHaveBody, RunsAreDeliveries, OneRetryPerFailedRun, PushRetryFails, Return,
         queueVars, poolVars
<1> QED BY <1>1, <1>2, <1>3, <1>4, <1>5, <1>6, <1>7, <1>8

\* An idle worker holds nothing.
LEMMA ExitKeeps == ASSUME IndInv, NEW w \in Workers, Exit(w) PROVE IndInv'
<1> USE ConstantsAssumption, NoBodyAssumption DEF IndInv, Busy, Delivery, JobOf
<1>1. TypeOK' BY DEF TypeOK, PCs, Exit, queueVars, poolVars, historyVars
<1>2. HeldAreUsed' BY DEF HeldAreUsed, Exit, queueVars
<1>3. DeliveriesExclusive' BY DEF DeliveriesExclusive, Exit
<1>4. RunsFollowPC' BY DEF RunsFollowPC, Exit, historyVars
<1>5. ResultsRecorded' BY DEF ResultsRecorded, Exit, queueVars, historyVars
<1>6. HeldNotRetried' BY DEF HeldNotRetried, Exit, queueVars
<1>7. NoJobVanishes'
  BY DEF NoJobVanishes, Scheduled, Queued, Retrying, Exit, queueVars, historyVars
<1>8. UsedHaveBody' /\ RunsAreDeliveries' /\ OneRetryPerFailedRun'
  BY DEF UsedHaveBody, RunsAreDeliveries, OneRetryPerFailedRun, Exit, queueVars,
         poolVars, historyVars
<1> QED BY <1>1, <1>2, <1>3, <1>4, <1>5, <1>6, <1>7, <1>8

\* Only a retry still to be pushed is lost with the process, and that is recorded.
LEMMA CrashKeeps == ASSUME IndInv, NEW p \in Pools, Crash(p) PROVE IndInv'
<1> USE ConstantsAssumption, NoBodyAssumption DEF IndInv, Busy, Delivery, JobOf
<1>1. TypeOK' BY DEF TypeOK, PCs, Results, Fates, Crash, queueVars
<1>2. HeldAreUsed' BY DEF HeldAreUsed, Crash, queueVars
<1>3. DeliveriesExclusive' BY DEF DeliveriesExclusive, Crash
<1>4. RunsFollowPC' BY DEF RunsFollowPC, Crash
<1>5. ResultsRecorded'
  BY DEF TypeOK, HeldAreUsed, ResultsRecorded, UsedHaveBody, Body, Crash, queueVars
<1>6. HeldNotRetried' BY DEF HeldNotRetried, Crash, queueVars
<1>7. NoJobVanishes'
  BY DEF TypeOK, NoJobVanishes, Scheduled, Queued, Retrying, HeldAreUsed, UsedHaveBody,
         Body, Crash, WorkersOf, queueVars
<1>8. UsedHaveBody' /\ RunsAreDeliveries' /\ OneRetryPerFailedRun'
  BY DEF UsedHaveBody, RunsAreDeliveries, OneRetryPerFailedRun, Crash, queueVars
<1> QED BY <1>1, <1>2, <1>3, <1>4, <1>5, <1>6, <1>7, <1>8

\* A process starts with workers that hold nothing.
LEMMA StartKeeps == ASSUME IndInv, NEW p \in Pools, Start(p) PROVE IndInv'
<1> USE ConstantsAssumption, NoBodyAssumption DEF IndInv, Busy, Delivery, JobOf
<1>1. TypeOK' BY DEF TypeOK, PCs, Start, queueVars, historyVars
<1>2. HeldAreUsed' BY DEF HeldAreUsed, Start, WorkersOf, queueVars
<1>3. DeliveriesExclusive' BY DEF DeliveriesExclusive, Start, WorkersOf
<1>4. RunsFollowPC' BY DEF RunsFollowPC, Start, WorkersOf, historyVars
<1>5. ResultsRecorded' BY DEF ResultsRecorded, Start, WorkersOf, queueVars, historyVars
<1>6. HeldNotRetried' BY DEF HeldNotRetried, Start, WorkersOf, queueVars
<1>7. NoJobVanishes'
  BY DEF NoJobVanishes, Scheduled, Queued, Retrying, Start, WorkersOf, queueVars,
         historyVars
<1>8. UsedHaveBody' /\ RunsAreDeliveries' /\ OneRetryPerFailedRun'
  BY DEF UsedHaveBody, RunsAreDeliveries, OneRetryPerFailedRun, Start, queueVars,
         historyVars
<1> QED BY <1>1, <1>2, <1>3, <1>4, <1>5, <1>6, <1>7, <1>8

-----------------------------------------------------------------------------
\* One iteration of a worker, whatever it comes to.
LEMMA WorkerStepKeeps == ASSUME IndInv, NEW w \in Workers, WorkerStep(w) PROVE IndInv'
<1>1. CASE PullMessage(w) BY <1>1, PullMessageKeeps
<1>2. CASE PullFails(w) BY <1>2, PullFailsKeeps
<1>3. CASE PullNothing(w)
  <2>1. UNCHANGED vars BY <1>3 DEF PullNothing
  <2>2. TypeOK' BY <2>1 DEF IndInv, TypeOK, vars, queueVars, workerVars, poolVars, historyVars
  <2> QED BY <2>1, <2>2, QuietKeeps DEF vars, queueVars
<1>4. CASE CheckDue(w) BY <1>4, CheckDueKeeps
<1>5. CASE RateLimited(w) BY <1>5, RateLimitedKeeps
<1>6. CASE UnknownType(w) BY <1>6, UnknownTypeKeeps
<1>7. CASE StartRun(w) BY <1>7, StartRunKeeps
<1>8. CASE Drop(w) BY <1>8, DropKeeps
<1>9. CASE FinishRun(w) BY <1>9, FinishRunKeeps
<1>10. CASE AckRun(w) BY <1>10, AckRunKeeps
<1>11. CASE PushRetry(w) BY <1>11, PushRetryKeeps
<1>12. CASE PushRetryFails(w) BY <1>12, PushRetryFailsKeeps
<1>13. CASE Exit(w) BY <1>13, ExitKeeps
<1> QED
  BY <1>1, <1>2, <1>3, <1>4, <1>5, <1>6, <1>7, <1>8, <1>9, <1>10, <1>11, <1>12, <1>13
  DEF WorkerStep, ProcessJob

\* The life of a worker process.
LEMMA PoolStepKeeps == ASSUME IndInv, NEW p \in Pools, PoolStep(p) PROVE IndInv'
<1>1. CASE Stop(p) \/ Cancel(p)
  <2>1. TypeOK'
    BY <1>1 DEF IndInv, TypeOK, Stop, Cancel, queueVars, workerVars, historyVars
  <2> QED BY <1>1, <2>1, QuietKeeps DEF Stop, Cancel, queueVars
<1>2. CASE Crash(p) BY <1>2, CrashKeeps
<1>3. CASE Start(p) BY <1>3, StartKeeps
<1> QED BY <1>1, <1>2, <1>3 DEF PoolStep

\* What happens to a message by itself.
LEMMA QueueStepKeeps == ASSUME IndInv, NEW m \in MsgIds, QueueStep(m) PROVE IndInv'
<1>1. CASE BecomeDue(m)
  <2>1. TypeOK'
    BY <1>1 DEF IndInv, TypeOK, BecomeDue, workerVars, poolVars, historyVars
  <2> QED BY <1>1, <2>1, QuietKeeps DEF BecomeDue
<1>2. CASE Expire(m) BY <1>2, ExpireKeeps
<1> QED BY <1>1, <1>2 DEF QueueStep

\* Every step keeps the invariant.
LEMMA NextInv == IndInv /\ [Next]_vars => IndInv'
<1> SUFFICES ASSUME IndInv, [Next]_vars PROVE IndInv'
  OBVIOUS
<1>1. CASE \E j \in Jobs : Schedule(j) BY <1>1, ScheduleKeeps
<1>2. CASE \E m \in MsgIds : QueueStep(m) BY <1>2, QueueStepKeeps
<1>3. CASE \E w \in Workers : WorkerStep(w) BY <1>3, WorkerStepKeeps
<1>4. CASE \E p \in Pools : PoolStep(p) BY <1>4, PoolStepKeeps
<1>5. CASE UNCHANGED vars
  <2>1. TypeOK' BY <1>5 DEF IndInv, TypeOK, vars, queueVars, workerVars, poolVars, historyVars
  <2> QED BY <1>5, <2>1, QuietKeeps DEF vars, queueVars
<1> QED BY <1>1, <1>2, <1>3, <1>4, <1>5 DEF Next

\* In every reachable state of every instance the messages, the workers that hold them
\* and the outcomes fit together (IndInv): whatever processJob, the visibility timeout
\* and shutdowns do in whatever order.
THEOREM Inductive == Spec => []IndInv
  BY InitInv, NextInv, PTL DEF Spec

\* Every variable of the pool keeps its type, whatever the constants.
THEOREM TypeCorrect == Spec => []TypeOK
<1>1. IndInv => TypeOK BY DEF IndInv
<1> QED BY <1>1, Inductive, PTL

\* No sequence of pulls, refusals, failed acknowledgements, redeliveries,
\* shutdowns and crashes makes a job disappear without a recorded outcome.
THEOREM JobsDoNotVanish == Spec => []NoJobVanishes
<1>1. IndInv => NoJobVanishes BY DEF IndInv
<1> QED BY <1>1, Inductive, PTL

\* scheduleRetry pushes at most one retry for a failed delivery, even when
\* the message is redelivered while its first worker still handles it.
THEOREM FailedRunsRetriedOnce == Spec => []OneRetryPerFailedRun
<1>1. IndInv => OneRetryPerFailedRun BY DEF IndInv
<1> QED BY <1>1, Inductive, PTL

\* executeJob is called at most once for each delivery of a message.
THEOREM RunsHaveOwnDelivery == Spec => OneRunPerDelivery
<1>1. IndInv => \A w \in Workers : pc[w] = "limit" /\ pc'[w] = "exec" => Delivery(w) \notin runs
  BY DEF IndInv, RunsFollowPC
<1>2. IndInv => [\A w \in Workers :
                  pc[w] = "limit" /\ pc'[w] = "exec" => Delivery(w) \notin runs]_vars
  BY <1>1
<1> QED BY <1>2, Inductive, PTL DEF OneRunPerDelivery
=============================================================================
