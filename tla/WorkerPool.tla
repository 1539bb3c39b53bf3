----------------------------- MODULE WorkerPool -----------------------------
(***************************************************************************)
(* The workers of internal/worker and the queue they drain.                *)
(*                                                                         *)
(* A pool is one worker process: PoolSize goroutines that share a context. *)
(* Each worker repeats processJob: pull a message, look at its             *)
(* ExecuteAfter, ask the rate limiter, look the task type up, call the     *)
(* task's endpoint, acknowledge, push a retry.  Each call that leaves the  *)
(* process is an action of its own, so that redelivery, the other workers, *)
(* a cancelled context and a crash can come between any two of them.       *)
(*                                                                         *)
(* The queue (message-queue-go) is external: a pulled message is invisible *)
(* until its visibility timeout ends, is then delivered again, and is dead *)
(* after MaxDeliveries deliveries.  A receipt names one delivery.  The     *)
(* visibility timeout (30s by default) is shorter than a task's own        *)
(* timeout (up to 2h), so it may end at any point of processJob and needs  *)
(* no clock.  Time is also abstracted in due[m]: whether the message's     *)
(* ExecuteAfter has passed.                                                *)
(***************************************************************************)
EXTENDS Integers, FiniteSets

CONSTANTS
  Jobs,           \* the jobs the scheduler creates (Job.ID without "_retry_n")
  Known,          \* for each pool, the jobs whose task type its registry has
  MsgIds,         \* message identities; a bound on the messages ever pushed
  Workers,        \* all workers of all pools
  Pools,          \* worker processes
  PoolOf,         \* the pool each worker belongs to
  MaxDeliveries,  \* the queue's MaxRetries: deliveries of a message before it is dead
  AttemptCap,     \* bound: the endpoint has no retryable failure at this attempt
  MaxHalts,       \* bound: stops, cancellations and crashes in a behaviour
  NoBody,         \* the content of a message identity not in use
  NoMsg           \* what a worker that holds no message holds

ASSUME ConstantsAssumption ==
  /\ Known \in [Pools -> SUBSET Jobs]
  /\ PoolOf \in [Workers -> Pools]
  /\ MaxDeliveries \in Nat \ {0}
  /\ AttemptCap \in Nat \ {0}
  /\ MaxHalts \in Nat
  /\ NoMsg \notin MsgIds

\* A delivery of a message: the message and the receipt of that delivery.
Deliveries == MsgIds \X Nat

\* The content of a message: whose job it is, Job.Attempt, and (history) the
\* delivery whose failure made a worker push it, none for the scheduler's.
Body == [job : Jobs, attempt : Nat \ {0}, parent : SUBSET Deliveries]

ASSUME NoBodyAssumption == NoBody \notin Body

\* Where a worker is: the next thing processJob does with the pulled message.
Busy == {"pulled", "limit", "drop", "exec", "ack", "retry"}
PCs == {"idle", "stopped"} \cup Busy

\* What executeJob returns: Status, and Error.Retry when it failed.
RunResults == {"success", "failed_retry", "failed_final"}
Results == {"none", "not_ready", "unknown_type"} \cup RunResults

\* Why nothing more needs to be done, or can be done, for a job.
Fates == {"success", "failed_final", "not_ready", "unknown_type", "dead", "retry_lost"}

VARIABLES
  st,          \* queue: "free", "ready", "inflight", "acked" or "dead"
  body,        \* queue: the content of each message
  due,         \* whether the message's ExecuteAfter has passed
  deliveries,  \* queue: how often the message was delivered; the last receipt
  pc,          \* worker: position in processJob
  held,        \* worker: the message in msg.MessageID
  receipt,     \* worker: the receipt in msg.Receipt
  result,      \* worker: what executeJob returned, or why the job is not run
  phase,       \* pool: "running", "stopping" (Stop called) or "cancelled" (ctx done)
  halts,       \* number of stops, cancellations and crashes so far
  runs,        \* history: the deliveries under which the endpoint was called
  failed,      \* history: the deliveries whose run failed and may be retried
  fate         \* history: for each job, the outcomes recorded so far

queueVars == <<st, body, due, deliveries>>
workerVars == <<pc, held, receipt, result>>
poolVars == <<phase, halts>>
historyVars == <<runs, failed, fate>>
vars == <<queueVars, workerVars, poolVars, historyVars>>

TypeOK ==
  /\ st \in [MsgIds -> {"free", "ready", "inflight", "acked", "dead"}]
  /\ body \in [MsgIds -> Body \cup {NoBody}]
  /\ due \in [MsgIds -> BOOLEAN]
  /\ deliveries \in [MsgIds -> Nat]
  /\ pc \in [Workers -> PCs]
  /\ held \in [Workers -> MsgIds \cup {NoMsg}]
  /\ receipt \in [Workers -> Nat]
  /\ result \in [Workers -> Results]
  /\ phase \in [Pools -> {"running", "stopping", "cancelled"}]
  /\ halts \in Nat
  /\ runs \in SUBSET Deliveries
  /\ failed \in SUBSET Deliveries
  /\ fate \in [Jobs -> SUBSET Fates]

JobOf(w) == body[held[w]].job
Delivery(w) == <<held[w], receipt[w]>>
Scheduled(j) == \E m \in MsgIds : st[m] # "free" /\ body[m].job = j
ContextLive(w) == phase[PoolOf[w]] # "cancelled"

Init ==
  /\ st = [m \in MsgIds |-> "free"]
  /\ body = [m \in MsgIds |-> NoBody]
  /\ due = [m \in MsgIds |-> FALSE]
  /\ deliveries = [m \in MsgIds |-> 0]
  /\ pc = [w \in Workers |-> "idle"]
  /\ held = [w \in Workers |-> NoMsg]
  /\ receipt = [w \in Workers |-> 0]
  /\ result = [w \in Workers |-> "none"]
  /\ phase = [p \in Pools |-> "running"]
  /\ halts = 0
  /\ runs = {}
  /\ failed = {}
  /\ fate = [j \in Jobs |-> {}]

-----------------------------------------------------------------------------
\* The queue.

\* Push appends a new message, whether or not it is due.
Push(m, j, n, parent) ==
  /\ st[m] = "free"
  /\ st' = [st EXCEPT ![m] = "ready"]
  /\ body' = [body EXCEPT ![m] = [job |-> j, attempt |-> n, parent |-> parent]]
  /\ \E d \in BOOLEAN : due' = [due EXCEPT ![m] = d]
  /\ UNCHANGED deliveries

\* Mutant of Pull: a redelivery carries the receipt of the delivery before it.
PullOldReceipt(m) ==
  /\ st[m] = "ready"
  /\ st' = [st EXCEPT ![m] = "inflight"]
  /\ UNCHANGED <<body, due, deliveries>>

\* A pull hands out a visible message under a fresh receipt.
Pull(m) ==
  /\ st[m] = "ready"
  /\ st' = [st EXCEPT ![m] = "inflight"]
  /\ deliveries' = [deliveries EXCEPT ![m] = @ + 1]
  /\ UNCHANGED <<body, due>>

\* An acknowledgement removes the message or is refused with an error.  The
\* queue refuses a receipt that is not the message's last one; it may refuse
\* any other, and a call under a cancelled context never reaches it.
AckApplies(w) ==
  /\ ContextLive(w)
  /\ st[held[w]] \in {"ready", "inflight"}
  /\ receipt[w] = deliveries[held[w]]

Acked(w) == AckApplies(w) /\ st' = [st EXCEPT ![held[w]] = "acked"]
NotAcked == UNCHANGED st

\* The scheduler's distributor pushes a new job, once.
Schedule(j) ==
  /\ ~Scheduled(j)
  /\ \E m \in MsgIds : Push(m, j, 1, {})
  /\ UNCHANGED <<workerVars, poolVars, historyVars>>

\* A message's ExecuteAfter passes.
BecomeDue(m) ==
  /\ st[m] # "free"
  /\ ~due[m]
  /\ due' = [due EXCEPT ![m] = TRUE]
  /\ UNCHANGED <<st, body, deliveries, workerVars, poolVars, historyVars>>

\* A visibility timeout ends: the message is visible again, or dead.
Expire(m) ==
  /\ st[m] = "inflight"
  /\ IF deliveries[m] < MaxDeliveries
       THEN /\ st' = [st EXCEPT ![m] = "ready"]
            /\ UNCHANGED fate
       ELSE /\ st' = [st EXCEPT ![m] = "dead"]
            /\ fate' = [fate EXCEPT ![body[m].job] = @ \cup {"dead"}]
  /\ UNCHANGED <<body, due, deliveries, workerVars, poolVars, runs, failed>>

-----------------------------------------------------------------------------
\* processJob, one action per outside call.

\* The worker returns to its select loop.
Return(w) ==
  /\ pc' = [pc EXCEPT ![w] = "idle"]
  /\ held' = [held EXCEPT ![w] = NoMsg]
  /\ receipt' = [receipt EXCEPT ![w] = 0]
  /\ result' = [result EXCEPT ![w] = "none"]

Goto(w, l, r) ==
  /\ pc' = [pc EXCEPT ![w] = l]
  /\ result' = [result EXCEPT ![w] = r]
  /\ UNCHANGED <<held, receipt>>

\* The ticker fires and the queue hands out a message.  A pool that is being
\* stopped may still pull: select picks among the ready cases at random.
PullMessage(w) ==
  /\ pc[w] = "idle"
  /\ ContextLive(w)
  /\ \E m \in MsgIds :
       /\ Pull(m)
       /\ held' = [held EXCEPT ![w] = m]
       /\ receipt' = [receipt EXCEPT ![w] = deliveries'[m]]
  /\ pc' = [pc EXCEPT ![w] = "pulled"]
  /\ UNCHANGED <<result, poolVars, historyVars>>

\* The queue hands out a message but the answer never reaches the worker.
PullFails(w) ==
  /\ pc[w] = "idle"
  /\ ContextLive(w)
  /\ \E m \in MsgIds : Pull(m)
  /\ UNCHANGED <<workerVars, poolVars, historyVars>>

\* The queue has nothing to hand out, or the pull fails before the queue sees it,
\* as under a cancelled context: processJob returns.
PullNothing(w) ==
  /\ pc[w] = "idle"
  /\ ContextLive(w) => \A m \in MsgIds : st[m] # "ready"
  /\ UNCHANGED vars

\* time.Now().Before(job.ExecuteAfter)
CheckDue(w) ==
  /\ pc[w] = "pulled"
  /\ IF due[held[w]] THEN Goto(w, "limit", "none") ELSE Goto(w, "drop", "not_ready")
  /\ UNCHANGED <<queueVars, poolVars, historyVars>>

\* Mutant of RateLimited: a message the limiter refuses is acknowledged.
RateLimitedAcked(w) ==
  /\ pc[w] = "limit"
  /\ Acked(w)
  /\ Return(w)
  /\ UNCHANGED <<body, due, deliveries, poolVars, historyVars>>

\* Mutant of RateLimited: a refused message is put back as if never delivered.
RateLimitedPutBack(w) ==
  /\ pc[w] = "limit"
  /\ st[held[w]] = "inflight"
  /\ st' = [st EXCEPT ![held[w]] = "ready"]
  /\ deliveries' = [deliveries EXCEPT ![held[w]] = @ - 1]
  /\ Return(w)
  /\ UNCHANGED <<body, due, poolVars, historyVars>>

\* The limiter refuses or fails: the message is left to its visibility timeout.
RateLimited(w) ==
  /\ pc[w] = "limit"
  /\ Return(w)
  /\ UNCHANGED <<queueVars, poolVars, historyVars>>

\* The limiter grants a token but the registry lacks the task type.
UnknownType(w) ==
  /\ pc[w] = "limit"
  /\ ContextLive(w)
  /\ JobOf(w) \notin Known[PoolOf[w]]
  /\ Goto(w, "drop", "unknown_type")
  /\ UNCHANGED <<queueVars, poolVars, historyVars>>

\* Mutant of StartRun: the message is acknowledged before the endpoint is called.
StartRunAcked(w) ==
  /\ pc[w] = "limit"
  /\ JobOf(w) \in Known[PoolOf[w]]
  /\ Acked(w)
  /\ Goto(w, "exec", "none")
  /\ runs' = runs \cup {Delivery(w)}
  /\ UNCHANGED <<body, due, deliveries, poolVars, failed, fate>>

\* The limiter grants a token and executeJob calls the endpoint.
StartRun(w) ==
  /\ pc[w] = "limit"
  /\ ContextLive(w)
  /\ JobOf(w) \in Known[PoolOf[w]]
  /\ Goto(w, "exec", "none")
  /\ runs' = runs \cup {Delivery(w)}
  /\ UNCHANGED <<queueVars, poolVars, failed, fate>>

\* A job that is not ready, or of an unknown type, is acknowledged unrun.
Drop(w) ==
  /\ pc[w] = "drop"
  /\ \/ /\ Acked(w)
        /\ fate' = [fate EXCEPT ![JobOf(w)] = @ \cup {result[w]}]
     \/ /\ NotAcked
        /\ UNCHANGED fate
  /\ Return(w)
  /\ UNCHANGED <<body, due, deliveries, poolVars, runs, failed>>

\* executeJob returns.  A 2xx answer is a success; a server error, or no answer
\* (which a cancelled context also causes), may be retried; any other answer,
\* or a request that cannot be built, is final.
FinishRun(w) ==
  /\ pc[w] = "exec"
  /\ \E r \in RunResults :
       /\ (r = "failed_retry") => body[held[w]].attempt < AttemptCap
       /\ Goto(w, "ack", r)
       /\ IF r = "failed_retry"
            THEN /\ failed' = failed \cup {Delivery(w)}
                 /\ UNCHANGED fate
            ELSE /\ fate' = [fate EXCEPT ![JobOf(w)] = @ \cup {r}]
                 /\ UNCHANGED failed
  /\ UNCHANGED <<queueVars, poolVars, runs>>

\* Mutant of AckRun: a failed run is retried at once, under the same delivery.
AckRunRepeating(w) ==
  /\ pc[w] = "ack"
  /\ Acked(w) \/ NotAcked
  /\ IF result[w] = "failed_retry" THEN Goto(w, "limit", "none") ELSE Return(w)
  /\ UNCHANGED <<body, due, deliveries, poolVars, historyVars>>

\* The message is acknowledged whatever the result; that the acknowledgement
\* fails is logged and changes nothing in what follows.
AckRun(w) ==
  /\ pc[w] = "ack"
  /\ Acked(w) \/ NotAcked
  /\ IF result[w] = "failed_retry" THEN Goto(w, "retry", result[w]) ELSE Return(w)
  /\ UNCHANGED <<body, due, deliveries, poolVars, historyVars>>

\* Mutant of PushRetry: the attempts are counted down.
PushRetryCountingDown(w) ==
  /\ pc[w] = "retry"
  /\ ContextLive(w)
  /\ \E m \in MsgIds :
       Push(m, JobOf(w), body[held[w]].attempt - 1, {Delivery(w)})
  /\ Return(w)
  /\ UNCHANGED <<poolVars, historyVars>>

\* Mutant of PushRetry: the push is repeated although it went through.
PushRetryAgain(w) ==
  /\ pc[w] = "retry"
  /\ ContextLive(w)
  /\ \E m \in MsgIds :
       Push(m, JobOf(w), body[held[w]].attempt + 1, {Delivery(w)})
  /\ UNCHANGED <<workerVars, poolVars, historyVars>>

\* scheduleRetry pushes the next attempt; whether the answer arrives only makes
\* a difference to the log.
PushRetry(w) ==
  /\ pc[w] = "retry"
  /\ ContextLive(w)
  /\ \E m \in MsgIds :
       Push(m, JobOf(w), body[held[w]].attempt + 1, {Delivery(w)})
  /\ Return(w)
  /\ UNCHANGED <<poolVars, historyVars>>

\* The push of the next attempt never reaches the queue, which is only logged.
PushRetryFails(w) ==
  /\ pc[w] = "retry"
  /\ fate' = [fate EXCEPT ![JobOf(w)] = @ \cup {"retry_lost"}]
  /\ Return(w)
  /\ UNCHANGED <<queueVars, poolVars, runs, failed>>

-----------------------------------------------------------------------------
\* The life of a pool.

WorkersOf(p) == {w \in Workers : PoolOf[w] = p}

\* Pool.Stop closes the stop channels: its workers finish their job and return.
Stop(p) ==
  /\ phase[p] = "running"
  /\ halts < MaxHalts
  /\ phase' = [phase EXCEPT ![p] = "stopping"]
  /\ halts' = halts + 1
  /\ UNCHANGED <<queueVars, workerVars, historyVars>>

\* The worker service cancels the context its workers run under, then stops.
Cancel(p) ==
  /\ phase[p] # "cancelled"
  /\ halts < MaxHalts
  /\ phase' = [phase EXCEPT ![p] = "cancelled"]
  /\ halts' = halts + 1
  /\ UNCHANGED <<queueVars, workerVars, historyVars>>

\* A worker's select loop sees the stop channel or the end of the context.
Exit(w) ==
  /\ pc[w] = "idle"
  /\ phase[PoolOf[w]] # "running"
  /\ pc' = [pc EXCEPT ![w] = "stopped"]
  /\ UNCHANGED <<queueVars, held, receipt, result, poolVars, historyVars>>

\* The process dies with whatever its workers hold.  A retry that was still to
\* be pushed dies with it.
Crash(p) ==
  /\ halts < MaxHalts
  /\ \E w \in WorkersOf(p) : pc[w] # "stopped"
  /\ pc' = [w \in Workers |-> IF PoolOf[w] = p THEN "stopped" ELSE pc[w]]
  /\ held' = [w \in Workers |-> IF PoolOf[w] = p THEN NoMsg ELSE held[w]]
  /\ receipt' = [w \in Workers |-> IF PoolOf[w] = p THEN 0 ELSE receipt[w]]
  /\ result' = [w \in Workers |-> IF PoolOf[w] = p THEN "none" ELSE result[w]]
  /\ phase' = [phase EXCEPT ![p] = "cancelled"]
  /\ halts' = halts + 1
  /\ fate' = [j \in Jobs |->
       IF \E w \in WorkersOf(p) : pc[w] = "retry" /\ JobOf(w) = j
         THEN fate[j] \cup {"retry_lost"}
         ELSE fate[j]]
  /\ UNCHANGED <<queueVars, runs, failed>>

\* A process whose workers have all returned, or died, is started anew.
Start(p) ==
  /\ \A w \in WorkersOf(p) : pc[w] = "stopped"
  /\ pc' = [w \in Workers |-> IF PoolOf[w] = p THEN "idle" ELSE pc[w]]
  /\ phase' = [phase EXCEPT ![p] = "running"]
  /\ UNCHANGED <<queueVars, held, receipt, result, halts, historyVars>>

-----------------------------------------------------------------------------
\* One step of processJob.
ProcessJob(w) ==
  \/ PullMessage(w)
  \/ PullFails(w)
  \/ PullNothing(w)
  \/ CheckDue(w)
  \/ RateLimited(w)
  \/ UnknownType(w)
  \/ StartRun(w)
  \/ Drop(w)
  \/ FinishRun(w)
  \/ AckRun(w)
  \/ PushRetry(w)
  \/ PushRetryFails(w)

WorkerStep(w) == ProcessJob(w) \/ Exit(w)

PoolStep(p) == Stop(p) \/ Cancel(p) \/ Crash(p) \/ Start(p)

QueueStep(m) == BecomeDue(m) \/ Expire(m)

Next ==
  \/ \E j \in Jobs : Schedule(j)
  \/ \E m \in MsgIds : QueueStep(m)
  \/ \E w \in Workers : WorkerStep(w)
  \/ \E p \in Pools : PoolStep(p)

Spec == Init /\ [][Next]_vars

-----------------------------------------------------------------------------
\* What the pool must keep.

Queued(j) == \E m \in MsgIds : st[m] \in {"ready", "inflight"} /\ body[m].job = j
Retrying(j) == \E w \in Workers : pc[w] = "retry" /\ JobOf(w) = j

\* No job vanishes: once pushed it is in the queue, or a worker is about to push
\* its next attempt, or something was recorded that ends it.  Acknowledging
\* before the outcome is known, or acknowledging what the limiter refused,
\* would lose jobs that no log line mentions.
NoJobVanishes ==
  \A j \in Jobs : Scheduled(j) => Queued(j) \/ Retrying(j) \/ fate[j] # {}

\* A failed run is retried at most once: the messages workers push come from
\* distinct deliveries, each of which ran, failed, and was of the same job's
\* preceding attempt.  The endpoint is thus never called more often than the
\* queue's deliveries and its own failures account for.
OneRetryPerFailedRun ==
  /\ \A m, n \in MsgIds :
       /\ st[m] # "free"
       /\ st[n] # "free"
       /\ m # n
       => body[m].parent \cap body[n].parent = {}
  /\ \A m \in MsgIds : st[m] # "free" =>
       /\ body[m].attempt > 1 <=> body[m].parent # {}
       /\ \A d \in body[m].parent :
            /\ d \in runs \cap failed
            /\ st[d[1]] # "free"
            /\ body[d[1]].job = body[m].job
            /\ body[d[1]].attempt + 1 = body[m].attempt

\* Every call of the endpoint has a delivery of its own: redelivery is the only
\* way a message is run again.
OneRunPerDelivery ==
  [][\A w \in Workers :
       pc[w] = "limit" /\ pc'[w] = "exec" => Delivery(w) \notin runs]_vars

-----------------------------------------------------------------------------
\* The inductive invariant behind the safety properties, in named parts.

\* A message in use has a content; its delivery counter bounds every receipt.
UsedHaveBody == \A m \in MsgIds : st[m] # "free" => body[m] \in Body

HeldAreUsed ==
  \A w \in Workers : pc[w] \in Busy =>
    /\ held[w] \in MsgIds
    /\ st[held[w]] # "free"
    /\ receipt[w] <= deliveries[held[w]]

RunsAreDeliveries ==
  /\ failed \subseteq runs
  /\ \A d \in runs : st[d[1]] # "free" /\ d[2] <= deliveries[d[1]]

\* Two workers never hold the same delivery of a message, though they may hold
\* the same message under different receipts.
DeliveriesExclusive ==
  \A v, w \in Workers :
    v # w /\ pc[v] \in Busy /\ pc[w] \in Busy => Delivery(v) # Delivery(w)

\* How far the delivery a worker holds has come, by the worker's position.
RunsFollowPC ==
  \A w \in Workers :
    /\ pc[w] \in {"pulled", "limit", "drop"} => Delivery(w) \notin runs
    /\ pc[w] = "exec" => Delivery(w) \in runs \ failed
    /\ pc[w] \in {"ack", "retry"} /\ result[w] = "failed_retry" => Delivery(w) \in failed

\* What a worker at its last calls knows is recorded.
ResultsRecorded ==
  \A w \in Workers :
    /\ pc[w] = "drop" => result[w] \in {"not_ready", "unknown_type"}
    /\ pc[w] = "ack" =>
         \/ result[w] = "failed_retry"
         \/ result[w] \in {"success", "failed_final"} /\ fate[JobOf(w)] # {}
    /\ pc[w] = "retry" => result[w] = "failed_retry"

\* A delivery still in a worker's hands has no retry yet.
HeldNotRetried ==
  \A w \in Workers, m \in MsgIds :
    pc[w] \in Busy /\ st[m] # "free" => Delivery(w) \notin body[m].parent

IndInv ==
  /\ TypeOK
  /\ UsedHaveBody
  /\ HeldAreUsed
  /\ RunsAreDeliveries
  /\ DeliveriesExclusive
  /\ RunsFollowPC
  /\ ResultsRecorded
  /\ HeldNotRetried
  /\ OneRetryPerFailedRun
  /\ NoJobVanishes

-----------------------------------------------------------------------------
\* Seen from the scheduler, the pool delivers jobs as JobDelivery says.

InProgress(j) == Queued(j) \/ \E w \in Workers : pc[w] \in Busy /\ JobOf(w) = j

stage ==
  [j \in Jobs |-> IF ~Scheduled(j) THEN "new"
                  ELSE IF InProgress(j) THEN "pending" ELSE "settled"]

AbstractDelivery == INSTANCE JobDelivery WITH stage <- stage, fate <- fate

\* Each step of the pool leaves a job alone, makes it arrive, works on it, or
\* settles it with an outcome; a settled job never comes back.
DeliversJobs == AbstractDelivery!Spec
=============================================================================
