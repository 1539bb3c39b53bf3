# taskqueue-go in TLA+

Specifications of the task queue in `src/`: TLA+ modules translated from the Go
code (and the Lua script it embeds), TLC runs on small instances, and TLAPS
proofs for all values of the constants.

## The system

A *scheduler* finds the task types that are due and the users who enabled them,
a *distributor* pushes one job per user to a message queue with an
`ExecuteAfter` spread over a window, *workers* pull the jobs, ask a shared *rate
limiter*, call the task's HTTP endpoint, acknowledge, and push a retry when the
call failed. Redis holds the last executions, the leader key, the limiter's
buckets, the user store and the queue.

| component | state it keeps | operations | talks to |
|---|---|---|---|
| scheduler (`internal/scheduler`) | Redis: `taskqueue:scheduler:leader`, `taskqueue:schedule:<type>`; locals of a pass | `Start`, `checkAndScheduleTasks`, `acquireLeadership`, `findDueTasks`, `updateLastExecutions` | registry, user store, distributor |
| distributor (`internal/distributor`) | distribution window | `DistributeTasks`, `calculateTimeSlots`, `EstimateDistributionTime` | queue client |
| queue client (`internal/queue`) | none (queue limits) | `Push`, `Pull`, `Ack`, `PushBatch` | message-queue-go (external) |
| worker pool (`internal/worker`) | per worker the pulled message and result; stop channels, context | `Pool.Start/Stop`, `run`, `processJob`, `executeJob`, `scheduleRetry` | queue client, limiter, registry, endpoint |
| rate limiter (`internal/ratelimit`) | Redis hash `tokens`, `last_refill`, with an expiry | `AllowN`, `Reset`, `Stats` | Redis (Lua) |
| user store (`internal/storage`) | Redis: tasks hash and settings of a user, set of users, set of users per task type | `SaveUserPreference`, `EnableTaskForUser`, `DisableTaskForUser`, `DeleteUser`, queries | Redis (pipelines) |
| task registry (`internal/storage`) | map of task types | `LoadFromFile`, `Get`, `GetAll` | file system |
| models (`internal/models`) | none | `IsDue`, `NextExecution`, `ShouldRetry`, ... | |
| services (`cmd/*`) | configuration | start and shutdown | all of the above |

What is hard, and hard to test:

* *Redelivery.* The visibility timeout (30s) is shorter than a task may run
  (up to 2h). Any step of `processJob` may find its message with somebody else.
* *Acknowledge, then retry.* A failed job leaves the queue before its retry
  enters it; a failed acknowledgement leaves both there.
* *Shutdown.* The service cancels the workers' context before it stops the pool,
  so every call in flight fails, the acknowledgement included. The signal may
  come while `Pool.Start` is still spawning workers.
* *Two schedulers.* The leader key has one value for all instances; passes
  overlap, on values read one Redis call at a time.
* *Clocks.* Every host passes its own time to the limiter's script.
* *Lost answers.* The Redis client sends a call again whose answer it lost.
* *Calendars.* Months differ in length, days in their hours, and a zone's midnight
  from UTC's.
* *Attempts* have no limit, the integers that count their delays have one.
* *Pipelines.* An update of the user store is several commands that Redis does
  not execute as one.

What makes each part correct:

* workers and queue: a job is settled only with an outcome somebody recorded;
  one run per delivery and one retry per failed run; messages do not circulate
  for ever; a shutdown ends, and closes no client under a worker;
* task intervals and registry: on which day, in which month and at what time a task
  comes next is known, and it is not due again when it was just executed; retries
  are delayed as configured;
* scheduler: an execution is recorded only after its users were served; no job
  comes before its interval is over but for a fault; due types do get scheduled;
* limiter: no more than burst and rate; an empty bucket recovers while it is
  polled;
* distributor: slots keep their distance and stay within the announced time;
* user store: the index the scheduler reads agrees with what users chose.

## Modules

| module | models | checked by | proved in |
|---|---|---|---|
| `WorkerPool` | pools, workers, queue client and the external queue | `MCWorkerPool` | `WorkerPoolProofs` |
| `JobDelivery` | abstract: what workers and queue promise the scheduler | as a property of `MCWorkerPool` | `WorkerPoolRefinement` |
| `Scheduler` | scheduler instances, their Redis keys, `DistributeTasks` (extends `TaskInterval`) | `MCScheduler` | `SchedulerProofs` |
| `RateLimiter` | `AllowN`, the script, key expiry, `Reset` | `MCRateLimiter` | `RateLimiterProofs` |
| `TokenBucket` | abstract: what the limiter promises the endpoints | as a property of `MCRateLimiter` | `RateLimiterProofs` |
| `WorkerService` | a worker process: `main`, `Pool.Start`'s goroutine, the WaitGroup (extends `WorkerPool`) | `MCWorkerService` | `WorkerServiceProofs` |
| `TimeSlots` | `calculateTimeSlots`, `EstimateDistributionTime` | `MCTimes` | `TimesProofs` |
| `Backoff` | `scheduleRetry`'s delay, `calculateExponentialBackoff` | `MCTimes` | `TimesProofs` |
| `TaskInterval` | `NextExecution`, `IsDue`; Go's calendar and zones | `MCTimes` | `TimesProofs` |
| `TaskRegistry` | `LoadFromFile` and its validation (extends `TaskInterval`) | `MCTimes` | `TimesProofs` |
| `Times` | the three computations in use: a draw of slots, a job that fails again and again, the executions of a file's tasks | `MCTimes` | `TimesProofs` |
| `UserStore` | the four updates as pipelines | `MCUserStore` | `UserStoreProofs` |

`Induction` holds lemmas only: induction over a set of naturals, and that a function
defined by recursion exists and has the values of its equations. `MC*` modules give
the constants values and hold what only a run states; `MCCalendar` has the instants
of two years and four cities' clocks for two of them.

The operators named in comments as a *mutant* of another are deliberate errors;
no specification uses them. They show that each property can fail: with the
mutant in place of the definition it names, TLC finds the property violated.

### WorkerPool

A worker's `pc` is the next outside call of `processJob`; every call is an
action of its own, because the rest of the system moves between any two.

| action | code |
|---|---|
| `PullMessage`, `PullFails`, `PullNothing` | `Pull` hands out a message; hands one out but the answer is lost; hands out none |
| `CheckDue` | `time.Now().Before(job.ExecuteAfter)` |
| `RateLimited` | the limiter refuses or fails: the message is left alone |
| `UnknownType` | the registry has no such type |
| `StartRun`, `FinishRun` | the request leaves; `executeJob` returns success, a retryable or a final error |
| `Drop` | the acknowledgement of a job that is not run |
| `AckRun` | the acknowledgement after the run; its failure is only logged |
| `PushRetry`, `PushRetryFails` | `scheduleRetry` |
| `Stop`, `Cancel`, `Exit`, `Start`, `Crash` | `Pool.Stop`, `workerCancel`, the select's exits, a new process, the death of one |
| `Schedule` | the distributor's `Push` |
| `BecomeDue`, `Expire` | time: `ExecuteAfter` passes; a visibility timeout ends (again visible, or dead after `MaxDeliveries`) |

The queue is external. Of it the model assumes what the client's use implies: a
pull hides a message until its timeout, a receipt names one delivery and only
the last one can be acknowledged, a message is dead after its last delivery. An
acknowledgement may fail at any time, so an older receipt being refused is the
only promise used. `runs`, `failed`, `fate` and `parent` are history: they
record deliveries and outcomes and guard nothing.

Time is abstracted to two events, `BecomeDue` and `Expire`; they may happen
whenever the state allows, which covers every timeout, backoff and slot.

### WorkerService

The steps of a worker process around `WorkerPool`'s: each is one of the pool's
actions with what main and the WaitGroup do at the same time, or leaves the
pool's variables alone. A worker that was not spawned yet is `idle` and outside
`counted`.

| action | code |
|---|---|
| `Spawn` | the loop of `Pool.Start` comes to a worker: `wg.Add`, `go` |
| `Work`, `Leave` | a step of `processJob`; the select's exit and `wg.Done` |
| `Signal` | SIGTERM: `workerCancel`, then the stop channels are closed |
| `Wait`, `WaitReturns`, `WaitPanics` | `wg.Wait`: returns at once when the count is zero, or is woken when it becomes zero; if `Pool.Start` has added a worker by the time it looks again, it panics |
| `Close`, `Vanish` | the clients are closed and main returns; the goroutines end with the process |
| `Die`, `Boot` | the process is killed; a new one connects, loads its registry and makes its pool |

Closing a client while a spawned worker still uses it would be the mistake, and
the code does not order the two: `Wait` may return before all workers were
spawned. What saves it is that the context is cancelled first, so a worker that
comes late does nothing (`NoWorkAfterClose`).

### Scheduler

`pc` is the next Redis call of `checkAndScheduleTasks`. `TryLock`,
`CheckHolder` and `ExtendLease` are `acquireLeadership`; `ReadLast` and
`ReadUsers` are `findDueTasks` for one type; `PushJob` is one iteration of
`DistributeTasks`; `SetLast` one of `updateLastExecutions`. The order of types
(a Go map) and of tasks (a shuffle) is arbitrary. Each call may fail, an
instance may halt at any point and start again (each a counted fault), and the
lease may end at any time. The clock shows the instants of `Instants`, in minutes, in
order, but may skip some; `Due` is `TaskInterval`'s `IsDue` for the type's interval, or
says that the type was never executed (`Never`, Go's zero time). The value of the
leader key is the same for every instance, so the model only has whether it exists.
A push reaches the queue once or not at all: that the Redis client may send it again
is not modelled.

`served`, `roster` and `latest` are history. `latest` is when each user's last job of a
type was pushed, counted from the last fault: a fault resets it, and with it what
`RepeatedOnlyForFaults` says of the next push.

### RateLimiter

`Ask` reads the host's clock, `Eval` runs the script with that reading; the
script is one action because Redis runs it atomically. `stamp` is within `Skew`
of the clock when it is read, and the clock moves at most `MaxDelay` while a call
is under way. `Eval` covers the lost answer (tokens gone, nobody allowed to use
them), `Resend` the call that is sent again with the same reading after its
answer was lost (how often is not bounded), `EvalFails` the call that never
arrives. `\div` rounds down as `math.floor` does, also below zero. A bucket may go below zero: a reading from
before the last refill takes tokens back. If the window does not divide the
limit, alternating readings can push it ever lower; `MinTokens` bounds how far
the runs follow that, and the proofs do not depend on it.

`TokenBucket` is a bucket that refills continuously, in parts of a token. The
mapping (`Credit`) is what the Redis bucket would hold for the fastest clock
the skew allows, at most `Capacity`: the burst and what skew and delay can add to
it. What the script loses, by rounding or by a lost answer, the abstract bucket may
lose at any time; what it never does is gain.

### TimeSlots

Arithmetic on durations. `Second` is the number of units in a second (10^9
in the code); `Jitters` is the range of `rand.Int63n(interval/4)`.

### Backoff, TaskInterval, TaskRegistry

`Backoff` works on integers from `-HalfRange` to `HalfRange - 1` (2^63 in the code)
that wrap around; `Shifted` is Go's `1 << n`, zero once the bit has left the word.
`TaskInterval` counts minutes in UTC (every result of `NextExecution` is a whole
minute). A zone is its offset from UTC at an instant; `Date`, `AddDays` and
`AddMonths` are Go's `time.Date` and `AddDate`, with their two look-ups of the
offset and their overflow into the next month. `TaskRegistry` loads a file of
definitions or refuses it as a whole. `Times` drives all of it: a draw of
slots, a job that fails again and again, or a task that is loaded and executed at
the first pass after it is due, in time or late.

Go's `time.Date` puts a midnight that a zone skips on the day before. `MidnightsExist`
says that none of the midnights an execution crosses (`DaysCrossed`: today's and the
next's for a daily interval, the one reached for a weekly one, for a monthly one
the day on which `AddDate` lands and the same date in that month) is skipped.
`NotDueAgain` and `KeepsCalendar` are stated under it; hourly intervals cross none,
and weekly tasks are never due again at once, skipped or not.

`KeepsCalendar` says what the code does, not what its comments promise: a weekly task
comes `7 * value` days later, less one where the current day of UTC began in the local
day before; a monthly one comes on the same day of the month in the month its value
says, or in the one after if that is too short (`MonthWithDate`). What the comments
promise is `SameDay`, and the run `MCTimes_sameday` shows that it fails.

### UserStore

A pipeline has four stages, each a set of commands in arbitrary order (that of a Go
map): it clears the tasks hash, sets it, lists the user, and updates the index. `Execute` runs one command; commands of other pipelines come
between. `Break` drops the rest of a pipeline. A caller that times out and calls
again while its first pipeline is still under way is two writers. `alone` and
`clean` are history: which updates were overlapped by no other of the same user.
The settings hash, metadata and JSON payloads are left out.

## Runs

| run | instance | checks |
|---|---|---|
| `MCWorkerPool_redelivery` | 2 pools of 1 worker, 1 job (of a known or an unknown type), 3 messages, 2 deliveries, 1 halt | `IndInv`, `TypeOK`, `NoJobVanishes`, `OneRetryPerFailedRun`, `OneRunPerDelivery`, `DeliversJobs` |
| `MCWorkerService_service` | 1 process of 2 workers, 2 jobs (one of an unknown type), 1 message, 3 deliveries, 2 halts, fairness | `ServiceInv`, `NoWorkAfterClose`, `ShutdownCompletes`, `MessagesSettle` |
| `MCScheduler_two` | 2 instances, no election, 1 hourly type, 2 users, passes at 2 instants, 2 faults | `TypeOK`, `IndInv`, `RosterServed` |
| `MCScheduler_single` | 1 instance, election, a two-hourly and a weekly type (`weekly_analytics`, New York), 1 user, passes at 3 instants, 2 faults, fairness | `SingleInv`, `RepeatedOnlyForFaults`, `TypesGetScheduled` |
| `MCRateLimiter_skew` | 2 clients, limit 3 per 2s, burst 4, skew 1s, delay 1s, 5s | `IndInv`, `BucketBound`, `ImplementsBucket` |
| `MCRateLimiter_exact` | 2 clients, limit 2 per 1s, burst 3, 1 reset, 7s | `TotalBound`, `RefusedOnlyWhileRefilling`, `ImplementsBucket` |
| `MCTimes_times` | slots: second of 8 units, windows up to 60, up to 5 jobs, every jitter; delays: integers of 10 bits, bases up to 40, 14 attempts; tasks: all types, values 0 to 2, 5 zones (one unknown, one empty), 4 times of day (one invalid), 9 starts, 4 executions, in time or late | `Spread`, `WithinEstimate`, `DelaysAsConfigured`, `TasksNotDueAgain`, `TasksKeepCalendar` |
| `MCUserStore_writers` | 2 writers, 1 user, 2 types, all preferences, 3 updates, 1 break | `TypeOK`, `CompletedUpdatesAgree`, `IndInv` |
| `MCWorkerPool_notready`, `MCScheduler_leader`, `MCTimes_sameday`, `MCUserStore_deleted` | smallest instance that shows it | one claim each, violated (below) |

What they show:

* `NoJobVanishes`, `DeliversJobs`: whatever the interleaving, a job disappears
  from the queue only with a recorded outcome, which includes "dead" and "retry
  lost". Acknowledging earlier, or acknowledging a refused message, breaks it.
* `OneRetryPerFailedRun`, `OneRunPerDelivery`: although a message can be run by
  two workers at once, the endpoint is called at most once per delivery, and a
  failed delivery begets one retry. Redelivery is bounded by the queue, so the
  number of calls for one message is too; nothing bounds a chain of retries (below).
* `MessagesSettle`, `ShutdownCompletes`: refusals and failures end in an
  acknowledgement or a dead letter; a signalled process ends, also when `Pool.Stop`
  overtakes `Pool.Start`. `NoWorkAfterClose`, `ServiceInv`: no worker uses a closed
  client.
* `RosterServed`: the last execution in Redis stands for users served at that
  time, even when passes of two instances overlap and write in either order. A user
  whose push failed counts as served, as the code goes on without them.
* `RepeatedOnlyForFaults`, `SingleInv`: unless a call failed or the instance halted
  since a user's last job of a type, one instance does not push the next before
  `NextExecution` says. `TypesGetScheduled`: a leftover leader key blocks nobody.
* `BucketBound`, `TotalBound`, `RefusedOnlyWhileRefilling`: the limiter's
  upper bound and its recovery, whatever calls were sent twice. `ImplementsBucket`:
  the bound holds from any moment to any other, not only since a bucket was created.
* `Spread`, `WithinEstimate`: no burst reaches the endpoints, whatever the draw.
* `DelaysAsConfigured`: a delay doubles up to the maximum as long as the doubled
  base is a word. Beyond, it is the word that wraps to, which may be zero or negative
  (a retry that is due at once), or the maximum if that is less.
* `TasksNotDueAgain`, `TasksKeepCalendar`: an executed task is not due at once, and
  comes next on the day, in the month and at the time that `KeepsCalendar` names, after
  late passes and across changes of the clock and short months, unless a midnight it is
  computed with is skipped by its zone (below). The named day is the weekday before
  for a weekly task west of Greenwich, and the named month skips one that lacks the
  day (*Where the code and its texts differ*).
* `CompletedUpdatesAgree`, `IndInv`: an update of a user that nothing overlapped
  leaves index and tasks in agreement, whatever it found.

### Bounds

Three messages are the least with which a job, its retry and a second retry of
the same delivery can exist together, two deliveries the least with a
redelivery, two workers the least that hold the same message. `AttemptCap` keeps
retries within the messages there are: at its attempt the endpoint fails finally
or succeeds. `OneJobScheduled` (a constraint of the run `redelivery`) has one job
pushed, the known or the unknown one; `service` has both together. `MaxHalts` and `MaxFaults` count what goes wrong; one halt can come at
every state, and every fault an action names can meet every interleaving. The
schedulers' instants let a type be executed twice, be read when it is not due yet, and
let a pass skip an instant; the limiter's time is more than twice the
life of a bucket's key (exact). The service's one message can be delivered often
enough to be refused, dropped, run and dead, and its two halts are a signal and a
crash, or a signal before and after a restart; two workers are the least of which
one returns while the other is not spawned yet. Integers of 10 bits overflow
within 14 attempts as those of 64 do in 34 or more. The tasks' starts are the eves
of the ends of a long and a short month, of a leap February, of the year and of
changes of the clock in both hemispheres, and a month, a week and a day before the
midnight that Santiago skips; four executions cross each. `MaxUpdates` of 3 lets an update overlap a second
one and a third one repair or not repair what they left. What these bounds do not cover
is covered by the proofs, which have none: the bounds appear there as arbitrary
constants.

Symmetry is used where the run checks no liveness property. Workers are
swapped together with their pools in the instance with two pools of one
worker.

The queue, the clocks and the schedulers may go on for ever, so no run turns
deadlock checking off. An idle worker's empty pull (`PullNothing`) and a user
store nobody uses (`Rest`) are the stuttering the code does.

### Fairness

* Workers (`WF` of `Goroutine(w)`): every call has a timeout (the HTTP client's, the
  task's, the clients' own), so it returns; the ticker fires again; `Pool.Start`
  goes on spawning. This also says that a pull is not refused for ever while a
  message is visible. Which outcome a call has is not promised: the limiter may
  refuse for ever, the acknowledgement may always fail.
* The queue (`WF` of `Expire`) ends its visibility timeouts.
* The process (`WF` of `Main(p)`): main goes on with its shutdown, and a process
  that ended is started again (`restart: unless-stopped`, `docker-compose.yml:62`,
  `:88`); the scheduler likewise (`:36`; `Restart`, in `PassStep`).
* Scheduler (`WF` of `PassStep`): the ticker fires and Redis answers.

No fairness is assumed of faults, halts, signals, pushes of new jobs, users or the
end of the lease.

## Proofs

All proofs are for arbitrary constants under the named assumptions of the
modules (`ConstantsAssumption`, `NoBodyAssumption`, `NoBucketAssumption`,
`SecondAssumption`, `HalfRangeAssumption`, `EpochAssumption`, `InputsAssumption`), which
TLC evaluates in the runs. A theorem that needs more says so in its statement.

| theorem | states |
|---|---|
| `WorkerPoolProofs!Inductive`, `TypeCorrect` | `Spec => []IndInv`, `Spec => []TypeOK` |
| `WorkerPoolProofs!JobsDoNotVanish` | `Spec => []NoJobVanishes` |
| `WorkerPoolProofs!FailedRunsRetriedOnce` | `Spec => []OneRetryPerFailedRun` |
| `WorkerPoolProofs!RunsHaveOwnDelivery` | `Spec => OneRunPerDelivery` |
| `WorkerPoolRefinement!PoolDeliversJobs` | `Spec => DeliversJobs`: `WorkerPool` implements `JobDelivery` |
| `WorkerServiceProofs!ServiceLosesNoJob`, `ServiceDeliversJobs` | `ServiceSpec => []NoJobVanishes`, `ServiceSpec => DeliversJobs` |
| `WorkerServiceProofs!ServiceInvariant`, `ClientsOutliveWork` | `ServiceSpec => []ServiceInv`, `ServiceSpec => []NoWorkAfterClose` |
| `SchedulerProofs!Inductive`, `TypeCorrect`, `RostersAreServed` | `Spec => []IndInv`, `Spec => []TypeOK`, `Spec => []RosterServed` |
| `SchedulerProofs!SingleInductive`, `NoEarlyRepetition` | `Spec => []SingleInv`, `Spec => RepeatedOnlyForFaults`, if there is one instance |
| `RateLimiterProofs!LimiterIsBucket` | `Spec => ImplementsBucket`: `RateLimiter` implements `TokenBucket` |
| `RateLimiterProofs!Inductive`, `TypeCorrect`, `GrantsBounded` | `Spec => []IndInv`, `Spec => []TypeOK`, `Spec => []BucketBound` |
| `RateLimiterProofs!LifetimeGrantsBounded` | `Spec => []TotalBound`, if `Skew = 0`, `MaxDelay = 0` and `Burst <= 2 * Limit` |
| `RateLimiterProofs!PollingDelaysNobody` | `Spec => RefusedOnlyWhileRefilling`, if moreover `Limit = k * Window` |
| `TimesProofs!SlotsAreSpread`, `SlotsAreWithinEstimate` | for every window, count and draw |
| `TimesProofs!SlotsStaySpread`, `SlotsStayWithinEstimate` | `TimesSpec => []Spread`, `TimesSpec => []WithinEstimate` |
| `TimesProofs!DelaysAreConfigured` | `DelayAsConfigured` of every attempt, base and maximum, on words of any size |
| `TimesProofs!DelaysStayAsConfigured` | `TimesSpec => []DelaysAsConfigured` |
| `TimesProofs!RegularZoneTasks` | `NotDueAgain` and `KeepsCalendar` of every interval type in every `Regular` zone |
| `TimesProofs!TasksAreNotDueAgain`, `TasksStayOnCalendar` | `TimesSpec => []TasksNotDueAgain`, `TimesSpec => []TasksKeepCalendar`, if all zones are `Regular` |
| `UserStoreProofs!Inductive`, `TypeCorrect`, `UpdatesAgree` | `Spec => []IndInv`, `Spec => []TypeOK`, `Spec => []CompletedUpdatesAgree` |

*WorkerPool.* `OneRetryPerFailedRun` is not inductive: nothing in it says why a
worker about to push a retry has not pushed it already. The invariant adds that
a delivery is held by one worker (`DeliveriesExclusive`, because a pull's receipt
is above all earlier ones: `HeldAreUsed`, `RunsAreDeliveries`), how far that
delivery has come (`RunsFollowPC`), and that a delivery in somebody's hands has no
retry yet (`HeldNotRetried`). `NoJobVanishes` needs that what is about to be
acknowledged is recorded (`ResultsRecorded`). `TLC` checks the same `IndInv` in the
run `redelivery`. The proof has a lemma per action and a step per conjunct.

*Refinement.* The abstract stage of a job is computed from queue and workers;
`StepFacts` says what one step may do to it, action by action, and `NextMaps`
puts the facts together. That a settled job never comes back rests on a retry
being pushed only by a worker that still holds the job.

*WorkerService.* Each action of the service is one of `WorkerPool`'s or a stutter of
it by its definition, so the lemma `ServiceIsPool` needs no invariant; it carries the
pool's theorems over.
`NoWorkAfterClose` is not inductive: that nobody is at work when `Wait` returns
needs that a worker at work is counted (`BusyAreCounted`), and that nobody starts
afterwards that the context has ended by then (`ShutdownCancelled`).

*Scheduler.* `RosterServed` is kept by `SetLast` because everything found was
pushed before, which `PassesServe` carries along the pass. `Frame` disposes of the
actions that touch none of this.

`RepeatedOnlyForFaults` is about one instance (`Alone`); two that process at once,
as in the run `leader`, repeat each other's jobs. It relates a push to the one before, so the
invariant says where that one is recorded (`JobsRecorded`): it has the time of the
last execution, or the instance has still to record it (`Unrecorded`), or the last
execution is a later one, of a pass in which the type was due again after that job
(that pass had no task for the user, who had disabled the type). `FoundStaysDue` says
that what a pass pushes is due by the last execution, which holds until the pass itself
records it. `InOrder`, that no last execution is later than the pass that compares
with it, puts the two together: what is due by the later of two instants is due
at every later one (`DueLater`). A fault forgets what it may have cut off.

Nothing of `NextExecution` is used but that it is a number (`ConstantsAssumption`): that the
time it gives is right is `KeepsCalendar`'s matter. Where a zone skips a midnight it may
give the time it was given, and then an early repetition is no repetition by this
theorem: `NotDueAgain` is about that.

*RateLimiter.* The potential `Window * (granted + tokens) - Limit * last_refill`
never grows (`TokensAccounted`), whatever the order of the readings; that
readings are within the skew of the clock (`StampsBounded`) gives `BucketBound`.

With exact clocks the readings are the clock itself (`StampsExact`), and
`LifetimeAccounted` adds to the potential what expired buckets have granted: a key
expires two windows after its last use, and by then would have refilled by itself,
as `Burst <= 2 * Limit`. `Recovering(k)` is what polling keeps: what is in the
bucket at any moment is at least what the time since the last grant has added,
since the script's division loses nothing when the window divides the limit.

`LimiterIsBucket` needs no bound on burst or clocks. `RefilledWithinCredit` is its
core: after a refill with any reading that is at most `Skew` ahead and
`Skew + MaxDelay` behind (`StampsRecent`), what the bucket holds is within the abstract
credit, although the script takes tokens back and adds them again. A key's end is
the abstract bucket's `Forget`, since a key outlives the last grant by two windows
(`KeyOutlivesGrant`). TLC had found the first statement of `TokenBucket` wrong: it
had no debts, which readings that go back leave behind.

*Times.* The slots follow from the division's bounds and the quarter the jitter is
drawn from; at every moment of the loop the slots drawn so far and the others,
without jitter, are a draw like any other (`SlotsInv`). The shift of a delay and
the power of two it stands for differ by a multiple of the word's width, which
`Induction` gives for every attempt (`ShiftIsPower`), and so do their products with
the base; numbers that do wrap to the same word (`WrapSame`), and a word to itself
(`WrapWord`). The calendar is recursive too: `FirstOf` adds up lengths of months,
which `LaterMonth`, `FirstOfBounds` and `MonthOfIs` turn into what the monthly
proof needs, that a date is found again in a later month.

`Regular` is what a zone has to satisfy: offsets are integers, no minute
begins an earlier local day than the one before it, a UTC day meets at most two
local days, and `Date` finds the day it is given, or the day before if the
day's midnight is skipped. It says nothing of when or by how much
clocks are changed. TLC evaluates it for the four cities of the runs, every half hour
of two years (`CitiesAreRegular`). A zone that drops a day (Samoa,
December 30th 2011) is not regular. `DaysInOrder` and `LaterDay` turn it into an order
of instants, one lemma per interval type (`Daily`, `Weekly`, `Monthly`; hourly ones
compare instants) does the rest.

The proof showed `KeepsCalendar` to be false as it was first stated, for every zone
that skips a midnight and in a case no run had: a monthly task in Santiago, executed on
August 8th 2024, comes on September 7th at 23:00. The condition `MidnightsExist` names
these days for each interval type, and the runs now start before them.

*UserStore.* `CompletedUpdatesAgree` is about finished updates, so the invariant
says where an unfinished one is going: `WillEnable` and `WillIndex` are what tasks
and index will say once the rest of its pipeline has run, and agree at every step
of an update that is alone (`PipesWillAgree`), whatever state it found. That the
commands of others do not change this is `AloneIsAlone` and `RunEffect`; that a
command does not change where its own pipeline is going is
`ExecuteStaysOnCourse`, stage by stage.

Only model-checked: the liveness properties (`ShutdownCompletes`, `MessagesSettle`,
`TypesGetScheduled`), which are out of the prover's reach under fairness. Every
invariant and every safety property of the passing runs is also a theorem. That a
zone is `Regular` is an assumption of theirs, checked for the cities of the runs only.

## Where the code and its texts differ

Each of these is a run that finds the claim violated.

* `MCWorkerPool_notready`: `worker.go:170` says "Job not ready yet, put it back in
  queue"; line 177 acknowledges the message, so the job is gone. The queue does
  not hold a message back until its `ExecuteAfter`, and the distributor gives
  nearly every job, and `scheduleRetry` every retry, a later one.
* `MCScheduler_leader`: `SYSTEM_STATUS.md:108` says "Only one scheduler processing
  at a time"; all instances write the same value and take each other's key for
  their own (`scheduler.go:212`, `:230`).
* `MCTimes_sameday`: `task.go:96` says "Next week on the same day"; line 98 truncates
  to midnight in UTC, which is the evening before west of Greenwich, so a weekly
  task in New York (`config/tasks.yaml:96`) comes one weekday earlier every week.
  `task.go:107` says "Next month on the same day"; `AddDate` runs over into the next month
  where a month lacks the day, and the code puts the day into that one (lines
  108-111), so a monthly task (`config/tasks.yaml:113`) executed on January 31st comes
  next on March 31st, and one on the 31st skips every short month. The trace has both.
* `MCUserStore_deleted`: `user_store.go:326` says "removes all data for a user";
  types that a later `SaveUserPreference` no longer mentions stay in the index,
  and the scheduler goes on pushing jobs for the deleted user.

Further differences follow from a line of code each and have no run:
`max_retries` is passed to `ShouldRetry`, which ignores it (`job.go:77`; `AttemptCap`
is a bound of the model, not of the code); the default burst is the limit plus 50 tokens where its comment
says 50% (`limiter.go:47`); a refused call advances `last_refill` and loses the
fraction of a token when the window does not divide the limit (`limiter.go:160`);
"Use transaction" (`user_store.go:105`) is a `Watch` without keys around a plain
pipeline; a push that fails is skipped and still recorded as executed
(`distributor.go:70`; `served` has the jobs whose push failed, too); a timezone that is not found is
silently UTC (`task.go:53`); where the
clocks skip a midnight (Santiago, September 8th 2024) a daily task's next execution
is not after its last, and it is executed at every pass for hours (`task.go:70`), and a monthly one whose `AddDate` lands on a skipped midnight of the
1st (Asuncion, October 1st 2017) likewise (`task.go:109`; `MidnightsExist` leaves
these days out); with the shipped base of a second the
35th attempt's delay overflows to a negative one, and the retry is due at once
(`worker.go:369`; `DelaysAsConfigured` says which word it is); a limiter of 30 per minute, say, polled every second is never
refilled (`limiter.go:160`: each poll adds the floor of half a token, and
`PollingDelaysNobody` assumes that the window divides the limit); a limiter whose
window is below a second never refuses (`limiter.go:70` passes 0, the division by
it refills the bucket and the expiry of 0 deletes it), and one of 1.5s is one of 1s;
a signal during `Pool.Start` may end the worker process in a panic of `Wait`
(`WaitPanics`) rather than the "Graceful Shutdown" of `SYSTEM_STATUS.md:191`; the
scheduler process closes its clients without waiting for its pass
(`cmd/scheduler/main.go:208`, `Halt`); jobs in the queue are run although their user
has disabled or deleted the task meanwhile, as the worker never asks.

## Not modelled

* `PushBatch` (no caller), `SetDistributionWindow` (only a test calls it), `Stats`
  and the other queries (they only read).
* A message or a Redis value that does not parse: only this program writes them.
* Configuration, logging, metrics and health servers, HTTP details: pure I/O. The
  demonstration commands under `cmd/test-*`.
* message-queue-go itself, beyond what the client relies on.
* A limiter with a window below a second: its script stores no bucket of which
  anything could be stated.
* `Scheduler` and `WorkerPool` composed over one queue: they share no state but the
  messages, and `JobDelivery` is what the one promises the other. The
  product of the two adds interleavings and no interaction.

## Plan

Written in this order, the most important behaviour first: `WorkerPool` with
`JobDelivery`, `Scheduler`, `RateLimiter`, `TimeSlots`, `UserStore`, their proofs;
then `WorkerService`, `Backoff`, `TaskInterval`, `TaskRegistry` and theirs; then
`Times`, `Induction`, `TokenBucket` and the invariants that needed induction. Next:

1. An abstract user store, in which an update that nothing overlaps is one step, and
   the proof that `UserStore` implements it.
2. The scheduler's promise to `JobDelivery`: which jobs of which users arrive.
3. The settings and metadata hashes of `UserStore`, when something reads them.
