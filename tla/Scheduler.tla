----------------------------- MODULE Scheduler -----------------------------
(***************************************************************************)
(* The schedulers of internal/scheduler, the distributor they push through *)
(* and the Redis keys they share.                                          *)
(*                                                                         *)
(* Each instance repeats checkAndScheduleTasks: try to be leader, find the *)
(* task types that are due and their users, push a job for each, record    *)
(* the pass's time as the types' last execution.  The pass is a sequence   *)
(* of Redis calls; each is an action, so other instances, faults, a crash  *)
(* and the clock can come between any two of them.                         *)
(*                                                                         *)
(* A type is due when TaskInterval's IsDue says so.  Passes begin at some  *)
(* instants, in minutes; in between the leader key's lease (30s) may end   *)
(* at any time.                                                            *)
(***************************************************************************)
EXTENDS TaskInterval, FiniteSets

CONSTANTS
  Schedulers,      \* the scheduler instances
  Types,           \* the task types in the registry
  Users,           \* the users in the user store
  Interval,        \* the interval of each task type
  LeaderElection,  \* config.EnableLeaderElection
  Instants,        \* bound: the instants at which the clock is read
  MaxFaults,       \* bound: failed calls, crashes and shutdowns in a behaviour
  NoType           \* the current type of an instance that has none

ASSUME ConstantsAssumption ==
  /\ LeaderElection \in BOOLEAN
  /\ Instants \subseteq Nat
  /\ \A t \in Types, n \in Instants : NextExecution(Interval[t], n) \in Int
  /\ MaxFaults \in Nat
  /\ NoType \notin Types

\* A task type that was never executed has the zero time, before every other.
Never == -1

\* taskToSchedule: a task type and a user.  A job is one of them at the time of
\* the pass that pushed it.
Tasks == Types \X Users
JobKeys == Types \X Users \X Instants

\* Where an instance is: the next call of checkAndScheduleTasks.
InPass == {"find", "users", "push", "record"}
PCs == {"idle", "check", "extend", "begin", "down"} \cup InPass

VARIABLES
  now,      \* the clock
  leader,   \* Redis: whether the leader key exists (its value is a constant)
  last,     \* Redis: taskqueue:schedule:<type>, the last execution of each type
  enabled,  \* user store: the users who enabled each task type
  pc,       \* scheduler: position in checkAndScheduleTasks
  passNow,  \* scheduler: now, read once in a pass
  todo,     \* scheduler: task types whose findDueTasks has not returned
  cur,      \* scheduler: the due type whose users are read next
  found,    \* scheduler: tasksToSchedule
  unsent,   \* scheduler: the tasks DistributeTasks has yet to push
  unset,    \* scheduler: the types updateLastExecutions has yet to write
  faults,   \* number of faults so far
  latest,   \* history: when each task was last pushed since the last fault
  served,   \* history: the jobs pushed, and those whose push failed
  roster    \* history: the users found by the pass that last wrote last[t]

redisVars == <<leader, last, enabled>>
passVars == <<pc, passNow, todo, cur, found, unsent, unset>>
faultVars == <<faults, latest>>
historyVars == <<served, roster>>
vars == <<now, redisVars, passVars, faultVars, historyVars>>

TypeOK ==
  /\ now \in Instants
  /\ leader \in BOOLEAN
  /\ last \in [Types -> Instants \cup {Never}]
  /\ enabled \in [Types -> SUBSET Users]
  /\ pc \in [Schedulers -> PCs]
  /\ passNow \in [Schedulers -> Instants \cup {Never}]
  /\ \A s \in Schedulers : pc[s] \in InPass => passNow[s] \in Instants
  /\ todo \in [Schedulers -> SUBSET Types]
  /\ cur \in [Schedulers -> Types \cup {NoType}]
  /\ found \in [Schedulers -> SUBSET Tasks]
  /\ unsent \in [Schedulers -> SUBSET Tasks]
  /\ unset \in [Schedulers -> SUBSET Types]
  /\ faults \in Nat
  /\ latest \in [Tasks -> Instants \cup {Never}]
  /\ served \in SUBSET JobKeys
  /\ roster \in [Types -> SUBSET Users]

TypesOf(tasks) == {t[1] : t \in tasks}
UsersOf(tasks, t) == {u \in Users : <<t, u>> \in tasks}
JobKey(s, t) == <<t[1], t[2], passNow[s]>>

\* Mutant of Due: a type is due an hour early.
DueEarly(t, lastExecution, n) ==
  lastExecution = Never \/ IsDue(Interval[t], lastExecution, n + Hour)

\* IsDue(lastExecution, now); what was never executed is due.
Due(t, lastExecution, n) == lastExecution = Never \/ IsDue(Interval[t], lastExecution, n)

NoJobs == [t \in Tasks |-> Never]

Init ==
  /\ now \in {n \in Instants : \A i \in Instants : n <= i}
  /\ leader = FALSE
  /\ last = [t \in Types |-> Never]
  /\ enabled \in [Types -> SUBSET Users]
  /\ pc = [s \in Schedulers |-> "idle"]
  /\ passNow = [s \in Schedulers |-> Never]
  /\ todo = [s \in Schedulers |-> {}]
  /\ cur = [s \in Schedulers |-> NoType]
  /\ found = [s \in Schedulers |-> {}]
  /\ unsent = [s \in Schedulers |-> {}]
  /\ unset = [s \in Schedulers |-> {}]
  /\ faults = 0
  /\ latest = NoJobs
  /\ served = {}
  /\ roster = [t \in Types |-> {}]

-----------------------------------------------------------------------------
\* acquireLeadership.

Goto(s, l) == pc' = [pc EXCEPT ![s] = l]

Fault == faults < MaxFaults /\ faults' = faults + 1 /\ latest' = NoJobs
NoFault == UNCHANGED faultVars

\* The ticker fires and SETNX finds no key, or finds one.
TryLock(s) ==
  /\ pc[s] = "idle"
  /\ LeaderElection
  /\ leader' = TRUE
  /\ Goto(s, IF leader THEN "check" ELSE "begin")
  /\ NoFault
  /\ UNCHANGED <<now, last, enabled, passNow, todo, cur, found, unsent, unset, historyVars>>

\* SETNX fails; it may have set the key all the same.
TryLockFails(s) ==
  /\ pc[s] = "idle"
  /\ LeaderElection
  /\ leader' \in {leader, TRUE}
  /\ Fault
  /\ UNCHANGED <<now, last, enabled, passVars, historyVars>>

\* Without leader election every tick begins a pass.
SkipElection(s) ==
  /\ pc[s] = "idle"
  /\ ~LeaderElection
  /\ Goto(s, "begin")
  /\ NoFault
  /\ UNCHANGED <<now, redisVars, passNow, todo, cur, found, unsent, unset, historyVars>>

\* Mutant of CheckHolder: an instance does not recognise its own key.
CheckHolderForeign(s) ==
  /\ pc[s] = "check"
  /\ Goto(s, "idle")
  /\ NoFault
  /\ UNCHANGED <<now, redisVars, passNow, todo, cur, found, unsent, unset, historyVars>>

\* GET: the key still there holds "leader", whichever instance set it.
CheckHolder(s) ==
  /\ pc[s] = "check"
  /\ Goto(s, IF leader THEN "extend" ELSE "idle")
  /\ NoFault
  /\ UNCHANGED <<now, redisVars, passNow, todo, cur, found, unsent, unset, historyVars>>

\* EXPIRE: that the key has gone meanwhile is not an error.
ExtendLease(s) ==
  /\ pc[s] = "extend"
  /\ Goto(s, "begin")
  /\ NoFault
  /\ UNCHANGED <<now, redisVars, passNow, todo, cur, found, unsent, unset, historyVars>>

\* GET or EXPIRE fails: the pass is given up.
LeaseCallFails(s) ==
  /\ pc[s] \in {"check", "extend"}
  /\ Goto(s, "idle")
  /\ Fault
  /\ UNCHANGED <<now, redisVars, passNow, todo, cur, found, unsent, unset, historyVars>>

\* The leader key's time to live ends.
LeaseEnds ==
  /\ leader
  /\ leader' = FALSE
  /\ NoFault
  /\ UNCHANGED <<now, last, enabled, passVars, historyVars>>

-----------------------------------------------------------------------------
\* A pass: find, distribute, record.

\* The pass's variables go out of scope.
Forget(s) ==
  /\ passNow' = [passNow EXCEPT ![s] = Never]
  /\ todo' = [todo EXCEPT ![s] = {}]
  /\ cur' = [cur EXCEPT ![s] = NoType]
  /\ found' = [found EXCEPT ![s] = {}]
  /\ unsent' = [unsent EXCEPT ![s] = {}]
  /\ unset' = [unset EXCEPT ![s] = {}]

Return(s) ==
  /\ Goto(s, "idle")
  /\ Forget(s)
  /\ NoFault
  /\ UNCHANGED <<now, redisVars, historyVars>>

\* Mutant of BeginPass: the clock is not read.
BeginPassTimeless(s) ==
  /\ pc[s] = "begin"
  /\ passNow' = [passNow EXCEPT ![s] = Never]
  /\ todo' = [todo EXCEPT ![s] = Types]
  /\ found' = [found EXCEPT ![s] = {}]
  /\ Goto(s, "find")
  /\ NoFault
  /\ UNCHANGED <<now, redisVars, cur, unsent, unset, historyVars>>

BeginPass(s) ==
  /\ pc[s] = "begin"
  /\ passNow' = [passNow EXCEPT ![s] = now]
  /\ todo' = [todo EXCEPT ![s] = Types]
  /\ found' = [found EXCEPT ![s] = {}]
  /\ Goto(s, "find")
  /\ NoFault
  /\ UNCHANGED <<now, redisVars, cur, unsent, unset, historyVars>>

\* findDueTasks reads the last execution; a type that is not due is done.
ReadLast(s, t) ==
  /\ pc[s] = "find"
  /\ t \in todo[s]
  /\ IF Due(t, last[t], passNow[s])
       THEN /\ cur' = [cur EXCEPT ![s] = t]
            /\ Goto(s, "users")
            /\ UNCHANGED todo
       ELSE /\ todo' = [todo EXCEPT ![s] = @ \ {t}]
            /\ UNCHANGED <<cur, pc>>
  /\ NoFault
  /\ UNCHANGED <<now, redisVars, passNow, found, unsent, unset, historyVars>>

\* findDueTasks leaves a type, with the tasks it returns for it.
LeaveType(s, t, tasks) ==
  /\ todo' = [todo EXCEPT ![s] = @ \ {t}]
  /\ found' = [found EXCEPT ![s] = @ \cup tasks]
  /\ cur' = [cur EXCEPT ![s] = NoType]
  /\ Goto(s, "find")
  /\ UNCHANGED <<now, redisVars, passNow, unsent, unset, historyVars>>

ReadUsers(s, t) ==
  /\ pc[s] = "users"
  /\ t = cur[s]
  /\ LeaveType(s, t, {t} \X enabled[t])
  /\ NoFault

\* Either read fails: the type is skipped in this pass.
ReadFails(s, t) ==
  /\ \/ pc[s] = "find" /\ t \in todo[s]
     \/ pc[s] = "users" /\ t = cur[s]
  /\ LeaveType(s, t, {})
  /\ Fault

\* Nothing is due: the pass ends.
NothingDue(s) ==
  /\ pc[s] = "find"
  /\ todo[s] = {}
  /\ found[s] = {}
  /\ Return(s)

\* Mutant of Distribute: the executions are recorded before the pushes.
DistributeLate(s) ==
  /\ pc[s] = "find"
  /\ todo[s] = {}
  /\ found[s] # {}
  /\ Goto(s, "record")
  /\ unsent' = [unsent EXCEPT ![s] = found[s]]
  /\ unset' = [unset EXCEPT ![s] = TypesOf(found[s])]
  /\ NoFault
  /\ UNCHANGED <<now, redisVars, passNow, todo, cur, found, historyVars>>

\* DistributeTasks starts.
Distribute(s) ==
  /\ pc[s] = "find"
  /\ todo[s] = {}
  /\ found[s] # {}
  /\ Goto(s, "push")
  /\ unsent' = [unsent EXCEPT ![s] = found[s]]
  /\ NoFault
  /\ UNCHANGED <<now, redisVars, passNow, todo, cur, found, unset, historyVars>>

\* DistributeTasks pushes the shuffled tasks one by one; a push that never reaches
\* the queue is logged and the next one is tried.  (One that did, and whose answer
\* is lost, differs from a success in the log only; likewise in SetLast.)
PushJob(s, t) ==
  /\ pc[s] = "push"
  /\ t \in unsent[s]
  /\ unsent' = [unsent EXCEPT ![s] = @ \ {t}]
  /\ \/ latest' = [latest EXCEPT ![t] = passNow[s]] /\ UNCHANGED faults
     \/ Fault
  /\ served' = served \cup {JobKey(s, t)}
  /\ UNCHANGED <<now, redisVars, pc, passNow, todo, cur, found, unset, roster>>

\* Mutant of BeginUpdate: it does not wait for the pushes.
BeginUpdateEarly(s) ==
  /\ pc[s] = "push"
  /\ unset' = [unset EXCEPT ![s] = TypesOf(found[s])]
  /\ Goto(s, "record")
  /\ NoFault
  /\ UNCHANGED <<now, redisVars, passNow, todo, cur, found, unsent, historyVars>>

\* updateLastExecutions starts, with the types that had a task.
BeginUpdate(s) ==
  /\ pc[s] = "push"
  /\ unsent[s] = {}
  /\ unset' = [unset EXCEPT ![s] = TypesOf(found[s])]
  /\ Goto(s, "record")
  /\ NoFault
  /\ UNCHANGED <<now, redisVars, passNow, todo, cur, found, unsent, historyVars>>

\* A type's last execution is set to the time the pass began, or the call fails,
\* which is only logged.
SetLast(s, t) ==
  /\ pc[s] = "record"
  /\ t \in unset[s]
  /\ unset' = [unset EXCEPT ![s] = @ \ {t}]
  /\ \/ /\ last' = [last EXCEPT ![t] = passNow[s]]
        /\ roster' = [roster EXCEPT ![t] = UsersOf(found[s], t)]
        /\ NoFault
     \/ /\ Fault
        /\ UNCHANGED <<last, roster>>
  /\ UNCHANGED <<now, leader, enabled, pc, passNow, todo, cur, found, unsent, served>>

\* Mutant of EndPass: it does not wait for the writes.
EndPassEarly(s) ==
  /\ pc[s] = "record"
  /\ Return(s)

EndPass(s) ==
  /\ pc[s] = "record"
  /\ unset[s] = {}
  /\ Return(s)

-----------------------------------------------------------------------------
\* The instances' life and their surroundings.

\* Start returns when its context ends between passes.  In a pass the calls fail
\* one after another, or the process dies.
Halt(s) ==
  /\ pc[s] # "down"
  /\ Goto(s, "down")
  /\ Forget(s)
  /\ Fault
  /\ UNCHANGED <<now, redisVars, historyVars>>

Restart(s) ==
  /\ pc[s] = "down"
  /\ Goto(s, "idle")
  /\ NoFault
  /\ UNCHANGED <<now, redisVars, passNow, todo, cur, found, unsent, unset, historyVars>>

\* Time passes, as much as it likes.
Tick ==
  /\ now' \in {n \in Instants : now < n}
  /\ NoFault
  /\ UNCHANGED <<redisVars, passVars, historyVars>>

\* A user enables or disables a task type.
Toggle(t, u) ==
  /\ enabled' = [enabled EXCEPT ![t] = IF u \in @ THEN @ \ {u} ELSE @ \cup {u}]
  /\ NoFault
  /\ UNCHANGED <<now, leader, last, passVars, historyVars>>

PassStep(s) ==
  \/ TryLock(s)
  \/ SkipElection(s)
  \/ CheckHolder(s)
  \/ ExtendLease(s)
  \/ BeginPass(s)
  \/ \E t \in Types : ReadLast(s, t) \/ ReadUsers(s, t)
  \/ NothingDue(s)
  \/ Distribute(s)
  \/ \E t \in Tasks : PushJob(s, t)
  \/ BeginUpdate(s)
  \/ \E t \in Types : SetLast(s, t)
  \/ EndPass(s)
  \/ Restart(s)

FaultStep(s) ==
  \/ TryLockFails(s)
  \/ LeaseCallFails(s)
  \/ \E t \in Types : ReadFails(s, t)
  \/ Halt(s)

Next ==
  \/ \E s \in Schedulers : PassStep(s) \/ FaultStep(s)
  \/ LeaseEnds
  \/ Tick
  \/ \E t \in Types, u \in Users : Toggle(t, u)

Spec == Init /\ [][Next]_vars

\* The ticker fires again and again, every Redis call returns and a dead
\* instance is restarted.
FairSpec == Spec /\ \A s \in Schedulers : WF_vars(PassStep(s))

-----------------------------------------------------------------------------
\* What the schedulers must keep, however many there are.

\* A last execution is recorded only after the users due then were served: each
\* user of the pass that wrote it has a job of that time, or its push failed.
\* Recording before pushing would lose users in a crash.
RosterServed ==
  \A t \in Types : last[t] # Never =>
    \A u \in roster[t] : <<t, u, last[t]>> \in served

\* The inductive invariant behind RosterServed: while an instance pushes, and
\* until it has recorded, what it pushed or tried to push stays so.
PassesServe ==
  \A s \in Schedulers :
    /\ pc[s] \in {"push", "record"} => \A t \in found[s] \ unsent[s] : JobKey(s, t) \in served
    /\ pc[s] = "record" => unsent[s] = {}

IndInv == TypeOK /\ PassesServe /\ RosterServed

-----------------------------------------------------------------------------
\* What a single instance must keep.

\* Unless there was a fault since a user's last job of a type, the next one is not
\* pushed before NextExecution says after that job: whatever failed or halted
\* earlier, and whoever enabled and disabled the type meanwhile.  (A failed write of
\* the last execution, or a halt between a push and that write, makes the next pass
\* push again.)
RepeatedOnlyForFaults ==
  [][\A s \in Schedulers : \A t \in Tasks :
       pc[s] = "push" /\ t \in unsent[s] \ unsent'[s] /\ faults' = faults =>
         latest[t] = Never \/ passNow[s] >= NextExecution(Interval[t[1]], latest[t])]_vars

\* The inductive invariant behind it.  The last job of a user is that of the last
\* execution, or the instance is still to record its execution, or the last execution
\* is a later one that was due after that job.
Unrecorded(s, t, u) ==
  /\ pc[s] \in {"push", "record"}
  /\ <<t, u>> \in found[s] \ unsent[s]
  /\ pc[s] = "record" => t \in unset[s]

JobsRecorded ==
  \A t \in Types, u \in Users :
    LET at == latest[<<t, u>>]
    IN  \/ at = last[t]
        \/ last[t] # Never /\ Due(t, at, last[t])
        \/ at = Never
        \/ \E s \in Schedulers : Unrecorded(s, t, u) /\ passNow[s] = at

\* No execution is recorded that is later than a pass which is under way.
InOrder ==
  /\ \A t \in Types : last[t] <= now
  /\ \A s \in Schedulers : passNow[s] <= now
  /\ \A s \in Schedulers, t \in Types : pc[s] \in InPass => last[t] <= passNow[s]

\* What a pass found stays due until the pass itself records it; it pushes and
\* records nothing else.
FoundStaysDue ==
  \A s \in Schedulers :
    /\ pc[s] = "users" => cur[s] \in Types /\ Due(cur[s], last[cur[s]], passNow[s])
    /\ pc[s] \in InPass =>
         \A t \in TypesOf(found[s]) :
           (pc[s] = "record" => t \in unset[s]) => Due(t, last[t], passNow[s])
    /\ pc[s] = "push" => unsent[s] \subseteq found[s]
    /\ pc[s] = "record" => unset[s] \subseteq TypesOf(found[s])

SingleInv == IndInv /\ InOrder /\ FoundStaysDue /\ JobsRecorded

-----------------------------------------------------------------------------
\* A task type somebody has enabled does not stay due for ever.
TypesGetScheduled ==
  \A t \in Types : []<>(enabled[t] = {} \/ ~Due(t, last[t], now))
=============================================================================
