-------------------------- MODULE SchedulerProofs --------------------------
(***************************************************************************)
(* Proof that, for any number of schedulers, task types and users, with or *)
(* without leader election and whatever fails, a last execution is only    *)
(* recorded for a pass that served its users (RosterServed of Scheduler).  *)
(*                                                                         *)
(* RosterServed alone is not inductive: SetLast preserves it only because  *)
(* everything the pass found was pushed, which PassesServe says.  Most     *)
(* actions touch neither what was served nor what an instance at "push" or *)
(* "record" knows; the lemma Frame disposes of them.                       *)
(*                                                                         *)
(* Then that a single instance pushes a user's next job of a type no       *)
(* earlier than NextExecution says after the one before, but for faults.   *)
(* The type was due after its last execution when the pass found it, and   *)
(* stays so (FoundStaysDue); JobsRecorded relates the last execution to    *)
(* the user's job before, whether it is of that execution or was due by    *)
(* then.                                                                   *)
(***************************************************************************)
EXTENDS Scheduler, TLAPS

\* The job an instance is about to push is one the model counts.
LEMMA JobKeyType ==
  ASSUME TypeOK, NEW s \in Schedulers, NEW t \in Tasks, pc[s] \in InPass
  PROVE  JobKey(s, t) \in JobKeys
BY DEF TypeOK, JobKey, JobKeys, Tasks

\* A fault is counted and forgets the pushes before it.
LEMMA FaultTypes ==
  ASSUME TypeOK, Fault \/ NoFault
  PROVE  faults' \in Nat /\ latest' \in [Tasks -> Instants \cup {Never}]
BY DEF TypeOK, Fault, NoFault, faultVars, NoJobs

\* A step that leaves alone what was served and every pass that has begun to
\* push, and starts no such pass, preserves the serving invariants.
LEMMA Frame ==
  ASSUME IndInv,
         UNCHANGED <<last, served, roster>>,
         \A s \in Schedulers : pc'[s] \in {"push", "record"} =>
           /\ pc'[s] = pc[s]
           /\ found'[s] = found[s]
           /\ unsent'[s] = unsent[s]
           /\ passNow'[s] = passNow[s]
  PROVE  PassesServe' /\ RosterServed'
<1>1. ASSUME NEW s \in Schedulers, pc'[s] \in {"push", "record"},
             NEW t \in found'[s] \ unsent'[s]
      PROVE  JobKey(s, t)' \in served'
  <2>1. JobKey(s, t) \in served BY <1>1 DEF IndInv, PassesServe
  <2> QED BY <2>1, <1>1 DEF JobKey
<1>2. ASSUME NEW s \in Schedulers, pc'[s] = "record" PROVE unsent'[s] = {}
  BY <1>2 DEF IndInv, PassesServe
<1>3. PassesServe' BY <1>1, <1>2 DEF PassesServe
<1>4. RosterServed' BY DEF IndInv, RosterServed
<1> QED BY <1>3, <1>4

-----------------------------------------------------------------------------
\* The initial states satisfy the invariant.
LEMMA InitInv == Init => IndInv
<1> SUFFICES ASSUME Init PROVE IndInv OBVIOUS
<1>1. TypeOK BY DEF Init, TypeOK, PCs, InPass, NoJobs
<1>2. PassesServe BY DEF Init, PassesServe
<1>3. RosterServed BY DEF Init, RosterServed
<1> QED BY <1>1, <1>2, <1>3 DEF IndInv

\* The steps of acquireLeadership, the lease and the environment.
LEMMA LeadershipInv ==
  ASSUME IndInv, NEW s \in Schedulers,
         \/ TryLock(s) \/ TryLockFails(s) \/ SkipElection(s)
         \/ CheckHolder(s) \/ ExtendLease(s) \/ LeaseCallFails(s)
  PROVE  IndInv'
<1> USE DEF Goto, IndInv
<1>1. leader' \in BOOLEAN /\ pc' \in [Schedulers -> PCs]
  BY DEF TypeOK, PCs, TryLock, TryLockFails, SkipElection, CheckHolder, ExtendLease,
         LeaseCallFails, redisVars, passVars
<1>2. faults' \in Nat /\ latest' \in [Tasks -> Instants \cup {Never}]
  BY FaultTypes DEF TryLock, TryLockFails, SkipElection, CheckHolder, ExtendLease,
                    LeaseCallFails
<1>3. UNCHANGED <<now, last, enabled, passNow, todo, cur, found, unsent, unset, historyVars>>
  BY DEF TryLock, TryLockFails, SkipElection, CheckHolder, ExtendLease, LeaseCallFails,
         redisVars, passVars
<1>4. \A r \in Schedulers : pc'[r] \in InPass => pc'[r] = pc[r]
  BY DEF TypeOK, TryLock, TryLockFails, SkipElection, CheckHolder, ExtendLease,
         LeaseCallFails, passVars, InPass
<1>5. TypeOK' BY <1>1, <1>2, <1>3, <1>4 DEF TypeOK, historyVars
<1>6. PassesServe' /\ RosterServed' BY <1>3, <1>4, Frame DEF historyVars, InPass
<1> QED BY <1>5, <1>6

\* The leader key's expiry, at its time or early.
LEMMA LeaseEndsInv == ASSUME IndInv, LeaseEnds PROVE IndInv'
<1>1. TypeOK' BY DEF LeaseEnds, NoFault, faultVars, passVars, historyVars, IndInv, TypeOK
<1>2. PassesServe' /\ RosterServed' BY Frame DEF LeaseEnds, passVars, historyVars
<1> QED BY <1>1, <1>2 DEF IndInv

\* Time passes, a user enables or disables a task.
LEMMA EnvironmentInv ==
  ASSUME IndInv, Tick \/ \E t \in Types, u \in Users : Toggle(t, u)
  PROVE  IndInv'
<1>1. now' \in Instants BY DEF Tick, Toggle, IndInv, TypeOK
<1>2. enabled' \in [Types -> SUBSET Users] BY DEF Tick, Toggle, redisVars, IndInv, TypeOK
<1>3. UNCHANGED <<leader, last, passVars, faultVars, historyVars>>
  BY DEF Tick, Toggle, redisVars, NoFault
<1>4. TypeOK' BY <1>1, <1>2, <1>3 DEF IndInv, TypeOK, passVars, faultVars, historyVars
<1>5. PassesServe' /\ RosterServed' BY <1>3, Frame DEF passVars, historyVars
<1> QED BY <1>4, <1>5 DEF IndInv

\* The steps that find the due tasks.
LEMMA BeginPassInv == ASSUME IndInv, NEW s \in Schedulers, BeginPass(s) PROVE IndInv'
<1>1. TypeOK'
  BY DEF BeginPass, Goto, NoFault, faultVars, redisVars, historyVars, IndInv, TypeOK, PCs, InPass
<1>2. PassesServe' /\ RosterServed'
  BY Frame DEF BeginPass, Goto, redisVars, historyVars, IndInv, TypeOK
<1> QED BY <1>1, <1>2 DEF IndInv

\* findDueTasks reads the last execution of a type.
LEMMA ReadLastInv ==
  ASSUME IndInv, NEW s \in Schedulers, NEW t \in Types, ReadLast(s, t)
  PROVE  IndInv'
<1>1. /\ todo' \in [Schedulers -> SUBSET Types]
      /\ cur' \in [Schedulers -> Types \cup {NoType}]
      /\ pc' \in [Schedulers -> PCs]
      /\ \A r \in Schedulers : pc'[r] \in InPass => pc[r] \in InPass
  BY DEF ReadLast, Goto, IndInv, TypeOK, PCs, InPass
<1>2. TypeOK' BY <1>1 DEF ReadLast, NoFault, faultVars, redisVars, historyVars, IndInv, TypeOK
<1>3. PassesServe' /\ RosterServed'
  BY Frame DEF ReadLast, Goto, redisVars, historyVars, IndInv, TypeOK
<1> QED BY <1>2, <1>3 DEF IndInv

\* findDueTasks is done with a type, whatever it found or failed to read.
LEMMA LeaveTypeInv ==
  ASSUME IndInv, NEW s \in Schedulers, NEW t \in Types,
         NEW tasks \in SUBSET Tasks, pc[s] \in {"find", "users"},
         LeaveType(s, t, tasks), Fault \/ NoFault
  PROVE  IndInv'
<1>1. /\ todo' \in [Schedulers -> SUBSET Types]
      /\ cur' \in [Schedulers -> Types \cup {NoType}]
      /\ pc' \in [Schedulers -> PCs]
      /\ found' \in [Schedulers -> SUBSET Tasks]
      /\ \A r \in Schedulers : pc'[r] \in InPass => pc[r] \in InPass
  BY DEF LeaveType, Goto, IndInv, TypeOK, PCs, InPass
<1>2. faults' \in Nat /\ latest' \in [Tasks -> Instants \cup {Never}]
  BY FaultTypes DEF IndInv
<1>3. TypeOK' BY <1>1, <1>2 DEF LeaveType, redisVars, historyVars, IndInv, TypeOK
<1>4. PassesServe' /\ RosterServed'
  BY Frame DEF LeaveType, Goto, redisVars, historyVars, IndInv, TypeOK
<1> QED BY <1>3, <1>4 DEF IndInv

\* findDueTasks reads the users of a due type.
LEMMA ReadUsersInv ==
  ASSUME IndInv, NEW s \in Schedulers, NEW t \in Types, ReadUsers(s, t)
  PROVE  IndInv'
<1>1. {t} \X enabled[t] \in SUBSET Tasks BY DEF IndInv, TypeOK, Tasks
<1> QED BY <1>1, LeaveTypeInv DEF ReadUsers

\* findDueTasks fails for a type, which is logged and skipped.
LEMMA ReadFailsInv ==
  ASSUME IndInv, NEW s \in Schedulers, NEW t \in Types, ReadFails(s, t)
  PROVE  IndInv'
BY LeaveTypeInv DEF ReadFails

-----------------------------------------------------------------------------
\* The steps between passes, and those that start a part of a pass.

\* A pass is forgotten at its end, and in a halt.
LEMMA ForgetInv ==
  ASSUME IndInv, NEW s \in Schedulers, NEW l \in {"idle", "down"},
         Goto(s, l), Forget(s), Fault \/ NoFault, UNCHANGED <<now, redisVars, historyVars>>
  PROVE  IndInv'
<1>1. /\ pc' \in [Schedulers -> PCs]
      /\ passNow' \in [Schedulers -> Instants \cup {Never}]
      /\ \A r \in Schedulers : pc'[r] \in InPass => pc[r] \in InPass /\ passNow'[r] = passNow[r]
      /\ todo' \in [Schedulers -> SUBSET Types]
      /\ cur' \in [Schedulers -> Types \cup {NoType}]
      /\ found' \in [Schedulers -> SUBSET Tasks]
      /\ unsent' \in [Schedulers -> SUBSET Tasks]
      /\ unset' \in [Schedulers -> SUBSET Types]
  BY DEF Goto, Forget, IndInv, TypeOK, PCs, InPass
<1>2. faults' \in Nat /\ latest' \in [Tasks -> Instants \cup {Never}]
  BY FaultTypes DEF IndInv
<1>3. TypeOK' BY <1>1, <1>2 DEF redisVars, historyVars, IndInv, TypeOK
<1>4. PassesServe' /\ RosterServed'
  BY Frame DEF Goto, Forget, redisVars, historyVars, IndInv, TypeOK
<1> QED BY <1>3, <1>4 DEF IndInv

\* A restarted instance has nothing to push.
LEMMA RestartInv == ASSUME IndInv, NEW s \in Schedulers, Restart(s) PROVE IndInv'
<1>1. TypeOK'
  BY DEF Restart, Goto, NoFault, faultVars, redisVars, historyVars, IndInv, TypeOK, PCs, InPass
<1>2. PassesServe' /\ RosterServed'
  BY Frame DEF Restart, Goto, redisVars, historyVars, IndInv, TypeOK
<1> QED BY <1>1, <1>2 DEF IndInv

\* When the pushes begin nothing is claimed to be served yet.
LEMMA DistributeInv == ASSUME IndInv, NEW s \in Schedulers, Distribute(s) PROVE IndInv'
<1>1. TypeOK'
  BY DEF Distribute, Goto, NoFault, faultVars, redisVars, historyVars, IndInv, TypeOK, PCs, InPass
<1>2. PassesServe'
  BY DEF Distribute, Goto, historyVars, IndInv, TypeOK, PassesServe, JobKey
<1>3. RosterServed'
  BY DEF Distribute, redisVars, historyVars, IndInv, RosterServed
<1> QED BY <1>1, <1>2, <1>3 DEF IndInv

\* When the writes begin everything the pass found was served.
LEMMA BeginUpdateInv == ASSUME IndInv, NEW s \in Schedulers, BeginUpdate(s) PROVE IndInv'
<1>1. TypesOf(found[s]) \subseteq Types BY DEF TypesOf, Tasks, IndInv, TypeOK
<1>2. TypeOK'
  BY <1>1 DEF BeginUpdate, Goto, NoFault, faultVars, redisVars, historyVars, IndInv, TypeOK,
              PCs, InPass
<1>3. PassesServe'
  BY DEF BeginUpdate, Goto, historyVars, IndInv, TypeOK, PassesServe, JobKey
<1>4. RosterServed'
  BY DEF BeginUpdate, redisVars, historyVars, IndInv, RosterServed
<1> QED BY <1>2, <1>3, <1>4 DEF IndInv

-----------------------------------------------------------------------------
\* A push, or its failure, serves the task and unserves none.
LEMMA PushJobInv ==
  ASSUME IndInv, NEW s \in Schedulers, NEW t \in Tasks, PushJob(s, t)
  PROVE  IndInv'
<1>1. /\ unsent' = [unsent EXCEPT ![s] = @ \ {t}]
      /\ UNCHANGED <<now, redisVars, pc, passNow, todo, cur, found, unset, roster>>
      /\ served' = served \cup {JobKey(s, t)}
      /\ pc[s] \in InPass
  BY DEF PushJob, InPass
<1>2. served' \subseteq JobKeys BY <1>1, JobKeyType DEF IndInv, TypeOK
<1>3. faults' \in Nat /\ latest' \in [Tasks -> Instants \cup {Never}]
  <2>1. CASE Fault BY <2>1, FaultTypes DEF IndInv
  <2>2. CASE latest' = [latest EXCEPT ![t] = passNow[s]] /\ UNCHANGED faults
    BY <1>1, <2>2 DEF IndInv, TypeOK
  <2> QED BY <2>1, <2>2 DEF PushJob
<1>4. TypeOK' BY <1>1, <1>2, <1>3 DEF IndInv, TypeOK, redisVars
<1>5. PassesServe'
  <2> SUFFICES ASSUME NEW r \in Schedulers
               PROVE  /\ pc[r] \in {"push", "record"} =>
                           \A k \in found[r] \ unsent'[r] : JobKey(r, k) \in served'
                      /\ pc[r] = "record" => unsent'[r] = {}
    BY <1>1 DEF PassesServe, JobKey
  <2>1. pc[r] = "record" => unsent'[r] = {} BY <1>1 DEF IndInv, PassesServe, TypeOK
  <2>2. ASSUME pc[r] \in {"push", "record"}, NEW k \in found[r] \ unsent'[r]
        PROVE  JobKey(r, k) \in served'
    <3>1. CASE k \notin unsent[r]
      <4>1. JobKey(r, k) \in served BY <2>2, <3>1 DEF IndInv, PassesServe
      <4> QED BY <4>1, <1>1
    <3>2. CASE k \in unsent[r]
      <4>1. r = s /\ k = t BY <1>1, <2>2, <3>2 DEF IndInv, TypeOK
      <4> QED BY <4>1, <1>1
    <3> QED BY <3>1, <3>2
  <2> QED BY <2>1, <2>2
<1>6. RosterServed' BY <1>1 DEF IndInv, RosterServed, redisVars
<1> QED BY <1>4, <1>5, <1>6 DEF IndInv

\* The write is of the time and the users of a pass that has served them.
LEMMA SetLastInv ==
  ASSUME IndInv, NEW s \in Schedulers, NEW t \in Types, SetLast(s, t)
  PROVE  IndInv'
<1>1. UNCHANGED <<now, leader, enabled, pc, passNow, todo, cur, found, unsent, served>>
  BY DEF SetLast
<1>2. PassesServe' BY <1>1 DEF IndInv, PassesServe, JobKey
<1>3. CASE /\ last' = [last EXCEPT ![t] = passNow[s]]
           /\ roster' = [roster EXCEPT ![t] = UsersOf(found[s], t)]
  <2>1. UsersOf(found[s], t) \subseteq Users BY DEF UsersOf
  <2>2. faults' \in Nat /\ latest' \in [Tasks -> Instants \cup {Never}]
    BY FaultTypes DEF SetLast, IndInv
  <2>3. /\ last' \in [Types -> Instants \cup {Never}]
        /\ roster' \in [Types -> SUBSET Users]
        /\ unset' \in [Schedulers -> SUBSET Types]
    BY <1>3, <2>1 DEF SetLast, IndInv, TypeOK
  <2>4. TypeOK' BY <1>1, <2>2, <2>3 DEF IndInv, TypeOK
  <2>5. ASSUME NEW i \in Types, last'[i] # Never, NEW u \in roster'[i]
        PROVE  <<i, u, last'[i]>> \in served
    <3>1. CASE i = t
      <4>1. <<t, u>> \in found[s] /\ last'[i] = passNow[s]
        BY <1>3, <2>5, <3>1 DEF IndInv, TypeOK, UsersOf
      <4>2. JobKey(s, <<t, u>>) \in served BY <4>1 DEF SetLast, IndInv, PassesServe
      <4> QED BY <3>1, <4>1, <4>2 DEF JobKey
    <3>2. CASE i # t
      <4>1. last'[i] = last[i] /\ roster'[i] = roster[i]
        BY <1>3, <3>2 DEF IndInv, TypeOK
      <4> QED BY <2>5, <4>1 DEF IndInv, RosterServed
    <3> QED BY <3>1, <3>2
  <2>6. RosterServed' BY <1>1, <2>5 DEF RosterServed
  <2> QED BY <2>4, <2>6, <1>2 DEF IndInv
<1>4. CASE UNCHANGED <<last, roster>>
  <2>1. unset' \in [Schedulers -> SUBSET Types] BY DEF SetLast, IndInv, TypeOK
  <2>2. faults' \in Nat /\ latest' \in [Tasks -> Instants \cup {Never}]
    BY FaultTypes DEF SetLast, IndInv
  <2>3. TypeOK' BY <1>1, <1>4, <2>1, <2>2 DEF IndInv, TypeOK
  <2>4. RosterServed' BY <1>1, <1>4 DEF IndInv, RosterServed
  <2> QED BY <2>3, <2>4, <1>2 DEF IndInv
<1> QED BY <1>3, <1>4 DEF SetLast

-----------------------------------------------------------------------------
\* Every step of a pass.
LEMMA PassStepInv == ASSUME IndInv, NEW s \in Schedulers, PassStep(s) PROVE IndInv'
<1>1. CASE TryLock(s) \/ SkipElection(s) \/ CheckHolder(s) \/ ExtendLease(s)
  BY <1>1, LeadershipInv
<1>2. CASE BeginPass(s) BY <1>2, BeginPassInv
<1>3. CASE \E t \in Types : ReadLast(s, t) BY <1>3, ReadLastInv
<1>4. CASE \E t \in Types : ReadUsers(s, t) BY <1>4, ReadUsersInv
<1>5. CASE NothingDue(s) \/ EndPass(s) BY <1>5, ForgetInv DEF NothingDue, EndPass, Return
<1>6. CASE Distribute(s) BY <1>6, DistributeInv
<1>7. CASE \E t \in Tasks : PushJob(s, t) BY <1>7, PushJobInv
<1>8. CASE BeginUpdate(s) BY <1>8, BeginUpdateInv
<1>9. CASE \E t \in Types : SetLast(s, t) BY <1>9, SetLastInv
<1>10. CASE Restart(s) BY <1>10, RestartInv
<1> QED
  BY <1>1, <1>2, <1>3, <1>4, <1>5, <1>6, <1>7, <1>8, <1>9, <1>10 DEF PassStep

\* Every step in which something fails or an instance halts.
LEMMA FaultStepInv == ASSUME IndInv, NEW s \in Schedulers, FaultStep(s) PROVE IndInv'
<1>1. CASE TryLockFails(s) \/ LeaseCallFails(s) BY <1>1, LeadershipInv
<1>2. CASE \E t \in Types : ReadFails(s, t) BY <1>2, ReadFailsInv
<1>3. CASE Halt(s) BY <1>3, ForgetInv DEF Halt
<1> QED BY <1>1, <1>2, <1>3 DEF FaultStep

\* Every step keeps the invariant.
LEMMA NextInv == IndInv /\ [Next]_vars => IndInv'
<1> SUFFICES ASSUME IndInv, [Next]_vars PROVE IndInv' OBVIOUS
<1>1. ASSUME NEW s \in Schedulers, PassStep(s) \/ FaultStep(s) PROVE IndInv'
  BY <1>1, PassStepInv, FaultStepInv
<1>2. CASE LeaseEnds BY <1>2, LeaseEndsInv
<1>3. CASE Tick \/ \E t \in Types, u \in Users : Toggle(t, u) BY <1>3, EnvironmentInv
<1>4. CASE UNCHANGED vars
  <2>1. TypeOK' BY <1>4 DEF vars, redisVars, passVars, faultVars, historyVars, IndInv, TypeOK
  <2>2. PassesServe' /\ RosterServed'
    BY <1>4, Frame DEF vars, redisVars, passVars, historyVars
  <2> QED BY <2>1, <2>2 DEF IndInv
<1> QED BY <1>1, <1>2, <1>3, <1>4 DEF Next

\* In every reachable state of every instance the passes of the schedulers, what they
\* have pushed and what they record fit together (IndInv), leader election or not.
THEOREM Inductive == Spec => []IndInv
BY InitInv, NextInv, PTL DEF Spec

\* The schedulers' variables keep their types: the times written are times read,
\* the tasks pushed are of known types and users.
THEOREM TypeCorrect == Spec => []TypeOK
<1>1. IndInv => TypeOK BY DEF IndInv
<1> QED BY Inductive, <1>1, PTL

\* findDueTasks, DistributeTasks, updateLastExecutions in this order: a last
\* execution stands for a pass that pushed a job, or logged a failure, for each
\* of its users.  It holds without leader election, for overlapping passes of
\* any number of instances, and across halts between any two calls.
THEOREM RostersAreServed == Spec => []RosterServed
<1>1. IndInv => RosterServed BY DEF IndInv
<1> QED BY Inductive, <1>1, PTL

-----------------------------------------------------------------------------
(***************************************************************************)
(* A single instance pushes no job of a user and type before the next      *)
(* execution after the one before, but for faults.                         *)
(***************************************************************************)

\* One instance: the deployment the guarantee is about.
Alone == \A r, s \in Schedulers : r = s

\* Instants are numbers, of which Never comes first.
LEMMA InstantsOrder == \A n \in Instants \cup {Never} : n \in Int /\ n >= Never
BY ConstantsAssumption DEF Never

\* What is due stays due.
LEMMA DueLater ==
  ASSUME NEW t \in Types, NEW at \in Instants \cup {Never}, NEW m \in Instants, NEW n \in Instants,
         Due(t, at, m), m <= n
  PROVE  Due(t, at, n)
<1>1. m \in Int /\ n \in Int BY InstantsOrder
<1>2. CASE at = Never BY <1>2 DEF Due
<1>3. CASE at \in Instants
  <2>1. NextExecution(Interval[t], at) \in Int BY <1>3, ConstantsAssumption
  <2>2. at # Never BY <1>3, ConstantsAssumption DEF Never
  <2> QED BY <1>1, <2>1, <2>2 DEF Due, IsDue
<1> QED BY <1>2, <1>3

-----------------------------------------------------------------------------
\* The order of the times read and written.

\* Steps that neither pass time nor record, nor begin a pass.
LEMMA OrderFrame ==
  ASSUME IndInv, InOrder, UNCHANGED <<now, last>>,
         \A s \in Schedulers :
           \/ passNow'[s] = passNow[s] /\ (pc'[s] \in InPass => pc[s] \in InPass)
           \/ passNow'[s] = Never /\ pc'[s] \notin InPass
  PROVE  InOrder'
<1>1. now \in Instants BY DEF IndInv, TypeOK
<1>2. now >= Never BY <1>1, InstantsOrder
<1> QED BY <1>2 DEF InOrder

\* The steps of the instances, but for the begin of a pass and the writes.
LEMMA StepOrder ==
  ASSUME IndInv, InOrder, NEW s \in Schedulers,
         \/ TryLock(s) \/ TryLockFails(s) \/ SkipElection(s) \/ CheckHolder(s)
         \/ ExtendLease(s) \/ LeaseCallFails(s) \/ NothingDue(s) \/ Distribute(s)
         \/ BeginUpdate(s) \/ EndPass(s) \/ Restart(s) \/ Halt(s)
         \/ \E t \in Types : ReadLast(s, t) \/ ReadUsers(s, t) \/ ReadFails(s, t)
         \/ \E t \in Tasks : PushJob(s, t)
  PROVE  InOrder'
<1> USE DEF Goto, InPass, redisVars, passVars
<1>1. UNCHANGED <<now, last>>
  BY DEF TryLock, TryLockFails, SkipElection, CheckHolder, ExtendLease, LeaseCallFails,
         NothingDue, Distribute, BeginUpdate, EndPass, Restart, Halt, Return, ReadLast,
         ReadUsers, ReadFails, LeaveType, PushJob
<1>2. CASE NothingDue(s) \/ EndPass(s) \/ Halt(s)
  <2>1. \A r \in Schedulers :
          \/ passNow'[r] = passNow[r] /\ pc'[r] = pc[r]
          \/ passNow'[r] = Never /\ pc'[r] \notin InPass
    BY <1>2 DEF NothingDue, EndPass, Halt, Return, Forget, IndInv, TypeOK
  <2> QED BY <1>1, <2>1, OrderFrame
<1>3. CASE \/ TryLock(s) \/ TryLockFails(s) \/ SkipElection(s) \/ CheckHolder(s)
           \/ ExtendLease(s) \/ LeaseCallFails(s) \/ Restart(s)
  <2>1. /\ passNow' = passNow
        /\ \A r \in Schedulers : pc'[r] \in InPass => pc[r] \in InPass
    BY <1>3 DEF TryLock, TryLockFails, SkipElection, CheckHolder, ExtendLease,
                LeaseCallFails, Restart, IndInv, TypeOK
  <2> QED BY <1>1, <2>1, OrderFrame
<1>4. CASE \/ Distribute(s) \/ BeginUpdate(s) \/ \E t \in Tasks : PushJob(s, t)
           \/ \E t \in Types : ReadLast(s, t) \/ ReadUsers(s, t) \/ ReadFails(s, t)
  <2>1. /\ passNow' = passNow
        /\ \A r \in Schedulers : pc'[r] \in InPass => pc[r] \in InPass
    BY <1>4 DEF Distribute, BeginUpdate, PushJob, ReadLast, ReadUsers, ReadFails, LeaveType,
                IndInv, TypeOK
  <2> QED BY <1>1, <2>1, OrderFrame
<1> QED BY <1>2, <1>3, <1>4

\* The order is kept: a pass that records records its own time.
LEMMA OrderKept ==
  ASSUME Alone, IndInv, InOrder, [Next]_vars
  PROVE  InOrder'
<1>1. now \in Int BY InstantsOrder DEF IndInv, TypeOK
<1>2. ASSUME NEW s \in Schedulers, BeginPass(s) PROVE InOrder'
  <2>1. /\ UNCHANGED <<now, last>>
        /\ \A r \in Schedulers : passNow'[r] = passNow[r] \/ passNow'[r] = now
        /\ \A r \in Schedulers : pc'[r] \in InPass => r = s
        /\ passNow'[s] = now
    BY <1>2 DEF BeginPass, Goto, redisVars, Alone, IndInv, TypeOK
  <2> QED BY <1>1, <2>1 DEF InOrder
<1>3. ASSUME NEW s \in Schedulers, NEW t \in Types, SetLast(s, t) PROVE InOrder'
  <2>1. /\ UNCHANGED <<now, pc, passNow>>
        /\ pc[s] = "record"
        /\ \A i \in Types : last'[i] = last[i] \/ last'[i] = passNow[s]
    BY <1>3 DEF SetLast, IndInv, TypeOK
  <2>2. \A r \in Schedulers : r = s BY DEF Alone
  <2>3. passNow[s] \in Int
    BY <2>1, InstantsOrder DEF IndInv, TypeOK, InPass
  <2> QED BY <2>1, <2>2, <2>3 DEF InOrder
<1>4. CASE Tick
  <2>1. /\ UNCHANGED <<last, pc, passNow>>
        /\ now' \in Int
        /\ now < now'
    BY <1>4, InstantsOrder DEF Tick, redisVars, passVars
  <2>2. /\ \A t \in Types : last[t] \in Int
        /\ \A s \in Schedulers : passNow[s] \in Int
    BY InstantsOrder DEF IndInv, TypeOK
  <2> QED BY <1>1, <2>1, <2>2 DEF InOrder
<1>5. CASE LeaseEnds \/ UNCHANGED vars \/ \E t \in Types, u \in Users : Toggle(t, u)
  <2>1. UNCHANGED <<now, last, pc, passNow>>
    BY <1>5 DEF LeaseEnds, Toggle, vars, redisVars, passVars
  <2> QED BY <2>1, OrderFrame
<1>6. ASSUME NEW s \in Schedulers, PassStep(s) \/ FaultStep(s) PROVE InOrder'
  BY <1>2, <1>3, <1>6, StepOrder DEF PassStep, FaultStep
<1> QED BY <1>4, <1>5, <1>6 DEF Next

-----------------------------------------------------------------------------
\* What the steps keep of FoundStaysDue and JobsRecorded.

\* A pass that goes on as it was has found the same types, which stay due.
LEMMA FoundFrame ==
  ASSUME SingleInv, UNCHANGED last,
         \A s \in Schedulers : pc'[s] \in InPass =>
           /\ pc'[s] = pc[s]
           /\ cur'[s] = cur[s]
           /\ found'[s] = found[s]
           /\ unsent'[s] = unsent[s]
           /\ unset'[s] = unset[s]
           /\ passNow'[s] = passNow[s]
  PROVE  FoundStaysDue'
BY DEF SingleInv, FoundStaysDue, Due, TypesOf, InPass

\* After a fault no job was pushed that could count.
LEMMA FaultForgets == ASSUME IndInv, Fault PROVE JobsRecorded'
BY DEF Fault, NoJobs, JobsRecorded, Tasks

\* The last jobs stay recorded by a step after which the passes still are to record
\* what they pushed.
LEMMA RecordedFrame ==
  ASSUME SingleInv, UNCHANGED <<last, latest>>,
         \A s \in Schedulers, t \in Types, u \in Users :
           Unrecorded(s, t, u) => Unrecorded(s, t, u)' /\ passNow'[s] = passNow[s]
  PROVE  JobsRecorded'
<1> SUFFICES ASSUME NEW t \in Types, NEW u \in Users
             PROVE  \/ latest[<<t, u>>] = last[t]
                    \/ last[t] # Never /\ Due(t, latest[<<t, u>>], last[t])
                    \/ latest[<<t, u>>] = Never
                    \/ \E s \in Schedulers :
                         Unrecorded(s, t, u)' /\ passNow'[s] = latest[<<t, u>>]
  BY Zenon DEF JobsRecorded, Due
<1> QED BY DEF SingleInv, JobsRecorded

\* Either is the case of a step that leaves alone what the passes pushed.
LEMMA PushedFrame ==
  ASSUME SingleInv, UNCHANGED last, Fault \/ NoFault,
         \A s \in Schedulers : pc[s] \in {"push", "record"} =>
           /\ pc'[s] = pc[s]
           /\ found'[s] = found[s]
           /\ unsent'[s] = unsent[s]
           /\ unset'[s] = unset[s]
           /\ passNow'[s] = passNow[s]
  PROVE  JobsRecorded'
<1>1. CASE Fault BY <1>1, FaultForgets DEF SingleInv
<1>2. CASE NoFault
  <2>1. \A s \in Schedulers, t \in Types, u \in Users :
          Unrecorded(s, t, u) => Unrecorded(s, t, u)' /\ passNow'[s] = passNow[s]
    BY DEF Unrecorded
  <2> QED BY <1>2, <2>1, RecordedFrame DEF NoFault, faultVars
<1> QED BY <1>1, <1>2

-----------------------------------------------------------------------------
\* At the start nothing was pushed or found.
LEMMA InitSingle == Init => SingleInv
<1> SUFFICES ASSUME Init PROVE SingleInv OBVIOUS
<1>1. IndInv BY InitInv
<1>2. FoundStaysDue BY DEF Init, FoundStaysDue, InPass
<1>3. JobsRecorded BY DEF Init, JobsRecorded, NoJobs, Tasks
<1>4. InOrder
  <2>1. now \in Instants /\ now >= Never
    BY <1>1, InstantsOrder DEF IndInv, TypeOK
  <2> QED BY <2>1 DEF Init, InOrder, InPass, Never
<1> QED BY <1>1, <1>2, <1>3, <1>4 DEF SingleInv

\* The steps of acquireLeadership.
LEMMA LeadershipSingle ==
  ASSUME SingleInv, NEW s \in Schedulers,
         \/ TryLock(s) \/ TryLockFails(s) \/ SkipElection(s)
         \/ CheckHolder(s) \/ ExtendLease(s) \/ LeaseCallFails(s)
  PROVE  FoundStaysDue' /\ JobsRecorded'
<1> USE DEF TryLock, TryLockFails, SkipElection, CheckHolder, ExtendLease, LeaseCallFails
<1>1. UNCHANGED <<last, passNow, cur, found, unsent, unset>> /\ (Fault \/ NoFault)
  BY DEF redisVars, passVars
<1>2. \A r \in Schedulers :
        \/ pc'[r] = pc[r]
        \/ pc[r] \notin InPass /\ pc'[r] \notin InPass
  BY DEF Goto, passVars, SingleInv, IndInv, TypeOK, InPass
<1>3. FoundStaysDue' BY <1>1, <1>2, FoundFrame
<1>4. JobsRecorded' BY <1>1, <1>2, PushedFrame DEF InPass
<1> QED BY <1>3, <1>4

\* The lease, the clock and the users, and a step that changes nothing.
LEMMA SurroundingsSingle ==
  ASSUME SingleInv, UNCHANGED <<last, passVars, faultVars, historyVars>>
  PROVE  FoundStaysDue' /\ JobsRecorded'
<1>1. FoundStaysDue' BY FoundFrame DEF passVars
<1>2. JobsRecorded' BY PushedFrame DEF passVars, NoFault
<1> QED BY <1>1, <1>2

\* A pass begins with nothing found.
LEMMA BeginPassSingle ==
  ASSUME SingleInv, NEW s \in Schedulers, BeginPass(s)
  PROVE  FoundStaysDue' /\ JobsRecorded'
<1> USE DEF BeginPass, Goto, redisVars, SingleInv, IndInv, TypeOK
<1>1. FoundStaysDue' BY DEF FoundStaysDue, Due, TypesOf, InPass
<1>2. JobsRecorded' BY PushedFrame
<1> QED BY <1>1, <1>2

\* The type whose users are read next is due.
LEMMA ReadLastSingle ==
  ASSUME SingleInv, NEW s \in Schedulers, NEW t \in Types, ReadLast(s, t)
  PROVE  FoundStaysDue' /\ JobsRecorded'
<1> USE DEF ReadLast, Goto, redisVars, SingleInv, IndInv, TypeOK
<1>1. FoundStaysDue' BY DEF FoundStaysDue, Due, TypesOf, InPass
<1>2. JobsRecorded' BY PushedFrame
<1> QED BY <1>1, <1>2

\* What a pass adds to what it found is due.
LEMMA LeaveTypeSingle ==
  ASSUME SingleInv, NEW s \in Schedulers, NEW t \in Types, NEW tasks \in SUBSET Tasks,
         pc[s] \in {"find", "users"}, LeaveType(s, t, tasks), Fault \/ NoFault,
         \A k \in TypesOf(tasks) : Due(k, last[k], passNow[s])
  PROVE  FoundStaysDue' /\ JobsRecorded'
<1>1. UNCHANGED <<last, passNow, unsent, unset>> BY DEF LeaveType, redisVars
<1>2. /\ found' = [found EXCEPT ![s] = @ \cup tasks]
      /\ pc' = [pc EXCEPT ![s] = "find"]
      /\ cur' = [cur EXCEPT ![s] = NoType]
  BY DEF LeaveType, Goto
<1>3. TypesOf(found'[s]) = TypesOf(found[s]) \cup TypesOf(tasks)
  BY <1>2 DEF TypesOf, SingleInv, IndInv, TypeOK
<1>4. ASSUME NEW k \in TypesOf(found'[s]) PROVE Due(k, last[k], passNow[s])
  BY <1>3 DEF SingleInv, FoundStaysDue, InPass
<1>5. \A r \in Schedulers \ {s} : pc'[r] = pc[r] /\ found'[r] = found[r] /\ cur'[r] = cur[r]
  BY <1>2 DEF SingleInv, IndInv, TypeOK
<1>6. pc'[s] = "find" BY <1>2 DEF SingleInv, IndInv, TypeOK
<1>7. FoundStaysDue'
  <2> SUFFICES ASSUME NEW r \in Schedulers
               PROVE  /\ pc'[r] = "users" => cur'[r] \in Types /\ Due(cur'[r], last[cur'[r]], passNow[r])
                      /\ pc'[r] \in InPass =>
                           \A k \in TypesOf(found'[r]) :
                             (pc'[r] = "record" => k \in unset[r]) => Due(k, last[k], passNow[r])
                      /\ pc'[r] = "push" => unsent[r] \subseteq found'[r]
                      /\ pc'[r] = "record" => unset[r] \subseteq TypesOf(found'[r])
    BY <1>1 DEF FoundStaysDue, Due, TypesOf
  <2>1. CASE r = s BY <1>4, <1>6, <2>1
  <2>2. CASE r # s BY <1>5, <2>2 DEF SingleInv, FoundStaysDue
  <2> QED BY <2>1, <2>2
<1>8. \A r \in Schedulers : pc[r] \in {"push", "record"} => pc'[r] = pc[r] /\ found'[r] = found[r]
  BY <1>5
<1>9. JobsRecorded' BY <1>1, <1>8, PushedFrame
<1> QED BY <1>7, <1>9

\* The users read are of the due type, and a failed read leaves none.
LEMMA ReadUsersSingle ==
  ASSUME SingleInv, NEW s \in Schedulers, NEW t \in Types, ReadUsers(s, t) \/ ReadFails(s, t)
  PROVE  FoundStaysDue' /\ JobsRecorded'
<1>1. CASE ReadUsers(s, t)
  <2>1. {t} \X enabled[t] \in SUBSET Tasks BY DEF SingleInv, IndInv, TypeOK, Tasks
  <2>2. \A k \in TypesOf({t} \X enabled[t]) : k = t BY DEF TypesOf
  <2>3. Due(t, last[t], passNow[s]) BY <1>1 DEF ReadUsers, SingleInv, FoundStaysDue
  <2> QED BY <1>1, <2>1, <2>2, <2>3, LeaveTypeSingle DEF ReadUsers
<1>2. CASE ReadFails(s, t)
  <2>1. {} \in SUBSET Tasks /\ TypesOf({}) = {} BY DEF TypesOf
  <2> QED BY <1>2, <2>1, LeaveTypeSingle DEF ReadFails
<1> QED BY <1>1, <1>2

\* A pass is forgotten once it has recorded everything, or by a fault.
LEMMA ForgetSingle ==
  ASSUME SingleInv, NEW s \in Schedulers, NEW l \in {"idle", "down"},
         Goto(s, l), Forget(s), UNCHANGED redisVars,
         \/ Fault
         \/ NoFault /\ pc[s] # "push" /\ (pc[s] = "record" => unset[s] = {})
  PROVE  FoundStaysDue' /\ JobsRecorded'
<1>1. FoundStaysDue'
  BY FoundFrame DEF Goto, Forget, redisVars, SingleInv, IndInv, TypeOK, InPass
<1>2. CASE Fault BY <1>1, <1>2, FaultForgets DEF SingleInv
<1>3. CASE NoFault /\ pc[s] # "push" /\ (pc[s] = "record" => unset[s] = {})
  <2>1. \A r \in Schedulers \ {s} :
          /\ pc'[r] = pc[r] /\ passNow'[r] = passNow[r] /\ found'[r] = found[r]
          /\ unsent'[r] = unsent[r] /\ unset'[r] = unset[r]
    BY DEF Goto, Forget, SingleInv, IndInv, TypeOK
  <2>2. \A r \in Schedulers, t \in Types, u \in Users :
          Unrecorded(r, t, u) => Unrecorded(r, t, u)' /\ passNow'[r] = passNow[r]
    BY <1>3, <2>1 DEF Unrecorded
  <2> QED BY <1>1, <1>3, <2>2, RecordedFrame DEF NoFault, faultVars, redisVars
<1> QED BY <1>2, <1>3

\* A restarted instance has found nothing.
LEMMA RestartSingle ==
  ASSUME SingleInv, NEW s \in Schedulers, Restart(s)
  PROVE  FoundStaysDue' /\ JobsRecorded'
<1> USE DEF Restart, Goto, redisVars, SingleInv, IndInv, TypeOK
<1>1. FoundStaysDue' BY FoundFrame DEF InPass
<1>2. JobsRecorded' BY PushedFrame
<1> QED BY <1>1, <1>2

\* The pushes begin with everything found, and the writes with all its types.
LEMMA DistributeSingle ==
  ASSUME SingleInv, NEW s \in Schedulers, Distribute(s) \/ BeginUpdate(s)
  PROVE  FoundStaysDue' /\ JobsRecorded'
<1> USE DEF Distribute, BeginUpdate, Goto, redisVars, SingleInv, IndInv, TypeOK
<1>1. FoundStaysDue' BY DEF FoundStaysDue, Due, TypesOf, InPass
<1>2. ASSUME NEW r \in Schedulers, NEW t \in Types, NEW u \in Users, Unrecorded(r, t, u)
      PROVE  Unrecorded(r, t, u)' /\ passNow'[r] = passNow[r]
  <2>1. t \in TypesOf(found[r]) BY <1>2 DEF Unrecorded, TypesOf
  <2> QED BY <1>2, <2>1 DEF Unrecorded
<1>3. JobsRecorded' BY <1>2, RecordedFrame DEF NoFault, faultVars
<1> QED BY <1>1, <1>3

-----------------------------------------------------------------------------
\* A job pushed now is the user's last one, whose execution is to be recorded.
LEMMA PushJobSingle ==
  ASSUME SingleInv, NEW s \in Schedulers, NEW k \in Tasks, PushJob(s, k)
  PROVE  FoundStaysDue' /\ JobsRecorded'
<1>1. /\ pc[s] = "push"
      /\ k \in unsent[s]
      /\ unsent' = [unsent EXCEPT ![s] = @ \ {k}]
      /\ UNCHANGED <<last, pc, passNow, cur, found, unset>>
  BY DEF PushJob, redisVars
<1>2. FoundStaysDue'
  BY <1>1 DEF SingleInv, IndInv, TypeOK, FoundStaysDue, Due, TypesOf
<1>3. CASE Fault BY <1>2, <1>3, FaultForgets DEF SingleInv
<1>4. CASE latest' = [latest EXCEPT ![k] = passNow[s]]
  <2> SUFFICES ASSUME NEW t \in Types, NEW u \in Users
               PROVE  \/ latest'[<<t, u>>] = last[t]
                      \/ last[t] # Never /\ Due(t, latest'[<<t, u>>], last[t])
                      \/ latest'[<<t, u>>] = Never
                      \/ \E r \in Schedulers :
                           Unrecorded(r, t, u)' /\ passNow[r] = latest'[<<t, u>>]
    BY <1>1, <1>2 DEF JobsRecorded, Due
  <2>1. <<t, u>> \in Tasks BY DEF Tasks
  <2>2. CASE k = <<t, u>>
    <3>1. k \in found[s] BY <1>1 DEF SingleInv, FoundStaysDue
    <3>2. Unrecorded(s, t, u)' BY <1>1, <2>2, <3>1 DEF Unrecorded, SingleInv, IndInv, TypeOK
    <3>3. latest'[<<t, u>>] = passNow[s] BY <1>4, <2>2 DEF SingleInv, IndInv, TypeOK
    <3> QED BY <3>2, <3>3
  <2>3. CASE k # <<t, u>>
    <3>1. latest'[<<t, u>>] = latest[<<t, u>>]
      BY <1>4, <2>1, <2>3 DEF SingleInv, IndInv, TypeOK
    <3>2. \A r \in Schedulers : Unrecorded(r, t, u) => Unrecorded(r, t, u)'
      BY <1>1, <2>3 DEF Unrecorded, SingleInv, IndInv, TypeOK
    <3> QED BY <3>1, <3>2 DEF SingleInv, JobsRecorded
  <2> QED BY <2>2, <2>3
<1> QED BY <1>2, <1>3, <1>4 DEF PushJob

\* The execution recorded is that of the pass, in which the type was found due: it is
\* that of the job pushed in the pass, or due after one before.
LEMMA SetLastSingle ==
  ASSUME Alone, SingleInv, NEW s \in Schedulers, NEW i \in Types, SetLast(s, i)
  PROVE  FoundStaysDue' /\ JobsRecorded'
<1>1. /\ pc[s] = "record"
      /\ i \in unset[s]
      /\ unset' = [unset EXCEPT ![s] = @ \ {i}]
      /\ UNCHANGED <<pc, passNow, cur, found, unsent>>
  BY DEF SetLast
<1>2. CASE NoFault /\ last' = [last EXCEPT ![i] = passNow[s]]
  <2>1. /\ i \notin unset'[s]
        /\ unset'[s] \subseteq unset[s]
        /\ last'[i] = passNow[s]
        /\ \A t \in Types \ {i} : last'[t] = last[t] /\ (t \in unset[s] => t \in unset'[s])
    BY <1>1, <1>2 DEF SingleInv, IndInv, TypeOK
  <2>2. Due(i, last[i], passNow[s]) /\ unset[s] \subseteq TypesOf(found[s])
    BY <1>1 DEF SingleInv, FoundStaysDue, InPass
  <2>3. \A r \in Schedulers : r = s BY DEF Alone
  <2>4. FoundStaysDue'
    <3>1. ASSUME NEW t \in TypesOf(found[s]), t \in unset'[s]
          PROVE  Due(t, last'[t], passNow[s])
      <4>1. t \in Types \ {i} /\ t \in unset[s]
        BY <2>1, <3>1 DEF SingleInv, IndInv, TypeOK
      <4>2. Due(t, last[t], passNow[s])
        BY <1>1, <3>1, <4>1 DEF SingleInv, FoundStaysDue, InPass
      <4> QED BY <2>1, <4>1, <4>2
    <3> QED BY <1>1, <2>1, <2>2, <2>3, <3>1 DEF FoundStaysDue, Due, TypesOf
  <2>5. UNCHANGED latest BY <1>2 DEF NoFault, faultVars
  <2> SUFFICES ASSUME NEW t \in Types, NEW u \in Users
               PROVE  \/ latest[<<t, u>>] = last'[t]
                      \/ last'[t] # Never /\ Due(t, latest[<<t, u>>], last'[t])
                      \/ latest[<<t, u>>] = Never
                      \/ \E r \in Schedulers :
                           Unrecorded(r, t, u)' /\ passNow[r] = latest[<<t, u>>]
    BY <1>1, <2>4, <2>5 DEF JobsRecorded, Due
  <2>6. \/ latest[<<t, u>>] = last[t]
        \/ last[t] # Never /\ Due(t, latest[<<t, u>>], last[t])
        \/ latest[<<t, u>>] = Never
        \/ Unrecorded(s, t, u) /\ passNow[s] = latest[<<t, u>>]
    BY <2>3 DEF SingleInv, JobsRecorded
  <2>7. CASE t = i
    <3>1. passNow[s] \in Instants /\ last[i] \in Instants \cup {Never}
          /\ latest[<<t, u>>] \in Instants \cup {Never} /\ last[i] <= passNow[s]
      BY <1>1 DEF SingleInv, InOrder, IndInv, TypeOK, InPass, Tasks
    <3>2. passNow[s] # Never BY <3>1, ConstantsAssumption DEF Never
    <3>3. CASE latest[<<t, u>>] = last[t] BY <2>1, <2>2, <2>7, <3>2, <3>3
    <3>4. CASE last[t] # Never /\ Due(t, latest[<<t, u>>], last[t])
      BY <2>1, <2>7, <3>1, <3>2, <3>4, DueLater
    <3>5. CASE Unrecorded(s, t, u) /\ passNow[s] = latest[<<t, u>>] BY <2>1, <2>7, <3>5
    <3> QED BY <2>6, <3>3, <3>4, <3>5
  <2>8. CASE t # i
    <3>1. Unrecorded(s, t, u) => Unrecorded(s, t, u)'
      BY <1>1, <2>1, <2>8 DEF Unrecorded
    <3> QED BY <2>1, <2>6, <2>8, <3>1
  <2> QED BY <2>7, <2>8
<1>3. CASE Fault /\ UNCHANGED <<last, roster>>
  <2>1. FoundStaysDue'
    BY <1>1, <1>3 DEF SingleInv, IndInv, TypeOK, FoundStaysDue, Due, TypesOf
  <2> QED BY <1>3, <2>1, FaultForgets DEF SingleInv
<1> QED BY <1>2, <1>3 DEF SetLast

-----------------------------------------------------------------------------
\* Every step of a pass.
LEMMA PassStepSingle ==
  ASSUME Alone, SingleInv, NEW s \in Schedulers, PassStep(s)
  PROVE  FoundStaysDue' /\ JobsRecorded'
<1>1. CASE TryLock(s) \/ SkipElection(s) \/ CheckHolder(s) \/ ExtendLease(s)
  BY <1>1, LeadershipSingle
<1>2. CASE BeginPass(s) BY <1>2, BeginPassSingle
<1>3. CASE \E t \in Types : ReadLast(s, t) BY <1>3, ReadLastSingle
<1>4. CASE \E t \in Types : ReadUsers(s, t) BY <1>4, ReadUsersSingle
<1>5. CASE NothingDue(s) \/ EndPass(s) BY <1>5, ForgetSingle DEF NothingDue, EndPass, Return
<1>6. CASE Distribute(s) \/ BeginUpdate(s) BY <1>6, DistributeSingle
<1>7. CASE \E k \in Tasks : PushJob(s, k) BY <1>7, PushJobSingle
<1>8. CASE \E t \in Types : SetLast(s, t) BY <1>8, SetLastSingle
<1>9. CASE Restart(s) BY <1>9, RestartSingle
<1> QED BY <1>1, <1>2, <1>3, <1>4, <1>5, <1>6, <1>7, <1>8, <1>9 DEF PassStep

\* Every step in which something fails or the instance halts.
LEMMA FaultStepSingle ==
  ASSUME SingleInv, NEW s \in Schedulers, FaultStep(s)
  PROVE  FoundStaysDue' /\ JobsRecorded'
<1>1. CASE TryLockFails(s) \/ LeaseCallFails(s) BY <1>1, LeadershipSingle
<1>2. CASE \E t \in Types : ReadFails(s, t) BY <1>2, ReadUsersSingle
<1>3. CASE Halt(s) BY <1>3, ForgetSingle DEF Halt
<1> QED BY <1>1, <1>2, <1>3 DEF FaultStep

\* Every step of a single instance keeps the invariant.
LEMMA NextSingle == ASSUME Alone PROVE SingleInv /\ [Next]_vars => SingleInv'
<1> SUFFICES ASSUME SingleInv, [Next]_vars PROVE SingleInv' OBVIOUS
<1>1. IndInv' BY NextInv DEF SingleInv
<1>2. InOrder' BY OrderKept DEF SingleInv
<1>3. ASSUME NEW s \in Schedulers, PassStep(s) \/ FaultStep(s)
      PROVE  FoundStaysDue' /\ JobsRecorded'
  BY <1>3, PassStepSingle, FaultStepSingle
<1>4. CASE LeaseEnds \/ Tick \/ \E t \in Types, u \in Users : Toggle(t, u)
  <2>1. UNCHANGED <<last, passVars, faultVars, historyVars>>
    BY <1>4 DEF LeaseEnds, Tick, Toggle, NoFault, redisVars
  <2> QED BY <1>1, <1>2, <2>1, SurroundingsSingle DEF SingleInv
<1>5. CASE UNCHANGED vars
  <2>1. UNCHANGED <<last, passVars, faultVars, historyVars>> BY <1>5 DEF vars, redisVars
  <2> QED BY <1>1, <1>2, <2>1, SurroundingsSingle DEF SingleInv
<1> QED BY <1>1, <1>2, <1>3, <1>4, <1>5 DEF Next, SingleInv

\* In every reachable state of a single instance the last job of every user is
\* recorded, or still to be recorded, unless a fault came after it.
THEOREM SingleInductive == ASSUME Alone PROVE Spec => []SingleInv
<1>1. SingleInv /\ [Next]_vars => SingleInv' BY NextSingle
<1> QED BY InitSingle, <1>1, PTL DEF Spec

\* What a pass is about to push is of a due type.
LEMMA PushesAreDue ==
  ASSUME SingleInv, NEW s \in Schedulers, NEW k \in Tasks, pc[s] = "push", k \in unsent[s]
  PROVE  Due(k[1], last[k[1]], passNow[s])
<1>1. k \in found[s] BY DEF SingleInv, FoundStaysDue
<1>2. k[1] \in TypesOf(found[s]) BY <1>1 DEF TypesOf
<1> QED BY <1>2 DEF SingleInv, FoundStaysDue, InPass

\* checkAndScheduleTasks of a single instance: it reads the last execution, pushes
\* and records in the pass, so a user's next job of a type is pushed no earlier than
\* NextExecution says after the one before, unless a call failed or the instance
\* halted since.  This is of any types, users and intervals; whether NextExecution is
\* right about an interval is what KeepsCalendar is about.
THEOREM NoEarlyRepetition == ASSUME Alone PROVE Spec => RepeatedOnlyForFaults
<1>1. SingleInv =>
        [\A s \in Schedulers : \A t \in Tasks :
           pc[s] = "push" /\ t \in unsent[s] \ unsent'[s] /\ faults' = faults =>
             latest[t] = Never \/ passNow[s] >= NextExecution(Interval[t[1]], latest[t])]_vars
  <2> SUFFICES ASSUME SingleInv, NEW s \in Schedulers, NEW k \in Tasks,
                      pc[s] = "push", k \in unsent[s]
               PROVE  Due(k[1], latest[k], passNow[s])
    BY DEF Due, IsDue
  <2>1. Due(k[1], last[k[1]], passNow[s]) BY PushesAreDue
  <2>2. PICK t \in Types, u \in Users : k = <<t, u>> BY DEF Tasks
  <2>3. \/ latest[k] = last[t]
        \/ last[t] # Never /\ Due(t, latest[k], last[t])
        \/ latest[k] = Never
        \/ \E r \in Schedulers : Unrecorded(r, t, u) /\ passNow[r] = latest[k]
    BY <2>2 DEF SingleInv, JobsRecorded
  <2>4. \A r \in Schedulers : ~Unrecorded(r, t, u) BY <2>2 DEF Unrecorded, Alone
  <2>5. CASE latest[k] = last[t] BY <2>1, <2>2, <2>5
  <2>6. CASE last[t] # Never /\ Due(t, latest[k], last[t])
    <3>1. /\ passNow[s] \in Instants /\ last[t] \in Instants
          /\ latest[k] \in Instants \cup {Never} /\ last[t] <= passNow[s]
      BY <2>1, <2>2, <2>6 DEF SingleInv, InOrder, IndInv, TypeOK, InPass
    <3> QED BY <2>2, <2>6, <3>1, DueLater
  <2>7. CASE latest[k] = Never BY <2>7 DEF Due
  <2> QED BY <2>3, <2>4, <2>5, <2>6, <2>7
<1>2. Spec => []SingleInv BY SingleInductive
<1> QED BY <1>1, <1>2, PTL DEF Spec, RepeatedOnlyForFaults
=============================================================================
