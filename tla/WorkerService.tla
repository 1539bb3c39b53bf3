--------------------------- MODULE WorkerService ----------------------------
(***************************************************************************)
(* The worker service of cmd/worker: how its process boots, starts its     *)
(* pool, and shuts down on a signal.                                       *)
(*                                                                         *)
(* Pool.Start adds each worker to the pool's WaitGroup and spawns it, in a *)
(* goroutine of its own, while main already waits for the signal.  On the  *)
(* signal main cancels the workers' context, closes the stop channels,     *)
(* waits for the WaitGroup and closes the clients the workers use.  The    *)
(* signal can come before Pool.Start is through: Wait may then return, or  *)
(* panic, with workers still to be spawned.                                *)
(*                                                                         *)
(* Each step is one of WorkerPool's, or leaves its variables alone: what   *)
(* is proved of a pool holds of the service.                               *)
(***************************************************************************)
EXTENDS WorkerPool

VARIABLES
  main,    \* process: where main is in serving and shutting down
  counted  \* the workers the WaitGroup of their pool counts: spawned, not returned

Positions == {"serving", "stopping", "waiting", "woken", "closing", "ended"}

serviceVars == <<main, counted>>
allVars == <<vars, serviceVars>>

CountedOf(p) == counted \cap WorkersOf(p)

ServiceTypeOK ==
  /\ main \in [Pools -> Positions]
  /\ counted \in SUBSET Workers

ServiceInit ==
  /\ Init
  /\ main = [p \in Pools |-> "serving"]
  /\ counted = {}

Move(p, position) == main' = [main EXCEPT ![p] = position]

-----------------------------------------------------------------------------
\* The pool's own goroutine and its workers.

\* Mutant of Spawn: a worker that has returned is spawned again.
SpawnAgain(w) ==
  /\ main[PoolOf[w]] # "ended"
  /\ pc[w] \in {"idle", "stopped"}
  /\ w \notin counted
  /\ pc' = [pc EXCEPT ![w] = "idle"]
  /\ counted' = counted \cup {w}
  /\ UNCHANGED <<queueVars, held, receipt, result, poolVars, historyVars, main>>

\* The loop of Pool.Start comes to its next worker: wg.Add and go.
Spawn(w) ==
  /\ main[PoolOf[w]] # "ended"
  /\ pc[w] = "idle"
  /\ w \notin counted
  /\ counted' = counted \cup {w}
  /\ UNCHANGED <<vars, main>>

\* A spawned worker does the next step of processJob.
Work(w) ==
  /\ w \in counted
  /\ ProcessJob(w)
  /\ UNCHANGED serviceVars

\* The worker returns; the Done that takes the count to zero wakes Wait.
Leave(w) ==
  /\ w \in counted
  /\ Exit(w)
  /\ counted' = counted \ {w}
  /\ main' = [main EXCEPT ![PoolOf[w]] =
       IF @ = "waiting" /\ CountedOf(PoolOf[w]) = {w} THEN "woken" ELSE @]

-----------------------------------------------------------------------------
\* main.

\* Mutant of Signal: the channels are closed but the context is not cancelled.
SignalWithoutCancel(p) ==
  /\ main[p] = "serving"
  /\ Stop(p)
  /\ Move(p, "stopping")
  /\ UNCHANGED counted

\* The signal: workerCancel, then the channels, whose closing adds nothing to a
\* context that has ended.
Signal(p) ==
  /\ main[p] = "serving"
  /\ Cancel(p)
  /\ Move(p, "stopping")
  /\ UNCHANGED counted

\* Wait returns at once if the count is zero.
Wait(p) ==
  /\ main[p] = "stopping"
  /\ Move(p, IF CountedOf(p) = {} THEN "closing" ELSE "waiting")
  /\ UNCHANGED <<vars, counted>>

\* Wait, once woken, finds the count still at zero.
WaitReturns(p) ==
  /\ main[p] = "woken"
  /\ CountedOf(p) = {}
  /\ Move(p, "closing")
  /\ UNCHANGED <<vars, counted>>

\* The process is gone, and its goroutines with it.
Die(p) ==
  /\ Crash(p)
  /\ Move(p, "ended")
  /\ counted' = counted \ WorkersOf(p)

\* Wait, once woken, finds that Pool.Start has added a worker, and panics.
WaitPanics(p) ==
  /\ main[p] = "woken"
  /\ CountedOf(p) # {}
  /\ Die(p)

\* The clients are closed and main returns.
Close(p) ==
  /\ main[p] = "closing"
  /\ Move(p, "ended")
  /\ UNCHANGED <<vars, counted>>

\* A goroutine that had still to return, or to start, ends with its process.
Vanish(w) ==
  /\ main[PoolOf[w]] = "ended"
  /\ Exit(w)
  /\ counted' = counted \ {w}
  /\ UNCHANGED main

\* The process is started anew: its clients connect, its task definitions load.
Boot(p) ==
  /\ main[p] = "ended"
  /\ Start(p)
  /\ Move(p, "serving")
  /\ UNCHANGED counted

-----------------------------------------------------------------------------
Environment ==
  /\ \/ \E j \in Jobs : Schedule(j)
     \/ \E m \in MsgIds : QueueStep(m)
  /\ UNCHANGED serviceVars

Goroutine(w) ==
  \/ Spawn(w)
  \/ main[PoolOf[w]] # "ended" /\ (Work(w) \/ Leave(w))
  \/ Vanish(w)

\* What main does by itself.
Main(p) == Wait(p) \/ WaitReturns(p) \/ WaitPanics(p) \/ Close(p) \/ Boot(p)

ServiceNext ==
  \/ Environment
  \/ \E w \in Workers : Goroutine(w)
  \/ \E p \in Pools : Signal(p) \/ Die(p) \/ Main(p)

ServiceSpec == ServiceInit /\ [][ServiceNext]_allVars

\* Goroutines that can run do run, every worker's call returns (they all have
\* timeouts), a pull is not refused for ever while the queue has a visible
\* message, visibility timeouts end, and a process that ended is started anew
\* (docker-compose.yml restarts it).  Nothing else is promised: the limiter may
\* refuse for ever, acknowledgements and pushes may fail, a message may never be
\* due, a signal or a crash may never come.
ServiceFairness ==
  /\ \A w \in Workers : WF_allVars(Goroutine(w))
  /\ \A m \in MsgIds : WF_allVars(Expire(m) /\ UNCHANGED serviceVars)
  /\ \A p \in Pools : WF_allVars(Main(p))

ServiceFairSpec == ServiceSpec /\ ServiceFairness

-----------------------------------------------------------------------------
\* What the service must keep.

\* The clients are closed under no worker that is still using them, although the
\* Wait before may have returned, or never waited, while Pool.Start was still
\* spawning workers.
NoWorkAfterClose ==
  \A w \in Workers : main[PoolOf[w]] \in {"closing", "ended"} => pc[w] \notin Busy

\* Once signalled, the process ends and no worker is left, wherever the signal met
\* Pool.Start and the workers.
ShutdownCompletes ==
  \A p \in Pools :
    main[p] = "stopping" ~> main[p] = "ended" /\ \A w \in WorkersOf(p) : pc[w] = "stopped"

\* Every message that is ever pushed leaves the queue, acknowledged or dead:
\* no mixture of refusals, lost answers, failed acknowledgements, shutdowns and
\* crashes makes it circulate for ever.
MessagesSettle ==
  \A m \in MsgIds : st[m] \in {"ready", "inflight"} ~> st[m] \in {"acked", "dead"}

-----------------------------------------------------------------------------
\* The inductive invariant behind NoWorkAfterClose.

\* A worker at work has been spawned and not returned.
BusyAreCounted == \A w \in Workers : pc[w] \in Busy => w \in counted

\* Past the signal the workers' context has ended.
ShutdownCancelled ==
  \A p \in Pools : main[p] # "serving" => phase[p] = "cancelled"

ServiceInv ==
  /\ ServiceTypeOK
  /\ BusyAreCounted
  /\ ShutdownCancelled
  /\ NoWorkAfterClose
=============================================================================
