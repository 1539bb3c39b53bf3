---------------------------- MODULE MCWorkerPool ----------------------------
(***************************************************************************)
(* Instances of WorkerPool for TLC: two pools of one worker, or one alone, *)
(* and what a comment claims of a pool.                                    *)
(***************************************************************************)
EXTENDS WorkerPool, TLC

CONSTANTS j1, j2, m1, m2, m3, w1, w2, p1, p2

TwoPools == w1 :> p1 @@ w2 :> p2
SoloPool == w1 :> p1

\* Each process loads its own file of task definitions; here all lack the type of j2.
OnlyFirst == [p \in Pools |-> {j1}]

\* Bound: the scheduler pushes one of the two jobs, the known or the unknown one.
OneJobScheduled == \A i, j \in Jobs : Scheduled(i) /\ Scheduled(j) => i = j

\* Workers that are the only ones of their pools are interchangeable together with
\* these.
Symmetry == Permutations(MsgIds)
Swapped == w1 :> w2 @@ w2 :> w1 @@ p1 :> p2 @@ p2 :> p1
TwoPoolsSymmetry == Symmetry \cup {Swapped}

-----------------------------------------------------------------------------
\* A claim of the code's comments, checked in a run of its own.

\* worker.go: "Job not ready yet, put it back in queue".  A message that leaves
\* the queue acknowledged was ready, or at least became so.
NotReadyJobStaysQueued ==
  \A m \in MsgIds : st[m] = "acked" => due[m]
=============================================================================
