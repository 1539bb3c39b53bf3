-------------------------- MODULE MCWorkerService ---------------------------
(***************************************************************************)
(* An instance of WorkerService for TLC: one process of two workers, and   *)
(* two jobs of which its registry has one.                                 *)
(***************************************************************************)
EXTENDS WorkerService, TLC

CONSTANTS j1, j2, m1, m2, w1, w2, p1

OnePool == w1 :> p1 @@ w2 :> p1
OnlyFirst == p1 :> {j1}
=============================================================================
