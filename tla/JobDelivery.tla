---------------------------- MODULE JobDelivery ----------------------------
(***************************************************************************)
(* What the workers and their queue promise the scheduler, job by job.     *)
(*                                                                         *)
(* A job arrives once, is pending while the system may still do something  *)
(* for it, and is settled for good, never without a recorded fate: it      *)
(* succeeded, failed finally, was refused (not ready, unknown type), went  *)
(* to the dead letters, or its retry was lost.  Outcomes are only added:   *)
(* delivery is at least once, so a job may succeed and also fail.          *)
(***************************************************************************)
CONSTANTS Jobs, Fates

VARIABLES
  stage,  \* for each job: "new", "pending" or "settled"
  fate    \* for each job: the outcomes recorded so far

Stages == {"new", "pending", "settled"}

Init ==
  /\ stage = [j \in Jobs |-> "new"]
  /\ fate = [j \in Jobs |-> {}]

Stay(j) == stage'[j] = stage[j] /\ fate'[j] = fate[j]

Arrive(j) == stage[j] = "new" /\ stage'[j] = "pending" /\ fate'[j] = fate[j]

Work(j) ==
  /\ stage[j] = "pending"
  /\ stage'[j] = "pending"
  /\ fate[j] \subseteq fate'[j]

Settle(j) ==
  /\ stage[j] = "pending"
  /\ stage'[j] = "settled"
  /\ fate[j] \subseteq fate'[j]
  /\ fate'[j] # {}

\* A crash may touch several jobs at once, so a step moves each job on its own.
Next ==
  /\ stage' \in [Jobs -> Stages]
  /\ fate' \in [Jobs -> SUBSET Fates]
  /\ \A j \in Jobs : Stay(j) \/ Arrive(j) \/ Work(j) \/ Settle(j)

Spec == Init /\ [][Next]_<<stage, fate>>
=============================================================================
