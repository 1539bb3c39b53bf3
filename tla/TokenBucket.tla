---------------------------- MODULE TokenBucket ----------------------------
(***************************************************************************)
(* What the limiter promises the endpoints: a token bucket that refills    *)
(* continuously.  The credit counts parts of a token, Window of which make *)
(* one, and a second adds Limit of them up to the capacity.                *)
(*                                                                         *)
(* It is an upper bound on what is granted between any two moments:        *)
(* credit may be lost (a call whose answer is lost, a fraction that is     *)
(* rounded off), even below zero, and never gained.  A bucket from which nothing was taken for  *)
(* two windows may be forgotten, and is full again; so it is after a reset.*)
(***************************************************************************)
EXTENDS Integers

CONSTANTS
  Limit, Window,  \* Limit tokens are added per Window of seconds
  Capacity        \* the most credit there can be

VARIABLES
  clock,      \* in seconds
  credit,     \* what may be granted at once
  total,      \* tokens granted so far
  lastGrant,  \* when tokens were last taken
  resets      \* number of resets so far

Init ==
  /\ clock = 0
  /\ credit = Capacity
  /\ total = 0
  /\ lastGrant = 0
  /\ resets = 0

\* Tokens are granted for the credit there is, or credit is lost.
Take ==
  LET n == total' - total
  IN  /\ 0 <= n
      /\ n > 0 => Window * n <= credit /\ lastGrant' = clock
      /\ credit' <= credit - Window * n
      /\ lastGrant' \in {lastGrant, clock}
      /\ UNCHANGED <<clock, resets>>

Refill == credit' = IF credit + Limit <= Capacity THEN credit + Limit ELSE Capacity

Forget == lastGrant + 2 * Window <= clock' /\ credit' = Capacity

\* A second passes.
Tick ==
  /\ clock' = clock + 1
  /\ Refill \/ Forget
  /\ UNCHANGED <<total, lastGrant, resets>>

Reset ==
  /\ resets' = resets + 1
  /\ credit' = Capacity
  /\ UNCHANGED <<clock, total, lastGrant>>

Spec == Init /\ [][Take \/ Tick \/ Reset]_<<clock, credit, total, lastGrant, resets>>
=============================================================================
