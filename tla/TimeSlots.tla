----------------------------- MODULE TimeSlots -----------------------------
(***************************************************************************)
(* How internal/distributor spreads n jobs over its distribution window:   *)
(* calculateTimeSlots and EstimateDistributionTime.  Durations are whole   *)
(* numbers of a unit of which Second make a second (the code's unit is the *)
(* nanosecond); indices start at 0 as in the code.                         *)
(***************************************************************************)
EXTENDS Integers

CONSTANT Second

ASSUME SecondAssumption == Second \in Nat \ {0}

\* The step between slots: the window's n-th part, at least a second.
Interval(window, n) == IF window \div n < Second THEN Second ELSE window \div n

\* Mutant of Jitters: the jitter is drawn from the whole step.
WideJitters(interval) == 0..(interval - 1)

\* The values rand.Int63n(interval / 4) may add to a slot; none when it is 0.
Jitters(interval) == IF interval \div 4 > 0 THEN 0..(interval \div 4 - 1) ELSE {0}

\* The sequence calculateTimeSlots may return for n jobs, as a function on
\* 0..n-1, when it draws the given jitter for each.
Slots(window, n, jitter) ==
  [i \in 0..(n - 1) |-> IF n = 1 THEN 0 ELSE i * Interval(window, n) + jitter[i]]

JitterDraws(window, n) == [0..(n - 1) -> Jitters(Interval(window, n))]

\* Mutant of Estimate: the shortest step is forgotten.
EstimateOfWindow(window, n) == IF n <= 1 THEN 0 ELSE window

Estimate(window, n) ==
  IF n <= 1 THEN 0
  ELSE IF window \div n < Second THEN n * Second ELSE window

-----------------------------------------------------------------------------
\* What the slots must satisfy, for any draw.

\* Jobs never share a slot or overtake each other: whatever the jitter, two
\* consecutive slots are more than three quarters of a step apart, so no burst
\* reaches the endpoints even when two draws meet.
SlotsSpread(window, n, s) ==
  \A i \in 0..(n - 2) : 4 * (s[i + 1] - s[i]) > 3 * Interval(window, n)

\* Every slot lies within the time EstimateDistributionTime announces.
SlotsWithinEstimate(window, n, s) ==
  \A i \in 0..(n - 1) : 0 <= s[i] /\ s[i] <= Estimate(window, n)
=============================================================================
