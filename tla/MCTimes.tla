------------------------------ MODULE MCTimes ------------------------------
(***************************************************************************)
(* Times for TLC: the definitions files of one task, and instants before   *)
(* the ends of months and changes of the clocks.                           *)
(***************************************************************************)
EXTENDS Times, MCCalendar

CONSTANT MaxBase  \* bound of the delays' base

MCBases == 1..MaxBase
MCCaps == {MaxBase, 2 * MaxBase, HalfRange - 1}

\* In time, or after half a day's outage.
MCDelays == {0, 12 * Hour}

\* The cities' clocks are changed as the proofs assume: every half hour of two years.
ASSUME CitiesAreRegular ==
  \A zone \in Cities :
    RegularOn(zone, {30 * i - 1 : i \in 0..35088}, 0..730, {30 * i : i \in 0..47})

\* The ends of January, February, October and December, the eve of New York's
\* change, and a month, a week and a day before Santiago's.
MCStarts ==
  {At(28, 10, 5), At(30, 23, 30), At(58, 0, 0), At(68, 14, 0), At(220, 17, 0),
   At(244, 17, 0), At(249, 17, 0), At(304, 2, 30), At(364, 9, 0)}

Intervals ==
  [type : IntervalTypes,
   value : {0, 1, 2},
   timezone : {"", "Nowhere/Else"} \cup (Cities \ {"UTC"}),
   at : {NoTime, [hour |-> 0, minute |-> 30], [hour |-> 9, minute |-> 0],
         [hour |-> 24, minute |-> 0]}]

Definition(id, interval) ==
  [id |-> id, name |-> id, timeout |-> 5, retries |-> 3, endpoint |-> "url",
   method |-> "", max_duration |-> 0, interval |-> interval]

MCFiles == {<<Definition("task", i)>> : i \in Intervals}

\* Two of the shipped tasks, at the end of January 31st.
SameDayStarts == {At(30, 23, 30)}
SameDayFiles ==
  LET interval(type, timezone, hour) ==
        [type |-> type, value |-> 1, timezone |-> timezone, at |-> [hour |-> hour, minute |-> 0]]
  IN  {<<Definition("weekly_analytics", interval("weekly", "America/New_York", 9)),
         Definition("monthly_billing", interval("monthly", "UTC", 3))>>}

-----------------------------------------------------------------------------
\* A claim of the code's comments, checked in a run of its own.

\* task.go: a weekly task comes "Next week on the same day", and a monthly one
\* "Next month on the same day".
NextOnSameDay == \A id \in DOMAIN tasks : SameDay(tasks[id].interval, now)
=============================================================================
