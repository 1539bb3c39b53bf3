---------------------------- MODULE MCScheduler ----------------------------
(***************************************************************************)
(* Instances of Scheduler for TLC, and what a document claims of several   *)
(* schedulers.                                                             *)
(***************************************************************************)
EXTENDS Scheduler, MCCalendar, TLC

CONSTANTS s1, s2, t1, t2, u1, u2

EveryHour == [type |-> "hourly", value |-> 1, timezone |-> "", at |-> NoTime]
EveryOtherHour == [type |-> "hourly", value |-> 2, timezone |-> "", at |-> NoTime]

\* weekly_analytics of config/tasks.yaml.
EveryWeek ==
  [type |-> "weekly", value |-> 1, timezone |-> "America/New_York",
   at |-> [hour |-> 9, minute |-> 0]]

Hourly == [t \in Types |-> EveryHour]
HourlyAndWeekly == [t \in Types |-> IF t = t1 THEN EveryOtherHour ELSE EveryWeek]

\* January 31st, 23:30; an hour and a half later; before a second hour is over, and
\* when the weekly type is due.
Once == {At(30, 23, 30)}
MidnightUTC == {At(30, 23, 30), At(31, 1, 0)}
WeekAfter == {At(30, 23, 30), At(31, 0, 15), At(36, 14, 0)}

Symmetry == Permutations(Schedulers) \cup Permutations(Types) \cup Permutations(Users)

-----------------------------------------------------------------------------
\* A claim of the documents, checked in a run of its own.

\* SYSTEM_STATUS.md: "Only one scheduler processing at a time".
OneSchedulerProcessing ==
  \A r, s \in Schedulers :
    r # s => ~(pc[r] \in InPass /\ pc[s] \in InPass)
============================================================================
