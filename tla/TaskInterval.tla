---------------------------- MODULE TaskInterval ----------------------------
(***************************************************************************)
(* When a task is executed next: NextExecution and IsDue of                *)
(* internal/models/task.go, with the calendar and the time zones of Go's   *)
(* time package that they use (external).                                  *)
(*                                                                         *)
(* An instant is a number of minutes in UTC, day 0 is January 1st of       *)
(* EpochYear, month 0 is that January; a day is counted in local time and  *)
(* a clock is the minutes since its midnight.  Seconds play no part: every *)
(* result is a whole minute.                                               *)
(***************************************************************************)
EXTENDS Integers

CONSTANTS
  Zones,           \* the time zones LoadLocation finds
  OffsetAt(_, _),  \* a zone's offset from UTC at an instant
  EpochYear,
  NoTime           \* at_time of an interval that has none

ASSUME EpochAssumption == EpochYear \in Nat

Hour == 60
Day == 24 * Hour

-----------------------------------------------------------------------------
\* Go's time package.

DayOf(zone, t) == (t + OffsetAt(zone, t)) \div Day
ClockOf(zone, t) == (t + OffsetAt(zone, t)) % Day

\* time.Date for a day and a clock: the offset is looked up as if the local time
\* were UTC and, as it may be wrong there, once more at the instant it gives.
Date(zone, day, clock) ==
  LET local == day * Day + clock
      offset == OffsetAt(zone, local)
  IN  IF offset = 0 THEN local ELSE local - OffsetAt(zone, local - offset)

AddDays(zone, t, n) == Date(zone, DayOf(zone, t) + n, ClockOf(zone, t))

MonthLength(month) ==
  LET year == EpochYear + month \div 12
      leap == year % 4 = 0 /\ (year % 100 # 0 \/ year % 400 = 0)
  IN  CASE month % 12 = 1 -> IF leap THEN 29 ELSE 28
        [] month % 12 \in {3, 5, 8, 10} -> 30
        [] OTHER -> 31

\* The day a month begins with.
FirstOf[month \in Nat] ==
  IF month = 0 THEN 0 ELSE FirstOf[month - 1] + MonthLength(month - 1)

MonthOf(day) ==
  CHOOSE month \in (day \div 31)..(day \div 28) :
    FirstOf[month] <= day /\ day < FirstOf[month] + MonthLength(month)

\* The day of the month, from 1.
DateOf(day) == day - FirstOf[MonthOf(day)] + 1

\* A day that a month lacks runs over into the next.
DayIn(month, date) == FirstOf[month] + date - 1

\* The day that AddDate puts n months after another.
MonthsLater(day, n) == DayIn(MonthOf(day) + n, DateOf(day))

AddMonths(zone, t, n) == Date(zone, MonthsLater(DayOf(zone, t), n), ClockOf(zone, t))

Truncate(t, d) == (t \div d) * d

-----------------------------------------------------------------------------
\* NextExecution, by the type of the interval; zone is the zone found.

Clock(at) == at.hour * Hour + at.minute

\* The day of an instant at the interval's time, if it has one.
AtTime(zone, at, t) == IF at = NoTime THEN t ELSE Date(zone, DayOf(zone, t), Clock(at))

NextHourly(value, t) ==
  Truncate(t, Hour) + Hour + (IF value > 1 THEN (value - 1) * Hour ELSE 0)

NextDaily(zone, value, at, t) ==
  LET today == DayOf(zone, t)
      next == AtTime(zone, at, AddDays(zone, Date(zone, today, 0), value))
  IN  IF value = 1 /\ at # NoTime /\ Date(zone, today, Clock(at)) > t
        THEN Date(zone, today, Clock(at))
        ELSE next

\* Mutant of NextWeekly: the interval's value is forgotten.
NextWeeklyOnce(zone, value, at, t) ==
  AtTime(zone, at, AddDays(zone, Truncate(t, Day), 7))

\* Truncate works on the instant, so this is midnight in UTC, whatever the zone.
NextWeekly(zone, value, at, t) ==
  AtTime(zone, at, AddDays(zone, Truncate(t, Day), 7 * value))

\* Mutant of NextMonthly: the interval's value is forgotten.
NextMonthlyOnce(zone, value, at, t) ==
  LET month == MonthOf(DayOf(zone, AddMonths(zone, t, 1)))
  IN  AtTime(zone, at, Date(zone, DayIn(month, DateOf(DayOf(zone, t))), 0))

\* Mutant of NextMonthly: the day on which AddDate lands is kept.
NextMonthlyLanded(zone, value, at, t) ==
  AtTime(zone, at, Date(zone, DayOf(zone, AddMonths(zone, t, value)), 0))

\* The month in which AddDate lands, on the day of the month of t.
NextMonthly(zone, value, at, t) ==
  LET month == MonthOf(DayOf(zone, AddMonths(zone, t, value)))
  IN  AtTime(zone, at, Date(zone, DayIn(month, DateOf(DayOf(zone, t))), 0))

Location(timezone) == IF timezone \in Zones THEN timezone ELSE "UTC"

NextExecution(interval, t) ==
  LET zone == Location(interval.timezone)
  IN  CASE interval.type = "hourly" -> NextHourly(interval.value, t)
        [] interval.type = "daily" -> NextDaily(zone, interval.value, interval.at, t)
        [] interval.type = "weekly" -> NextWeekly(zone, interval.value, interval.at, t)
        [] interval.type = "monthly" -> NextMonthly(zone, interval.value, interval.at, t)
        [] OTHER -> t + Hour

IsDue(interval, lastExecution, now) == now >= NextExecution(interval, lastExecution)

-----------------------------------------------------------------------------
\* What the next execution must satisfy.

Exists(zone, day, clock) ==
  /\ DayOf(zone, Date(zone, day, clock)) = day
  /\ ClockOf(zone, Date(zone, day, clock)) = clock

\* The local day in which the current day of UTC began: where it began in the local
\* day before, a weekly task's weeks are counted from that one.
WeekBegins(zone, t) == DayOf(zone, Truncate(t, Day))

\* The days whose midnights the computation goes through or ends on.
DaysCrossed(interval, t) ==
  LET zone == Location(interval.timezone)
      today == DayOf(zone, t)
      landing == MonthsLater(today, interval.value)
  IN  CASE interval.type = "daily" -> {today, today + interval.value}
        [] interval.type = "weekly" -> {WeekBegins(zone, t) + 7 * interval.value}
        [] interval.type = "monthly" -> {landing, DayIn(MonthOf(landing), DateOf(today))}
        [] OTHER -> {}

\* None of them is skipped by a change of the clocks: the time package puts a
\* midnight that is skipped on the day before.
MidnightsExist(interval, t) ==
  \A day \in DaysCrossed(interval, t) : Exists(Location(interval.timezone), day, 0)

\* The task is not due again at the time of its execution, or every pass would
\* execute it.  Around a skipped midnight a daily task is, and so is a monthly one
\* that AddDate takes to the first of a month.
NotDueAgain(interval, t) ==
  (interval.type \in {"daily", "monthly"} => MidnightsExist(interval, t))
  => ~IsDue(interval, t, t)

\* The first month, from n months after that of a day on, that has the day's date.
MonthWithDate(day, n) ==
  LET month == MonthOf(day) + n
  IN  IF DateOf(day) <= MonthLength(month) THEN month ELSE month + 1

\* When a task comes next, if no midnight that is computed with is skipped.  A daily
\* task comes its value of days later, or still today if it is to come every day.  A
\* weekly one comes its value of weeks later on the same weekday, or the day before
\* where the current day of UTC began then.  A monthly one comes on the same day of
\* the month: in the month its value says or, where that is too short, in the one
\* after, so that a task on the 31st skips every month of 30 days.  Each comes at
\* its time, if it has one that its zone does not skip on that day.
KeepsCalendar(interval, t) ==
  LET zone == Location(interval.timezone)
      today == DayOf(zone, t)
      next == NextExecution(interval, t)
      day == DayOf(zone, next)
  IN  MidnightsExist(interval, t) =>
      /\ interval.type = "daily" =>
           \/ day = today + interval.value
           \/ interval.value = 1 /\ day = today
      /\ interval.type = "weekly" =>
           day = today + 7 * interval.value - (IF WeekBegins(zone, t) = today THEN 0 ELSE 1)
      /\ interval.type = "monthly" =>
           /\ DateOf(day) = DateOf(today)
           /\ MonthOf(day) = MonthWithDate(today, interval.value)
      /\ (/\ interval.type # "hourly"
          /\ interval.at # NoTime
          /\ Exists(zone, day, Clock(interval.at)))
         => ClockOf(zone, next) = Clock(interval.at)

\* What changes of the clocks leave alone, in a zone, at the given instants, days
\* and clocks: local days come in order, a day of UTC is in two local days at most,
\* and Date finds its day, or the day before where the day has no midnight.
RegularOn(zone, instants, days, clocks) ==
  /\ \A t \in instants : OffsetAt(zone, t) \in Int /\ DayOf(zone, t) <= DayOf(zone, t + 1)
  /\ \A day \in days : DayOf(zone, day * Day + Day - 1) <= DayOf(zone, day * Day) + 1
  /\ \A day \in days, clock \in clocks :
       DayOf(zone, Date(zone, day, clock)) \in
         IF Exists(zone, day, 0) THEN {day} ELSE {day - 1, day}

Regular(zone) == RegularOn(zone, Int, Int, 0..(Day - 1))

\* What task.go says of weekly tasks, "Next week on the same day", and of monthly
\* ones, "Next month on the same day".
SameDay(interval, t) ==
  LET zone == Location(interval.timezone)
      today == DayOf(zone, t)
      day == DayOf(zone, NextExecution(interval, t))
  IN  /\ interval.type = "weekly" => day = today + 7 * interval.value
      /\ interval.type = "monthly" =>
           MonthOf(day) = MonthOf(today) + interval.value /\ DateOf(day) = DateOf(today)
=============================================================================
