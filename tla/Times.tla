------------------------------- MODULE Times -------------------------------
(***************************************************************************)
(* The computations on time in use: the slots of a distribution, drawn one *)
(* by one as the loop over them does; the delays of a job that fails again *)
(* and again; the executions of the tasks of a definitions file, each at   *)
(* the first pass after it is due.  A behaviour follows one of the three.  *)
(***************************************************************************)
EXTENDS TimeSlots, Backoff, TaskRegistry

CONSTANTS
  MaxWindow, MaxCount,       \* bounds of the slots' inputs
  Bases, Caps, MaxAttempts,  \* the delays' configurations, and a bound
  Starts, Files,             \* the instants a service starts at, and its files
  Delays,                    \* how late a pass may be
  MaxPasses                  \* bound: executions in a behaviour

\* A file holds definitions, valid or not; a service starts after the epoch.
ASSUME InputsAssumption ==
  /\ MaxWindow \in Nat
  /\ MaxCount \in Nat
  /\ Bases \subseteq Nat \cap Words
  /\ Caps \subseteq Words
  /\ \A file \in Files : file \in Seq(Definitions)
  /\ Starts \subseteq Int
  /\ \A t \in Starts, zone \in Zones \cup {"UTC"} : DayOf(zone, t) \in Nat
  /\ Delays \subseteq Nat

VARIABLES
  computation,                   \* which of the three
  window, count, jitter, drawn,  \* the slots
  attempt, base, cap,            \* the delays
  now, passes                    \* the tasks: the last pass, and how many there were

slotVars == <<window, count, jitter, drawn>>
delayVars == <<attempt, base, cap>>
taskVars == <<tasks, now, passes>>
vars == <<computation, slotVars, delayVars, taskVars>>

-----------------------------------------------------------------------------
Later(s, t) == IF s < t THEN t ELSE s

NoSlots == window = 0 /\ count = 1 /\ jitter = [i \in {0} |-> 0] /\ drawn = 1
NoDelays == attempt = 1 /\ base = 0 /\ cap = 0
NoTasks == now = 0 /\ passes = 0

TimesInit ==
  /\ Init
  /\ \/ /\ computation = "slots"
        /\ window \in 0..MaxWindow
        /\ count \in 1..MaxCount
        /\ jitter = [i \in 0..(count - 1) |-> 0]
        /\ drawn = 0
        /\ NoDelays
        /\ NoTasks
     \/ /\ computation = "delays"
        /\ attempt = 1
        /\ base \in Bases
        /\ cap \in Caps
        /\ NoSlots
        /\ NoTasks
     \/ /\ computation = "tasks"
        /\ now \in Starts
        /\ passes = 0
        /\ NoSlots
        /\ NoDelays

\* The jitter loop adds a random draw to the next slot.
DrawJitter ==
  /\ computation = "slots"
  /\ drawn < count
  /\ \E d \in Jitters(Interval(window, count)) : jitter' = [jitter EXCEPT ![drawn] = d]
  /\ drawn' = drawn + 1
  /\ UNCHANGED <<computation, window, count, delayVars, taskVars>>

\* The job fails once more.
FailAgain ==
  /\ computation = "delays"
  /\ attempt < MaxAttempts
  /\ attempt' = attempt + 1
  /\ UNCHANGED <<computation, slotVars, base, cap, taskVars>>

\* A service starts and loads its file.
Load ==
  /\ computation = "tasks"
  /\ tasks = <<>>
  /\ \E file \in Files : LoadFromFile(file)
  /\ UNCHANGED <<computation, slotVars, delayVars, now, passes>>

\* The first pass that finds a task due, in time or late.  Where the task is due
\* again at once it is the next pass.
Execute ==
  /\ computation = "tasks"
  /\ passes < MaxPasses
  /\ \E id \in DOMAIN tasks, late \in Delays :
       now' = Later(now, NextExecution(tasks[id].interval, now)) + late
  /\ passes' = passes + 1
  /\ UNCHANGED <<computation, slotVars, delayVars, tasks>>

\* The slots are returned, the job's last failure is final, the run is over.
Returned ==
  /\ computation = "slots" => drawn = count
  /\ computation = "delays" => attempt = MaxAttempts
  /\ computation = "tasks" => tasks = <<>> \/ passes = MaxPasses
  /\ UNCHANGED vars

TimesSpec == TimesInit /\ [][DrawJitter \/ FailAgain \/ Load \/ Execute \/ Returned]_vars

-----------------------------------------------------------------------------
\* In every state of the drawing the slots are spread out.
Spread == SlotsSpread(window, count, Slots(window, count, jitter))

\* In every state of the drawing the slots are within the announced time.
WithinEstimate == SlotsWithinEstimate(window, count, Slots(window, count, jitter))

\* The retries of a job that fails again and again are delayed as configured.
DelaysAsConfigured == DelayAsConfigured(attempt, base, cap)

\* No task the registry lets through is due again when it is executed.
TasksNotDueAgain == \A id \in DOMAIN tasks : NotDueAgain(tasks[id].interval, now)

\* Executions follow the calendar, late passes and all.
TasksKeepCalendar == \A id \in DOMAIN tasks : KeepsCalendar(tasks[id].interval, now)
=============================================================================
