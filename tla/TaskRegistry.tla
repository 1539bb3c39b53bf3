---------------------------- MODULE TaskRegistry ----------------------------
(***************************************************************************)
(* The task definitions of internal/storage/registry.go: a file of them is *)
(* validated, completed with defaults and replaces the registry's map as a *)
(* whole, or is refused as a whole.  A name or an endpoint is present or   *)
(* "", a duration a number, the rest of a definition is left out.          *)
(***************************************************************************)
EXTENDS TaskInterval, Sequences

IntervalTypes == {"hourly", "daily", "weekly", "monthly"}

\* What a file's definition may hold before it is validated.
Definitions ==
  [id : STRING, name : STRING, timeout : Int, retries : Int, endpoint : STRING,
   method : STRING, max_duration : Int,
   interval : [type : STRING, value : Int, timezone : STRING,
               at : [hour : Int, minute : Int] \cup {NoTime}]]

\* Mutant of ValidInterval: a value of zero is let through.
ValidIntervalZero(interval) ==
  /\ interval.type \in IntervalTypes
  /\ interval.value >= 0
  /\ interval.at # NoTime => interval.at.hour \in 0..23 /\ interval.at.minute \in 0..59

\* validateInterval's conditions and its default.
ValidInterval(interval) ==
  /\ interval.type \in IntervalTypes
  /\ interval.value > 0
  /\ interval.at # NoTime => interval.at.hour \in 0..23 /\ interval.at.minute \in 0..59

CompleteInterval(interval) ==
  [interval EXCEPT !.timezone = IF @ = "" THEN "UTC" ELSE @]

\* validateTask's conditions and its defaults.
ValidTask(task) ==
  /\ task.id # ""
  /\ task.name # ""
  /\ task.timeout > 0
  /\ task.retries >= 0
  /\ ValidInterval(task.interval)
  /\ task.endpoint # ""

CompleteTask(task) ==
  [task EXCEPT !.interval = CompleteInterval(@),
               !.method = IF @ = "" THEN "POST" ELSE @,
               !.max_duration = IF @ <= 0 THEN task.timeout ELSE @]

\* The map LoadFromFile builds from a file's definitions: of two with the same id
\* the later one stays.
TasksOf(file) ==
  [id \in {file[i].id : i \in DOMAIN file} |->
     CompleteTask(file[CHOOSE i \in DOMAIN file :
                         /\ file[i].id = id
                         /\ \A k \in DOMAIN file : file[k].id = id => k <= i])]

VARIABLE tasks  \* the map

\* NewTaskRegistry
Init == tasks = <<>>

\* LoadFromFile of a readable file, under the write lock.
LoadFromFile(file) ==
  IF \A i \in DOMAIN file : ValidTask(file[i])
    THEN tasks' = TasksOf(file)
    ELSE UNCHANGED tasks
=============================================================================
