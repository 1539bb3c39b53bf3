SPECIFICATION Spec
CONSTANTS
  s1 = s1  s2 = s2
  t1 = t1  t2 = t2
  u1 = u1  u2 = u2
  NoType = NoType
  Zones <- Cities
  OffsetAt <- CityOffset
  EpochYear = 2024
  NoTime = NoTime
  Schedulers = {s1, s2}
  Types = {t1}
  Users = {u1}
  Interval <- Hourly
  LeaderElection = TRUE
  Instants <- Once
  MaxFaults = 0
SYMMETRY Symmetry
INVARIANTS
  OneSchedulerProcessing
