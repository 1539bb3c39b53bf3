SPECIFICATION TimesSpec
CONSTANTS
  NoTime = NoTime
  Zones <- Cities
  OffsetAt <- CityOffset
  EpochYear = 2024
  Second = 8
  HalfRange = 512
  MaxWindow = 60
  MaxCount = 5
  MaxAttempts = 14
  MaxBase = 40
  Bases <- MCBases
  Caps <- MCCaps
  Delays <- MCDelays
  Starts <- MCStarts
  Files <- MCFiles
  MaxPasses = 4
INVARIANTS
  Spread
  WithinEstimate
  DelaysAsConfigured
  TasksNotDueAgain
  TasksKeepCalendar
