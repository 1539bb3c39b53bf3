SPECIFICATION TimesSpec
CONSTANTS
  NoTime = NoTime
  Zones <- Cities
  OffsetAt <- CityOffset
  EpochYear = 2024
  Second = 8
  HalfRange = 512
  MaxWindow = 0
  MaxCount = 1
  MaxAttempts = 1
  MaxBase = 1
  Bases <- MCBases
  Caps <- MCCaps
  Delays <- MCDelays
  Starts <- SameDayStarts
  Files <- SameDayFiles
  MaxPasses = 4
INVARIANTS
  NextOnSameDay
