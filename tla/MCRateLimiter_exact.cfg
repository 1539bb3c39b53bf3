SPECIFICATION Spec
CONSTANTS
  c1 = c1  c2 = c2
  NoBucket = NoBucket
  Clients = {c1, c2}
  Limit = 2
  Window = 1
  Burst = 3
  Requests = {1, 3}
  Skew = 0
  MaxDelay = 0
  MaxClock = 7
  MinTokens <- Lowest
  MaxResets = 1
SYMMETRY Symmetry
INVARIANTS
  TotalBound
PROPERTIES
  RefusedOnlyWhileRefilling
  ImplementsBucket
