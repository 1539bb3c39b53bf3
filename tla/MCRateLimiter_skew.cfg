SPECIFICATION Spec
CONSTANTS
  c1 = c1  c2 = c2
  NoBucket = NoBucket
  Clients = {c1, c2}
  Limit = 3
  Window = 2
  Burst = 4
  Requests = {2}
  Skew = 1
  MaxDelay = 1
  MaxClock = 5
  MinTokens <- Lowest
  MaxResets = 0
SYMMETRY Symmetry
INVARIANTS
  IndInv
  BucketBound
PROPERTIES
  ImplementsBucket
