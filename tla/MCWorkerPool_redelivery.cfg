SPECIFICATION Spec
CONSTANTS
  j1 = j1  j2 = j2
  m1 = m1  m2 = m2  m3 = m3
  w1 = w1  w2 = w2
  p1 = p1  p2 = p2
  NoBody = NoBody
  NoMsg = NoMsg
  Jobs = {j1, j2}
  Known <- OnlyFirst
  MsgIds = {m1, m2, m3}
  Workers = {w1, w2}
  Pools = {p1, p2}
  PoolOf <- TwoPools
  MaxDeliveries = 2
  AttemptCap = 2
  MaxHalts = 1
CONSTRAINT OneJobScheduled
SYMMETRY TwoPoolsSymmetry
INVARIANTS
  IndInv
  TypeOK
  NoJobVanishes
  OneRetryPerFailedRun
PROPERTIES
  OneRunPerDelivery
  DeliversJobs
