SPECIFICATION Spec
CONSTANTS
  j1 = j1  j2 = j2
  m1 = m1  m2 = m2  m3 = m3
  w1 = w1  w2 = w2
  p1 = p1  p2 = p2
  NoBody = NoBody
  NoMsg = NoMsg
  Jobs = {j1}
  Known <- OnlyFirst
  MsgIds = {m1}
  Workers = {w1}
  Pools = {p1}
  PoolOf <- SoloPool
  MaxDeliveries = 2
  AttemptCap = 1
  MaxHalts = 0
SYMMETRY Symmetry
INVARIANTS
  NotReadyJobStaysQueued
