SPECIFICATION ServiceFairSpec
CONSTANTS
  j1 = j1  j2 = j2
  m1 = m1  m2 = m2
  w1 = w1  w2 = w2
  p1 = p1
  NoBody = NoBody
  NoMsg = NoMsg
  Jobs = {j1, j2}
  Known <- OnlyFirst
  MsgIds = {m1}
  Workers = {w1, w2}
  Pools = {p1}
  PoolOf <- OnePool
  MaxDeliveries = 3
  AttemptCap = 2
  MaxHalts = 2
INVARIANTS
  ServiceInv
  NoWorkAfterClose
PROPERTIES
  ShutdownCompletes
  MessagesSettle
