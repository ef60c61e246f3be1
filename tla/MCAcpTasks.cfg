SPECIFICATION FairSpec
CONSTANTS
  v1 = v1
  v2 = v2
  w1 = w1
  w2 = w2
  k1 = k1
  k2 = k2
  s1 = s1
  Server = {v1, v2}
  Worker = {w1, w2}
  ServerOf <- OneEach
  Key = {k1, k2}
  Session = {s1}
  SessionOf <- SameSession
  NoHolder = NoHolder
  NoKey = NoKey
  TaskMaxActive = 2
  TaskConcurrency = 2
  MaxFaults = 1
CHECK_DEADLOCK FALSE
INVARIANTS
  RunsOnce
  SessionExclusive
PROPERTIES
  LiveOwnerKept
  ImplementsReceipts
  TasksSettle
