SPECIFICATION FairSpec
CONSTANTS
  k1 = k1
  k2 = k2
  c1 = c1
  c2 = c2
  Stoppers = {k1, k2}
  Connections = {c1, c2}
  Setups <- AllSetups
INVARIANTS
  TypeOK
  EverythingOwned
  LimitKept
PROPERTIES
  StopLeavesNothing
  CallsReturn
  FailedSendsClose
CHECK_DEADLOCK FALSE
