SPECIFICATION FairSpec
CONSTANTS
  k1 = k1
  k2 = k2
  s1 = s1
  s2 = s2
  c1 = c1
  c2 = c2
  Stoppers = {k1, k2}
  Supervisors = {s1, s2}
  Connections = {c1, c2}
  Setups <- AllSetups
INVARIANTS
  TypeOK
  EverythingOwned
PROPERTIES
  StopLeavesNothing
  CallsReturn
  ClosedIsNoticed
CHECK_DEADLOCK FALSE
