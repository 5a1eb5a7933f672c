SPECIFICATION FairSpec
CONSTANTS
  k1 = k1
  k2 = k2
  s1 = s1
  s2 = s2
  c1 = c1
  c2 = c2
  Stoppers = {}
  Supervisors = {s1}
  Connections = {c1}
  Setups <- SelfEnding
PROPERTIES
  HandlerStopReturns
CHECK_DEADLOCK FALSE
