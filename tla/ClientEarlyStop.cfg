SPECIFICATION Spec
CONSTANTS
  k1 = k1
  k2 = k2
  s1 = s1
  s2 = s2
  c1 = c1
  c2 = c2
  Stoppers = {k1}
  Supervisors = {s1}
  Connections = {c1}
  Setups <- PlainSetups
PROPERTY
  ClosedBeforeStopReturns
CHECK_DEADLOCK FALSE
