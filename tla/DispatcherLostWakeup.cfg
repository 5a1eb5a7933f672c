SPECIFICATION FairSpec
CONSTANTS
  p1 = p1
  p2 = p2
  c1 = c1
  w = w
  Worker = w
  Producers = {p1, p2}
  Controllers = {c1}
  Settings <- Plainest
  MaxPending = 1
  Kinds <- PayloadOnly
  ConditionRenotifies = FALSE
  AllowAbort = FALSE
  EmitBound = 4
  StartBound = 1
  NestBound = 1
PROPERTIES
  BlockedProducersReturn
CHECK_DEADLOCK FALSE
