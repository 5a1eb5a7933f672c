SPECIFICATION FairSpec
CONSTANTS
  k1 = k1
  k2 = k2
  Closers = {k1}
  Setups <- BothClose
  QueueBound = 1
  ReadBound = 1
  OtherBound = 0
  CloseBound = 2
PROPERTIES
  CloseReturns
CHECK_DEADLOCK FALSE
