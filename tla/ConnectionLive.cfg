SPECIFICATION FairSpec
CONSTANTS
  k1 = k1
  k2 = k2
  Closers = {k1, k2}
  Setups <- ClosingSetups
  QueueBound = 1
  ReadBound = 2
  OtherBound = 1
  CloseBound = 3
PROPERTIES
  CallsReturn
  ClosedEventually
CHECK_DEADLOCK FALSE
