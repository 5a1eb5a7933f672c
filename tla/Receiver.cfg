SPECIFICATION FairSpec
CONSTANTS
  k1 = k1
  k2 = k2
  Stoppers = {k1, k2}
  Setups <- AllSetups
  QueueBound = 1
  StartBound = 2
  DatagramBound = 1
  StopBound = 3
INVARIANTS
  TypeOK
  StoppedHoldsNothing
  ToldInOrder
PROPERTIES
  StopLeavesStopped
  CallsReturn
CHECK_DEADLOCK FALSE
