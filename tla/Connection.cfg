SPECIFICATION Spec
CONSTANTS
  k1 = k1
  k2 = k2
  Closers = {k1, k2}
  Setups <- AllSetups
  QueueBound = 2
  ReadBound = 2
  OtherBound = 1
  CloseBound = 3
SYMMETRY CloserSymmetry
INVARIANTS
  TypeOK
  SequentialDispatch
  OpenedFirstClosedLast
  ClosedPublishedOnce
  ExternalCloseObservesClosed
CHECK_DEADLOCK FALSE
