SPECIFICATION Spec
CONSTANTS
  p1 = p1
  p2 = p2
  c1 = c1
  w = w
  Worker = w
  Producers = {p1, p2}
  Controllers = {c1}
  Settings <- Dropping
  MaxPending = 2
  Kinds <- AllKinds
  ConditionRenotifies = FALSE
  AllowAbort = TRUE
  EmitBound = 3
  StartBound = 1
  NestBound = 2
SYMMETRY ProducerSymmetry
INVARIANTS
  QueueBounded
  EveryEmitAccountedFor
  BarrierTellsTheTruth
  NoLostContextWakeup
  WorkerNeverWaitsOnItself
PROPERTIES
  ImplementsMailbox
CHECK_DEADLOCK FALSE
