SPECIFICATION FairSpec
CONSTANTS
  p1 = p1
  p2 = p2
  c1 = c1
  w = w
  Worker = w
  Producers = {p1, p2}
  Controllers = {c1}
  Settings <- Blocking
  MaxPending = 1
  Kinds <- PayloadAndBarrier
  ConditionRenotifies = TRUE
  AllowAbort = FALSE
  EmitBound = 3
  StartBound = 2
  NestBound = 2
INVARIANTS
  TypeOK
  NoStrandedBarrier
  NoLostSpaceWakeup
  StopReleasesProducers
  NoSleepingOnTheJob
  NothingLeftBehind
PROPERTIES
  StopAdmitsNothing
  CallsReturn
CHECK_DEADLOCK FALSE
