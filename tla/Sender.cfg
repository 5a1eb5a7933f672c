SPECIFICATION FairSpec
CONSTANTS
  s1 = s1
  s2 = s2
  s3 = s3
  s4 = s4
  s5 = s5
  t1 = t1
  t2 = t2
  a = a
  b = b
  c = c
  Senders = {s1, s2, s3, s4, s5}
  Callers = {t1, t2}
  Keys = {a, b, c}
  MaxKeys = 2
  Interval = 2
  Setups <- AllSetups
PROPERTIES
  StopIsFinal
  SendsReturn
  LimiterKeepsPromise
CHECK_DEADLOCK FALSE
