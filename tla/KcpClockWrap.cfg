SPECIFICATION Spec
CONSTANTS
  M = 64
  Start = 58
  Intervals = {0, 2}
  Period = 1
  Step = 1
  SlapMax = 15
  rx_rto = 9
  MaxDelay = 1
  MaxAhead = 1
  MaxFailures = 0
  MaxTime = 20
INVARIANTS
  FlushedInTime
