SPECIFICATION Spec
CONSTANTS
  M = 256
  Start = 110
  Intervals = {0, 2}
  Period = 1
  Step = 1
  SlapMax = 15
  rx_rto = 9
  MaxDelay = 1
  MaxAhead = 1
  MaxFailures = 1
  MaxTime = 21
INVARIANTS
  TypeOK
  FlushedInTime
  
PROPERTIES
  NotResentEarly
