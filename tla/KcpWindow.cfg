SPECIFICATION Spec
CONSTANTS
  near = near
  far = far
  BytesNear = 3
  BytesFar = 0
  InFlightNear = 1
  InFlightFar = 1
  Endpoint = {near, far}
  StreamMode = {}
  Mss = 1
  MTU = 1
  KCP_WND_RCV = 2
  SndWnd = 2
  RcvWndCfg = 1
  FastResend = 0
  Cwnd = {1, 2}
  WriteSizes = {1}
  Settles = FALSE
  Duplicating = TRUE
  MaxWrite <- MCMaxWrite
  MaxAcks = 2
  MaxInFlight <- MCMaxInFlight
  MaxFailures = 1
INVARIANTS
  TypeOK
  NothingStranded
  InOrder
  ReleasedOnlyWhenHeld
