SPECIFICATION Spec
CONSTANTS
  near = near
  far = far
  BytesNear = 2
  BytesFar = 1
  InFlightNear = 1
  InFlightFar = 1
  Endpoint = {near, far}
  StreamMode = {near, far}
  Mss = 2
  MTU = 2
  KCP_WND_RCV = 2
  SndWnd = 2
  RcvWndCfg = 0
  FastResend = 0
  Cwnd = {2}
  WriteSizes = {1, 4}
  Settles = FALSE
  Duplicating = TRUE
  MaxWrite <- MCMaxWrite
  MaxAcks = 1
  MaxInFlight <- MCMaxInFlight
  MaxFailures = 0
INVARIANTS
  WritesCovered
  ReleasedOnlyWhenHeld
PROPERTIES
  ImplementsStream
