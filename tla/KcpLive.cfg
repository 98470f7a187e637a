SPECIFICATION FairSpec
CONSTANTS
  near = near
  far = far
  BytesNear = 3
  BytesFar = 0
  InFlightNear = 1
  InFlightFar = 1
  Endpoint = {near, far}
  StreamMode = {}
  Mss = 1
  MTU = 4
  KCP_WND_RCV = 2
  SndWnd = 2
  RcvWndCfg = 0
  FastResend = 0
  Cwnd = {1}
  WriteSizes = {1}
  Settles = TRUE
  Duplicating = FALSE
  MaxWrite <- MCMaxWrite
  MaxAcks = 1
  MaxInFlight <- MCMaxInFlight
  MaxFailures = 0
PROPERTIES
  EventuallyRead
