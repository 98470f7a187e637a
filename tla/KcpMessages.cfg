SPECIFICATION Spec
CONSTANTS
  near = near
  far = far
  BytesNear = 3
  BytesFar = 0
  InFlightNear = 2
  InFlightFar = 1
  Endpoint = {near, far}
  StreamMode = {}
  Mss = 1
  MTU = 1
  KCP_WND_RCV = 3
  SndWnd = 2
  RcvWndCfg = 1
  FastResend = 1
  Cwnd = {3}
  WriteSizes = {1, 2}
  Settles = FALSE
  Duplicating = TRUE
  MaxWrite <- MCMaxWrite
  MaxAcks = 1
  MaxInFlight <- MCMaxInFlight
  MaxFailures = 0
INVARIANTS
  SndBufOrdered
  RcvBufOrdered
  FullQueueReadable
PROPERTIES
  ImplementsStream
  UnaNeverBack
