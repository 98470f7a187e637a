SPECIFICATION Spec
CONSTANTS
  Session = {s1, s2}
  Client = {s1, s2}
  ClientOf <- OwnAddress
  U32Max = 3
  MaxOffer = 0
CHECK_DEADLOCK FALSE
INVARIANTS
  MainEndClosesUdp
