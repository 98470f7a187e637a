SPECIFICATION FairSpec
CONSTANTS
  Session = {s1, s2}
  Client = {s1, s2}
  ClientOf <- OwnAddress
  U32Max = 3
  MaxOffer = 2
CONSTRAINT AskOrBegin
CHECK_DEADLOCK FALSE
INVARIANTS
  TypeOK
  NoDeadEntry
  NumbersApart
  RunningRegistered
  ClosesOwnUdp
PROPERTIES
  MainEndEndsUdp
  RunningUpdated
