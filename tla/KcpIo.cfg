SPECIFICATION FairSpec
CONSTANTS
  Sizes = {0, 1, 2, 3}
  BufSizes = {1, 2}
  MaxMessages = 3
INVARIANTS
  TypeOK
  SleepsOnlyWhenEmpty
PROPERTIES
  ImplementsByteStream
  BytesRead
