SPECIFICATION FairSpec
CONSTANTS
  Reader = {r1, r2}
  Relocking = {r1}
  Writer = {w}
  Updater = {u1}
  MaxInput = 2
INVARIANTS
  TypeOK
  NeverSleepsOnMessage
  DrainedBeforeBroken
PROPERTIES
  AcksFlushed
  MessagesRead
