SPECIFICATION FairSpec
CONSTANTS
  Reader = {r}
  Relocking = {}
  Writer = {w}
  Updater = {u1}
  MaxInput = 2
PROPERTIES
  BrokenPipeTold
