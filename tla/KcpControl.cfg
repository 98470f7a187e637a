SPECIFICATION Spec
CONSTANTS
  None = None
  Configs <- SomeConfigs
  Rtts = {0, 9, 70000}
  Wnds = {0, 1, 5}
  MaxMeasures = 2
INVARIANTS
  TypeOK
  IncrMatchesCwnd
  WindowOpens
  RtoCoversRtt
PROPERTIES
  GrowthNeverStalls
