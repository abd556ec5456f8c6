SPECIFICATION Spec
CONSTANTS
  Pairs <- S0211_Pairs
  Pull <- S0211_Pull
  Fault <- Faults
  PowerOn <- PowerOns
INVARIANTS PassSound FailSound
