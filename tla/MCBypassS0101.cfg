SPECIFICATION Spec
CONSTANTS
  Backend = "F71"
  Board = "plain"
  PairG <- S0101_PairG
  CfgG <- S0101_CfgG
  Sendbit <- S0101_Sendbit
  Bank <- Bank10
  Pull <- S0101_Pull
  PowerOn <- Uniform
  Req <- S0101_Req
  InitCfg <- InitCfgs
INVARIANTS DeliveredOnExit
PROPERTIES LatchOnlyRequested
