SPECIFICATION Spec
CONSTANTS
  Backend = "PCH"
  Board = "S0961"
  PairG <- S0961_PairG
  CfgG <- S0961_CfgG
  Sendbit <- S0961_Sendbit
  Bank <- Bank32
  Pull <- S0961_Pull
  PowerOn <- S0961_PowerOn
  Req <- S0961_Req
  InitCfg <- InitCfgs
INVARIANTS DeliveredOnExit
PROPERTIES OnlyOwnLines
