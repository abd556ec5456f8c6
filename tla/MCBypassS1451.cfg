SPECIFICATION Spec
CONSTANTS
  Backend = "AST"
  Board = "S1451"
  PairG <- S1451_PairG
  CfgG <- S1451_CfgG
  Sendbit <- S1451_Sendbit
  Bank <- Bank32
  Pull <- S1451_Pull
  PowerOn <- Uniform
  Req <- S1451_Req
  InitCfg <- InitCfgs
INVARIANTS IInv
PROPERTIES BypassAbstract
