SPECIFICATION Spec
CONSTANTS
  Backend = "PCH"
  Board = "plain"
  PairG <- S0361_PairG
  CfgG <- S0361_CfgG
  Sendbit <- S0361_Sendbit
  Bank <- Bank32
  Pull <- S0361_Pull
  PowerOn <- S0361_PowerOn
  Req <- PairTwo_Req
  InitCfg <- InitCfgs
INVARIANTS PairCommentEncoding
