SPECIFICATION ToolsSpec
CONSTANTS
  File <- Files
  Times <- Rounds
  Bank0 <- Banks
  Seconds <- Seconds_
  MaxTick <- MaxTicks
  PowerOn <- Watchdogs
  Page <- Pages
  Index <- Indices
  Val <- Vals
  Call <- EcCalls
  Rows <- Rows_
  Measured <- Inputs
  Limit <- Limits
  Address <- Addresses
  Value <- LedValues
  Funcs <- Abilities
  Bunch = 3
  Name <- Names
  MaxEntry = 6
  Asked <- Wanted
INVARIANTS IInv StatusTells WdtInv NotEarly EcInv SampleInv ErrorsMarked LedInv BussesInv LookupTells Leftovers
PROPERTIES TestImplemented FailureStops
CHECK_DEADLOCK FALSE
