SPECIFICATION BmcSpec
CONSTANTS
  p1 = p1
  p2 = p2
  Proc <- Procs
  Word <- Words
  Val <- Vals
  Own <- Own_
  Mem0 <- Mem0_
  Call <- Calls
  Regs0 <- Regs0_
  Cpu <- Cpus
  Chip7 <- Chips
  Input <- Inputs
  Volt <- Volts
  Test <- Tests
  Raw <- Raws
  Tjmax = 100
INVARIANTS IInv AnswersInv
PROPERTIES MemoryImplemented Ends ReadingNear
