SPECIFICATION SuperIoSpec
CONSTANTS
  Tools = {"gpio"}
  p1 = p1
  p2 = p2
  Proc = {p1, p2}
  Job <- Sessions
  Cell <- Registers
  PowerOn <- Contents
  Key = 135
  Chip <- FiftyChips
  Pin <- FiftyPins
  Command <- FiftyRuns
  Jumper <- NoJumpers
  BitsOn <- BitsLeft
  Found <- ScanChips
PROPERTIES OnlyItsGroup
