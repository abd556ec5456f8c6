SPECIFICATION SuperIoSpec
CONSTANTS
  Tools = {"gpio", "ports", "scan"}
  p1 = p1
  p2 = p2
  Proc = {p1, p2}
  Job <- Sessions
  Cell <- Registers
  PowerOn <- Contents
  Key = 135
  Chip <- Chips
  Pin <- ChipPins
  Command <- Runs
  Jumper <- Jumpers
  BitsOn <- BitsLeft
  Found <- ScanChips
INVARIANTS IInv PinsInv LoopbackTells ScanInv
PROPERTIES RegsImplemented OthersKept
