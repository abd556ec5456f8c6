SPECIFICATION Spec
CONSTANTS
  p1 = p1
  p2 = p2
  Proc <- Procs
  Pin <- Pins_
  Command <- Commands
  PowerOn <- PowerOns
INVARIANTS IInv
PROPERTIES DoneAsAsked NeighboursKept PinsImplemented
