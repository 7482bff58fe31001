SPECIFICATION Spec
CONSTANTS
  Cartridges <- Carts
  opcodes <- OpcodeTable
  PopsLowByteFirst = TRUE
  MaxCycles = 66
PROPERTIES
  BranchTiming
