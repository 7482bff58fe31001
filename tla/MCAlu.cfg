SPECIFICATION Spec
CONSTANTS
  Cartridges <- Carts
  opcodes <- OpcodeTable
  PopsLowByteFirst = TRUE
  MaxCycles = 60000
  Operands = {0, 1, 127, 128, 129, 255}
PROPERTIES
  SignedArithmetic
  CombinedComputes
