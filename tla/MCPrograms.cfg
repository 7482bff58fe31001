SPECIFICATION FairStackSpec
CONSTANTS
  Cartridges <- Carts
  opcodes <- OpcodeTable
  PopsLowByteFirst = TRUE
  MaxCycles = 3000
  Inputs = {0, 1, 7, 10, 127, 128, 200, 255}
  Depths = {1, 2, 100, 126, 127, 128, 129, 160}
INVARIANTS
  ProgramsCompute
  StackHoldsPushed
PROPERTIES
  ReturnsToCaller
  Terminates
