SPECIFICATION StackSpec
CONSTANTS
  Cartridges <- Carts
  opcodes <- OpcodeTable
  PopsLowByteFirst = TRUE
  MaxCycles = 70
  ProgramLength = 3
INVARIANTS
  StackHoldsPushed
PROPERTIES
  Lifo
  ReturnsToCaller
