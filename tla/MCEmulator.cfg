SPECIFICATION EmulatorSpec
CONSTANTS
  Cartridges <- Roms
  Files <- AllFiles
  NoFile = NoFile
  BitFieldsFromLsb = TRUE
  ReadsCanFail = TRUE
  opcodes <- OpcodeTable
  PopsLowByteFirst = TRUE
  MaxCycles = 1000
  N = 5
INVARIANTS
  BusHasRom
PROPERTIES
  ImplementsCpu
  RunEnds
