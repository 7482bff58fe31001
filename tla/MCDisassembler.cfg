SPECIFICATION WalkSpec
CONSTANTS
  Cartridges <- Carts
  opcodes <- OpcodeTable
INVARIANTS
  LineIsExact
  RomIsListedApart
PROPERTIES
  ListingAscends
