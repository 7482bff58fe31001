SPECIFICATION BusSpec
CONSTANTS
  Cartridges <- Carts
  Addresses <- AllBorders
  Values = {0, 1, 255}
INVARIANTS
  RomIsMirrored
