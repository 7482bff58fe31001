SPECIFICATION BusSpec
CONSTANTS
  Cartridges <- Carts
  Addresses <- Borders
  Values = {0, 1, 255}
INVARIANTS
  BusTypeOK
PROPERTIES
  ImplementsMemory
