SPECIFICATION LoaderSpec
CONSTANTS
  Cartridges <- LoadableRoms
  Files <- AllFiles
  NoFile = NoFile
  BitFieldsFromLsb = TRUE
  ReadsCanFail = TRUE
  Flags6 = {0, 1, 4, 8, 32, 37, 65, 128}
INVARIANTS
  LoaderTypeOK
  ReleasesAll
PROPERTIES
  LoadsAtomically
