CONSTANTS
  Word = 268435456
  Formats <- MCFormats
  Images <- MCImages
  Drawn <- MCDrawn
  Bytes <- MCBytes
  Loads <- MCLoads
  Tiles = 4
  Low = 8
  PalAt = 4
  PalSize = 8
  PalUniq = 2
  PortBytes <- MCPortBytes
  MaxRun = 2
SPECIFICATION Spec
CHECK_DEADLOCK FALSE
INVARIANTS
  LoaderFindsImage
  LookupIsExact
  WindowsInMemory
  MapsFollowRegisters
  AddressIsSet
PROPERTIES
  PortSpec
  AddressesFollowMap
