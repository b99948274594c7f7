CONSTANTS
  Half = 4
  Roms <- MCRoms
  MaxBytes = 2
SPECIFICATION CoreSpec
CHECK_DEADLOCK FALSE
INVARIANTS
  WideIsExact
PROPERTIES
  ReturnsExactly
