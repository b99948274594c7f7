CONSTANTS
  CyclesPerLine = 8
  PostRenderLine = 6
  PreRenderLine = 11
  OddSkipDot = 6
  Batches <- MCBatches
  InsnCycles <- MCInsnCycles
  AccessCycles <- MCAccessCycles
  RestCycles <- MCRestCycles
  EntryCycles = 3
  DmaBytes = 3
  OamZeroBegin = 5
  OamZeroEnd = 5
  IrqDeadlines <- MCIrqDeadlines
SPECIFICATION CpuLive
INVARIANTS
  NeverOverdue
PROPERTIES
  NmiLineSpec
  NmiIsEntered
