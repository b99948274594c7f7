CONSTANTS
  FrameSteps <- MCFrameSteps
  LengthLoads <- MCLengthLoads
  InitialTicks = 1
  QuarterWrap = 1
  ApuBatches <- MCApuBatches
  InsnCycles <- MCInsnCycles
  AccessCycles <- MCAccessCycles
  EntryCycles = 3
  NmiDeadlines <- MCNmiDeadlines
SPECIFICATION MainSpec
INVARIANTS
  IrqWaitsOneInsn
  FrameIrqNotOverdue
