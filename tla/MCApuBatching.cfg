CONSTANTS
  FrameSteps <- MCFrameSteps
  LengthLoads <- MCLengthLoads
  InitialTicks = 1
  QuarterWrap = 4
  ApuBatches <- MCApuBatches
SPECIFICATION BatchSpec
INVARIANTS
  DisabledIsSilent
  SilencedStaysSilent
  SkippingIsExact
PROPERTIES
  NoOvershoot
