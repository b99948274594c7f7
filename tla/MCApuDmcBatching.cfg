CONSTANTS
  DmcRates <- MCDmcRates
  SampleBytes <- MCSampleBytes
  ByteBits = 2
  LevelMax = 3
  DmcBatches <- MCDmcBatches
  Never = 100
SPECIFICATION BatchLive
INVARIANTS
  IrqMeansSampleRead
  DmcSkippingIsExact
PROPERTIES
  DmcDeadlineHolds
  SampleEnds
