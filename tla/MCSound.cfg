CONSTANTS
  Periods <- MCPeriods
  MinTimerPeriod = 2
  MaxPeriod = 4
  DutySteps = 2
  DutyHigh = {0}
  TriangleSteps = 2
  NoiseBits = 3
  NoisePeriods <- MCNoisePeriods
  MaxDecay = 2
  OnesComplement = TRUE
  Switches <- MCSwitches
  Controls <- MCControls
  Sweeps <- MCSweeps
  Linears <- MCLinears
  LengthLoads <- MCLengthLoads
  SampleRate = 2
  ClockRate = 7
  ToneBatches <- MCToneBatches
  MaxEvents = 2
  BufSamples = 2
  MaxFailures = 1
  SampleBatch = 2
  PipeBatches = 2
  UnitsPerSec = 6
  AudioRate = 2
  Batch = 1
  MaxDrift = 8
  Rebuffer = 5
  Word = 128
  Between <- MCBetween
  Overslept <- MCOverslept
  MaxOverflows = 2
SPECIFICATION SoundSpec
INVARIANTS
  CachesAreFresh
  BufferIsFree
  PaceIsKept
PROPERTIES
  StepIsExact
  PushReturns
