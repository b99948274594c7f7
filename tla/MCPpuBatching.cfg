CONSTANTS
  CyclesPerLine = 8
  PostRenderLine = 1
  PreRenderLine = 4
  OddSkipDot = 5
  Batches <- MCBatches
SPECIFICATION BatchSpec
INVARIANTS
  RaceMarkIsFresh
  ShownOncePerFrame
  DeadlineCoversVblank
  BatchingIsInvisible
