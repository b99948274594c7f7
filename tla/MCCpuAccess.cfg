CONSTANTS
  Deadlines <- MCDeadlines
  Fixed <- MCFixed
  EntryCycles = 7
  DmaCycles = 512
SPECIFICATION Spec
INVARIANTS
  CyclesAreDocumented
PROPERTIES
  DeviceSeesItsCycle
