CONSTANTS
  Ports <- MCPorts
  Order <- MCOrder
  Opposite <- MCOpposite
  Binding <- MCBinding
  Stray <- MCStray
  Quit = "quit"
  Unbound = "delete"
  Merged <- MCMerged
  UnboundMoves <- MCUnboundMoves
  Unknown = Unknown
  KeyTtl = 2
  BufKeys <- MCBufKeys
  AlarmKeys <- MCAlarmKeys
  MaxQueue = 2
  MaxSignals = 2
SPECIFICATION SessionSpec
CHECK_DEADLOCK FALSE
INVARIANTS
  ReportIsHeld
  TerminalRestored
  ReleasedOnce
PROPERTIES
  QuitIsHonoured
