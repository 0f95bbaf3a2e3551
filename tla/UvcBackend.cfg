CONSTANTS
  Callers = {"client"}
  MaxCommands = 6
  MaxStarts = 1
  MaxInspections = 2
  MaxReads = 2
SPECIFICATION BackendSpec
INVARIANTS RecaptureFindsStream SettledStream BalancedLifetime
PROPERTIES FreshFrames OneReadAtATime CloseReturns
CHECK_DEADLOCK FALSE
