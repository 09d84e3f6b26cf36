SPECIFICATION SessionSpec
CONSTANTS
  Command = {1, 2}
  MaxSessions = 2
  MaxConnections = 2
  MaxActions = 1
  Window = 2
  Stride = 4
INVARIANTS FreshIds
PROPERTIES TrueOutcomes NoSilence ControlsReturn
CHECK_DEADLOCK FALSE
