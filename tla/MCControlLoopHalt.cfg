SPECIFICATION Spec
CONSTANTS
  Action = {"move", "stop_all"}
  NoCommand = NoCommand
  MaxChunks = 2
  Horizon = 2
  Hold = TRUE
  Chunks <- MCChunks
  MaxStarts = 2
INVARIANT EmergencyStopHolds
CHECK_DEADLOCK FALSE
