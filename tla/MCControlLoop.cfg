SPECIFICATION Spec
CONSTANTS
  Action = {"move", "stop_all"}
  NoCommand = NoCommand
  MaxChunks = 2
  Horizon = 2
  Hold = TRUE
  Chunks <- MCChunks
  MaxStarts = 2
INVARIANTS OneLateCommand StopDiscards
PROPERTIES CommandsFaithful StopEnds
CHECK_DEADLOCK FALSE
