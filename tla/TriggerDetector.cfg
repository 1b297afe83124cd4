\* A cooldown of more than two refractory periods, and samples that may be missing.
SPECIFICATION DetectorSpec
CONSTANTS
  SaccadeDuration = 2
  FixationDuration = 3
  RefractoryPeriod = 4
  HeartbeatCooldown = 10
  Intervals = {1, 2}
  MaxTime = 26
PROPERTIES WholeGesture WakesApart
CHECK_DEADLOCK FALSE
