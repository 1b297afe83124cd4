SPECIFICATION Spec
CONSTANTS
  m1 = m1
  m2 = m2
  None = None
  Mac = {m1, m2}
  Named = {m1}
  HourLength = 2
  HoursPerDay = 3
  WindowsNeeded = 1
  Lighter = 76
  Entity <- MCEntity
  HalfLife <- MCHalfLife
  Sound <- MCSound
  View <- MCView
  Setups <- MCSetups
  BleConfidence = 90
  BleInterval = 1
  AudioInterval = 2
  CameraInterval = 2
  ReportInterval = 3
  MinBaselineScans = 2
  PatternHours = 1
  CycleTicks = {1, 2}
  MaxTime = 3
  MaxSessions = 2

PROPERTIES DaemonSurvives
CHECK_DEADLOCK FALSE
