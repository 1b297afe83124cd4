SPECIFICATION Spec
CONSTANTS
  v1 = v1
  v2 = v2
  a1 = a1
  a2 = a2
  Event = {v1, v2, a1, a2}
  Audio = {a1, a2}
  Confidence <- MCConfidence
  Policies = {"FIRST_WINS", "AUDIO_PRIORITY", "VISUAL_PRIORITY", "HIGHEST_CONFIDENCE"}
  Window = 2
  MaxPending = 1
  MaxTime = 11
PROPERTIES Deduplicates OpenEventAnswered
CHECK_DEADLOCK FALSE
