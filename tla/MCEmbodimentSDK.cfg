SPECIFICATION Spec
CONSTANTS
  r1 = r1
  c1 = c1
  c2 = c2
  Response = {r1}
  Handler = {c1, c2}
  MaxHandlers = 2
  NumTransports = 2
  MaxStarts = 2
  Setups <- MCSetups
INVARIANTS ListenerNeedsHals CallbacksReached
PROPERTIES StopHolds
CHECK_DEADLOCK FALSE
