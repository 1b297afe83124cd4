SPECIFICATION Spec
CONSTANTS
  e1 = e1
  e2 = e2
  Event = {e1, e2}
  h1 = h1
  h2 = h2
  Hook = {h1, h2}
  NoHook = NoHook
  MaxRuns = 2
  MaxHooks = 2
  ConcurrentTriggers = 1
  NumTransports = 2
  Setups <- MCSetups
INVARIANTS PermitsAccounted StageHooksComplete AtMostOneDelivery
PROPERTIES RunsFinish
CHECK_DEADLOCK FALSE
