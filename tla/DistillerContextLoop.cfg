\* Two calls of start(), two handlers in flight, a cooldown of one tick.
SPECIFICATION Spec
CONSTANTS
    Nobody = Nobody
    Loops = {l1, l2}
    Handlers = {h1, h2}
    MinTicks = 0
    CoolTicks = 1
INVARIANTS OneLateTrigger
PROPERTIES CooldownHolds TriggersServed
CHECK_DEADLOCK FALSE
