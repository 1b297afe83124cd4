SPECIFICATION MCSpec
CONSTANTS
    t1 = t1
    t2 = t2
    glasses = glasses
    spare = spare
    robot = robot
    c1 = c1
    c2 = c2
    r1 = r1
    k1 = k1
    k2 = k2
    h1 = h1
    h2 = h2
    m1 = m1
    m2 = m2
    Threads <- MCThreads
    WindowSize = 1
    MaxSends = 4
    Handles <- MCHandles
    DeviceId <- MCDeviceId
    Capabilities <- MCCapabilities
    Clients <- MCClients
    Routers <- MCRouters
    MaxSlots = 3
    Hole = Hole
    Nothing = Nothing
    Body <- MCBody
    MaxLength = 3
    Calls <- MCCalls
    Senders <- MCSenders
    MaxLoads = 4
    Message <- MCMessages
    Key <- MCKey
    Chunks <- MCChunks
    FieldSize = 4
    Timeout = 2
    MaxCopies <- MCCopies
    MaxTime = 4
    NoPacket = NoPacket
INVARIANTS StatsKept SuccessReached RouteExact InStep FileOwned LoadedHasModel
           Reassembly
CHECK_DEADLOCK FALSE
