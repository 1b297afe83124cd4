SPECIFICATION MCSpec
CONSTANTS
    p1 = p1
    p2 = p2
    c1 = c1
    c2 = c2
    s1 = s1
    s2 = s2
    r1 = r1
    r2 = r2
    m1 = m1
    m2 = m2
    u1 = u1
    u2 = u2
    j1 = j1
    j2 = j2
    j3 = j3
    l1 = l1
    l2 = l2
    q1 = q1
    q2 = q2
    v1 = v1
    v2 = v2
    e1 = e1
    e2 = e2
    d1 = d1
    d2 = d2
    w1 = w1
    w2 = w2
    MicKinds <- MCMicKinds
    Pollers <- MCPollers
    Capacity = 2
    MaxFrames = 4
    TransportKinds <- MCTransportKinds
    Callers <- MCCallers
    MaxCalls = 4
    Sounds <- MCSounds
    NoSound = NoSound
    Registrars <- MCRegistrars
    Monitors <- MCMonitors
    NoMonitor = NoMonitor
    MaxRounds = 2
    Users <- MCUsers
    Jobs <- MCJobs
    Radio <- MCRadio
    NoLink = NoLink
    Chunks = 2
    MotionKinds <- MCMotionKinds
    Probes <- MCProbes
    MaxPose = 2
    MaxReads = 4
    NoPose = NoPose
    Servers <- MCServers
    NoServer = NoServer
    MaxPosts = 2
    MaxIosCalls = 4
    HeadsetKinds <- MCHeadsetKinds
    Posters <- MCPosters
    Readers <- MCReaders
    Sockets <- MCSockets
    FrameSlots = 1
    OutSlots = 1
    MaxSceneFrames = 2
    MaxChunks = 3
    MaxPhotos = 3
    Pieces = 3
    MaxKept = 8
    Signatures <- MCSignatures
    Confidence <- MCConfidence
    Absent = Absent
    Unknown = Unknown
    Counts <- MCCounts
SYMMETRY MCSymmetry
INVARIANTS AudioInOrder StateTold OneSound Watched SendWhole MotionConserved
           ReceiverSound FeedsKept PhotoWhole BestFound LevelFair
CHECK_DEADLOCK FALSE
