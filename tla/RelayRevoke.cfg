SPECIFICATION FairSpec
CONSTANTS
    s1 = s1
    s2 = s2
    a1 = a1
    a2 = a2
    o1 = o1
    o2 = o2
    t1 = t1
    t2 = t2
    None = None
    Sessions <- OneSession
    Agents <- OneAgent
    Operators <- OneOperator
    Targets <- OneTarget
    Allowed <- AllowT1
    Capacity = 2
    MaxStreams = 1
    FrameKinds <- DataOnly
    Expiring <- NoSession
PROPERTY RevocationReachesAgent
CHECK_DEADLOCK FALSE
