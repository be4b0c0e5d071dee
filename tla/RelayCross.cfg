SPECIFICATION Spec
CONSTANTS
    s1 = s1
    s2 = s2
    a1 = a1
    a2 = a2
    o1 = o1
    o2 = o2
    t1 = t1
    t2 = t2
    None = None
    Sessions <- TwoSessions
    Agents <- TwoAgents
    Operators <- TwoOperators
    Targets <- OneTarget
    Allowed <- AllowT1
    Capacity = 1
    MaxStreams = 2
    FrameKinds <- DataOnly
    Expiring <- NoSession
SYMMETRY SessionsToo
CONSTRAINT OneIncident
INVARIANTS
    OpenPrecedesTraffic
    TrafficStaysInSession
CHECK_DEADLOCK FALSE
