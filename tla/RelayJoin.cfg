SPECIFICATION FairSpec
CONSTANTS
    s1 = s1
    s2 = s2
    a1 = a1
    a2 = a2
    o1 = o1
    o2 = o2
    t1 = t1
    t2 = t2
    None = None
    Sessions <- OneSession
    Agents <- TwoAgents
    Operators <- OneOperator
    Targets <- TwoTargets
    Allowed <- AllowT1
    Capacity = 1
    MaxStreams = 1
    FrameKinds <- AllFrames
    Expiring <- OneSession
INVARIANTS
    TypeOK
    SingleUseCode
    SlotBelongsToServingTask
    StreamTableConsistent
    NoDataAfterClose
PROPERTIES
    LifecycleSpec
    DepartedAgentIsForgotten
    DepartedOperatorIsForgotten
CHECK_DEADLOCK FALSE
