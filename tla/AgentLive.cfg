SPECIFICATION FairSpec
CONSTANTS
    i1 = i1
    i2 = i2
    t1 = t1
    t2 = t2
    None = None
    Streams <- TwoStreams
    Targets <- AllTargets
    Exposed <- ExposedT1
    Capacity = 1
    MaxData = 3
INVARIANT TypeOK
INVARIANT NothingAfterClose
INVARIANT DataInOrder
INVARIANT CloseLosesNothing
PROPERTY ClosedStreamEnds
PROPERTY GoneTargetIsReported
PROPERTY LostRelayStopsAgent
CHECK_DEADLOCK FALSE
ACTION_CONSTRAINT SecondIsRefused
