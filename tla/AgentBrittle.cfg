SPECIFICATION Spec
CONSTANTS
    i1 = i1
    i2 = i2
    t1 = t1
    t2 = t2
    None = None
    Streams <- OneStream
    Targets <- AllTargets
    Exposed <- ExposedT1
    Capacity = 1
    MaxData = 2
INVARIANT EndsOnlyWithRelay
CHECK_DEADLOCK FALSE
