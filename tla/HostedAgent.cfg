SPECIFICATION FairSpec
CONSTANTS
    p1 = p1
    p2 = p2
    j1 = j1
    w1 = w1
    v1 = v1
    v2 = v2
    Torn = Torn
    None = None
    Publishers <- BothPublishers
    NoSudo <- OneWithoutSudo
    Joiners <- OneJoiner
    Workdirs <- OneWorkdir
    Workdir <- WorkdirOfJoiner
    Builds <- TwoBuilds
    MaxRebuilds = 1
    Downloads = 2
INVARIANT TypeOK
INVARIANT RunsOnlyPublished
INVARIANT NoFalseMismatch
PROPERTY PublishRepairs
PROPERTY JoinEnds
CHECK_DEADLOCK FALSE
