SPECIFICATION FairSpec
CONSTANTS
    d1 = d1
    d2 = d2
    b1 = b1
    b2 = b2
    Empty = Empty
    Torn = Torn
    None = None
    Deployers <- TwoDeployers
    Requests <- FirstAndSecond
    Builds <- TwoBuilds
    Envs <- SomeEnvs
    Certs <- GoodCert
    Binds <- FreeOrTaken
    MaxEvents = 1
INVARIANT TypeOK
INVARIANT DeployedIsRunning
PROPERTY AcceptedUnitsStart
PROPERTY StatusOkIsTrue
PROPERTY DeployEndures
CHECK_DEADLOCK FALSE
