SPECIFICATION FairSpec
CONSTANTS
    r1 = r1
    r2 = r2
    l1 = l1
    good = good
    port = port
    Dynamic = Dynamic
    ssh = ssh
    rdp = rdp
    t1 = t1
    t2 = t2
    None = None
    Rks <- TwoRks
    Commands <- WaitAndOther
    Logins <- OneLogin
    Tokens <- TwoTokens
    RelayToken = good
    NoToken = NoToken
    Empty = Empty
    Torn = Torn
    Ports <- AllPorts
    Names <- SshRdp
    Targets <- TwoTargets
    Wait = 3
    Poll = 2
INVARIANT TypeOK
INVARIANT NoFalseTimeout
INVARIANT WaitSawItsAgent
INVARIANT PortLostToAnother
INVARIANT UnreadableOnlyByInterruption
INVARIANT JoinCommandUsable
PROPERTY WaitingEnds
CHECK_DEADLOCK FALSE
