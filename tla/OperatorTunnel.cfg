SPECIFICATION FairSpec
CONSTANTS
    b1 = b1
    Bridges <- OneBridge
    Server <- HttpsServer
    Pinned = TRUE
    MaxUp = 3
    MaxDown = 3
    WireCapacity = 1
    LocalCapacity = 1
INVARIANT TypeOK
PROPERTY UpIsPipe
PROPERTY DownIsPipe
PROPERTY EndsForACause
PROPERTY RelayEndEndsBridge
PROPERTY LocalEofReachesRelay
CHECK_DEADLOCK FALSE
