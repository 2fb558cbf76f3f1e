CONSTANTS
    Environments <- MCEnvironments
    QueueDepth = 1
    RpcCapacity = 2
    EscapeTimeout = 1
    SessionTimeout = 2
    DownloadWindow = 2
SPECIFICATION FairSpec
CHECK_DEADLOCK FALSE
INVARIANTS
    BytesInOrder
    EscapeRecognised
    LineHasOneUser
    TransferHasHost
PROPERTIES
    SessionEnds
    NothingHeldBack
