CONSTANTS
    HighDepth = 2
    NormalDepth = 1
    BurstLimit = 1
    MaxPackets = 4
    Chunks = 2
    Frames = 4
    TransferIds = 4
    RxDepth = 2
    TunnelEnvironments <- MCEnvironments
SPECIFICATION FairTunnelSpec
CHECK_DEADLOCK FALSE
INVARIANTS
    NormalIsServed
    DeliveredInOrder
    ChunksStayTogether
PROPERTIES
    WholeTransfersArrive
    QueuesDrain
