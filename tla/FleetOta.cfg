CONSTANTS
    Nodes = 2
    Layer <- Chain
    WindowChunks = 2
    TotalChunks = 3
    Environments <- FleetEnvironments
SPECIFICATION FairFleetSpec
CHECK_DEADLOCK FALSE
INVARIANTS
    ImageInOrder
    AllVerifyFirst
PROPERTIES
    LossIsRepaired
    OtaEnds
