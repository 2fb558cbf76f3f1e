CONSTANTS
    Units = {"air", "ground"}
    VehicleSide <- MCVehicleSide
    MaxEndpoints = 16
    DedupEntries = 2
    DedupWindow = 2
    Slots = {1, 2}
    UdpSlots = {1, 2}
    Links = {1, 2, 3}
    QueueDepth = 2
    Batch = 2
    Window = 2
    Backlog = 2
    MaxAttempts = 1
    Environments <- MCEnvironments
SPECIFICATION FairSpec
CHECK_DEADLOCK FALSE
INVARIANTS
    RepeatsHeldBack
    FramesInOrder
    ClientsAreAlive
    QueueOfThisConnection
PROPERTIES
    DisarmedByAutopilot
    BridgeRecovers
