CONSTANTS
    Node = {n1, n2}
    Root = root
    Value = {net0, net1, net2}
    Default = net0
    Retry = FALSE
    Plans <- MCPlans
SPECIFICATION Spec
SYMMETRY NodeSymmetry
CHECK_DEADLOCK FALSE
INVARIANTS
    CommitFollowsPrepare
    AcknowledgedIsStored
PROPERTIES
    OnlyDecidedActivates
