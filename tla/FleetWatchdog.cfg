CONSTANTS
    Node = {n1}
    Root = root
    Value = {net0, net1}
    Default = net0
    Retry = FALSE
    Plans <- WatchdogPlans
SPECIFICATION Spec
SYMMETRY NodeSymmetry
CHECK_DEADLOCK FALSE
PROPERTIES
    RootKeepsPace
