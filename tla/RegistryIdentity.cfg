\* Three addresses for two slots: system ids that clash, serials that change,
\* approvals and removals, torn writes of the list.
CONSTANTS
    Mac = {m1, m2, m3}
    Serial = {s1, s2}
    SystemId = {i1, i2}
    None = None
    MaxNodes = 2
    MaxGeneration = 3
    Value <- ApprovalLists
    Default = {}
SPECIFICATION RegistrySpec
SYMMETRY RegistrySymmetry
INVARIANTS
    OnlyTrustedFeedTheBus
PROPERTIES
    ApprovalsNeverRollBack
    LaterNodeIsIsolated
