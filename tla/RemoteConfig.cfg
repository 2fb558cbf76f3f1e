CONSTANTS
    Serial = {s1}
    Password = {p1, p2}
    NoSerial = noserial
    None = none
    Invalid = invalid
    Value <- Configurations
    Default <- FirstDefaults
    Faults = {"torn", "damage", "write", "erase"}
    MaxGeneration = 3
    Editors = {web}
    Environments <- NodeEnvironments
SPECIFICATION NodeSpec
CHECK_DEADLOCK FALSE
INVARIANTS
    CredentialsKept
    RunningIsStored
    ReportedIsDurable
PROPERTIES
    ReportedIsCurrent
