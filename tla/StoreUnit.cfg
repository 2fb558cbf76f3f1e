\* Staged generations follow the node's own; an interrupted write may destroy
\* the record it replaces.
CONSTANTS
    Value = {off, net1, net2}
    Default = off
    MaxGeneration = 5
    Jumps <- UnitJumps
    TornWrites = TRUE
SPECIFICATION Spec
INVARIANTS
    ActiveIsDurable
PROPERTIES
    StoreIsAtomic
