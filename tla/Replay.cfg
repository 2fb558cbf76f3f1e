\* Late, reordered and repeated packets, of ended sessions too while the ring of retired
\* sessions forgets none; without those, more sessions than the ring remembers.
CONSTANTS
    Session = {s1, s2, s3, s4}
    NoSession = NoSession
    MaxSequence = 5
    WindowSize = 2
    RetiredSlots = 2
    LateRestarts = 2
SPECIFICATION Spec
SYMMETRY SessionSymmetry
CHECK_DEADLOCK FALSE
INVARIANTS
    NoRepeat
    FirstCopyAccepted
    SenderNotShutOut
