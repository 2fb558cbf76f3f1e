\* Uploads over USB and the trial of the new image; the times keep their order
\* (lease < watchdog < window < deadline = 2 * window).
CONSTANTS
    Size = 2
    Window = 6
    Lease = 2
    Deadline = 12
    Watchdog = 3
    Refusals = 1
SPECIFICATION FairSpec
INVARIANTS
    RunsCheckedImage
PROPERTIES
    ConfirmIsJustified
    RollbackIsJustified
    TrialEnds
