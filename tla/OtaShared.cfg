\* A request of the web server beside an idle USB session.
CONSTANTS
    Size = 2
    Window = 6
    Lease = 2
    Deadline = 12
    Watchdog = 3
    Refusals = 1
SPECIFICATION ContentionSpec
INVARIANTS
    UploadFailsForCause
