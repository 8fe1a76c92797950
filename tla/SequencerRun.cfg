\* Every idle strategy, with and without a duration, and a target that may report back at once.
CONSTANTS
    Duration = 2
    FailureLimit = 1
    SuccessLimit = 2
    SyncTarget = TRUE
    MaxClock = 4
    MaxInFlight = 2
SPECIFICATION FairSpec
INVARIANTS
    StopIsComplete
    AcquisitionsAccountedFor
PROPERTIES
    FailureIsNotMasked
    ImplementsLoadExecution
    Terminates
CHECK_DEADLOCK FALSE
