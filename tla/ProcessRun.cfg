\* Two workers and one signal, with and without tunnel, stats sinks and duration.
CONSTANTS
    w1 = w1
    w2 = w2
    Workers = {w1, w2}
    MaxSignals = 1
    MaxResponses = 1
SPECIFICATION FairSpec
INVARIANTS
    GlobalMatchesWorkers
    FinalFlushMatchesReport
    ChildIsReaped
    CancellationReachesWorkers
PROPERTIES
    ShutdownCompletes
CHECK_DEADLOCK FALSE
