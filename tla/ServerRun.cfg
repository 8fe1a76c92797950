CONSTANTS
    Requests = {r1, r2}
    Configs <- MCConfigs
    Startup <- MCStartup
    MaxTime = 3
    UInt64 = 1000
SPECIFICATION Spec
INVARIANTS
    DelayFollowsLoad
    ReportedDeltasAreGaps
    AnsweredByItsOwnConfig
CHECK_DEADLOCK FALSE
