\* The constants of the stack with bursts; the others are in MCRateLimiterStack.
CONSTANTS
    Pacing = "linear"
    Interval = 3
    RampTime = 1
    StartTime = 2
    BurstSize = 3
    JitterMax = 0
    MaxTime = 30
SPECIFICATION MCSpec
INVARIANTS
    TokenConservation
    BurstsStayWhole
    ReleasesAreAccepted
PROPERTY
    RefusalsMeanCaughtUp
