\* Two connections and no pending requests (the default), in closed loop and in open loop.
CONSTANTS
    r1 = r1
    r2 = r2
    r3 = r3
    Requests = {r1, r2, r3}
    ActiveLimit = 2
    PendingLimit = 0
    Codes = {200, 600}
SPECIFICATION FairSpec
INVARIANTS
    CalledBackExactlyOnce
    InFlightBounded
    ResultsAccountedFor
PROPERTIES
    TerminateReturns
    EveryRequestReportsBack
CHECK_DEADLOCK FALSE
