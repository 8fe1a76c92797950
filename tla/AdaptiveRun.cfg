\* Loads in half requests per second, from 128 to at most 1024 requests per second.
CONSTANTS
    Specs <- MCSpecs
    Outputs <- MCOutputs
    Scale = 2
    MaxRps = 1024
    MaxDelay = 1
SPECIFICATION FairAdaptiveSpec
INVARIANTS
    SearchBracketsThreshold
    TestingStageIsEarned
PROPERTIES
    SessionEnds
CHECK_DEADLOCK FALSE
