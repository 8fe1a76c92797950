\* Every kind of source; a batch of two, so that batches overlap what is queued.
CONSTANTS
    Sources = {"remote", "list", "llm", "static"}
    Uri = TRUE
    OptionHeaders <- MCOptionHeaders
    BodySize = 1
    Buffer = 2
    Specifiers <- MCSpecifiers
    OptionsList <- MCOptionsList
    NumRequests = 3
    SetupTimeout = 1
    MaxMessages = 6
    Width = 256
SPECIFICATION FairSourceSpec
INVARIANTS
    YieldsAsSpecified
    BufferBounded
PROPERTIES
    NeverStarves
CHECK_DEADLOCK FALSE
