\* Two clients, one after the other or at the same time, each with up to two requests.
CONSTANTS
    NumStreams = 2
    MaxRequests = 2
    MaxTotal = 2
SPECIFICATION FairSpec
INVARIANTS
    NeverDeclinesFollowUp
    OneShotIsAnswered
PROPERTIES
    ImplementsSession
    StreamEnds
CHECK_DEADLOCK FALSE
