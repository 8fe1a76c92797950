\* One worker and one signal.
CONSTANTS
    w1 = w1
    w2 = w2
    Workers = {w1}
    MaxSignals = 1
    MaxResponses = 0
SPECIFICATION Spec
INVARIANT CancellationNotLost
CHECK_DEADLOCK FALSE
