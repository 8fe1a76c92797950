CONSTANTS
    CommandLines <- Typed
    Outcomes <- Measurements
    Resolvable <- Lookups
    Cpus = 2
    Kilo = 10
    HdrSeconds = 1
    LargestUint32 = 1000000
    LargestStreams = 100000
    LargestRate = 500000
    LargestBody = 4096
    LargestFlush = 300
SPECIFICATION Spec
CHECK_DEADLOCK FALSE
INVARIANT RemoteRequestIsTheSame
