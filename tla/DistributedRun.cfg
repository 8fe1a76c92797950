\* Two testers, of one execution or of two, and services of two versions.
CONSTANTS
    Testers = {"t1", "t2"}
    Services <- MCServices
    Executions <- MCExecutions
    Versions = {v1, v2}
    GoodIds = {"guid1", "guid2"}
    Backends = {"file", "memory"}
    LateWriteErrors = FALSE
SYMMETRY MCSymmetry
SPECIFICATION TestSpec
INVARIANTS
    ReportIsComplete
    StoredPiecesAreWhole
    MergeRefusesDivergence
CHECK_DEADLOCK FALSE
