\* A second client sets the system up again.
CONSTANTS
    Words = {"a", "b"}
    Queries <- MCFewQueries
    Threshold = 10
    MaxBatchUpdate = 1000
    MaxBatchSearch = 1000
    ChanCap = 2
    MaxDocs = 1
    MaxBulk = 1
    MaxConns = 2
    DrainBeforeRestart = TRUE
SPECIFICATION Spec
PROPERTIES InitEmptiesIndex
CHECK_DEADLOCK FALSE
