\* One client under the fairness of FairSpec.
CONSTANTS
    Words = {"a", "b"}
    Queries <- MCFewQueries
    Threshold = 10
    MaxBatchUpdate = 1
    MaxBatchSearch = 1
    ChanCap = 1
    MaxDocs = 2
    MaxBulk = 2
    MaxConns = 1
    DrainBeforeRestart = TRUE
SPECIFICATION FairSpec
PROPERTIES RequestsEnd AddsArrive
CHECK_DEADLOCK FALSE
