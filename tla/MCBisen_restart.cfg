\* Three clients in a row; each starts when all that the one before it added
\* has been read by the storage service.
CONSTANTS
    Words = {"a", "b"}
    Queries <- MCFewQueries
    Threshold = 10
    MaxBatchUpdate = 1000
    MaxBatchSearch = 1
    ChanCap = 3
    MaxDocs = 2
    MaxBulk = 2
    MaxConns = 3
    DrainBeforeRestart = TRUE
SPECIFICATION Spec
INVARIANTS PostingsExact IInv
PROPERTIES PostingsStay ImplementsStore
CHECK_DEADLOCK FALSE
