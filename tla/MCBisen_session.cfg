\* One client, from its setup to its benchmark, killed or not.
CONSTANTS
    Words = {"a", "b"}
    Queries <- MCQueries
    Threshold = 2
    MaxBatchUpdate = 1
    MaxBatchSearch = 2
    ChanCap = 2
    MaxDocs = 3
    MaxBulk = 2
    MaxConns = 1
    DrainBeforeRestart = TRUE
SPECIFICATION Spec
INVARIANTS TypeOK SearchIsServed ResponsesMatch PostingsExact IeeExitJustified StoreInv
PROPERTIES ImplementsStore
CHECK_DEADLOCK FALSE
