\* All sequences of up to five tokens, all queries of up to nine.
CONSTANTS
    Words = {"a", "b"}
    MaxTokens = 5
    MaxQuery = 9
    Inputs <- MCInputs
SPECIFICATION Spec
INVARIANTS TypeOK StackOrdered NothingDropped ReturnsIfBalanced MeaningKept
CHECK_DEADLOCK FALSE
