\* Queries in which a negation is negated.
CONSTANTS
    Words = {"a", "b"}
    MaxTokens = 3
    MaxQuery = 4
    Inputs <- MCInputs
SPECIFICATION Spec
INVARIANTS NegationsNest
CHECK_DEADLOCK FALSE
