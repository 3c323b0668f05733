CONSTANTS
    Batches <- SomeBatches
    MaxEdges = 6
    EnterFails = TRUE
SPECIFICATION DagFairSpec
INVARIANTS OrderKept ResultTells
PROPERTY RunReturns
CHECK_DEADLOCK FALSE
