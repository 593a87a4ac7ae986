CONSTANTS
    Workers = {w1, w2, w3}
    MaxTasks = 3
SPECIFICATION CleanupSpec
SYMMETRY Symmetry
CHECK_DEADLOCK FALSE
INVARIANTS NothingFromBefore GateOpensAgain
