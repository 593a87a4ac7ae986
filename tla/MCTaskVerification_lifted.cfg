CONSTANTS
    fileA = fileA
    fileB = fileB
    checkA = checkA
    checkB = checkB
    checkAll = checkAll
    script = script
    Nothing = Nothing
    Paths <- PathsMC
    Contents = {old, new}
    Checks = {checkA, checkB}
    Targets <- TargetsMC
    Whole <- WholeMC
    MaxRecords = 2
    MaxRounds = 2
    MaxTasks = 1
    MaxEdits = 2
SPECIFICATION VerificationSpec
SYMMETRY Symmetry
CHECK_DEADLOCK FALSE
INVARIANTS FailureLiftsNothing
