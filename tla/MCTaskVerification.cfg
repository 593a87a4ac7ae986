CONSTANTS
    fileA = fileA
    fileB = fileB
    checkA = checkA
    checkB = checkB
    checkAll = checkAll
    script = script
    Nothing = Nothing
    Paths <- PathsMC
    Contents = {old, new}
    Checks = {checkA, checkAll}
    Targets <- TargetsMC
    Whole <- WholeMC
    MaxRecords = 1
    MaxRounds = 4
    MaxTasks = 2
    MaxEdits = 1
SPECIFICATION VerificationSpec
SYMMETRY Symmetry
CHECK_DEADLOCK FALSE
INVARIANTS SuccessHasEvidence LastWordOfEachCheck
PROPERTIES LiftedByCheck AcceptedIsAccountedFor
