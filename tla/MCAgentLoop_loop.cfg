CONSTANTS
    MaxRounds = 2
    MaxCalls = 2
    MissingLimit = 2
    QuestionLimit = 1
    MaxTasks = 2
    MaxHistory = 5
SPECIFICATION Spec
INVARIANTS EveryCallAnswered NothingRunsAfterStop HistoryClosed FailureIsTold
PROPERTY WorkShrinks
