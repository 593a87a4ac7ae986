CONSTANTS
    Agent = Agent
    Beside = Beside
    MaxTasks = 1
    MaxWaits = 2
    MaxEdits = 2
    Contents = {c1, c2}
    Original = c1
SPECIFICATION FairSpec
CHECK_DEADLOCK FALSE
INVARIANTS LateIsLost QuitReleases
PROPERTIES AnswerIsCurrent EveryWaitEnds
