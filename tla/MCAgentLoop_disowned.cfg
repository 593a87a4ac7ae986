CONSTANTS
    MaxRounds = 1
    MaxCalls = 1
    MissingLimit = 1
    QuestionLimit = 1
    MaxTasks = 3
    MaxHistory = 5
SPECIFICATION Spec
INVARIANTS DeliveredStaysDelivered
