CONSTANTS
    Servers = {1, 2}
    Plans <- MCPlans
    MaxAttempts = 2
SPECIFICATION FairSpec
CHECK_DEADLOCK FALSE
INVARIANTS OneAttemptSpeaks ResultIsWhole LeftoverIsReported
PROPERTY TaskReturns
