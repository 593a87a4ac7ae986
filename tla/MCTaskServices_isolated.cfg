CONSTANTS
    Servers = {1, 2}
    Plans <- PromptPlans
    MaxAttempts = 2
SPECIFICATION Spec
CHECK_DEADLOCK FALSE
INVARIANT IsolatedFailure
