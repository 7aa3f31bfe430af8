CONSTANTS
    Callers = {"handler", "coordinator"}
    Attempts = 2
    MaxSessions = 2
    MaxOutages = 1
SPECIFICATION Spec
INVARIANTS EndIsReported RetryBudget NoReplay
PROPERTY StopReturns
CHECK_DEADLOCK FALSE
