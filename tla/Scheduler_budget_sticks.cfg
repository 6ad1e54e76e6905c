\* A crashed attempt is recovered when the attempts budget is already spent.
CONSTANTS
    NumTasks = 1
    NumAttempts = 1
    NoAttempt = NoAttempt
    Orchestration = {}
    FirstPlan <- Single
    Controllers = {c1}
    Nobody = Nobody
    MaxWorkers = 1
    MaxRetries = 2
    MaxAttempts = 1
    Revisions = {}
    MaxRevisions = 0
    MaxCrashes = 1
    Environment = {}
SPECIFICATION Spec
PROPERTIES BudgetFailureStays
CHECK_DEADLOCK FALSE
