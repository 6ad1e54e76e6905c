\* Two controllers drain a chain of two tasks; one of them takes the other for crashed, the owner may cancel.
CONSTANTS
    NumTasks = 2
    NumAttempts = 3
    NoAttempt = NoAttempt
    Orchestration = {}
    FirstPlan <- Chain
    Controllers = {c1, c2}
    Nobody = Nobody
    MaxWorkers = 1
    MaxRetries = 2
    MaxAttempts = 2
    Revisions = {}
    MaxRevisions = 0
    MaxCrashes = 0
    Environment = {"cancel", "fail", "ask"}
SPECIFICATION Spec
INVARIANTS SucceededIsVerified RacesLeaveNothing
PROPERTIES CancelledIsFinal
CHECK_DEADLOCK FALSE
