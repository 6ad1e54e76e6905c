\* One controller, two worker threads, three tasks: failures, exceptions, questions, the deadline
\* and cancellation.
CONSTANTS
    NumTasks = 3
    NumAttempts = 4
    NoAttempt = NoAttempt
    Orchestration = {}
    FirstPlan <- Diamond
    Controllers = {c1}
    Nobody = Nobody
    MaxWorkers = 2
    MaxRetries = 2
    MaxAttempts = 6
    Revisions = {}
    MaxRevisions = 0
    MaxCrashes = 1
    Environment = {"fail", "raise", "ask", "factory"}
SPECIFICATION Spec
INVARIANTS RowsAgree OutputsDeliverable
PROPERTIES OnlyAnswerReleases KeepsContract
CHECK_DEADLOCK FALSE
