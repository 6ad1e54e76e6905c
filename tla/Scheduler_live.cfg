\* A chain of three tasks whose plan is revised once; the controller may crash, and the owner
\* keeps resuming.
CONSTANTS
    NumTasks = 3
    NumAttempts = 6
    NoAttempt = NoAttempt
    Orchestration = {}
    FirstPlan <- Chain
    Controllers = {c1}
    Nobody = Nobody
    MaxWorkers = 1
    MaxRetries = 1
    MaxAttempts = 3
    Revisions <- ChainRevisions
    MaxRevisions = 1
    MaxCrashes = 1
    Environment = {"fail", "deadline", "factory"}
SPECIFICATION FairSpec
INVARIANTS AttemptsWithinBudget
PROPERTIES RunEnds CompletedSurvivesRevision
CHECK_DEADLOCK FALSE
