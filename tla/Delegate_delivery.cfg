\* Two controllers dispatch, observe, deliver and cancel one delegated attempt; one may be killed,
\* and every call may fail or time out.
CONSTANTS
    NumTasks = 1
    NumAttempts = 1
    NoAttempt = NoAttempt
    Orchestration = {}
    FirstPlan <- OneTask
    Procs = {p, q}
    Nobody = Nobody
    MaxAttempts = 1
    MaxRetries = 2
    MaxVersions = 1
    MaxCrashes = 1
    Environment = {"cancel", "raise", "reject", "budget", "timeout", "race"}
SPECIFICATION FairSpec
INVARIANT EvidenceIsOwned
PROPERTIES SettledEvidenceStays BindingIsDecided
CHECK_DEADLOCK FALSE
