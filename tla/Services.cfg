\* Each flow alone: a session of three steps and its stages, two invocations of one solve, two callers of one delivery.
CONSTANTS
    MaxSteps = 3
    MaxTokens = 8
    MaxMessages = 4
    MaxTurns = 3
    MaxEdits = 2
    Callers = {c1, c2}
    MaxKills = 2
    MaxFaults = 1
    Invocations = {"first", "second"}
    MaxStarts = 3
    Crashes = TRUE
SPECIFICATION ServicesSpec
INVARIANTS CheckpointsHold LaunchedOnce CoordinatedSolve
PROPERTIES RequestsEnd CommittedIsReported GatesResolve
CHECK_DEADLOCK FALSE
