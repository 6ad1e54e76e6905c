CONSTANTS
    MaxCandidates = 2
    MaxRuns = 2
    MaxWrites = 2
    MaxFaults = 1
    Compilers = {c1, c2}
    EvaluatorPrograms = {s1, s2}
    MaxRewrites = 2
    MaxScores = 2
    MaxStops = 1
SPECIFICATION CandidatesSpec
INVARIANTS SuccessIsEvidenced ScoredByAudited
PROPERTY CallsEnd
CHECK_DEADLOCK FALSE
