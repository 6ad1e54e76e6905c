CONSTANTS
    NumWorkers = 2
    Parent <- Chain
    NumAttempts = 3
    NumInputs = 1
    Services = {s1, s2}
    Nobody = Nobody
    MaxSlots = 1
    MaxCrashes = 2
    Environments <- Cases
SPECIFICATION CasesSpec
SYMMETRY Interchangeable
INVARIANTS RowsAgree LostMeansAbandoned LiveProcessIsRegistered InputsConsumedOnce CancelStopsTree
CHECK_DEADLOCK FALSE
