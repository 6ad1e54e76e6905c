\* Two services, one of which may die: attempts end and their processes do not outlive them.
CONSTANTS
    NumWorkers = 1
    Parent <- Chain
    NumAttempts = 2
    NumInputs = 0
    Services = {s1, s2}
    Nobody = Nobody
    MaxSlots = 1
    MaxCrashes = 1
    Environments <- LiveEnvironments
SPECIFICATION LiveSpec
PROPERTY WorkEnds
CHECK_DEADLOCK FALSE
