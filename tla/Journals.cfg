\* Each flow alone, with kills, failing calls and files that are cut short.
CONSTANTS
    Programs = {"root", "child"}
    Parent <- Lineage
    NoParent = "nobody"
    Contents = {a, b}
    Exporters = {e1, e2}
    MaxEdits = 2
    MaxKills = 1
    Publishers = {p1, p2}
    Batches = {b1, b2}
    Width = 2
    MaxFaults = 1
    MaxAppends = 1
    RunKinds = {"population", "seeded", "budgeted", "openevolve"}
    MaxLines = 2
    MaxSearches = 4
    MaxTears = 1
    LogicalRuns = 2
    OuterRounds = 2
    MaxTries = 2
    MaxTrialStarts = 2
    MaxHarness = 4
SYMMETRY Alike
SPECIFICATION JournalsSpec
INVARIANTS HandedOverAsWas PublicationIsWhole SucceededIsEvident RegisteredIsEvident
CHECK_DEADLOCK FALSE
