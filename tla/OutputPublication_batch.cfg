\* Two processes publish and recover a batch of two files: kills, power losses, exceptions,
\* cancellation, files found at the final paths and files that appear there.
CONSTANTS
    NumOutputs = 2
    Procs = {p1, p2}
    Nobody = Nobody
    MaxCrashes = 2
    Environment = {"found", "foreign", "fault", "stop", "power"}
SPECIFICATION FairSpec
INVARIANTS CommittedIsComplete RolledBackIsClean
PROPERTIES ForeignFilesStay KeepsContract BatchIsDecided
