\* A population of three on two islands, two rounds of two offspring; one kill anywhere.
CONSTANTS
    PopulationSize = 3
    Offspring = 2
    NumIslands = 2
    MaxRounds = 2
    StagnationRounds = 1
    MigrationInterval = 1
    MigrationRate = 50
    Sources <- ThreeSources
    FamilyOf <- Families
    NoFamily = NoFamily
    ReportOf <- Reports
    SeedBatches <- MaybeSeeds
    MaxKills = 1
    Environment = {"torn", "unknown", "fail", "cancel", "stubborn"}
SPECIFICATION Spec
INVARIANTS OwnStatesAccepted EliteSurvives ResumesCleanly
CHECK_DEADLOCK FALSE
