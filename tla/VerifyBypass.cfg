SPECIFICATION FairSpec
CONSTANTS
    MaxCommits = 1
    RoundLimit = 1
    NumGates = 1
    MaxBad = 1
    MaxCrashes = 0
PROPERTIES
    FailedEvidenceStopsTheWalk
CHECK_DEADLOCK FALSE
