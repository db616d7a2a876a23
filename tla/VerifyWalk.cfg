SPECIFICATION FairSpec
CONSTANTS
    MaxCommits = 3
    RoundLimit = 2
    NumGates = 2
    MaxBad = 2
    MaxCrashes = 1
INVARIANTS
    TypeOK
    CandidateIsSound
PROPERTIES
    NoStaleReplay
    WalkFinishes
CHECK_DEADLOCK FALSE
