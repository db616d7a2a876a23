SPECIFICATION FairSpec
CONSTANTS
    Plan <- MCPlan
    MaxCandidates = 2
    MaxPreviews = 2
    MaxMeddles = 1
INVARIANTS
    TypeOK
    ReleasedMeansPublished
PROPERTIES
    PushesAreAuthorised
    DriveRests
CHECK_DEADLOCK FALSE
