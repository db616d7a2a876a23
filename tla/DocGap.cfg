SPECIFICATION FairSpec
CONSTANTS
    MaxPhase = 1
    AttemptLimit = 2
    NestedLimit = 2
    MaxRecords = 2
    MaxMeddles = 1
    MaxCrashes = 2
INVARIANTS
    TypeOK
    HaltIsExplained
PROPERTIES
    ResumeIsSound
    PauseEnds
CHECK_DEADLOCK FALSE
