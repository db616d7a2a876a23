SPECIFICATION Spec
CONSTANTS
    AttemptLimit = 2
    InfraLimit = 2
INVARIANTS
    TypeOK
    HaltIsExplained
    CommitsAccounted
    ExitVerdictIsFresh
PROPERTIES
    ImplementsJourney
CHECK_DEADLOCK FALSE
