CONSTANTS
    AttemptLimit = 2
    InfraLimit = 2
    FormatLimit = 2
    MaxCycles = 1
SPECIFICATION Spec
CHECK_DEADLOCK FALSE
INVARIANTS
    TypeOK
    FrozenIsJudged
    BudgetIsExact
    HaltIsExplained
PROPERTIES
    DriverSettles
