SPECIFICATION Spec
CONSTANTS
    Tasks <- MCTasks
    Kind <- MCKind
    AttemptLimit = 1
    RoundLimit = 0
    MaxGraphs = 2
    MaxMeddles = 1
INVARIANTS
    TypeOK
    IslandMeansTerminal
    WorkIsOpenAndLeased
CHECK_DEADLOCK FALSE
