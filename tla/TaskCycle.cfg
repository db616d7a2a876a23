SPECIFICATION FairSpec
CONSTANTS
    Tasks <- MCTasks
    Kind <- MCKind
    AttemptLimit = 2
    RoundLimit = 1
    MaxGraphs = 1
    MaxMeddles = 1
INVARIANTS
    HaltIsExplained
PROPERTIES
    CommandsProgress
    RuntimeNeverSpins
CHECK_DEADLOCK FALSE
