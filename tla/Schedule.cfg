SPECIFICATION FairSpec
CONSTANTS
    Run = {f1, h1, h2}
    NoRun = NoRun
    Preempting = {h1, h2}
    MaxQueue = 1
    MaxCrash = 1
INVARIANTS
    TypeOK
    SerialIsSound
PROPERTIES
    TerminalLeavesSlot
CHECK_DEADLOCK FALSE
