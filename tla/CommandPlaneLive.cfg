SPECIFICATION FairSpec
CONSTANTS
    Run = {r1}
    NoRun = NoRun
    d1 = d1
    d2 = d2
    DriveCmd = {d1}
    GateCmd = {g1}
    NoCmd = NoCmd
    Server = {s1, s2}
    MaxUp = 1
    MaxGen = 4
    MaxGate = 1
    MaxSteps = 0
    MaxFaults = 0
CHECK_DEADLOCK FALSE
PROPERTIES
    EveryCommandDecided
