SPECIFICATION Spec
CONSTANTS
    Run = {r1}
    NoRun = NoRun
    d1 = d1
    d2 = d2
    DriveCmd = {d1, d2}
    GateCmd = {g1}
    NoCmd = NoCmd
    Server = {s1, s2}
    MaxUp = 1
    MaxGen = 3
    MaxGate = 2
    MaxSteps = 1
    MaxFaults = 1
SYMMETRY Symmetry
CHECK_DEADLOCK FALSE
INVARIANTS
    TypeOK
    ClaimGenerationsDistinct
    NothingIsUnwatched
    AppliedOnceWithoutRestart
PROPERTIES
    ImplementsLifecycle
