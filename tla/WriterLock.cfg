SPECIFICATION LockFairSpec
CONSTANTS
    Proc = {p1, p2, p3}
    Nobody = Nobody
INVARIANTS LockTypeOK SingleWriterWhileAllLive
PROPERTIES StaleLockReclaimed
CHECK_DEADLOCK FALSE
