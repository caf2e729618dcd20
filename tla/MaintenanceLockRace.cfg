CONSTANTS
    Procs = {p1, p2, p3}
    Null = Null
    MaxCrashes = 0
    MaxLapses = 0
SPECIFICATION LockSpec
INVARIANT MutualExclusion
CHECK_DEADLOCK FALSE
