SPECIFICATION FairSpec
CONSTANTS
    Procs = {p1, p2, p3}
    Jobs = {j1, j2}
    Keys = {k1}
    Inputs = {i1}
    Null = Null
    MaxAttempts = 2
    MaxCrashes = 0
    MaxExpiries = 0
    MaxRetries = 1
INVARIANTS
    OneJobPerKey
PROPERTY EveryJobSettles
CHECK_DEADLOCK FALSE
