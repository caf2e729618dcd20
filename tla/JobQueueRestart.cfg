SPECIFICATION FairSpec
CONSTANTS
    Procs = {p1, p2, p3}
    Jobs = {j1}
    Keys = {}
    Inputs = {i1}
    Null = Null
    MaxAttempts = 2
    MaxCrashes = 0
    MaxExpiries = 1
    MaxRetries = 0
PROPERTY RestartNeedsRetry
CHECK_DEADLOCK FALSE
