SPECIFICATION Spec
CONSTANTS
    Procs = {p1, p2, p3}
    Jobs = {j1}
    Keys = {}
    Inputs = {i1}
    Null = Null
    MaxAttempts = 2
    MaxCrashes = 1
    MaxExpiries = 2
    MaxRetries = 1
SYMMETRY Symmetry
INVARIANTS
    TypeOK
    RunningIsRecoverable
    OwnershipLossIsLogged
    EveryAttemptIsPaidFor
PROPERTY StartsAreGranted
CHECK_DEADLOCK FALSE
