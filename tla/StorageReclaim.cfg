CONSTANTS
    Procs = {p1, p2, p3}
    Sources = {s1, s2}
    Blobs = {b1}
    Null = Null
    MaxCrashes = 1
    MaxLapses = 1
SPECIFICATION Spec
SYMMETRY Symmetry
INVARIANTS
    TypeOK
    EveryLossIsReceipted
    RecoveryLeavesNothing
    LoneCommandIsNotRefused
CHECK_DEADLOCK FALSE
