CONSTANTS
    Files = {1, 2}
    InitialFiles = {1}
    BatchSizes = {1, 2}
    MaxEdits = 1
    MaxReverts = 1
    MaxFaults = 1
SPECIFICATION FairSpec
INVARIANTS
    TypeOK
    NothingUnarchived
    ScanRunsAreClosed
PROPERTY DaemonConverges
CHECK_DEADLOCK FALSE
