CONSTANTS
    Files = {1}
    InitialFiles = {1}
    BatchSizes = {1}
    MaxEdits = 1
    MaxReverts = 2
    MaxFaults = 0
SPECIFICATION Spec
INVARIANT ReconciliationMissesNothing
CHECK_DEADLOCK FALSE
