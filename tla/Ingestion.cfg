CONSTANTS
    Paths = {1, 2}
    MaxContent = 2
    Configs = {1, 2}
    ChunksOf <- MCChunksOf
    Similarity <- MCSimilarity
    Procs = {p1, p2}
    Batches = {1}
    InitialFiles = {1}
    MaxCommands = 3
    Limits <- MCLimits
SPECIFICATION Spec
SYMMETRY Symmetry
INVARIANTS
    TypeOK
    SnapshotsAreAChain
    NoOrphanChunks
    BuiltIsCurrent
    ReadyIsSearchable
    ReadyAnswersAreCurrent
CHECK_DEADLOCK FALSE
