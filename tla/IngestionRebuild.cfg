CONSTANTS
    Paths = {1, 2}
    MaxContent = 2
    Configs = {1, 2}
    ChunksOf <- MCChunksOf
    Similarity <- MCSimilarity
    Procs = {p1}
    Batches = {1}
    InitialFiles = {1}
    MaxCommands = 3
    Limits <- OneProcess
SPECIFICATION Spec
INVARIANTS
    IncrementalEqualsFull
CHECK_DEADLOCK FALSE
