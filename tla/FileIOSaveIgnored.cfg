\* A Checkpoint whose Save cannot open the mapping file and whose pool is saved, so
\* that it reports Success.
CONSTANTS
    Keys = {k1, k2}
    Threads = {t1}
    StartBlocks = 2
    GrowthBlocks = 1
    MaxBlocks = 3
    GrowthThreshold = 5
    BlockLimit = 3
    DisableCheckpoint = FALSE
    ConcurrentWriters = FALSE
    RecoverStale = FALSE
    MaxOps = 3
    MaxSaveFailures = 1
    NoThread = NoThread
    NoKey = NoKey
SPECIFICATION Spec
SYMMETRY Symmetry
INVARIANTS
    SuccessProtectsPages
CHECK_DEADLOCK FALSE
