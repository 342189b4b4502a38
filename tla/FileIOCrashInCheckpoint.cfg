\* The process may also die after Checkpoint has written the mapping and before it
\* has written the pool, or with a file that an earlier Checkpoint could not save.
CONSTANTS
    Keys = {k1, k2}
    Threads = {t1}
    StartBlocks = 2
    GrowthBlocks = 1
    MaxBlocks = 3
    GrowthThreshold = 5
    BlockLimit = 3
    DisableCheckpoint = FALSE
    ConcurrentWriters = FALSE
    RecoverStale = TRUE
    MaxOps = 3
    MaxSaveFailures = 1
    NoThread = NoThread
    NoKey = NoKey
SPECIFICATION Spec
SYMMETRY Symmetry
INVARIANTS
    CheckpointIntact
CHECK_DEADLOCK FALSE
