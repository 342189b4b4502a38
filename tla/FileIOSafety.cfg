\* Two writers, two postings of at most two pages, a file that grows by one block
\* and a pool that runs dry; Checkpoint may once fail to save a file, and a crash finds
\* two files that one Checkpoint has saved.
CONSTANTS
    Keys = {k1, k2}
    Threads = {t1, t2}
    StartBlocks = 2
    GrowthBlocks = 1
    MaxBlocks = 3
    GrowthThreshold = 5
    BlockLimit = 3
    DisableCheckpoint = FALSE
    ConcurrentWriters = FALSE
    RecoverStale = FALSE
    MaxOps = 3
    MaxSaveFailures = 1
    NoThread = NoThread
    NoKey = NoKey
SPECIFICATION Spec
SYMMETRY Symmetry
INVARIANTS
    TypeOK
    BlockUsedOnce
    PublishedNotOverwritten
    NoOtherLeak
    CheckpointIntact
    SavedFilesAgree
CHECK_DEADLOCK FALSE
