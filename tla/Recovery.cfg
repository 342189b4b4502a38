\* Callers keep deletions and checkpoints apart (as SPFresh.h does), add vectors with
\* AddIndexSPFresh, and write fewer records than a byte has values between two
\* checkpoints; the process dies between checkpoints, once after each replay is saved.
CONSTANTS
    Clients = {c1, c2}
    MaxVid = 2
    MaxHead = 2
    MaxLog = 3
    MaxCrashes = 1
    Base = 8
    PlainAdds = FALSE
    DeletesDuringCheckpoint = FALSE
    CheckpointBreaks = FALSE
    CrashAfterReplay = FALSE
SPECIFICATION FairSpec
CHECK_DEADLOCK FALSE
INVARIANTS
    TypeOK
    AckedDurable
    AckedVisible
    SumsMatch
    LogTruncated
PROPERTY
    RecoveryCompletes
