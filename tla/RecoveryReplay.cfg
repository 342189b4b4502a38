\* The process may also die after a replay and before the checkpoint that would empty the log.
CONSTANTS
    Clients = {c1}
    MaxVid = 1
    MaxHead = 2
    MaxLog = 2
    MaxCrashes = 2
    Base = 8
    PlainAdds = FALSE
    DeletesDuringCheckpoint = FALSE
    CheckpointBreaks = FALSE
    CrashAfterReplay = TRUE
SPECIFICATION Spec
CHECK_DEADLOCK FALSE
INVARIANT AckedVisible
