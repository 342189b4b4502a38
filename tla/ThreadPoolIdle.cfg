\* Two workers: a running job adds a job between the two reads of the poller.
CONSTANTS
    Workers = {w1, w2}
    Clients = {c1}
    Jobs = {j1, j2}
    NoJob = NoJob
    NoThread = NoThread
SPECIFICATION Spec
PROPERTY
    ClearMeansIdle
CHECK_DEADLOCK FALSE
