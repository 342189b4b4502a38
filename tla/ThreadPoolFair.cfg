\* Two workers, one client, three jobs: a running job adds a second one while a
\* third is queued; the destructor races both.  No symmetry, since two of the
\* properties are temporal.
CONSTANTS
    Workers = {w1, w2}
    Clients = {c1}
    Jobs = {j1, j2, j3}
    NoJob = NoJob
    NoThread = NoThread
SPECIFICATION FairSpec
INVARIANTS
    TypeOK
    ExactlyOnce
    ClearCoversEarlierJobs
PROPERTIES
    EveryJobRuns
    DestructorCompletes
CHECK_DEADLOCK FALSE
