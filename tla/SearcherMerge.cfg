\* One worker: merges never overlap with another job, only with the client's appends.
CONSTANTS
    Workers = {w1}
    Clients = {c1}
    Vectors = {v1, v2, v3, v4, v5}
    FirstHeads = 2
    MaxHeads = 3
    Stripes = 2
    PostingSizeLimit = 3
    BufferSizeLimit = 1
    MergeThreshold = 1
    ReassignThreshold = 1
    ReplicaCount = 1
    VersionMask = 7
    ExcludeHead = TRUE
    DisableReassign = FALSE
    OneCluster = FALSE
    OneClusterCutMax = FALSE
    IoFails = FALSE
    MaxDeletes = 1
    MaxMerges = 2
    MaxMoves = 1
    NoThread = NoThread
    NoVector = NoVector
SPECIFICATION Spec
SYMMETRY Symmetry
CHECK_DEADLOCK FALSE
INVARIANTS
    NoVectorLost
    NoStuckHead
