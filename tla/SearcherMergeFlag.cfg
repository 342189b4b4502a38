\* Two workers, two merges: the second one goes back to the queue.
CONSTANTS
    Workers = {w1, w2}
    Clients = {c1}
    Vectors = {v1, v2, v3, v4}
    FirstHeads = 2
    MaxHeads = 2
    Stripes = 2
    PostingSizeLimit = 3
    BufferSizeLimit = 1
    MergeThreshold = 1
    ReassignThreshold = 1
    ReplicaCount = 1
    VersionMask = 7
    ExcludeHead = TRUE
    DisableReassign = FALSE
    OneCluster = FALSE
    OneClusterCutMax = FALSE
    IoFails = FALSE
    MaxDeletes = 0
    MaxMerges = 2
    MaxMoves = 1
    NoThread = NoThread
    NoVector = NoVector
SPECIFICATION Spec
SYMMETRY Symmetry
CHECK_DEADLOCK FALSE
INVARIANT
    NoVectorLost
