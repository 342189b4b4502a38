\* A merge and a reassignment; heads are ordinary vectors (ExcludeHead off) and there is a single merge, so that no merge goes back to the queue.
CONSTANTS
    Workers = {w1, w2}
    Clients = {c1}
    Vectors = {v1, v2, v3, v4, v5}
    FirstHeads = 2
    MaxHeads = 3
    Stripes = 2
    PostingSizeLimit = 3
    BufferSizeLimit = 1
    MergeThreshold = 1
    ReassignThreshold = 1
    ReplicaCount = 1
    VersionMask = 7
    ExcludeHead = FALSE
    DisableReassign = FALSE
    OneCluster = FALSE
    OneClusterCutMax = FALSE
    IoFails = FALSE
    MaxDeletes = 0
    MaxMerges = 1
    MaxMoves = 1
    NoThread = NoThread
    NoVector = NoVector
SPECIFICATION Spec
SYMMETRY Symmetry
CHECK_DEADLOCK FALSE
INVARIANT
    NoVectorLost
