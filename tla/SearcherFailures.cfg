\* Two workers, so that a split may remove the candidate of a running merge; any
\* call of the store may fail, and k-means may find one cluster.
CONSTANTS
    Workers = {w1, w2}
    Clients = {c1}
    Vectors = {v1, v2, v3, v4}
    FirstHeads = 2
    MaxHeads = 4
    Stripes = 2
    PostingSizeLimit = 1
    BufferSizeLimit = 2
    MergeThreshold = 0
    ReassignThreshold = 1
    ReplicaCount = 1
    VersionMask = 7
    ExcludeHead = TRUE
    DisableReassign = FALSE
    OneCluster = TRUE
    OneClusterCutMax = FALSE
    IoFails = TRUE
    MaxDeletes = 0
    MaxMerges = 1
    MaxMoves = 0
    NoThread = NoThread
    NoVector = NoVector
SPECIFICATION Spec
SYMMETRY Symmetry
CHECK_DEADLOCK FALSE
INVARIANTS
    SizesMatch
    LocksReleased
