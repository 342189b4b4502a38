\* A delete between the two halves of IncVersion.
CONSTANTS
    Workers = {w1}
    Clients = {c1}
    Vectors = {v1, v2, v3, v4}
    FirstHeads = 2
    MaxHeads = 3
    Stripes = 2
    PostingSizeLimit = 2
    BufferSizeLimit = 1
    MergeThreshold = 0
    ReassignThreshold = 1
    ReplicaCount = 1
    VersionMask = 7
    ExcludeHead = FALSE
    DisableReassign = FALSE
    OneCluster = FALSE
    OneClusterCutMax = FALSE
    IoFails = FALSE
    MaxDeletes = 1
    MaxMerges = 0
    MaxMoves = 1
    NoThread = NoThread
    NoVector = NoVector
SPECIFICATION Spec
SYMMETRY Symmetry
CHECK_DEADLOCK FALSE
INVARIANT
    StaysDeleted
