\* Two workers compete for m_mergeLock; no symmetry, since the property is temporal.
CONSTANTS
    Workers = {w1, w2}
    Clients = {c1}
    Vectors = {v1, v2, v3}
    FirstHeads = 2
    MaxHeads = 2
    Stripes = 2
    PostingSizeLimit = 3
    BufferSizeLimit = 1
    MergeThreshold = 1
    ReassignThreshold = 1
    ReplicaCount = 1
    VersionMask = 7
    ExcludeHead = TRUE
    DisableReassign = FALSE
    OneCluster = FALSE
    OneClusterCutMax = FALSE
    IoFails = FALSE
    MaxDeletes = 0
    MaxMerges = 3
    MaxMoves = 1
    NoThread = NoThread
    NoVector = NoVector
SPECIFICATION FairSpec
CHECK_DEADLOCK FALSE
PROPERTY
    Settles
