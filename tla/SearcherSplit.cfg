\* Appends, splits and reassignments by two workers and a client; no merges.
CONSTANTS
    Workers = {w1, w2}
    Clients = {c1}
    Vectors = {v1, v2, v3, v4}
    FirstHeads = 1
    MaxHeads = 4
    Stripes = 2
    PostingSizeLimit = 1
    BufferSizeLimit = 2
    MergeThreshold = 0
    ReassignThreshold = 1
    ReplicaCount = 1
    VersionMask = 7
    ExcludeHead = TRUE
    DisableReassign = FALSE
    OneCluster = FALSE
    OneClusterCutMax = FALSE
    IoFails = FALSE
    MaxDeletes = 1
    MaxMerges = 0
    MaxMoves = 2
    NoThread = NoThread
    NoVector = NoVector
SPECIFICATION Spec
SYMMETRY Symmetry
CHECK_DEADLOCK FALSE
INVARIANTS
    TypeOK
    NoVectorLost
    PostingBounded
