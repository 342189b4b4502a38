\* Two requests, on one connection or on two, for a semaphore of one; a list of two keys in
\* batches of one, so that requests can come between its batches.
CONSTANTS
    Conns = {c1, c2}
    k1 = k1
    k2 = k2
    v1 = v1
    Keys = {k1, k2}
    Values = {v1}
    Requests <- MCRequests
    Workers = 1
    MaxBatch = 1
    MaxReq = 2
SPECIFICATION FairSpec
CHECK_DEADLOCK FALSE
INVARIANTS
    SlotsMatch
    AnswersIntact
    ReadsCurrent
PROPERTY
    AnsweredUnlessStarved
