\* One failed read of a merge is enough: PD does not answer, or the server reports an
\* error.  (A lost answer is retried, and fails the read only when it is lost three times.)
CONSTANTS
    Threads = {t1, t2}
    Keys = {k1}
    Entries = {e1, e2}
    Storages = {"TIKVIO"}
    MaxCalls = 2
    MaxFaults = 1
    MaxMoves = 0
    Stragglers = FALSE
SPECIFICATION Spec
CHECK_DEADLOCK FALSE
PROPERTY MergeAppends
