\* Two calls on one posting, one after the other or at once.  A move of the region, a stale
\* region that the other thread caches again and a lost answer use up all attempts of a call.
CONSTANTS
    Threads = {t1, t2}
    Keys = {k1}
    Entries = {e1, e2}
    Storages = {"TIKVIO", "AEROSPIKEIO"}
    MaxCalls = 2
    MaxFaults = 1
    MaxMoves = 1
    Stragglers = FALSE
SPECIFICATION FairSpec
CHECK_DEADLOCK FALSE
INVARIANT
    MoveTolerated
PROPERTIES
    KeepsPromise
    CallsReturn
