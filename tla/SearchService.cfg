\* One query to two servers, with a loss of any of the connections; and two queries, so that
\* the second one meets late answers and timeouts of the first.
CONSTANTS
    q1 = q1
    q2 = q2
    s1 = s1
    s2 = s2
    Queries = {q1, q2}
    Servers = {s1, s2}
    NoQuery = NoQuery
    Setups <- MCSetups
    CounterSize = 4
    MaxLosses = 1
SPECIFICATION FairSpec
CHECK_DEADLOCK FALSE
INVARIANTS
    TypeOK
    AggregatesOnce
    OpenConnectionUsed
    CallbackOnce
    FinishedMeansAnswered
PROPERTIES
    EveryQueryReturns
    WaitReturns
    AggregatorAnswers
