--------------------------- MODULE ResourceManager ---------------------------
(***************************************************************************)
(* The table of callbacks that wait for an answer (ResourceManager.h), as  *)
(* the search client and the aggregator use it.  A callback belongs to     *)
(* whoever removes it: the handler of the answer or the timeout checker.   *)
(* Resources get an id of their own and the same timeout, so that the list *)
(* of timeouts is in the order in which they expire.                       *)
(***************************************************************************)
EXTENDS Sequences

VARIABLES
    m_resources,    \* ids whose callback waits
    m_timeoutList   \* ids whose timeout has not been looked at, the oldest first

\* Mutant of Add: no timeout is registered.
MutantAdd(r) == m_resources' = m_resources \cup {r} /\ UNCHANGED m_timeoutList

\* Every callback gets a timeout: those of client and aggregator are 9000 ms and 100 ms
\* unless configured.  A configured timeout of 0 would register none and is left out.
Add(r) ==
    /\ m_resources' = m_resources \cup {r}
    /\ m_timeoutList' = Append(m_timeoutList, r)

\* Mutant of GetAndRemove: the callback is found and stays in the table.
MutantGetAndRemove(r) ==
    /\ r \in m_resources
    /\ UNCHANGED <<m_resources, m_timeoutList>>

\* An answer finds the callback and takes it away.
GetAndRemove(r) ==
    /\ r \in m_resources
    /\ m_resources' = m_resources \ {r}
    /\ UNCHANGED m_timeoutList

\* StartCheckTimeout takes an expired item from the list and finds the callback ...
Expire(r) ==
    /\ m_timeoutList # <<>> /\ r = Head(m_timeoutList) /\ r \in m_resources
    /\ m_timeoutList' = Tail(m_timeoutList)
    /\ m_resources' = m_resources \ {r}

\* ... or finds that it has been taken.
ExpireInVain(r) ==
    /\ m_timeoutList # <<>> /\ r = Head(m_timeoutList) /\ r \notin m_resources
    /\ m_timeoutList' = Tail(m_timeoutList)
    /\ UNCHANGED m_resources

=============================================================================
