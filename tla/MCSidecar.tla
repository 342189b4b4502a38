----------------------------- MODULE MCSidecar ------------------------------
EXTENDS Sidecar

CONSTANTS k1, k2, v1

\* Every operation; reads and writes of the keys of a list of two, one of them the
\* read without a timeout that may hang.
MCRequests ==
    {[op |-> op, keys |-> <<>>, val |-> None, timed |-> TRUE] : op \in {"health", "mget", "unknown"}}
    \cup {[op |-> "get", keys |-> <<k1>>, val |-> None, timed |-> timed] : timed \in BOOLEAN}
    \cup {[op |-> "mget", keys |-> <<k1, k2>>, val |-> None, timed |-> TRUE],
          [op |-> "put", keys |-> <<k2>>, val |-> v1, timed |-> TRUE],
          [op |-> "delete", keys |-> <<k1>>, val |-> None, timed |-> TRUE]}
=============================================================================
