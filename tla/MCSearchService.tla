--------------------------- MODULE MCSearchService ---------------------------
(* SearchService for TLC.                                                  *)
EXTENDS SearchService

CONSTANTS q1, q2, s1, s2

\* One query to two servers with a broken connection, and two queries, one after the
\* other, to one server.
MCSetups ==
    { [servers |-> {s1, s2}, lines |-> {q1}, losses |-> 1],
      [servers |-> {s1}, lines |-> {q1, q2}, losses |-> 0] }

=============================================================================
