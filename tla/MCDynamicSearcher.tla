------------------------- MODULE MCDynamicSearcher -------------------------
(* Model-checking instances of DynamicSearcher.  Vectors and the threads   *)
(* of one kind are interchangeable model values.                           *)
EXTENDS DynamicSearcher

Symmetry == Permutations(Vectors) \cup Permutations(Workers) \cup Permutations(Clients)
=============================================================================
