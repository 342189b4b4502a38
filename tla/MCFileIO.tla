------------------------------ MODULE MCFileIO ------------------------------
(* Model-checking instances of FileIO.  Threads and postings are           *)
(* interchangeable; block numbers are not, because expansion appends them. *)
EXTENDS FileIO, TLC

Symmetry == Permutations(Threads) \cup Permutations(Keys)
=============================================================================
