--------------------------- MODULE MCMapReduce ---------------------------
(* A whole job, small enough for TLC.                                      *)
EXTENDS MapReduce, TLC

Workers == Permutations(Worker)
=============================================================================
