----------------------------- MODULE MCJobData -----------------------------
(* Three words of text, every division into splits, files and partitions.  *)
EXTENDS JobData, TLC

Symmetry == Permutations(Place) \cup Permutations(Doc)
=============================================================================
