--------------------------- MODULE MCCoordinator ---------------------------
(* The open coordinator and its observers, small enough for TLC.           *)
EXTENDS Status, TLC

Workers == Permutations(Worker)
=============================================================================
