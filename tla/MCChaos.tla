------------------------------ MODULE MCChaos ------------------------------
(* The fault matrix of src/chaos/scenario.go with fewer workers and kills. *)
EXTENDS Chaos

Scenario(workers, killCount, killPhase, restart, killRepeat, drops) ==
    [workers |-> workers, killCount |-> killCount, killPhase |-> killPhase,
     restart |-> restart, killRepeat |-> killRepeat, drops |-> drops]

Clean == Scenario(2, 0, "", FALSE, 0, FALSE)
KillMap == Scenario(2, 1, "map", FALSE, 0, FALSE)
KillTwoMap == Scenario(2, 2, "map", FALSE, 0, FALSE)
KillMapRestart == Scenario(2, 1, "map", TRUE, 0, FALSE)
KillReduce == Scenario(2, 1, "reduce", FALSE, 0, FALSE)
KillRepeatMap == Scenario(1, 0, "map", TRUE, 2, FALSE)
Drop == Scenario(2, 0, "", FALSE, 0, TRUE)

(* Not in the matrix: more kills than workers. *)
KillAll == Scenario(1, 2, "map", FALSE, 0, FALSE)

Matrix == {Clean, KillMap, KillTwoMap, KillMapRestart, KillReduce, KillRepeatMap, Drop,
           KillAll}

(* Local errors are tried where nobody is replaced and one worker is killed at most. *)
KillsAtMostOne == {Clean, KillMap, KillReduce, Drop}

OneKill == {KillMap}
=============================================================================
