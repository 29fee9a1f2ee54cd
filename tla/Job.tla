-------------------------------- MODULE Job --------------------------------
(***************************************************************************)
(* What a map-reduce job promises, whatever the workers do: the output of  *)
(* a task is in place before the task counts as finished, no reduce output *)
(* appears before every map task has finished, and a finished task stays   *)
(* finished.                                                               *)
(***************************************************************************)
CONSTANTS MapTasks, ReduceTasks

VARIABLES
    available,   \* tasks all of whose output files are in place
    finished     \* tasks the job counts as done

vars == <<available, finished>>

Task == MapTasks \cup ReduceTasks

Init == available = {} /\ finished = {}

Publish(t) ==
    /\ t \in ReduceTasks => MapTasks \subseteq finished
    /\ available' = available \cup {t}
    /\ UNCHANGED finished

Finish(t) ==
    /\ t \in available
    /\ finished' = finished \cup {t}
    /\ UNCHANGED available

Next == \E t \in Task : Publish(t) \/ Finish(t)

Spec == Init /\ [][Next]_vars
=============================================================================
