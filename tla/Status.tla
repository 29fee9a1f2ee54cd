------------------------------- MODULE Status -------------------------------
(***************************************************************************)
(* What the coordinator tells its observers: the live snapshot of          *)
(* src/mr/status.go as functions of the state of module Coordinator.  It   *)
(* is computed under the coordinator's mutex.  Elapsed times and the RPC   *)
(* counters are left out.                                                  *)
(***************************************************************************)
EXTENDS Coordinator, Functions

(* phaseStatus: the tasks of phase k by state. *)
PhaseStatus(k) ==
    [s \in TaskState |-> Cardinality({t \in TasksOf(k) : state[t] = s})]

(* Bug for Phase: the label follows what is handed out, not what is done. *)
PhaseHandedOut ==
    CASE JobDone -> "done"
      [] \A t \in TasksOf("map") : state[t] # "Idle" -> "reduce"
      [] OTHER -> "map"

Phase ==
    CASE JobDone -> "done"
      [] ~JobDone /\ completed["map"] = NMap -> "reduce"
      [] OTHER -> "map"

(* Bug for RunningTasks: attempts of a task that is publishing are left out. *)
RunningTasksInProgress(k) ==
    UNION {{<<t, a>> : a \in live[t]} : t \in {u \in TasksOf(k) : state[u] = "InProgress"}}

(* The attempts in flight in phase k. *)
RunningTasks(k) == UNION {{<<t, a>> : a \in live[t]} : t \in TasksOf(k)}

(* taskMetrics gets an element with each committed event. *)
Metrics == {e \in events : e.kind = "committed"}

Committed(w) == Cardinality({m \in Metrics : m.worker = w})
RunningOn(w) ==
    Cardinality({p \in RunningTasks("map") \cup RunningTasks("reduce") : p[2].worker = w})

(* The workers the coordinator has heard from, by what it remembers of them. *)
WorkerStatus ==
    LET counts == [w \in Worker |-> [committed |-> Committed(w), running |-> RunningOn(w)]]
    IN [w \in {v \in Worker : counts[v].committed + counts[v].running > 0} |-> counts[w]]

-----------------------------------------------------------------------------
(* Properties.                                                             *)

(* The sum of a field over the workers of a snapshot. *)
SumOf(field, status) == SumFunction([w \in DOMAIN status |-> status[w][field]])

(* The parts of a snapshot agree: the workers' finished tasks are those the   *)
(* phases count, and their running attempts are all that are live.            *)
WorkersAddUp ==
    LET status == WorkerStatus
    IN /\ SumOf("committed", status)
              = PhaseStatus("map")["Completed"] + PhaseStatus("reduce")["Completed"]
       /\ SumOf("running", status)
              = Cardinality(UNION {{<<t, a.id>> : a \in live[t]} : t \in Task})

(* The label means what it says: in the map phase no reduce task has begun,   *)
(* in the reduce phase no map attempt runs, and a job that is done runs       *)
(* nothing and has every task finished.                                       *)
PhaseIsTrue ==
    /\ Phase = "map" => \A t \in TasksOf("reduce") : state[t] = "Idle"
    /\ Phase \in {"reduce", "done"} =>
          /\ RunningTasks("map") = {}
          /\ \A t \in TasksOf("map") : state[t] = "Completed"
    /\ Phase = "done" =>
          /\ RunningTasks("reduce") = {}
          /\ \A t \in TasksOf("reduce") : state[t] = "Completed"

(* Successive snapshots never go back: not from reduce to map, nor from done. *)
PhaseNeverGoesBack ==
    [][/\ Phase = "reduce" => Phase' \in {"reduce", "done"}
       /\ Phase = "done" => Phase' = "done"]_vars
=============================================================================
