------------------------------- MODULE Trace -------------------------------
(***************************************************************************)
(* What is made of a finished job's trace (mr.JobTrace): the timeline and  *)
(* lanes of a replay (src/trace/export.go), and the figures of one trial   *)
(* (src/bench/report.go, src/bench/scaling.go).  A trace is a record       *)
(*    [mapPhaseEnd, reducePhaseStart, end, nMap, nReduce, tasks]           *)
(* of times since the start of the job and of the metrics confirmed.       *)
(***************************************************************************)
EXTENDS Stats

(* The tasks of phase k, and of worker w, by their place among the confirmed. *)
TasksIn(tr, k) == {i \in DOMAIN tr.tasks : tr.tasks[i].task[1] = k}
TasksBy(tr, w) == {i \in DOMAIN tr.tasks : tr.tasks[i].worker = w}

Lengths(tr, I) == [i \in I |-> Duration(tr.tasks[i])]

SumUp(s) == SumFunction(s)

-----------------------------------------------------------------------------
(* One trial.                                                              *)

(* Bug for Phases: the stall is left in the reduce phase as well. *)
PhasesOverlap(tr) ==
    [wall |-> tr.end, map |-> tr.mapPhaseEnd,
     stall |-> tr.reducePhaseStart - tr.mapPhaseEnd, reduce |-> tr.end - tr.mapPhaseEnd]

(* summarizeTrial: how the job's wall clock divides into phases. *)
Phases(tr) ==
    [wall |-> tr.end, map |-> tr.mapPhaseEnd,
     stall |-> tr.reducePhaseStart - tr.mapPhaseEnd,
     reduce |-> tr.end - tr.reducePhaseStart]

(* describe: the summary of a sample of durations. *)
Describe(s) ==
    [count |-> Count(s), min |-> Lowest(s), max |-> Highest(s),
     p50 |-> Percentile(s, 50), p95 |-> Percentile(s, 95), p99 |-> Percentile(s, 99)]

-----------------------------------------------------------------------------
(* How busy the workers were.                                              *)

(* Workers are known from the tasks they finished. *)
Finishers(tr) == {tr.tasks[i].worker : i \in DOMAIN tr.tasks}

Busy(tr, w) == SumUp(Lengths(tr, TasksBy(tr, w)))

Share(part, whole) == IF whole <= 0 THEN 0 ELSE Thousandths(part, whole)

(* workerUtilization: tasks finished and the share of the job spent on them. *)
Utilization(tr) ==
    [w \in Finishers(tr) |->
        [tasks |-> Cardinality(TasksBy(tr, w)), busy |-> Busy(tr, w),
         share |-> Share(Busy(tr, w), tr.end)]]

AllBusy(tr) == SumUp(Lengths(tr, DOMAIN tr.tasks))

(* meanBusyShare of a scaling point. *)
MeanBusyShare(tr) == Share(AllBusy(tr), tr.end * Cardinality(Finishers(tr)))

-----------------------------------------------------------------------------
(* The replay.                                                             *)

Starts(tasks) == [i \in DOMAIN tasks |-> tasks[i].start]

(* Bug for Bars: bars that start together may change places. *)
BarsUnstable(tr) ==
    LET tasks == Reverse(tr.tasks)  order == StableOrder(Starts(tasks))
    IN [k \in DOMAIN order |-> tasks[order[k]]]

(* The bars of the timeline by start, those that start together as confirmed. *)
Bars(tr) ==
    LET order == StableOrder(Starts(tr.tasks))
    IN [k \in DOMAIN order |-> tr.tasks[order[k]]]

(* One lane per worker that finished a task or appears in the log. *)
Lanes(tr, log, nobody) == Finishers(tr) \cup ({e.worker : e \in log} \ {nobody})

-----------------------------------------------------------------------------
(* What reports and replays take for granted of a finished job.            *)

(* Times are counted from the start, tasks listed as they were confirmed. *)
TraceType(tr) ==
    /\ {tr.mapPhaseEnd, tr.reducePhaseStart, tr.end} \subseteq Nat
    /\ tr.tasks \in Seq(Range(tr.tasks))
    /\ \A i \in DOMAIN tr.tasks : {tr.tasks[i].start, tr.tasks[i].end} \subseteq Nat

(* Each task has one bar. *)
OneBarPerTask(tr) ==
    /\ Len(tr.tasks) = tr.nMap + tr.nReduce
    /\ \A i, j \in DOMAIN tr.tasks : tr.tasks[i].task = tr.tasks[j].task => i = j

(* Bars lie in their phase, phases follow each other. *)
BarsInPhase(tr) ==
    /\ 0 <= tr.mapPhaseEnd /\ tr.mapPhaseEnd <= tr.reducePhaseStart
    /\ tr.reducePhaseStart <= tr.end
    /\ \A i \in DOMAIN tr.tasks : LET m == tr.tasks[i] IN
          /\ m.start <= m.end
          /\ IF m.task[1] = "map" THEN 0 <= m.start /\ m.end <= tr.mapPhaseEnd
             ELSE tr.reducePhaseStart <= m.start /\ m.end <= tr.end

(* A lane is never occupied twice. *)
LanesAreFree(tr) ==
    \A i, j \in DOMAIN tr.tasks :
        i # j /\ tr.tasks[i].worker = tr.tasks[j].worker =>
            \/ tr.tasks[i].end <= tr.tasks[j].start
            \/ tr.tasks[j].end <= tr.tasks[i].start

SoundTrace(tr) == OneBarPerTask(tr) /\ BarsInPhase(tr) /\ LanesAreFree(tr)
=============================================================================
