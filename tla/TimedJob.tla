----------------------------- MODULE TimedJob -----------------------------
(***************************************************************************)
(* A job in time: the coordinator of TimedCoordinator and workers that run *)
(* one attempt after the other (src/mr/worker.go), each stamping its       *)
(* metrics.  Calls and renames do not fail here, they do in MapReduce; a   *)
(* worker may stop for any time at any step, so hung and slow workers are  *)
(* all included.                                                           *)
(***************************************************************************)
EXTENDS TimedCoordinator, Trace

CONSTANT MaxTime     \* bound: the clock of the instance stops here

ASSUME HorizonAssumption == MaxTime \in Nat /\ NMap > 0 /\ NReduce > 0

VARIABLES
    step,      \* what each worker does next
    job        \* the attempt it works on, with metrics.Start and metrics.End

workerVars == <<step, job>>
runVars == <<timedVars, workerVars>>

Steps == {"ask", "execute", "publish", "commit", "left"}

NoJob == [task |-> <<"wait", 0>>, attempt |-> 0, backup |-> FALSE, start |-> 0, end |-> 0]

RunInit ==
    /\ TimedInit
    /\ step = [w \in Worker |-> "ask"]
    /\ job = [w \in Worker |-> NoJob]

GoOn(w, s) == step' = [step EXCEPT ![w] = s]

(* The attempt w works on, as the coordinator knows it. *)
AttemptOf(w) == [id |-> job[w].attempt, worker |-> w, backup |-> job[w].backup]

-----------------------------------------------------------------------------
(* The reply and the start of the execution are one step: doMapTask stamps  *)
(* Start first.                                                             *)
Ask(w) ==
    /\ step[w] = "ask"
    /\ \E t \in Task, backup \in BOOLEAN :
          /\ TimedAssign(t, w, backup)
          /\ job' = [job EXCEPT ![w] =
                [task |-> t, attempt |-> nextAttempt'[t], backup |-> backup,
                 start |-> now, end |-> now]]
    /\ GoOn(w, "execute")

AskInVain(w) ==
    /\ step[w] = "ask"
    /\ TimedWait(w)
    /\ UNCHANGED workerVars

AskAndLeave(w) ==
    /\ step[w] = "ask"
    /\ TimedExit
    /\ GoOn(w, "left")
    /\ UNCHANGED job

Report(w) ==
    LET t == job[w].task  id == job[w].attempt IN
    /\ step[w] = "execute"
    /\ TimedReport(t, id, w)
    /\ IF MayClear(t, id)
       THEN GoOn(w, "publish") /\ UNCHANGED job
       ELSE GoOn(w, "ask") /\ job' = [job EXCEPT ![w] = NoJob]

(* Bug for Publish: End keeps the time the task was computed. *)
PublishUnstamped(w) ==
    /\ step[w] = "publish"
    /\ job' = [job EXCEPT ![w].end = now + 1]
    /\ GoOn(w, "commit")
    /\ UNCHANGED timedVars

(* Every file is renamed, then End is stamped anew. *)
Publish(w) ==
    /\ step[w] = "publish"
    /\ job' = [job EXCEPT ![w].end = now]
    /\ GoOn(w, "commit")
    /\ UNCHANGED timedVars

Commit(w) ==
    /\ step[w] = "commit"
    /\ TimedCommit(job[w].task, AttemptOf(w), job[w].start, job[w].end)
    /\ job' = [job EXCEPT ![w] = NoJob]
    /\ GoOn(w, "ask")

RunTick ==
    /\ now < MaxTime
    /\ Tick
    /\ UNCHANGED workerVars

RunReapPass == ReapPass /\ UNCHANGED workerVars

RunNext ==
    \/ \E w \in Worker :
          \/ Ask(w) \/ AskInVain(w) \/ AskAndLeave(w)
          \/ Report(w) \/ Publish(w) \/ Commit(w)
    \/ RunReapPass
    \/ RunTick

RunSpec == RunInit /\ [][RunNext]_runVars

-----------------------------------------------------------------------------
(* Coordinator.Trace of a finished job. *)
JobTrace ==
    [mapPhaseEnd |-> stamps["mapPhaseEnd"],
     reducePhaseStart |-> stamps["reducePhaseStart"],
     end |-> stamps["jobEnd"], nMap |-> NMap, nReduce |-> NReduce,
     tasks |-> taskMetrics]

(* Properties.                                                             *)

(* The trace of a finished job is what its readers take it for, whatever      *)
(* timeouts, backups and late reports came in between: a bar per task, in its *)
(* phase, and no worker in two places at a time.                              *)
TraceIsSound == JobDone => SoundTrace(JobTrace)

(* The figures of the report add up: the phases make up the wall clock, none  *)
(* is negative, no worker was busy for longer than the job took, and every    *)
(* task is credited to one worker.                                            *)
ReportAddsUp ==
    JobDone =>
        LET tr == JobTrace  p == Phases(tr)  u == Utilization(tr)
        IN /\ p.map + p.stall + p.reduce = p.wall
           /\ p.map >= 0 /\ p.stall >= 0 /\ p.reduce >= 0
           /\ \A w \in DOMAIN u : u[w].share <= 1000
           /\ SumUp([w \in DOMAIN u |-> u[w].tasks]) = NMap + NReduce
           /\ MeanBusyShare(tr) <= 1000

(* A replay shows every worker that was ever handed an attempt, also one      *)
(* whose attempts all lost, and the bars of a lane in the order the worker    *)
(* ran them.                                                                  *)
ReplayIsFaithful ==
    JobDone =>
        LET bars == Bars(JobTrace)
        IN /\ Lanes(JobTrace, events, NoWorker)
                 = {e.worker : e \in {f \in events : f.kind = "assigned"}}
           /\ Range(bars) = Range(taskMetrics)
           /\ \A i, j \in DOMAIN bars :
                 i < j => /\ bars[i].start <= bars[j].start
                          /\ bars[i].worker = bars[j].worker => bars[i].end <= bars[j].start
=============================================================================
