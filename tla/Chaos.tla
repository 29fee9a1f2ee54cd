------------------------------- MODULE Chaos -------------------------------
(***************************************************************************)
(* The fault-injection harness (src/chaos): one trial of a scenario runs a *)
(* job with the coordinator in its own process and a pool of worker        *)
(* processes, waits for a phase to get under way, kills workers and starts *)
(* replacements, waits for the job, stops the pool, and reads what each    *)
(* kill cost out of the coordinator's event log.                           *)
(*                                                                         *)
(* Processes are numbered in the order pool.spawn starts them, which is    *)
(* their index in pool.workers; Worker holds every number a run may need.  *)
(* The workers and the coordinator are those of module MapReduce; the      *)
(* SIGKILL of a running worker is its Crash.  A number that has not been   *)
(* started yet stands at its first request and takes no step.              *)
(***************************************************************************)
EXTENDS MapReduce

CONSTANTS
    Scenarios,     \* the fault matrix
    Erring,        \* bound: the scenarios in which local errors are tried
    Progresses,    \* percentages that progress may be drawn as
    Patient        \* the deadline is longer than a job with a worker needs

ScenarioType ==
    [workers : Nat \ {0}, killCount : Nat, killPhase : {"", "map", "reduce"},
     restart : BOOLEAN, killRepeat : Nat, drops : BOOLEAN]

ASSUME ScenarioAssumption ==
    /\ Scenarios \subseteq ScenarioType
    /\ Erring \subseteq Scenarios
    /\ Progresses \subseteq 20 .. 50
    /\ Patient \in BOOLEAN

RoundsOf(s) == IF s.killRepeat = 0 THEN s.killCount ELSE s.killRepeat

(* Processes are numbered from 0, and there is a number for each of a trial. *)
ASSUME PoolAssumption ==
    /\ IsFiniteSet(Worker) /\ Worker = 0 .. Cardinality(Worker) - 1
    /\ \A s \in Scenarios :
          s.workers + (IF s.restart THEN RoundsOf(s) ELSE 0) <= Cardinality(Worker)

VARIABLES
    sc,            \* the scenario of this trial
    progress,      \* how far the phase has to be, in percent
    harness,       \* what run does next
    started,       \* len(pool.workers)
    round,         \* of injectFaults
    kills,         \* what injectFaults returns, and history for each kill
    completedInTime, \* Outcome.Completed
    failed         \* history: the attempts given up after a local error

harnessVars == <<sc, progress, harness, started, round, kills, completedInTime>>
chaosVars == <<jobVars, harnessVars, failed>>

Rounds == RoundsOf(sc)

HarnessStep == {"wait", "kill", "spawn", "pause", "await", "stop", "over"}

(* A scenario without kills goes straight to waiting for the job. *)
ChaosInit ==
    /\ JobInit
    /\ sc \in Scenarios
    /\ progress \in Progresses
    /\ harness = IF sc.killCount = 0 /\ sc.killRepeat = 0 THEN "await" ELSE "wait"
    /\ started = sc.workers
    /\ round = 0
    /\ kills = {}
    /\ completedInTime = FALSE
    /\ failed = {}

GoOn(step) == harness' = step /\ UNCHANGED <<sc, progress, failed>>

-----------------------------------------------------------------------------
(* The pool of worker processes.                                           *)

Killed == {k.worker : k \in kills}
Running == {w \in Worker : w < started /\ pc[w] \notin Stopped}

(* What the worker drops stays running for the coordinator. *)
LocalError(w) ==
    /\ sc \in Erring
    /\ ExecuteFails(w) \/ RenameFails(w)
    /\ failed' = failed \cup {<<held[w].task, held[w].attempt>>}

(* A worker process works; only scenarios that say so lose calls. *)
WorkerSteps(w) ==
    /\ w < started
    /\ \/ Progress(w) /\ UNCHANGED failed
       \/ GetWait(w) /\ UNCHANGED failed
       \/ sc.drops /\ up /\ DialFails(w) /\ UNCHANGED failed
       \/ LocalError(w)
    /\ UNCHANGED harnessVars

(* stop: the signal reaches any process not waited for, running or exited. *)
Signal(w) == IF w \in Running THEN Crash(w) ELSE UNCHANGED jobVars

StopAll ==
    /\ harness = "stop"
    /\ pc' = [w \in Worker |-> IF w \in Running THEN "crashed" ELSE pc[w]]
    /\ held' = [w \in Worker |-> IF w \in Running THEN NoTask ELSE held[w]]
    /\ tries' = [w \in Worker |-> 0]
    /\ renamed' = [w \in Worker |-> 0]
    /\ GoOn("over")
    /\ UNCHANGED <<coordVars, budgetVars, final, delayed, up, granted,
                   started, round, kills, completedInTime>>

-----------------------------------------------------------------------------
(* injectFaults.                                                           *)

CommittedTasks(k) ==
    Cardinality({e \in events : e.kind = "committed" /\ KindOf(e.task) = k})

(* The part of reached that asks whether the phase is still running. *)
PhaseRunning ==
    IF sc.killPhase = "reduce"
    THEN "reducePhaseStart" \in marks /\ "jobEnd" \notin marks
    ELSE "mapPhaseEnd" \notin marks

Reached ==
    /\ PhaseRunning
    /\ 100 * CommittedTasks(sc.killPhase) >= progress * Total(sc.killPhase)

DeadlinePassed == Patient => Running = {} /\ ~JobDone

(* The poll sees the phase under way, or misses it and finds the job done. *)
WaitForPhase ==
    /\ harness = "wait"
    /\ \/ Reached /\ GoOn("kill")
       \/ ~Reached /\ (JobDone \/ DeadlinePassed) /\ GoOn("await")
    /\ UNCHANGED <<jobVars, started, round, kills, completedInTime>>

(* The pool index of this round's victim. *)
Slot == IF sc.killRepeat > 0 THEN started - 1 ELSE round

EndRound ==
    /\ round' = round + 1
    /\ GoOn(IF round + 1 < Rounds THEN "pause" ELSE "await")

(* What was running on the victim, and the log as it was, stay with the kill. *)
KillOf(w) ==
    [worker |-> w,
     running |-> IF held[w] = NoTask THEN {}
                 ELSE {<<held[w].task, held[w].attempt>>},
     before |-> events]

(* Bug for Kill: the index may be one past the pool. *)
KillUnchecked ==
    /\ harness = "kill"
    /\ Slot <= started /\ Slot \notin Killed
    /\ Signal(Slot)
    /\ kills' = kills \cup {KillOf(Slot)}
    /\ IF sc.restart THEN GoOn("spawn") /\ UNCHANGED round ELSE EndRound
    /\ UNCHANGED <<started, completedInTime>>

Kill ==
    /\ harness = "kill"
    /\ Slot < started /\ Slot \notin Killed
    /\ Signal(Slot)
    /\ kills' = kills \cup {KillOf(Slot)}
    /\ IF sc.restart THEN GoOn("spawn") /\ UNCHANGED round ELSE EndRound
    /\ UNCHANGED <<started, completedInTime>>

(* No process at the index, or one killed before: the round is skipped. *)
KillMisses ==
    /\ harness = "kill"
    /\ Slot >= started \/ Slot \in Killed
    /\ EndRound
    /\ UNCHANGED <<jobVars, started, kills, completedInTime>>

(* Bug for Spawn: the replacement is left out of the pool. *)
SpawnForgotten ==
    /\ harness = "spawn"
    /\ EndRound
    /\ UNCHANGED <<jobVars, started, kills, completedInTime>>

Spawn ==
    /\ harness = "spawn"
    /\ started' = started + 1
    /\ EndRound
    /\ UNCHANGED <<jobVars, kills, completedInTime>>

(* The replacement cannot be started: injectFaults returns at once. *)
SpawnFails ==
    /\ harness = "spawn"
    /\ faults < MaxFaults /\ faults' = faults + 1
    /\ GoOn("await")
    /\ UNCHANGED <<coordVars, workerVars, crashes, stalls, final, delayed, up, granted,
                   started, round, kills, completedInTime>>

(* After the sleep the job is looked at, not the phase. *)
Pause ==
    /\ harness = "pause"
    /\ GoOn(IF JobDone THEN "await" ELSE "kill")
    /\ UNCHANGED <<jobVars, started, round, kills, completedInTime>>

-----------------------------------------------------------------------------
(* awaitJob and the whole trial.                                           *)

AwaitJob ==
    /\ harness = "await"
    /\ \/ JobDone /\ completedInTime' = TRUE
       \/ DeadlinePassed /\ UNCHANGED completedInTime
    /\ GoOn("stop")
    /\ UNCHANGED <<jobVars, started, round, kills>>

RunSteps ==
    \/ WaitForPhase
    \/ Kill \/ KillMisses \/ Spawn \/ Pause
    \/ AwaitJob \/ StopAll

(* The coordinator of the trial: late requests, and its reaper. *)
CoordinatorSteps ==
    /\ \/ \E m \in delayed : HandleDelayed(m)
       \/ \E expired \in SUBSET Timed : expired # {} /\ ReaperPass(expired)
    /\ UNCHANGED <<harnessVars, failed>>

ChaosNext ==
    /\ harness # "over"
    /\ \/ \E w \in Worker : WorkerSteps(w)
       \/ CoordinatorSteps
       \/ RunSteps
       \/ SpawnFails

ChaosSpec == ChaosInit /\ [][ChaosNext]_chaosVars

(* As in MapReduce: live workers, the clock and the harness keep going. *)
ChaosFairness ==
    /\ \A w \in Worker :
          WF_chaosVars(/\ w < started /\ harness # "over"
                       /\ Progress(w) /\ UNCHANGED <<harnessVars, failed>>)
    /\ WF_chaosVars(/\ Orphans # {} /\ harness # "over"
                    /\ ReaperPass(Orphans) /\ UNCHANGED <<harnessVars, failed>>)
    /\ WF_chaosVars(RunSteps)

FairChaosSpec == ChaosSpec /\ ChaosFairness

-----------------------------------------------------------------------------
(* analyse: what the event log says after the trial.                       *)

AssignedIn(log) == {e \in log : e.kind = "assigned"}

CommittedAttempt(t, id) ==
    \E e \in events : e.kind = "committed" /\ e.task = t /\ e.attempt = id

(* No call of this trial has been lost. *)
Calm == ~sc.drops \/ faults = 0

(* workLost: attempts that never published anything, as the log has it. *)
LostAttempts == {e \in AssignedIn(events) : ~CommittedAttempt(e.task, e.attempt)}

(* Those of them that no worker gave up by itself. *)
CutShort == {e \in LostAttempts : <<e.task, e.attempt>> \notin failed}

(* Bug for Interrupted: the attempts are not looked up by worker. *)
InterruptedAny(k) == LostAttempts \cap k.before

(* What recoveryTimes takes kill k to have interrupted. *)
Interrupted(k) == {e \in LostAttempts : e.worker = k.worker /\ e \in k.before}

(* Those of them it measures a recovery for: handed out again after the kill. *)
Recovered(k) ==
    {e \in Interrupted(k) :
        \E f \in AssignedIn(events) \ k.before : f.task = e.task}

(* The tasks whose work kill k found preserved. *)
Preserved(k) == {e.task : e \in {f \in k.before : f.kind = "committed"}}

-----------------------------------------------------------------------------
(* Properties.                                                             *)

(* The job and the harness keep their types, and numbers for processes never  *)
(* run out.                                                                   *)
ChaosTypeOK ==
    /\ JobTypeOK
    /\ harness \in HarnessStep
    /\ started \in 1 .. Cardinality(Worker)
    /\ round \in 0 .. Rounds
    /\ Killed \subseteq 0 .. started - 1
    /\ completedInTime \in BOOLEAN

(* Until the job is done every process of the pool runs or was killed, and    *)
(* when the next kill is due each earlier one has been replaced: "one worker  *)
(* slot killed three times ..., replaced each time" (scenario.go).            *)
PoolStrength ==
    harness # "over" /\ ~JobDone =>
        /\ Cardinality(Running) = started - Cardinality(kills)
        /\ sc.restart /\ harness \in {"kill", "pause"} => Cardinality(Running) = sc.workers

(* A trial counted as completed has all its output in place when it is hashed *)
(* although the pool is killed first.                                         *)
OutcomeIsOutput ==
    harness = "over" /\ completedInTime => \A t \in Task : OutputInPlace(t)

(* "A kill costs exactly the tasks that were in flight on the dead worker and *)
(* nothing else" (docs/chaos.md): where no call is lost, each attempt that     *)
(* came to nothing without an error of its own was a killed worker's, one for *)
(* each kill at most, and what was committed before a kill is never run again. *)
CostOfKills ==
    /\ JobDone /\ Calm =>
          \A e \in CutShort :
              /\ e.worker \in Killed
              /\ \A f \in CutShort : f.worker = e.worker => f = e
    /\ \A k \in kills : \A e \in AssignedIn(events) \ k.before :
          e.task \notin Preserved(k)

(* recoveryTimes measures "for every task a killed worker was running, how    *)
(* long until that task was handed to somebody else", and nothing besides.    *)
RecoveriesAreReal ==
    harness = "over" =>
        \A k \in kills : \A e \in Recovered(k) : <<e.task, e.attempt>> \in k.running

(* As long as no live worker is timed out, what recoveryTimes measures of a   *)
(* kill is of what the victim was on, or had given up after a local error;    *)
(* and of a trial that completes it misses nothing the kill cut short.        *)
RecoveriesAreAccounted ==
    harness = "over" =>
        \A k \in kills :
            /\ \A e \in Recovered(k) : <<e.task, e.attempt>> \in k.running \cup failed
            /\ completedInTime =>
                  \A r \in k.running :
                      \/ CommittedAttempt(r[1], r[2])
                      \/ \E e \in Recovered(k) : <<e.task, e.attempt>> = r

(* Liveness: every trial ends, and unless its kills left no worker it counts  *)
(* as completed: "Every scenario finished" (docs/chaos.md).                   *)
TrialCompletes ==
    <>(harness = "over" /\ (Cardinality(kills) < started => completedInTime))
=============================================================================
