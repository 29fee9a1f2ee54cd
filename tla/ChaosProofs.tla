---------------------------- MODULE ChaosProofs ----------------------------
(***************************************************************************)
(* Proofs about module Chaos: what a trial of the fault-injection harness  *)
(* is taken to show, for any scenario, pool and number of kills.           *)
(***************************************************************************)
EXTENDS Chaos, MapReduceProofs

AllDone == \A t \in Task : state[t] = "Completed"

-----------------------------------------------------------------------------
(* The invariants.                                                         *)

(* The rounds and the pool: a replacement for each round at most. *)
PoolOK ==
    /\ sc \in Scenarios /\ up
    /\ harness \in HarnessStep /\ completedInTime \in BOOLEAN
    /\ round \in 0 .. Rounds
    /\ harness \in {"wait", "kill", "spawn", "pause"} => round < Rounds
    /\ started \in sc.workers .. sc.workers + round
    /\ ~sc.restart => started = sc.workers /\ harness # "spawn"
    /\ Rounds = 0 => kills = {}
    /\ Killed \subseteq 0 .. started - 1
    /\ IsFiniteSet(kills) /\ IsFiniteSet(Killed)
    /\ Cardinality(Killed) = Cardinality(kills)
    /\ sc.restart /\ harness \in {"wait", "kill", "pause"} =>
          started = sc.workers + Cardinality(kills)
    /\ sc.restart /\ harness = "spawn" => started + 1 = sc.workers + Cardinality(kills)

(* A process that is gone was killed, as long as there is work. *)
GoneWereKilled ==
    /\ \A w \in Worker : w \in Killed => pc[w] \in Stopped
    /\ MaxFaults < RpcAttempts =>
          \A w \in Worker :
             /\ tries[w] <= faults
             /\ pc[w] \in Stopped /\ ~JobDone => w \in Killed

(* What the log says of attempts and of the past of a kill. *)
LogOK ==
    /\ \A e \in AssignedIn(events) :
          e.worker \in Worker /\ e.attempt \in 1 .. nextAttempt[e.task]
    /\ \A e, f \in AssignedIn(events) :
          e.task = f.task /\ e.attempt = f.attempt => e = f
    /\ \A e \in events : e.kind = "committed" => state[e.task] = "Completed"
    /\ \A k \in kills :
          /\ k.before \subseteq events
          /\ \A e \in AssignedIn(events) \ k.before : e.task \notin Preserved(k)

(* Nothing is lost and nobody is slow: a task has one attempt at a time, a    *)
(* worker that is alive holds it until it has published it, and a late        *)
(* request is of an attempt nobody holds.                                     *)
Alone == \A t \in Task : \A a, b \in live[t] : a = b

Holds(t, id) == HoldsClearance(t, id) \/ MayClear(t, id)

Uncontested ==
    /\ Alone
    /\ \A w \in Worker :
          /\ pc[w] \in {"execute", "report"} => MayClear(held[w].task, held[w].attempt)
          /\ pc[w] \in {"publish", "commit"} => HoldsClearance(held[w].task, held[w].attempt)
    /\ \A m \in delayed : m.rpc # "request" =>
          \A w \in Worker :
             pc[w] \in Busy /\ held[w].task = m.task => held[w].attempt # m.attempt

(* An attempt that comes to nothing, and was not given up, is what its worker  *)
(* holds, or was holding when it was killed; there is one for each worker.     *)
HeldOrKilled ==
    \A e \in CutShort :
        \/ e.worker \in Killed
        \/ held[e.worker].task = e.task /\ held[e.worker].attempt = e.attempt

OneLossEach == \A e, f \in CutShort : e.worker = f.worker => e = f

(* A worker killed while it asked for a task may be handed one yet, only one. *)
LateOfKilled ==
    \A m \in delayed :
        /\ m.worker \in Killed
        /\ \A n \in delayed : n.worker = m.worker => n = m
        /\ m.rpc = "request" => \A e \in CutShort : e.worker # m.worker

RunningWhenKilled ==
    \A k \in kills : \A e \in CutShort :
        e.worker = k.worker /\ e \in k.before => <<e.task, e.attempt>> \in k.running

LossesOK == HeldOrKilled /\ OneLossEach /\ LateOfKilled /\ RunningWhenKilled

(* The attempt that runs is the last one handed out, and its worker's in the  *)
(* log.                                                                       *)
Newest == \A t \in Task : \A a \in live[t] : a.id = nextAttempt[t]

HandedOut(log, t, id, w) ==
    \E e \in AssignedIn(log) : e.task = t /\ e.attempt = id /\ e.worker = w

HeldLogged ==
    \A w \in Worker : pc[w] \in Busy => HandedOut(events, held[w].task, held[w].attempt, w)

(* What a kill interrupts was the victim's by then; it is committed all the   *)
(* same, handed out again, or still to be.                                    *)
Dealt(k, t, id) ==
    \/ CommittedAttempt(t, id)
    \/ \E f \in AssignedIn(events) \ k.before : f.task = t
    \/ state[t] # "Completed" /\ nextAttempt[t] = id

RunningIsDealt ==
    \A k \in kills : \A r \in k.running :
        /\ r \in Task \X Nat
        /\ HandedOut(k.before, r[1], r[2], k.worker)
        /\ Dealt(k, r[1], r[2])

Active == harness # "over"

-----------------------------------------------------------------------------
(* What a step of a trial is.                                              *)

LEMMA ScenarioTypes ==
    ASSUME PoolOK
    PROVE  /\ sc.workers \in Nat \ {0} /\ sc.restart \in BOOLEAN /\ sc.drops \in BOOLEAN
           /\ Rounds \in Nat /\ round \in Nat /\ started \in Nat \ {0}
           /\ started <= Cardinality(Worker) /\ Cardinality(Worker) \in Nat
           /\ 0 .. started - 1 \subseteq Worker
<1>1. sc \in Scenarios /\ sc \in ScenarioType
  BY ScenarioAssumption DEF PoolOK
<1>2. /\ sc.workers \in Nat \ {0} /\ sc.restart \in BOOLEAN /\ sc.drops \in BOOLEAN
      /\ Rounds \in Nat
  BY <1>1 DEF ScenarioType, Rounds, RoundsOf
<1>3. /\ Cardinality(Worker) \in Nat /\ Worker = 0 .. Cardinality(Worker) - 1
      /\ sc.workers + (IF sc.restart THEN Rounds ELSE 0) <= Cardinality(Worker)
  BY <1>1, PoolAssumption, FS_CardinalityType DEF Rounds
<1>4. /\ round \in 0 .. Rounds /\ started \in sc.workers .. sc.workers + round
      /\ ~sc.restart => started = sc.workers
  BY DEF PoolOK
<1> QED
  BY <1>2, <1>3, <1>4

(* A worker, a request, a pass of the reaper, or a signal that hits. *)
LEMMA ChaosCases ==
    ASSUME PoolOK, [ChaosNext]_chaosVars
    PROVE  /\ \/ UNCHANGED harnessVars
              \/ Active /\ (RunSteps \/ SpawnFails)
           /\ \/ StopAll
              \/ SpawnFails
              \/ UNCHANGED jobVars
              \/ Active /\ \E w \in Worker : WorkerSteps(w)
              \/ Active /\ CoordinatorSteps
              \/ Active /\ Kill /\ Slot \in Running /\ Slot \in Worker /\ Crash(Slot)
<1>1. Kill => UNCHANGED jobVars \/ (Slot \in Running /\ Slot \in Worker /\ Crash(Slot))
  BY DEF Kill, Signal, Running
<1>2. CASE UNCHANGED chaosVars
  BY <1>2 DEF chaosVars
<1>3. CASE ChaosNext
  BY <1>1, <1>3
     DEF ChaosNext, RunSteps, WorkerSteps, CoordinatorSteps, WaitForPhase, KillMisses,
         Spawn, Pause, AwaitJob, Active
<1> QED
  BY <1>2, <1>3

(* To the job a trial is a run of it, until the pool is stopped. *)
LEMMA TrialJobStep ==
    ASSUME PoolOK, [ChaosNext]_chaosVars, ~StopAll
    PROVE  [JobNext]_jobVars \/ SpawnFails
<1>1. ASSUME NEW w \in Worker, WorkerSteps(w) PROVE JobNext
  BY <1>1 DEF WorkerSteps, LocalError, JobNext
<1>2. CoordinatorSteps => JobNext
  BY DEF CoordinatorSteps, JobNext
<1>3. ASSUME NEW w \in Worker, Crash(w) PROVE JobNext
  BY <1>3 DEF JobNext
<1> QED
  BY <1>1, <1>2, <1>3, ChaosCases

LEMMA SpawnFailsLingers == SpawnFails => Lingers
BY DEF SpawnFails, Lingers, DelayedGrows, coordVars, workerVars

(* The coordinator of a trial is not stopped before the pool is. *)
LEMMA StaysUp ==
    ASSUME PoolOK, [ChaosNext]_chaosVars
    PROVE  up' = up
<1>1. ASSUME NEW w \in Worker, WorkerSteps(w) PROVE up' = up
  BY <1>1 DEF WorkerSteps, Progress, GetTask, GetExit, Execute, GetClearance, GetRefusal,
              Rename, ConfirmCommit, DialFails, GetWait, LocalError, ExecuteFails,
              RenameFails
<1>2. CoordinatorSteps => up' = up
  BY DEF CoordinatorSteps, HandleDelayed, ReaperPass
<1>3. ASSUME NEW w \in Worker, Crash(w) PROVE up' = up
  BY <1>3 DEF Crash
<1>4. StopAll \/ SpawnFails \/ UNCHANGED jobVars => up' = up
  BY DEF StopAll, SpawnFails, jobVars
<1> QED
  BY <1>1, <1>2, <1>3, <1>4, ChaosCases

-----------------------------------------------------------------------------
(* The pool.                                                               *)

LEMMA KillCounts ==
    ASSUME PoolOK, Kill
    PROVE  /\ Slot \in 0 .. started - 1 /\ Slot \notin Killed
           /\ Killed' = Killed \cup {Slot}
           /\ IsFiniteSet(kills') /\ IsFiniteSet(Killed')
           /\ Cardinality(kills') = Cardinality(kills) + 1
           /\ Cardinality(Killed') = Cardinality(kills')
           /\ Cardinality(kills) \in Nat
<1>1. /\ Slot < started /\ Slot \notin Killed /\ kills' = kills \cup {KillOf(Slot)}
  BY DEF Kill
<1>2. Slot \in 0 .. started - 1
  BY <1>1, ScenarioTypes DEF Slot
<1>3. KillOf(Slot).worker = Slot
  BY DEF KillOf
<1>4. KillOf(Slot) \notin kills
  BY <1>1, <1>3 DEF Killed
<1>5. Killed' = Killed \cup {Slot}
  BY <1>1, <1>3 DEF Killed
<1>6. IsFiniteSet(kills) /\ IsFiniteSet(Killed) /\ Cardinality(Killed) = Cardinality(kills)
  BY DEF PoolOK
<1>7. /\ IsFiniteSet(kills') /\ Cardinality(kills') = Cardinality(kills) + 1
  BY <1>1, <1>4, <1>6, FS_AddElement
<1>8. /\ IsFiniteSet(Killed') /\ Cardinality(Killed') = Cardinality(Killed) + 1
  BY <1>1, <1>5, <1>6, FS_AddElement
<1> QED
  BY <1>1, <1>2, <1>5, <1>6, <1>7, <1>8, FS_CardinalityType

(* A round ends with the pool at strength, and the next one begins or none. *)
LEMMA RoundEnds ==
    ASSUME PoolOK, EndRound, harness \in {"kill", "spawn"}
    PROVE  /\ sc' = sc /\ round' = round + 1 /\ round' \in 1 .. Rounds
           /\ harness' \in {"pause", "await"}
           /\ harness' = "pause" => round' < Rounds
           /\ Rounds' = Rounds
<1>1. round \in 0 .. Rounds /\ round < Rounds
  BY DEF PoolOK
<1>2. /\ sc' = sc /\ round' = round + 1
      /\ harness' = IF round + 1 < Rounds THEN "pause" ELSE "await"
  BY DEF EndRound, GoOn
<1> QED
  BY <1>1, <1>2, ScenarioTypes DEF Rounds

LEMMA PoolStep ==
    ASSUME PoolOK, [ChaosNext]_chaosVars
    PROVE  PoolOK'
<1>0. up' /\ (sc' = sc => Rounds' = Rounds)
  BY StaysUp DEF PoolOK, Rounds
<1>1. CASE UNCHANGED harnessVars
  BY <1>0, <1>1 DEF PoolOK, harnessVars, Killed
<1>2. CASE RunSteps \/ SpawnFails
  <2> USE ScenarioTypes DEF PoolOK, HarnessStep
  <2>1. CASE WaitForPhase \/ Pause \/ AwaitJob \/ StopAll \/ SpawnFails
    <3>1. /\ UNCHANGED <<sc, started, round, kills>>
          /\ completedInTime' \in BOOLEAN
          /\ \/ harness = "wait" /\ harness' \in {"kill", "await"}
             \/ harness = "pause" /\ harness' \in {"kill", "await"}
             \/ harness = "await" /\ harness' = "stop"
             \/ harness = "stop" /\ harness' = "over"
             \/ harness = "spawn" /\ harness' = "await"
      BY <2>1 DEF WaitForPhase, Pause, AwaitJob, StopAll, SpawnFails, GoOn
    <3>2. Killed' = Killed
      BY <3>1 DEF Killed
    <3> QED
      BY <1>0, <3>1, <3>2
  <2>2. CASE KillMisses
    <3>1. /\ UNCHANGED <<sc, started, kills, completedInTime>> /\ harness = "kill"
          /\ EndRound
      BY <2>2, RoundEnds DEF KillMisses
    <3>2. Killed' = Killed
      BY <3>1 DEF Killed
    <3> QED
      BY <1>0, <3>1, <3>2, RoundEnds
  <2>3. CASE Kill
    <3>1. /\ started' = started /\ completedInTime' = completedInTime /\ harness = "kill"
          /\ \/ sc.restart /\ harness' = "spawn" /\ round' = round /\ sc' = sc
             \/ ~sc.restart /\ EndRound
      BY <2>3 DEF Kill, GoOn
    <3>2. /\ Slot \in 0 .. started - 1 /\ Killed' = Killed \cup {Slot}
          /\ IsFiniteSet(kills') /\ IsFiniteSet(Killed')
          /\ Cardinality(kills') = Cardinality(kills) + 1
          /\ Cardinality(Killed') = Cardinality(kills') /\ Cardinality(kills) \in Nat
      BY <2>3, KillCounts
    <3>3. Rounds # 0
      BY <3>1
    <3>4. CASE sc.restart
      BY <1>0, <3>1, <3>2, <3>3, <3>4
    <3>5. CASE ~sc.restart
      BY <1>0, <3>1, <3>2, <3>3, <3>5, RoundEnds
    <3> QED
      BY <3>4, <3>5
  <2>4. CASE Spawn
    <3>1. /\ started' = started + 1 /\ UNCHANGED <<kills, completedInTime>>
          /\ harness = "spawn" /\ EndRound
      BY <2>4 DEF Spawn
    <3>2. Killed' = Killed
      BY <3>1 DEF Killed
    <3>3. Cardinality(kills) \in Nat
      BY FS_CardinalityType
    <3>4. sc' = sc /\ sc.restart
      BY <3>1, RoundEnds
    <3> QED
      BY <1>0, <3>1, <3>2, <3>3, <3>4, RoundEnds
  <2> QED
    BY <1>2, <2>1, <2>2, <2>3, <2>4 DEF RunSteps
<1> QED
  BY <1>1, <1>2, ChaosCases

LEMMA PoolInit == ChaosInit => PoolOK
<1> SUFFICES ASSUME ChaosInit PROVE PoolOK
  OBVIOUS
<1>1. sc \in Scenarios /\ sc \in ScenarioType /\ up /\ kills = {} /\ round = 0
      /\ started = sc.workers /\ completedInTime = FALSE
      /\ harness = IF sc.killCount = 0 /\ sc.killRepeat = 0 THEN "await" ELSE "wait"
  BY ScenarioAssumption DEF ChaosInit, JobInit
<1>2. Killed = {} /\ IsFiniteSet(kills) /\ Cardinality(kills) = 0
  BY <1>1, FS_EmptySet DEF Killed
<1>3. /\ sc.workers \in Nat \ {0} /\ sc.killCount \in Nat /\ sc.killRepeat \in Nat
  BY <1>1 DEF ScenarioType
<1>4. /\ Rounds \in Nat /\ harness \in {"wait", "await"}
      /\ harness = "wait" => 0 < Rounds
  BY <1>1, <1>3 DEF Rounds, RoundsOf
<1>5. round \in 0 .. Rounds /\ started \in sc.workers .. sc.workers + round
  BY <1>1, <1>3, <1>4
<1>6. Killed \subseteq 0 .. started - 1 /\ Cardinality(Killed) = Cardinality(kills)
  BY <1>1, <1>2
<1>7. started = sc.workers + Cardinality(kills)
  BY <1>1, <1>2, <1>3
<1> QED
  BY <1>1, <1>2, <1>4, <1>5, <1>6, <1>7 DEF PoolOK, HarnessStep

-----------------------------------------------------------------------------
(* Who is gone.                                                            *)

(* A finished job stays finished. *)
LEMMA DoneIsAll == PhaseInv => (JobDone <=> AllDone)
<1> SUFFICES ASSUME PhaseInv PROVE JobDone <=> AllDone
  OBVIOUS
<1>1. ASSUME JobDone PROVE AllDone
  <2>1. \A k \in Kind : \A t \in TasksOf(k) : state[t] = "Completed"
    BY <1>1, FullCounter DEF PhaseInv, JobDone
  <2> QED
    BY <2>1 DEF AllDone, Task, Kind
<1>2. ASSUME AllDone PROVE JobDone
  <2>1. ASSUME NEW k \in Kind PROVE completed[k] = Total(k)
    <3>1. TasksOf(k) = {t \in TasksOf(k) : state[t] = "Completed"}
      BY <1>2 DEF AllDone, Task, Kind
    <3>2. Cardinality(TasksOf(k)) = Total(k)
      BY TaskCount
    <3> QED
      BY <3>1, <3>2 DEF PhaseInv, CompletedCount
  <2> QED
    BY <2>1 DEF JobDone
<1> QED
  BY <1>1, <1>2

LEMMA DoneIsAllNext == PhaseInv' => (JobDone' <=> AllDone')
BY DoneIsAll, PTL

LEMMA DoneStays ==
    ASSUME WorkerInv, JobStep
    PROVE  PhaseInv' /\ (JobDone => JobDone')
<1>1. PhaseInv /\ PhaseInv'
  BY JobCoordStep, PhaseInvStep DEF WorkerInv
<1>2. JobDone <=> AllDone
  BY <1>1, DoneIsAll
<1>3. JobDone' <=> AllDone'
  BY <1>1, DoneIsAllNext
<1>4. AllDone => AllDone'
  BY Forward DEF AllDone
<1> QED
  BY <1>1, <1>2, <1>3, <1>4

(* What a worker process of the pool may do to itself. *)
LEMMA WorkerMoves ==
    ASSUME WorkerInv, up, NEW w \in Worker, WorkerSteps(w)
    PROVE  /\ pc[w] \notin Stopped
           /\ pc' = [pc EXCEPT ![w] = pc'[w]] /\ tries' = [tries EXCEPT ![w] = tries'[w]]
           /\ pc'[w] \in Stopped => JobDone \/ (DialFails(w) /\ LastDial(w))
           /\ \/ faults' = faults /\ tries'[w] \in {0, tries[w]}
              \/ /\ faults < MaxFaults /\ faults' = faults + 1
                 /\ tries'[w] \in {0, tries[w] + 1}
<1> USE DEF PC, Calling, Stopped
<1>0. pc \in [Worker -> PC] /\ tries \in [Worker -> 0 .. RpcAttempts - 1]
  BY DEF WorkerInv, JobTypeOK
<1>1. ASSUME NEW p, Leave(w, p) \/ GoTo(w, p)
      PROVE  /\ pc' = [pc EXCEPT ![w] = pc'[w]] /\ pc'[w] = p
             /\ tries' = [tries EXCEPT ![w] = tries'[w]] /\ tries'[w] = 0
  <2>1. pc' = [pc EXCEPT ![w] = p] /\ tries' = [tries EXCEPT ![w] = 0]
    BY <1>1 DEF Leave, GoTo
  <2>2. pc'[w] = p /\ tries'[w] = 0
    BY <1>0, <2>1
  <2> QED
    BY <2>1, <2>2
<1>2. CASE GetTask(w) \/ GetWait(w)
  <2>1. /\ \/ pc' = [pc EXCEPT ![w] = "execute"]
           \/ pc' = pc
        /\ tries' = [tries EXCEPT ![w] = 0] /\ faults' = faults /\ pc[w] = "request"
    BY <1>2 DEF GetTask, GetWait, budgetVars
  <2>2. /\ tries'[w] = 0 /\ pc'[w] \in {"execute", "request"}
        /\ pc' = [pc EXCEPT ![w] = pc'[w]]
    BY <1>0, <2>1
  <2> QED
    BY <2>1, <2>2
<1>3. CASE GetExit(w)
  BY <1>1, <1>3 DEF GetExit, TellExit, budgetVars
<1>4. CASE Execute(w) \/ GetClearance(w) \/ GetRefusal(w) \/ ConfirmCommit(w)
  <2>1. /\ pc[w] \in {"execute", "report", "commit"} /\ faults' = faults
        /\ \E p \in {"report", "publish", "request"} : Leave(w, p) \/ GoTo(w, p)
    BY <1>4 DEF Execute, GetClearance, GetRefusal, ConfirmCommit, budgetVars
  <2> PICK p \in {"report", "publish", "request"} : Leave(w, p) \/ GoTo(w, p)
    BY <2>1
  <2>2. /\ pc' = [pc EXCEPT ![w] = pc'[w]] /\ pc'[w] = p
        /\ tries' = [tries EXCEPT ![w] = tries'[w]] /\ tries'[w] = 0
    BY <1>1
  <2> QED
    BY <2>1, <2>2
<1>5. CASE Rename(w)
  <2>1. /\ pc' = [pc EXCEPT ![w] = IF LastFile(w) THEN "commit" ELSE "publish"]
        /\ tries' = tries /\ faults' = faults /\ pc[w] = "publish"
    BY <1>5 DEF Rename, budgetVars
  <2>2. /\ pc'[w] \in {"commit", "publish"} /\ tries'[w] = tries[w]
        /\ pc' = [pc EXCEPT ![w] = pc'[w]] /\ tries' = [tries EXCEPT ![w] = tries'[w]]
    BY <1>0, <2>1
  <2> QED
    BY <2>1, <2>2
<1>6. CASE sc.drops /\ DialFails(w)
  <2>1. /\ pc[w] \in Calling /\ faults < MaxFaults /\ faults' = faults + 1
    BY <1>6 DEF DialFails
  <2>2. CASE LastDial(w)
    BY <1>1, <1>6, <2>1, <2>2 DEF DialFails, GiveUp
  <2>3. CASE ~LastDial(w)
    <3>1. tries' = [tries EXCEPT ![w] = tries[w] + 1] /\ pc' = pc
      BY <1>6, <2>3 DEF DialFails
    <3>2. /\ tries'[w] = tries[w] + 1
          /\ pc' = [pc EXCEPT ![w] = pc'[w]] /\ tries' = [tries EXCEPT ![w] = tries'[w]]
      BY <1>0, <3>1
    <3> QED
      BY <1>6, <2>1, <3>1, <3>2
  <2> QED
    BY <2>2, <2>3
<1>7. CASE LocalError(w)
  <2>1. /\ pc[w] \in {"execute", "publish"} /\ Leave(w, "request")
        /\ faults' = faults \/ (faults < MaxFaults /\ faults' = faults + 1)
    BY <1>7 DEF LocalError, ExecuteFails, RenameFails
  <2>2. /\ pc' = [pc EXCEPT ![w] = pc'[w]] /\ pc'[w] = "request"
        /\ tries' = [tries EXCEPT ![w] = tries'[w]] /\ tries'[w] = 0
    BY <1>1, <2>1
  <2> QED
    BY <2>1, <2>2
<1> QED
  BY <1>2, <1>3, <1>4, <1>5, <1>6, <1>7 DEF WorkerSteps, Progress

(* A kill leaves its victim stopped, whatever it was doing, and nobody else. *)
LEMMA KillStops ==
    ASSUME WorkerInv, PoolOK, Kill
    PROVE  /\ Slot \in Worker /\ pc' = [pc EXCEPT ![Slot] = pc'[Slot]]
           /\ pc'[Slot] \in Stopped
           /\ tries' = [tries EXCEPT ![Slot] = tries'[Slot]]
           /\ tries'[Slot] \in {0, tries[Slot]} /\ faults' = faults
<1>0. pc \in [Worker -> PC] /\ tries \in [Worker -> 0 .. RpcAttempts - 1]
  BY DEF WorkerInv, JobTypeOK
<1>1. Slot \in Worker /\ Slot < started
  BY KillCounts, ScenarioTypes DEF Kill
<1> PICK w \in Worker : w = Slot
  BY <1>1
<1>2. CASE w \in Running
  <2>1. Crash(w)
    BY <1>2 DEF Kill, Signal
  <2>2. /\ pc' = [pc EXCEPT ![w] = "crashed"] /\ tries' = [tries EXCEPT ![w] = 0]
        /\ faults' = faults
    BY <2>1 DEF Crash, Leave
  <2> QED
    BY <1>0, <2>2 DEF Stopped
<1>3. CASE w \notin Running
  <2>1. UNCHANGED jobVars
    BY <1>3 DEF Kill, Signal
  <2>2. pc' = pc /\ tries' = tries /\ faults' = faults /\ pc[w] \in Stopped
    BY <1>1, <1>3, <2>1 DEF Running, jobVars, workerVars, budgetVars
  <2> QED
    BY <1>0, <2>2
<1> QED
  BY <1>2, <1>3

(* Only a kill adds to the kills; the other steps of the harness, late        *)
(* requests and the reaper leave the workers alone.                           *)
LEMMA OtherSteps ==
    ASSUME PoolOK, [ChaosNext]_chaosVars, ~Kill, ~StopAll
    PROVE  /\ kills' = kills /\ sc' = sc
           /\ \/ \E w \in Worker : WorkerSteps(w)
              \/ /\ UNCHANGED workerVars
                 /\ faults' = faults \/ (SpawnFails /\ faults' = faults + 1)
<1>1. kills' = kills /\ sc' = sc
  BY ChaosCases DEF harnessVars, RunSteps, WaitForPhase, KillMisses, Spawn, Pause, AwaitJob,
                    SpawnFails, EndRound, GoOn
<1>2. CoordinatorSteps => UNCHANGED workerVars /\ faults' = faults
  BY DEF CoordinatorSteps, HandleDelayed, ReaperPass, budgetVars
<1>3. UNCHANGED jobVars => UNCHANGED workerVars /\ faults' = faults
  BY DEF jobVars, budgetVars
<1>4. SpawnFails => UNCHANGED workerVars /\ faults' = faults + 1
  BY DEF SpawnFails
<1> QED
  BY <1>1, <1>2, <1>3, <1>4, ChaosCases

LEMMA GoneStep ==
    ASSUME WorkerInv, PoolOK, GoneWereKilled, [ChaosNext]_chaosVars, ~StopAll
    PROVE  GoneWereKilled'
<1>0. /\ pc \in [Worker -> PC] /\ tries \in [Worker -> 0 .. RpcAttempts - 1]
      /\ faults \in Nat /\ RpcAttempts \in Nat /\ MaxFaults \in Nat
  BY WorkerBoundsAssumption DEF WorkerInv, JobTypeOK
<1>1. JobStep
  BY TrialJobStep, JobCases, SpawnFailsLingers DEF JobStep
<1>2. ~JobDone' => ~JobDone
  BY <1>1, DoneStays
<1>3. CASE Kill
  <2> PICK v \in Worker : v = Slot
    BY <1>3, KillStops
  <2>1. /\ Killed' = Killed \cup {v} /\ pc' = [pc EXCEPT ![v] = pc'[v]]
        /\ pc'[v] \in Stopped /\ faults' = faults
        /\ tries' = [tries EXCEPT ![v] = tries'[v]] /\ tries'[v] \in {0, tries[v]}
    BY <1>3, KillCounts, KillStops
  <2>2. ASSUME NEW w \in Worker
        PROVE  /\ w \in Killed' => pc'[w] \in Stopped
               /\ MaxFaults < RpcAttempts =>
                     /\ tries'[w] <= faults'
                     /\ pc'[w] \in Stopped /\ ~JobDone' => w \in Killed'
    <3>1. CASE w = v
      BY <1>0, <2>1, <3>1 DEF GoneWereKilled
    <3>2. CASE w # v
      <4>1. pc'[w] = pc[w] /\ tries'[w] = tries[w]
        BY <1>0, <2>1, <3>2
      <4> QED
        BY <1>2, <2>1, <3>2, <4>1 DEF GoneWereKilled
    <3> QED
      BY <3>1, <3>2
  <2> QED
    BY <2>2 DEF GoneWereKilled
<1>4. CASE ~Kill
  <2>1. kills' = kills
    BY <1>4, OtherSteps
  <2>2. Killed' = Killed
    BY <2>1 DEF Killed
  <2>3. CASE UNCHANGED workerVars /\ faults' \in {faults, faults + 1}
    BY <1>0, <1>2, <2>2, <2>3 DEF GoneWereKilled, workerVars
  <2>4. ASSUME NEW v \in Worker, WorkerSteps(v) PROVE GoneWereKilled'
    <3>1. /\ pc[v] \notin Stopped
          /\ pc' = [pc EXCEPT ![v] = pc'[v]] /\ tries' = [tries EXCEPT ![v] = tries'[v]]
          /\ pc'[v] \in Stopped => JobDone \/ (DialFails(v) /\ LastDial(v))
          /\ \/ faults' = faults /\ tries'[v] \in {0, tries[v]}
             \/ /\ faults < MaxFaults /\ faults' = faults + 1
                /\ tries'[v] \in {0, tries[v] + 1}
      BY <2>4, WorkerMoves DEF PoolOK
    <3>2. ASSUME MaxFaults < RpcAttempts, DialFails(v), LastDial(v) PROVE FALSE
      <4>1. faults < MaxFaults
        BY <3>2 DEF DialFails, PoolOK
      <4> QED
        BY <1>0, <3>2, <4>1 DEF LastDial, GoneWereKilled
    <3>3. ASSUME NEW w \in Worker
          PROVE  /\ w \in Killed' => pc'[w] \in Stopped
                 /\ MaxFaults < RpcAttempts =>
                       /\ tries'[w] <= faults'
                       /\ pc'[w] \in Stopped /\ ~JobDone' => w \in Killed'
      <4>1. CASE w = v
        BY <1>0, <1>2, <2>2, <3>1, <3>2, <4>1 DEF GoneWereKilled
      <4>2. CASE w # v
        <5>1. pc'[w] = pc[w] /\ tries'[w] = tries[w]
          BY <1>0, <3>1, <4>2
        <5> QED
          BY <1>0, <1>2, <2>2, <3>1, <5>1 DEF GoneWereKilled
      <4> QED
        BY <4>1, <4>2
    <3> QED
      BY <3>3 DEF GoneWereKilled
  <2> QED
    BY <1>4, <2>3, <2>4, OtherSteps
<1> QED
  BY <1>3, <1>4

-----------------------------------------------------------------------------
(* The log.                                                                *)

(* What is assigned or committed stays so. *)
LEMMA LogStep ==
    ASSUME AttemptInv, LogOK, CoordStep, kills' = kills
    PROVE  LogOK'
<1>0. /\ events \subseteq events'
      /\ \A t \in Task : /\ nextAttempt[t] \in Nat /\ nextAttempt'[t] \in Nat
                         /\ nextAttempt[t] <= nextAttempt'[t]
                         /\ state[t] = "Completed" => state'[t] = "Completed"
      /\ \A e \in events' : e.task \in Task /\ e.attempt \in Nat
  <2>1. events' \subseteq Event
    BY TypeStep DEF AttemptInv, TypeOK
  <2> QED
    BY <2>1, EventsGrow, CoordForward DEF AttemptInv, TypeOK, Event
<1> PICK new : new = events' \ events
  OBVIOUS
<1>1. \A e \in new :
         /\ e.kind = "assigned" =>
               /\ e.worker \in Worker /\ state[e.task] # "Completed"
               /\ e.attempt = nextAttempt[e.task] + 1
               /\ nextAttempt'[e.task] = nextAttempt[e.task] + 1
         /\ e.kind = "committed" => state'[e.task] = "Completed"
  BY EventsGrow DEF Noted
<1>2. \A e, f \in new : e.kind = "assigned" => e = f
  BY EventsGrow DEF Noted
<1>3. ASSUME NEW e \in AssignedIn(events')
      PROVE  e.worker \in Worker /\ e.attempt \in 1 .. nextAttempt'[e.task]
  BY <1>0, <1>1, <1>3 DEF AssignedIn, LogOK
<1>4. ASSUME NEW e \in AssignedIn(events'), NEW f \in AssignedIn(events'),
             e.task = f.task, e.attempt = f.attempt
      PROVE  e = f
  <2>1. \A g \in AssignedIn(events') :
           \/ g \in new /\ g.attempt = nextAttempt[g.task] + 1
           \/ g \in AssignedIn(events) /\ g.attempt <= nextAttempt[g.task]
    BY <1>0, <1>1 DEF AssignedIn, LogOK
  <2>2. \A g \in AssignedIn(events') : g.kind = "assigned" /\ nextAttempt[g.task] \in Nat
    BY <1>0 DEF AssignedIn
  <2>3. CASE e \in new /\ f \in new
    BY <1>2, <2>2, <2>3
  <2>4. CASE e \notin new /\ f \notin new
    BY <1>4, <2>1, <2>4 DEF LogOK
  <2>5. ASSUME NEW g \in AssignedIn(events'), NEW h \in AssignedIn(events'),
               g \in new, h \notin new, g.task = h.task, g.attempt = h.attempt
        PROVE  FALSE
    <3>1. /\ nextAttempt[g.task] \in Nat /\ g.attempt = nextAttempt[g.task] + 1
          /\ h.attempt <= nextAttempt[g.task] /\ h.attempt \in Nat
      BY <1>0, <1>1, <2>1, <2>2, <2>5 DEF AssignedIn
    <3> QED
      BY <2>5, <3>1
  <2> QED
    BY <1>4, <2>3, <2>4, <2>5
<1>5. ASSUME NEW e \in events', e.kind = "committed" PROVE state'[e.task] = "Completed"
  BY <1>0, <1>1, <1>5 DEF LogOK
<1>6. ASSUME NEW k \in kills
      PROVE  /\ k.before \subseteq events'
             /\ \A e \in AssignedIn(events') \ k.before : e.task \notin Preserved(k)
  <2>1. k.before \subseteq events
    BY DEF LogOK
  <2>2. ASSUME NEW t \in Preserved(k) PROVE state[t] = "Completed"
    BY <2>1 DEF Preserved, LogOK
  <2>3. ASSUME NEW e \in AssignedIn(events') \ k.before, e.task \in Preserved(k) PROVE FALSE
    <3>1. CASE e \in new
      BY <1>1, <2>2, <2>3, <3>1 DEF AssignedIn
    <3>2. CASE e \notin new
      BY <2>3, <3>2 DEF AssignedIn, LogOK
    <3> QED
      BY <3>1, <3>2
  <2> QED
    BY <1>0, <2>1, <2>3
<1> QED
  BY <1>3, <1>4, <1>5, <1>6 DEF LogOK

(* A kill starts with the log of its moment as its past. *)
LEMMA LogKill ==
    ASSUME LogOK, Kill
    PROVE  LogOK'
<1>1. UNCHANGED <<events, state, nextAttempt>> /\ kills' = kills \cup {KillOf(Slot)}
  BY DEF Kill, Signal, Crash, coordVars, jobVars, vars
<1>2. KillOf(Slot).before = events
  BY DEF KillOf
<1>3. AssignedIn(events) \ events = {}
  BY DEF AssignedIn
<1> QED
  BY <1>1, <1>2, <1>3 DEF LogOK, AssignedIn, Preserved

LEMMA LogTrialStep ==
    ASSUME WorkerInv, PoolOK, LogOK, [ChaosNext]_chaosVars, ~StopAll
    PROVE  LogOK'
<1>1. AttemptInv /\ CoordStep
  BY TrialJobStep, JobCases, JobCoordStep, SpawnFailsLingers DEF JobStep, WorkerInv, PhaseInv
<1> QED
  BY <1>1, LogKill, LogStep, OtherSteps

-----------------------------------------------------------------------------
(* Trials in which nothing is lost and no live worker is timed out.        *)

Advances(w) ==
    \/ GetTask(w) \/ GetExit(w) \/ Execute(w) \/ GetClearance(w) \/ GetRefusal(w)
    \/ Rename(w) \/ ConfirmCommit(w)

Idles == UNCHANGED <<state, nextAttempt, live, committer, events, pc, held, delayed>>

(* Anything else that happens to a job. *)
Besides ==
    \/ \E m \in delayed : HandleDelayed(m)
    \/ \E expired \in SUBSET Timed : ReaperPass(expired)
    \/ \E v \in Worker : Crash(v) \/ LocalError(v)
    \/ Idles

(* A worker that gives up its attempt goes on asking, and tells nobody. *)
LEMMA ErrorMoves ==
    ASSUME NEW w, LocalError(w)
    PROVE  /\ UNCHANGED <<vars, delayed>> /\ pc[w] \in {"execute", "publish"}
           /\ pc' = [pc EXCEPT ![w] = "request"] /\ held' = [held EXCEPT ![w] = NoTask]
           /\ failed' = failed \cup {<<held[w].task, held[w].attempt>>}
BY DEF LocalError, ExecuteFails, RenameFails, Leave, coordVars

LEMMA FailedGrows == [ChaosNext]_chaosVars => failed \subseteq failed'
BY DEF ChaosNext, WorkerSteps, LocalError, CoordinatorSteps, RunSteps, WaitForPhase, Kill,
       KillMisses, Spawn, Pause, AwaitJob, StopAll, SpawnFails, EndRound, GoOn, chaosVars

LEMMA CalmStays ==
    ASSUME WorkerInv, PoolOK, [ChaosNext]_chaosVars, ~StopAll, Calm'
    PROVE  Calm
<1>1. faults \in Nat
  BY WorkerBoundsAssumption DEF WorkerInv, JobTypeOK
<1>2. sc' = sc
  BY ChaosCases DEF harnessVars, RunSteps, WaitForPhase, Kill, KillMisses, Spawn, Pause,
                    AwaitJob, SpawnFails, EndRound, GoOn
<1>3. faults' = faults \/ faults' = faults + 1
  BY OtherSteps, KillStops, WorkerMoves DEF PoolOK
<1> QED
  BY <1>1, <1>2, <1>3 DEF Calm

LEMMA CalmCases ==
    ASSUME WorkerInv, PoolOK, [ChaosNext]_chaosVars, ~StopAll, Calm'
    PROVE  \/ kills' = kills /\ \/ \E w \in Worker : Advances(w) \/ LocalError(w)
                                \/ \E m \in delayed : HandleDelayed(m)
                                \/ \E expired \in SUBSET Timed : ReaperPass(expired)
           \/ Kill /\ Slot \in Worker /\ Crash(Slot)
           \/ Idles /\ (kills' = kills \/ (Kill /\ pc[Slot] \in Stopped))
<1>1. ASSUME NEW w \in Worker, WorkerSteps(w)
      PROVE  Advances(w) \/ LocalError(w) \/ Idles
  <2>1. CASE sc.drops /\ DialFails(w)
    <3>1. faults' = faults + 1 /\ faults \in Nat /\ sc' = sc
      BY <1>1, <2>1, WorkerBoundsAssumption
         DEF DialFails, PoolOK, WorkerSteps, harnessVars, WorkerInv, JobTypeOK
    <3> QED
      BY <2>1, <3>1 DEF Calm
  <2>2. GetWait(w) => Idles
    BY DEF GetWait, TellWait, Idles
  <2> QED
    BY <1>1, <2>1, <2>2 DEF WorkerSteps, Progress, Advances, PoolOK
<1>2. UNCHANGED jobVars \/ SpawnFails => Idles
  BY DEF jobVars, SpawnFails, coordVars, workerVars, vars, Idles
<1>3. Kill => Slot \in Worker /\ (Crash(Slot) \/ (UNCHANGED jobVars /\ pc[Slot] \in Stopped))
  BY KillStops DEF Kill, Signal, Running
<1>4. ~Kill => kills' = kills
  BY OtherSteps
<1>5. CoordinatorSteps =>
          \/ \E m \in delayed : HandleDelayed(m)
          \/ \E expired \in SUBSET Timed : ReaperPass(expired)
  BY DEF CoordinatorSteps
<1> QED
  BY <1>1, <1>2, <1>3, <1>4, <1>5, ChaosCases

(* A step of the coordinator leaves alone the attempt that id is of task t. *)
Spares(t, id) ==
    /\ state'[t] = state[t] /\ committer'[t] = committer[t]
    /\ \A a \in live[t] : a.id = id => a \in live'[t]

LEMMA AloneStep ==
    ASSUME ~Speculation, AttemptInv, Alone, CoordStep
    PROVE  Alone'
<1>0. live \in [Task -> SUBSET Attempt]
  BY DEF AttemptInv, TypeOK
<1>1. ASSUME NEW u \in Task, NEW w \in Worker, NEW backup \in BOOLEAN,
             AssignTask(u, w, backup), NEW t \in Task
      PROVE  \A a, b \in live'[t] : a = b
  <2>1. Start(u, w, backup) /\ state[u] = "Idle"
    BY <1>1, AssignStarts DEF FirstIdle, Stragglers
  <2>2. live[u] = {}
    BY <2>1 DEF AttemptInv, LiveMatchesState
  <2> PICK a : a = [id |-> nextAttempt[u] + 1, worker |-> w, backup |-> backup]
    OBVIOUS
  <2>3. live' = [live EXCEPT ![u] = live[u] \cup {a}]
    BY <2>1 DEF Start
  <2>4. live'[u] = {a} /\ (t # u => live'[t] = live[t])
    BY <1>0, <2>2, <2>3
  <2> QED
    BY <2>4 DEF Alone
<1>2. ASSUME NEW t \in Task, live'[t] \subseteq live[t]
      PROVE  \A a, b \in live'[t] : a = b
  BY <1>2 DEF Alone
<1>3. ASSUME NEW expired, Reap(expired), NEW t \in Task PROVE live'[t] \subseteq live[t]
  BY <1>3, ReapTask DEF AttemptInv
<1>4. ASSUME NEW u \in Task, NEW id, NEW w, NEW backup, Confirm(u, id, w, backup),
             NEW t \in Task
      PROVE  live'[t] \subseteq live[t]
  BY <1>0, <1>4 DEF Confirm
<1>5. TellWait \/ Clears \/ Refuses \/ UNCHANGED vars => live' = live
  BY DEF TellWait, Clears, Clear, Refuses, Refuse, vars
<1> QED
  BY <1>1, <1>2, <1>3, <1>4, <1>5 DEF CoordStep, Assigns, Reaps, Confirms, Alone

LEMMA AssignSpares ==
    ASSUME ~Speculation, AttemptInv, NEW t \in Task, NEW id, Holds(t, id),
           NEW u \in Task, NEW w \in Worker, NEW backup \in BOOLEAN,
           AssignTask(u, w, backup)
    PROVE  Spares(t, id)
<1>1. Start(u, w, backup) /\ state[u] = "Idle" /\ committer' = committer
  BY AssignStarts DEF FirstIdle, Stragglers, AssignTask
<1>2. t # u
  BY <1>1 DEF Holds, HoldsClearance, MayClear
<1>3. state'[t] = state[t] /\ live'[t] = live[t]
  BY <1>1, <1>2 DEF Start, AttemptInv, TypeOK
<1> QED
  BY <1>1, <1>3 DEF Spares

(* With one attempt running only that one can be cleared, or confirmed. *)
LEMMA ClearSpares ==
    ASSUME AttemptInv, Alone, NEW t \in Task, NEW id, Holds(t, id),
           NEW u \in Task, NEW i, Clear(u, i), u # t \/ i # id
    PROVE  Spares(t, id)
<1>1. u # t
  BY DEF Clear, Holds, HoldsClearance, MayClear, IsLive, Alone
<1> QED
  BY <1>1 DEF Clear, Spares, AttemptInv, TypeOK

LEMMA ConfirmSpares ==
    ASSUME AttemptInv, NEW t \in Task, NEW id, Holds(t, id),
           NEW u \in Task, NEW i, NEW w, NEW backup, Confirm(u, i, w, backup),
           u # t \/ i # id
    PROVE  Spares(t, id)
<1>1. u # t
  BY DEF Confirm, Holds, HoldsClearance, MayClear
<1> QED
  BY <1>1 DEF Confirm, Spares, AttemptInv, TypeOK

LEMMA ReapSpares ==
    ASSUME AttemptInv, NEW t \in Task, NEW id, Holds(t, id),
           NEW expired, Reap(expired), <<t, id>> \notin expired
    PROVE  Spares(t, id)
<1>1. ~GivesUp(t, expired)
  BY DEF GivesUp, Survivors, Holds, HoldsClearance, MayClear, IsLive
<1>2. state'[t] = state[t] /\ committer'[t] = committer[t]
  BY <1>1 DEF Reap
<1>3. live'[t] = IF state[t] = "InProgress" THEN Survivors(t, expired) ELSE live[t]
  BY <1>1 DEF Reap
<1> QED
  BY <1>2, <1>3 DEF Spares, Survivors

LEMMA QuietSpares ==
    ASSUME TellWait \/ Refuses \/ UNCHANGED vars, NEW t, NEW id
    PROVE  Spares(t, id)
BY DEF TellWait, Refuses, Refuse, vars, Spares

(* Nothing but its own worker, or a timeout, ends an attempt. *)
LEMMA WorkedOnIsSpared ==
    ASSUME ~Speculation, MaxStalls = 0, WorkerInv, Uncontested,
           NEW w \in Worker, pc[w] \in Busy,
           NEW t \in Task, t = held[w].task, NEW id, id = held[w].attempt,
           \/ \E v \in Worker \ {w} : Advances(v)
           \/ Execute(w) \/ Rename(w)
           \/ Besides
    PROVE  Spares(t, id)
<1>0. AttemptInv /\ Alone /\ Holds(t, id)
  BY DEF WorkerInv, PhaseInv, Uncontested, Holds, Busy
<1>1. ASSUME NEW v \in Worker \ {w}, Advances(v) PROVE Spares(t, id)
  <2>1. CASE GetTask(v)
    <3> PICK u \in Task, backup \in BOOLEAN : AssignTask(u, v, backup)
      BY <2>1 DEF GetTask
    <3> QED
      BY <1>0, AssignSpares
  <2>2. CASE GetExit(v) \/ Execute(v) \/ Rename(v)
    BY <2>2, QuietSpares DEF GetExit, TellExit, Execute, Rename, coordVars
  <2>3. CASE GetRefusal(v)
    <3>1. Refuse(held[v].task, held[v].attempt, v) /\ pc[v] \in Busy
      BY <2>3 DEF GetRefusal, Busy
    <3>2. held[v].task \in Task /\ held[v].attempt \in Nat
      BY <3>1, BusyHolds
    <3> QED
      BY <3>1, <3>2, QuietSpares DEF Refuses
  <2>4. CASE GetClearance(v) \/ ConfirmCommit(v)
    <3>1. pc[v] \in Busy
      BY <2>4 DEF GetClearance, ConfirmCommit, Busy
    <3>2. held[v].task # t \/ held[v].attempt # id
      BY <3>1 DEF WorkerInv, HeldOnce
    <3>3. held[v].task \in Task /\ held[v].attempt \in Nat
      BY <3>1, BusyHolds
    <3> PICK u \in Task, i \in Nat : u = held[v].task /\ i = held[v].attempt
      BY <3>3
    <3>4. \/ Clear(u, i) \/ Confirm(u, i, v, held[v].backup)
          \/ UNCHANGED vars
      BY <2>4 DEF GetClearance, ClearAgain, ConfirmCommit, CommitTask
    <3> QED
      BY <1>0, <3>2, <3>4, ClearSpares, ConfirmSpares, QuietSpares
  <2> QED
    BY <1>1, <2>1, <2>2, <2>3, <2>4 DEF Advances
<1>2. ASSUME NEW m \in delayed, HandleDelayed(m) PROVE Spares(t, id)
  <2>0. m \in Requests /\ m.worker \in Worker /\ m.attempt \in Nat
    BY DEF WorkerInv, DelayedOK, Requests
  <2>1. CASE m.rpc = "request"
    <3>1. RequestTask(m.worker)
      BY <1>2, <2>1 DEF HandleDelayed
    <3>2. ASSUME NEW u \in Task, NEW backup \in BOOLEAN, AssignTask(u, m.worker, backup)
          PROVE  Spares(t, id)
      BY <1>0, <2>0, <3>2, AssignSpares
    <3> QED
      BY <3>1, <3>2, QuietSpares DEF RequestTask, TellExit
  <2>2. CASE m.rpc # "request"
    <3>1. m.task \in Task /\ (m.task # t \/ m.attempt # id)
      BY <2>2 DEF WorkerInv, DelayedOK, Uncontested
    <3> PICK u \in Task, i \in Nat, v \in Worker, backup \in BOOLEAN :
                u = m.task /\ i = m.attempt /\ v = m.worker /\ backup = m.backup
      BY <2>0, <3>1 DEF Requests
    <3>2. m.rpc \in {"report", "commit"}
      BY <2>0, <2>2 DEF Requests, Calling
    <3>3. ReportTask(u, i, v) \/ CommitTask(u, i, v, backup)
      BY <1>2, <3>2 DEF HandleDelayed
    <3>4. \/ Clear(u, i) \/ Confirm(u, i, v, backup)
          \/ UNCHANGED vars \/ Refuses
      BY <3>3 DEF ReportTask, ClearAgain, CommitTask, Refuses
    <3> QED
      BY <1>0, <3>1, <3>4, ClearSpares, ConfirmSpares, QuietSpares
  <2> QED
    BY <2>1, <2>2
<1>3. ASSUME NEW expired \in SUBSET Timed, ReaperPass(expired) PROVE Spares(t, id)
  <2>1. expired \ Orphans = {}
    <3>1. IsFiniteSet(expired \ Orphans)
      BY <1>0, TimedFinite, FS_Subset
    <3>2. stalls \in Nat /\ stalls + Cardinality(expired \ Orphans) <= 0
      BY <1>3, WorkerBoundsAssumption DEF ReaperPass, WorkerInv, JobTypeOK
    <3>3. Cardinality(expired \ Orphans) = 0
      BY <3>1, <3>2, FS_CardinalityType
    <3> QED
      BY <3>1, <3>3, FS_EmptySet
  <2>2. Attended(t, id)
    BY DEF Attended
  <2>3. <<t, id>> \notin expired
    BY <2>1, <2>2 DEF Orphans
  <2> QED
    BY <1>0, <1>3, <2>3, ReapSpares DEF ReaperPass, CheckTimeouts
<1>4. ASSUME Execute(w) \/ Rename(w) \/ \E v \in Worker : Crash(v) \/ LocalError(v)
      PROVE  Spares(t, id)
  BY <1>4, QuietSpares, ErrorMoves DEF Execute, Rename, Crash, coordVars
<1>5. Idles => Spares(t, id)
  BY DEF Idles, Spares
<1> QED
  BY <1>1, <1>2, <1>3, <1>4, <1>5 DEF Besides

(* How a worker comes to hold a task, or goes on with the one it has. *)
LEMMA AdvanceMoves ==
    ASSUME WorkerInv, NEW v \in Worker, Advances(v)
    PROVE  /\ pc' = [pc EXCEPT ![v] = pc'[v]] /\ held' = [held EXCEPT ![v] = held'[v]]
           /\ delayed' = delayed
           /\ \/ GetTask(v) /\ pc[v] = "request" /\ pc'[v] = "execute"
              \/ Execute(v) /\ pc[v] = "execute" /\ pc'[v] = "report" /\ held'[v] = held[v]
              \/ GetClearance(v) /\ pc[v] = "report" /\ pc'[v] = "publish" /\ held'[v] = held[v]
              \/ /\ Rename(v) /\ pc[v] = "publish" /\ pc'[v] \in {"publish", "commit"}
                 /\ held'[v] = held[v]
              \/ pc'[v] \notin Busy
<1>0. pc \in [Worker -> PC] /\ held \in [Worker -> Assignment \cup {NoTask}]
  BY WorkerTypes
<1>1. CASE GetTask(v)
  <2> PICK t \in Task, backup \in BOOLEAN :
        /\ held' = [held EXCEPT ![v] =
              [task |-> t, attempt |-> nextAttempt[t] + 1, backup |-> backup]]
        /\ pc' = [pc EXCEPT ![v] = "execute"] /\ pc[v] = "request" /\ delayed' = delayed
    BY <1>1, TakesTask
  <2> QED
    BY <1>0, <1>1
<1>2. CASE Execute(v)
  <2>1. /\ pc' = [pc EXCEPT ![v] = "report"] /\ held' = held /\ delayed' = delayed
        /\ pc[v] = "execute"
    BY <1>2 DEF Execute, GoTo
  <2> QED
    BY <1>0, <1>2, <2>1
<1>3. CASE GetClearance(v)
  <2>1. /\ pc' = [pc EXCEPT ![v] = "publish"] /\ held' = held /\ delayed' = delayed
        /\ pc[v] = "report"
    BY <1>3 DEF GetClearance, GoTo
  <2> QED
    BY <1>0, <1>3, <2>1
<1>4. CASE Rename(v)
  <2>1. /\ pc' = [pc EXCEPT ![v] = IF LastFile(v) THEN "commit" ELSE "publish"]
        /\ held' = held /\ delayed' = delayed /\ pc[v] = "publish"
    BY <1>4 DEF Rename
  <2> QED
    BY <1>0, <1>4, <2>1
<1>5. CASE GetExit(v) \/ GetRefusal(v) \/ ConfirmCommit(v)
  <2>1. \E p \in {"exited", "request"} :
           /\ pc' = [pc EXCEPT ![v] = p] /\ held' = [held EXCEPT ![v] = NoTask]
           /\ delayed' = delayed
    BY <1>5 DEF GetExit, GetRefusal, ConfirmCommit, Leave
  <2> QED
    BY <1>0, <2>1 DEF Busy
<1> QED
  BY <1>1, <1>2, <1>3, <1>4, <1>5 DEF Advances

(* A worker at work was at work on the same attempt, or has just got it. *)
LEMMA HoldsTheSame ==
    ASSUME WorkerInv, NEW w \in Worker, pc'[w] \in Busy,
           \/ \E v \in Worker : Advances(v)
           \/ Besides
    PROVE  \/ GetTask(w)
           \/ GetClearance(w) /\ pc[w] \in Busy /\ pc'[w] = "publish" /\ held'[w] = held[w]
           \/ /\ pc[w] \in Busy /\ held'[w] = held[w]
              /\ \/ pc'[w] = pc[w]
                 \/ pc[w] = "execute" /\ pc'[w] = "report"
                 \/ pc[w] = "publish" /\ pc'[w] = "commit"
              /\ \/ \E v \in Worker \ {w} : Advances(v)
                 \/ Execute(w) \/ Rename(w)
                 \/ Besides
<1>0. pc \in [Worker -> PC] /\ held \in [Worker -> Assignment \cup {NoTask}]
  BY WorkerTypes
<1>1. ASSUME Advances(w)
      PROVE  \/ GetTask(w)
             \/ GetClearance(w) /\ pc[w] \in Busy /\ pc'[w] = "publish" /\ held'[w] = held[w]
             \/ /\ pc[w] \in Busy /\ held'[w] = held[w] /\ (Execute(w) \/ Rename(w))
                /\ \/ pc'[w] = pc[w]
                   \/ pc[w] = "execute" /\ pc'[w] = "report"
                   \/ pc[w] = "publish" /\ pc'[w] = "commit"
  BY <1>1, AdvanceMoves DEF Busy
<1>2. ASSUME NEW v \in Worker \ {w}, Advances(v)
      PROVE  pc'[w] = pc[w] /\ held'[w] = held[w]
  <2>1. pc' = [pc EXCEPT ![v] = pc'[v]] /\ held' = [held EXCEPT ![v] = held'[v]]
    BY <1>2, AdvanceMoves
  <2> QED
    BY <1>0, <2>1
<1>3. ASSUME NEW v \in Worker, Crash(v) \/ LocalError(v)
      PROVE  pc'[w] = pc[w] /\ held'[w] = held[w]
  <2>1. /\ \E p \in {"crashed", "request"} : pc' = [pc EXCEPT ![v] = p]
        /\ held' = [held EXCEPT ![v] = NoTask]
    BY <1>3, ErrorMoves DEF Crash, Leave
  <2>2. v # w
    BY <1>0, <2>1 DEF Busy
  <2> QED
    BY <1>0, <2>1, <2>2
<1>4. ASSUME \/ \E m \in delayed : HandleDelayed(m)
             \/ \E expired \in SUBSET Timed : ReaperPass(expired)
             \/ Idles
      PROVE  pc'[w] = pc[w] /\ held'[w] = held[w]
  BY <1>4 DEF HandleDelayed, ReaperPass, Idles, workerVars
<1>5. CASE \E v \in Worker : Advances(v)
  BY <1>1, <1>2, <1>5
<1>6. CASE ~\E v \in Worker : Advances(v)
  BY <1>3, <1>4, <1>6 DEF Besides
<1> QED
  BY <1>5, <1>6

(* The worker that has just got a task is the one attempt of it. *)
LEMMA FreshMayClear ==
    ASSUME WorkerInv, NEW w \in Worker, GetTask(w)
    PROVE  /\ held'[w].task \in Task /\ held'[w].attempt = nextAttempt[held'[w].task] + 1
           /\ pc'[w] = "execute" /\ state'[held'[w].task] = "InProgress"
           /\ \E a \in live'[held'[w].task] : a.id = held'[w].attempt
<1> PICK t \in Task, backup \in BOOLEAN :
        /\ held' = [held EXCEPT ![w] =
              [task |-> t, attempt |-> nextAttempt[t] + 1, backup |-> backup]]
        /\ pc' = [pc EXCEPT ![w] = "execute"] /\ state' = [state EXCEPT ![t] = "InProgress"]
        /\ AssignTask(t, w, backup)
  BY TakesTask
<1>1. /\ held'[w].task = t /\ held'[w].attempt = nextAttempt[t] + 1
      /\ pc'[w] = "execute" /\ state'[t] = "InProgress"
  BY WorkerTypes
<1>2. Start(t, w, backup) /\ live \in [Task -> SUBSET Attempt]
  BY AssignStarts DEF WorkerInv, PhaseInv, AttemptInv, TypeOK
<1> PICK a : a = [id |-> nextAttempt[t] + 1, worker |-> w, backup |-> backup]
  OBVIOUS
<1>3. a \in live'[t] /\ a.id = nextAttempt[t] + 1
  BY <1>2 DEF Start
<1> QED
  BY <1>1, <1>3

LEMMA UncontestedStep ==
    ASSUME ~Speculation, MaxStalls = 0, WorkerInv, Uncontested, CoordStep,
           (\E v \in Worker : Advances(v)) \/ Besides
    PROVE  Uncontested'
<1>1. Alone'
  BY AloneStep DEF WorkerInv, PhaseInv, Uncontested
<1>2. ASSUME NEW w \in Worker, pc'[w] \in Busy
      PROVE  /\ pc'[w] \in {"execute", "report"} =>
                    /\ state'[held'[w].task] = "InProgress"
                    /\ \E a \in live'[held'[w].task] : a.id = held'[w].attempt
             /\ pc'[w] \in {"publish", "commit"} =>
                    /\ state'[held'[w].task] = "Committing"
                    /\ committer'[held'[w].task] = held'[w].attempt
  <2>1. CASE GetTask(w)
    BY <2>1, FreshMayClear
  <2>2. CASE GetClearance(w) /\ pc'[w] = "publish" /\ held'[w] = held[w]
    BY <2>2, ClearanceGiven
  <2>3. CASE /\ pc[w] \in Busy /\ held'[w] = held[w]
             /\ \/ pc'[w] = pc[w]
                \/ pc[w] = "execute" /\ pc'[w] = "report"
                \/ pc[w] = "publish" /\ pc'[w] = "commit"
             /\ \/ \E v \in Worker \ {w} : Advances(v)
                \/ Execute(w) \/ Rename(w)
                \/ Besides
    <3> PICK t \in Task, id \in Nat : t = held[w].task /\ id = held[w].attempt
      BY <2>3, BusyHolds
    <3>1. Spares(t, id)
      BY <2>3, WorkedOnIsSpared
    <3>2. /\ pc[w] \in {"execute", "report"} => MayClear(t, id)
          /\ pc[w] \in {"publish", "commit"} => HoldsClearance(t, id)
      BY DEF Uncontested
    <3> QED
      BY <2>3, <3>1, <3>2 DEF Spares, MayClear, HoldsClearance, IsLive, Busy
  <2> QED
    BY <1>2, <2>1, <2>2, <2>3, HoldsTheSame
<1>3. ASSUME NEW m \in delayed', m.rpc # "request",
             NEW w \in Worker, pc'[w] \in Busy, held'[w].task = m.task
      PROVE  held'[w].attempt # m.attempt
  <2>1. (pc[w] \in Busy /\ held'[w] = held[w]) \/ GetTask(w)
    BY <1>3, HoldsTheSame
  <2>2. CASE m \in delayed
    <3>1. m.task \in Task /\ m.attempt <= nextAttempt[m.task] /\ nextAttempt[m.task] \in Nat
          /\ m.attempt \in Nat
      BY <1>3, <2>2, WorkerTypes DEF WorkerInv, DelayedOK
    <3>2. CASE GetTask(w)
      BY <1>3, <3>1, <3>2, FreshMayClear
    <3>3. CASE pc[w] \in Busy /\ held'[w] = held[w]
      BY <1>3, <2>2, <3>3 DEF Uncontested
    <3> QED
      BY <2>1, <3>2, <3>3
  <2>3. CASE m \notin delayed
    <3>1. \E v \in Worker : Crash(v)
      BY <1>3, <2>3, AdvanceMoves, ErrorMoves DEF Besides, HandleDelayed, ReaperPass, Idles
    <3> PICK v \in Worker : Crash(v)
      BY <3>1
    <3>2. m.task = held[v].task /\ m.attempt = held[v].attempt
      BY <2>3 DEF Crash, MayArrive, Request
    <3>3. pc' = [pc EXCEPT ![v] = "crashed"]
      BY DEF Crash, Leave
    <3>4. v # w
      BY <1>3, <3>3, WorkerTypes DEF Busy
    <3>5. pc[w] \in Busy /\ held'[w] = held[w]
      BY <1>3, <3>3, <3>4, WorkerTypes DEF Crash, Leave
    <3> QED
      BY <1>3, <3>2, <3>4, <3>5 DEF WorkerInv, HeldOnce
  <2> QED
    BY <2>2, <2>3
<1> QED
  BY <1>1, <1>2, <1>3 DEF Uncontested, MayClear, HoldsClearance, IsLive, Busy

-----------------------------------------------------------------------------
(* What comes to nothing.                                                  *)

(* Handing out logs the attempt; nothing else logs one. *)
LEMMA AssignLogs ==
    ASSUME NEW t \in Task, NEW w \in Worker, NEW backup \in BOOLEAN,
           AssignTask(t, w, backup)
    PROVE  /\ events \subseteq events'
           /\ \A e \in events' \ events :
                 e.task = t /\ e.attempt = nextAttempt[t] + 1 /\ e.worker = w
           /\ \A e, f \in events' \ events : e = f
<1>1. Start(t, w, backup)
  BY AssignStarts
<1> QED
  BY <1>1 DEF Start, Record, TaskEvent

LEMMA QuietLogs ==
    ASSUME TellWait \/ Clears \/ Refuses \/ Confirms \/ Reaps \/ UNCHANGED vars
    PROVE  AssignedIn(events') \subseteq AssignedIn(events) /\ events \subseteq events'
<1>1. ASSUME Confirms \/ Refuses
      PROVE  /\ events \subseteq events'
             /\ \A e \in events' \ events : e.kind # "assigned"
  BY <1>1 DEF Confirms, Confirm, Refuses, Refuse, Record, TaskEvent
<1>2. ASSUME Reaps
      PROVE  /\ events \subseteq events'
             /\ \A e \in events' \ events : e.kind # "assigned"
  BY <1>2 DEF Reaps, Reap, Record, ReapEvents, TaskEvent
<1>3. TellWait \/ Clears \/ UNCHANGED vars => events' = events
  BY DEF TellWait, Clears, Clear, vars
<1> QED
  BY <1>1, <1>2, <1>3 DEF AssignedIn

(* An attempt once published is not lost again, so losses are new or old. *)
LEMMA LostBefore ==
    ASSUME events \subseteq events', failed \subseteq failed', NEW e \in CutShort'
    PROVE  e \in CutShort \/ e \in events' \ events
BY DEF CutShort, LostAttempts, AssignedIn, CommittedAttempt

LEMMA QuietLosses ==
    ASSUME TellWait \/ Clears \/ Refuses \/ Confirms \/ Reaps \/ UNCHANGED vars,
           failed \subseteq failed'
    PROVE  CutShort' \subseteq CutShort
<1>1. events \subseteq events' /\ AssignedIn(events') \subseteq AssignedIn(events)
  BY QuietLogs
<1>2. ASSUME NEW e \in CutShort' PROVE e \in CutShort
  <2>1. e \in AssignedIn(events')
    BY DEF CutShort, LostAttempts
  <2>2. e \in events
    BY <1>1, <2>1 DEF AssignedIn
  <2> QED
    BY <1>1, <2>2, LostBefore
<1> QED
  BY <1>2

LEMMA LossesFade ==
    ASSUME LossesOK, CutShort' \subseteq CutShort,
           kills' = kills, delayed' \subseteq delayed,
           \A e \in CutShort' : e.worker \in Killed \/ held'[e.worker] = held[e.worker]
    PROVE  LossesOK'
BY DEF LossesOK, HeldOrKilled, OneLossEach, LateOfKilled, RunningWhenKilled, Killed

(* A worker between tasks has lost none, unless it was killed. *)
LEMMA NothingLostYet ==
    ASSUME WorkerInv, LogOK, LossesOK, NEW w \in Worker, pc[w] \notin Busy, w \notin Killed
    PROVE  \A e \in CutShort : e.worker # w
<1>1. held[w] = NoTask
  BY DEF WorkerInv, HeldOK
<1>2. events \subseteq Event
  BY DEF WorkerInv, JobTypeOK, TypeOK
<1>3. \A e \in CutShort : e.task \in Task
  BY <1>2 DEF CutShort, LostAttempts, AssignedIn, Event
<1> QED
  BY <1>1, <1>3, NoTaskIsNone DEF LossesOK, HeldOrKilled

LEMMA AssignLosses ==
    ASSUME WorkerInv, GoneWereKilled, LogOK, LossesOK, kills' = kills, failed \subseteq failed',
           NEW w \in Worker, GetTask(w)
    PROVE  LossesOK'
<1> PICK t \in Task, backup \in BOOLEAN :
        /\ held' = [held EXCEPT ![w] =
              [task |-> t, attempt |-> nextAttempt[t] + 1, backup |-> backup]]
        /\ AssignTask(t, w, backup) /\ pc[w] = "request" /\ delayed' = delayed
  BY TakesTask
<1>1. held'[w].task = t /\ held'[w].attempt = nextAttempt[t] + 1
  BY WorkerTypes
<1>2. \A v \in Worker : v # w => held'[v] = held[v]
  BY WorkerTypes
<1>3. Killed' = Killed /\ w \notin Killed
  BY DEF GoneWereKilled, Stopped, Killed
<1>4. \A e \in CutShort : e.worker # w
  BY <1>3, NothingLostYet DEF Busy
<1>5. \A e \in CutShort' :
         \/ e \in CutShort
         \/ /\ e \notin events /\ e.task = t /\ e.attempt = nextAttempt[t] + 1
            /\ e.worker = w
  BY AssignLogs, LostBefore
<1>6. \A e, f \in CutShort' : e \notin CutShort /\ f \notin CutShort => e = f
  BY AssignLogs, LostBefore
<1>7. \A e \in CutShort : e.worker \in Worker
  BY DEF CutShort, LostAttempts, LogOK
<1>8. HeldOrKilled'
  BY <1>1, <1>2, <1>3, <1>4, <1>5, <1>7 DEF LossesOK, HeldOrKilled
<1>9. OneLossEach'
  BY <1>4, <1>5, <1>6 DEF LossesOK, OneLossEach
<1>10. LateOfKilled'
  BY <1>3, <1>5 DEF LossesOK, LateOfKilled
<1>11. RunningWhenKilled'
  BY <1>5 DEF LossesOK, RunningWhenKilled, LogOK
<1> QED
  BY <1>8, <1>9, <1>10, <1>11 DEF LossesOK

(* The coordinator hands a task to a worker that was killed asking for one. *)
LEMMA LateLosses ==
    ASSUME WorkerInv, LogOK, LossesOK, kills' = kills, failed \subseteq failed',
           NEW m \in delayed, HandleDelayed(m)
    PROVE  LossesOK'
<1>0. m.worker \in Worker /\ held' = held /\ delayed' = delayed \ {m} /\ m.worker \in Killed
  BY DEF HandleDelayed, workerVars, WorkerInv, JobTypeOK, LossesOK, LateOfKilled
<1>1. CASE m.rpc = "request" /\ \E t \in Task, backup \in BOOLEAN :
              AssignTask(t, m.worker, backup)
  <2> PICK t \in Task, backup \in BOOLEAN : AssignTask(t, m.worker, backup)
    BY <1>1
  <2>1. \A e \in CutShort' :
           e \in CutShort \/ (e \notin events /\ e.worker = m.worker)
    BY <1>0, AssignLogs, LostBefore
  <2>2. \A e, f \in CutShort' : e \notin CutShort /\ f \notin CutShort => e = f
    BY <1>0, AssignLogs, LostBefore
  <2>3. Killed' = Killed
    BY DEF Killed
  <2>4. \A e \in CutShort : e.worker # m.worker
    BY <1>1 DEF LossesOK, LateOfKilled
  <2>5. \A n \in delayed' : n \in delayed /\ n.worker # m.worker
    BY <1>0 DEF LossesOK, LateOfKilled
  <2>6. HeldOrKilled'
    BY <1>0, <2>1, <2>3 DEF LossesOK, HeldOrKilled
  <2>7. OneLossEach'
    BY <2>1, <2>2, <2>4 DEF LossesOK, OneLossEach
  <2>8. LateOfKilled'
    BY <2>1, <2>3, <2>5 DEF LossesOK, LateOfKilled
  <2>9. RunningWhenKilled'
    BY <2>1 DEF LossesOK, RunningWhenKilled, LogOK
  <2> QED
    BY <2>6, <2>7, <2>8, <2>9 DEF LossesOK
<1>2. CASE TellWait \/ Clears \/ Refuses \/ Confirms \/ UNCHANGED vars
  <2>1. CutShort' \subseteq CutShort
    BY <1>2, QuietLosses
  <2> QED
    BY <1>0, <2>1, LossesFade
<1>3. m.rpc \in Calling /\ m.attempt \in Nat /\ m.backup \in BOOLEAN
  BY DEF WorkerInv, DelayedOK, Requests
<1>4. CASE m.rpc = "request"
  BY <1>1, <1>2, <1>4 DEF HandleDelayed, RequestTask, TellExit
<1>5. CASE m.rpc = "report"
  <2>1. ReportTask(m.task, m.attempt, m.worker)
    BY <1>5 DEF HandleDelayed
  <2> QED
    BY <1>0, <1>2, <1>3, <2>1 DEF ReportTask, ClearAgain, Clears, Refuses
<1>6. CASE m.rpc = "commit"
  <2>1. CommitTask(m.task, m.attempt, m.worker, m.backup)
    BY <1>6 DEF HandleDelayed
  <2> QED
    BY <1>0, <1>2, <1>3, <2>1 DEF CommitTask, Confirms
<1> QED
  BY <1>3, <1>4, <1>5, <1>6 DEF Calling

(* Whoever confirms has not lost what it drops; whoever asks is not refused. *)
LEMMA AdvanceLosses ==
    ASSUME "committed" \in LoggedKinds, WorkerInv, LogOK, Uncontested, LossesOK,
           kills' = kills, failed \subseteq failed',
           NEW w \in Worker, Advances(w), ~GetTask(w)
    PROVE  LossesOK'
<1>1. held' = [held EXCEPT ![w] = held'[w]] /\ delayed' = delayed
  BY AdvanceMoves
<1>2. \A v \in Worker : v # w => held'[v] = held[v]
  BY <1>1, WorkerTypes
<1>3. \A e \in CutShort : e.worker \in Worker
  BY DEF CutShort, LostAttempts, LogOK
<1>4. CASE Execute(w) \/ GetClearance(w) \/ Rename(w)
  <2>1. held' = held
    BY <1>4 DEF Execute, GetClearance, Rename, GoTo
  <2>2. TellWait \/ Clears \/ UNCHANGED vars
    <3>1. CASE Execute(w) \/ Rename(w)
      BY <3>1 DEF Execute, Rename, coordVars
    <3>2. CASE GetClearance(w)
      <4>1. held[w].task \in Task /\ held[w].attempt \in Nat
        BY <3>2, ClearanceGiven
      <4> QED
        BY <3>2, <4>1 DEF GetClearance, ClearAgain, Clears
    <3> QED
      BY <1>4, <3>1, <3>2
  <2> QED
    BY <1>1, <2>1, <2>2, QuietLosses, LossesFade
<1>5. CASE GetExit(w)
  <2>1. held[w] = NoTask /\ held' = [held EXCEPT ![w] = NoTask] /\ UNCHANGED vars
    BY <1>5 DEF GetExit, TellExit, Leave, WorkerInv, HeldOK, Busy
  <2>2. held' = held
    BY <2>1, WorkerTypes
  <2> QED
    BY <1>1, <2>1, <2>2, QuietLosses, LossesFade
<1>6. CASE GetRefusal(w)
  <2>1. MayClear(held[w].task, held[w].attempt) /\ ~MayClear(held[w].task, held[w].attempt)
    BY <1>6 DEF GetRefusal, Refuse, Uncontested
  <2> QED
    BY <2>1
<1>7. CASE ConfirmCommit(w)
  <2>1. pc[w] = "commit" /\ CommitTask(held[w].task, held[w].attempt, w, held[w].backup)
        /\ held' = [held EXCEPT ![w] = NoTask]
    BY <1>7 DEF ConfirmCommit, Leave
  <2>2. held[w].task \in Task /\ held[w].attempt \in Nat /\ held[w].backup \in BOOLEAN
    BY <2>1, BusyHolds DEF Busy
  <2>3. Confirm(held[w].task, held[w].attempt, w, held[w].backup)
    BY <2>1, <2>2 DEF CommitTask, Uncontested
  <2>4. CutShort' \subseteq CutShort
    <3>1. Confirms
      BY <2>2, <2>3 DEF Confirms
    <3> QED
      BY <3>1, QuietLosses
  <2>5. ASSUME NEW e \in CutShort', e.task = held[w].task, e.attempt = held[w].attempt
        PROVE  FALSE
    <3> PICK c : c = TaskEvent("committed", held[w].task, held[w].attempt, w, held[w].backup)
      OBVIOUS
    <3>1. /\ c.kind = "committed" /\ c.task = held[w].task /\ c.attempt = held[w].attempt
      BY DEF TaskEvent
    <3>2. c \in events'
      BY <2>3, <3>1 DEF Confirm, Record
    <3> QED
      BY <2>5, <3>1, <3>2 DEF CutShort, LostAttempts, CommittedAttempt
  <2>6. ASSUME NEW e \in CutShort'
        PROVE  e.worker \in Killed \/ held'[e.worker] = held[e.worker]
    BY <1>2, <1>3, <2>4, <2>5 DEF LossesOK, HeldOrKilled
  <2> QED
    BY <1>1, <2>4, <2>6, LossesFade
<1> QED
  BY <1>4, <1>5, <1>6, <1>7 DEF Advances

LEMMA KillLosses ==
    ASSUME WorkerInv, PoolOK, LogOK, LossesOK, Kill, Slot \in Worker, Crash(Slot)
    PROVE  LossesOK'
<1> PICK w \in Worker : w = Slot
  OBVIOUS
<1>1. /\ w \notin Killed /\ Killed' = Killed \cup {w} /\ kills' = kills \cup {KillOf(w)}
      /\ KillOf(w).worker = w
  BY KillCounts DEF Kill, KillOf
<1>2. /\ held' = [held EXCEPT ![w] = NoTask] /\ MayArrive(w) /\ events' = events
      /\ failed' = failed
  BY DEF Crash, Leave, coordVars, vars, Kill, EndRound, GoOn
<1>3. CutShort' = CutShort
  BY <1>2 DEF CutShort, LostAttempts, AssignedIn, CommittedAttempt
<1>4. \A e \in CutShort : e.worker \in Worker
  BY DEF CutShort, LostAttempts, LogOK
<1>5. \A v \in Worker : v # w => held'[v] = held[v]
  BY <1>2, WorkerTypes
<1>6. \A m \in delayed' : m \in delayed \/ (m = Request(w) /\ m.worker = w /\ m.rpc = pc[w])
  BY <1>2 DEF MayArrive, Request
<1>7. HeldOrKilled'
  BY <1>1, <1>3, <1>4, <1>5 DEF LossesOK, HeldOrKilled
<1>8. OneLossEach'
  BY <1>3 DEF LossesOK, OneLossEach
<1>9. LateOfKilled'
  <2>1. pc[w] = "request" => \A e \in CutShort : e.worker # w
    BY <1>1, NothingLostYet DEF Busy
  <2>2. \A m \in delayed : m.worker \in Killed /\ m.worker # w
    BY <1>1 DEF LossesOK, LateOfKilled
  <2> QED
    BY <1>1, <1>3, <1>6, <2>1, <2>2 DEF LossesOK, LateOfKilled
<1>10. RunningWhenKilled'
  <2>1. ASSUME NEW e \in CutShort, e.worker = w
        PROVE  <<e.task, e.attempt>> \in KillOf(w).running
    <3>1. held[w].task = e.task /\ held[w].attempt = e.attempt
      BY <1>1, <2>1 DEF LossesOK, HeldOrKilled
    <3>2. e.task \in Task
      BY DEF CutShort, LostAttempts, AssignedIn, WorkerInv, JobTypeOK, TypeOK, Event
    <3>3. held[w] # NoTask
      BY <3>1, <3>2, NoTaskIsNone
    <3> QED
      BY <3>1, <3>3 DEF KillOf
  <2> QED
    BY <1>1, <1>3, <2>1 DEF LossesOK, RunningWhenKilled
<1> QED
  BY <1>7, <1>8, <1>9, <1>10 DEF LossesOK

(* Nor has a worker that gives its attempt up: that one is not counted. *)
LEMMA ErrorLosses ==
    ASSUME WorkerInv, GoneWereKilled, LogOK, LossesOK, kills' = kills,
           NEW w \in Worker, LocalError(w)
    PROVE  LossesOK'
<1>1. /\ UNCHANGED <<vars, delayed>> /\ pc[w] \in {"execute", "publish"}
      /\ held' = [held EXCEPT ![w] = NoTask]
      /\ failed' = failed \cup {<<held[w].task, held[w].attempt>>}
  BY ErrorMoves
<1>2. w \notin Killed /\ \A v \in Worker : v # w => held'[v] = held[v]
  BY <1>1, WorkerTypes DEF GoneWereKilled, Stopped
<1>3. CutShort' \subseteq CutShort
  BY <1>1, QuietLosses
<1>4. ASSUME NEW e \in CutShort'
      PROVE  e.worker \in Killed \/ held'[e.worker] = held[e.worker]
  <2>1. e \in CutShort /\ e.worker \in Worker
    BY <1>3 DEF CutShort, LostAttempts, LogOK
  <2>2. e.task # held[w].task \/ e.attempt # held[w].attempt
    BY <1>1 DEF CutShort
  <2> QED
    BY <1>2, <2>1, <2>2 DEF LossesOK, HeldOrKilled
<1> QED
  BY <1>1, <1>3, <1>4, LossesFade

LEMMA LossesStep ==
    ASSUME "committed" \in LoggedKinds, WorkerInv, PoolOK, GoneWereKilled, LogOK,
           Uncontested, LossesOK, [ChaosNext]_chaosVars, ~StopAll, Calm'
    PROVE  LossesOK'
<1>0. failed \subseteq failed'
  BY FailedGrows
<1>1. ASSUME kills' = kills, NEW w \in Worker, Advances(w) \/ LocalError(w) PROVE LossesOK'
  BY <1>0, <1>1, AssignLosses, AdvanceLosses, ErrorLosses
<1>2. ASSUME kills' = kills, NEW m \in delayed, HandleDelayed(m) PROVE LossesOK'
  BY <1>0, <1>2, LateLosses
<1>3. ASSUME kills' = kills, NEW expired \in SUBSET Timed, ReaperPass(expired)
      PROVE  LossesOK'
  <2>1. Reaps /\ held' = held /\ delayed' = delayed
    BY <1>3 DEF ReaperPass, CheckTimeouts, Reaps, workerVars
  <2> QED
    BY <1>0, <1>3, <2>1, QuietLosses, LossesFade
<1>4. CASE Idles
  <2>1. CutShort' \subseteq CutShort /\ held' = held /\ delayed' = delayed
    BY <1>0, <1>4 DEF Idles, CutShort, LostAttempts, AssignedIn, CommittedAttempt
  <2>2. CASE kills' = kills
    BY <2>1, <2>2, LossesFade
  <2>3. CASE Kill /\ pc[Slot] \in Stopped
    <3>1. /\ Slot \in Worker /\ Slot \notin Killed /\ Killed' = Killed \cup {Slot}
          /\ kills' = kills \cup {KillOf(Slot)} /\ KillOf(Slot).worker = Slot
      BY <2>3, KillCounts, KillStops DEF Kill, KillOf
    <3> PICK w \in Worker : w = Slot
      BY <3>1
    <3>2. \A e \in CutShort : e.worker # w
      BY <2>3, <3>1, NothingLostYet DEF Stopped, Busy
    <3> QED
      BY <2>1, <3>1, <3>2
         DEF LossesOK, HeldOrKilled, OneLossEach, LateOfKilled, RunningWhenKilled
  <2> QED
    BY <1>4, <2>2, <2>3, OtherSteps, KillStops DEF Kill, Signal, Idles
<1> QED
  BY <1>1, <1>2, <1>3, <1>4, KillLosses, CalmCases

-----------------------------------------------------------------------------
(* What was interrupted is handed out again.                               *)

LEMMA NewestStep ==
    ASSUME ~Speculation, AttemptInv, Newest, CoordStep
    PROVE  Newest'
<1>0. live \in [Task -> SUBSET Attempt] /\ nextAttempt \in [Task -> Nat]
  BY DEF AttemptInv, TypeOK
<1>1. ASSUME NEW u \in Task, NEW w \in Worker, NEW backup \in BOOLEAN,
             AssignTask(u, w, backup), NEW t \in Task
      PROVE  \A a \in live'[t] : a.id = nextAttempt'[t]
  <2>1. Start(u, w, backup) /\ state[u] = "Idle"
    BY <1>1, AssignStarts DEF FirstIdle, Stragglers
  <2>2. live[u] = {}
    BY <2>1 DEF AttemptInv, LiveMatchesState
  <2>3. /\ live' = [live EXCEPT ![u] = live[u] \cup
                      {[id |-> nextAttempt[u] + 1, worker |-> w, backup |-> backup]}]
        /\ nextAttempt' = [nextAttempt EXCEPT ![u] = nextAttempt[u] + 1]
    BY <2>1 DEF Start
  <2>4. CASE t = u
    BY <1>0, <2>2, <2>3, <2>4
  <2>5. CASE t # u
    BY <1>0, <2>3, <2>5 DEF Newest
  <2> QED
    BY <2>4, <2>5
<1>2. ASSUME NEW t \in Task, live'[t] \subseteq live[t], nextAttempt' = nextAttempt
      PROVE  \A a \in live'[t] : a.id = nextAttempt'[t]
  BY <1>2 DEF Newest
<1>3. ASSUME NEW expired, Reap(expired), NEW t \in Task
      PROVE  live'[t] \subseteq live[t] /\ nextAttempt' = nextAttempt
  BY <1>3, ReapTask DEF AttemptInv, Reap
<1>4. ASSUME NEW u \in Task, NEW id, NEW w, NEW backup, Confirm(u, id, w, backup),
             NEW t \in Task
      PROVE  live'[t] \subseteq live[t] /\ nextAttempt' = nextAttempt
  BY <1>0, <1>4 DEF Confirm
<1>5. TellWait \/ Clears \/ Refuses \/ UNCHANGED vars
          => live' = live /\ nextAttempt' = nextAttempt
  BY DEF TellWait, Clears, Clear, Refuses, Refuse, vars
<1>6. CASE Assigns
  BY <1>1, <1>6 DEF Assigns, Newest
<1>7. CASE ~Assigns
  BY <1>2, <1>3, <1>4, <1>5, <1>7 DEF CoordStep, Reaps, Confirms, Newest
<1> QED
  BY <1>6, <1>7

LEMMA HeldLoggedStep ==
    ASSUME "assigned" \in LoggedKinds, WorkerInv, HeldLogged, CoordStep,
           (\E v \in Worker : Advances(v)) \/ Besides
    PROVE  HeldLogged'
<1>0. events \subseteq events'
  BY EventsGrow DEF WorkerInv, PhaseInv
<1>1. ASSUME NEW w \in Worker, GetTask(w)
      PROVE  HandedOut(events', held'[w].task, held'[w].attempt, w)
  <2> PICK t \in Task, backup \in BOOLEAN :
        /\ held' = [held EXCEPT ![w] =
              [task |-> t, attempt |-> nextAttempt[t] + 1, backup |-> backup]]
        /\ AssignTask(t, w, backup)
    BY <1>1, TakesTask
  <2>1. held'[w].task = t /\ held'[w].attempt = nextAttempt[t] + 1
    BY WorkerTypes
  <2> PICK e : e = TaskEvent("assigned", t, nextAttempt[t] + 1, w, backup)
    OBVIOUS
  <2>2. /\ e.kind = "assigned" /\ e.task = t /\ e.attempt = nextAttempt[t] + 1
        /\ e.worker = w
    BY DEF TaskEvent
  <2>3. e \in events'
    BY <2>2, AssignStarts DEF Start, Record
  <2> QED
    BY <2>1, <2>2, <2>3 DEF HandedOut, AssignedIn
<1>2. ASSUME NEW w \in Worker, pc[w] \in Busy, held'[w] = held[w]
      PROVE  HandedOut(events', held'[w].task, held'[w].attempt, w)
  BY <1>0, <1>2 DEF HeldLogged, HandedOut, AssignedIn
<1>3. ASSUME NEW w \in Worker, pc'[w] \in Busy
      PROVE  GetTask(w) \/ (pc[w] \in Busy /\ held'[w] = held[w])
  BY <1>3, HoldsTheSame
<1> QED
  BY <1>1, <1>2, <1>3 DEF HeldLogged

(* The last attempt of a task is the one that may still be confirmed. *)
LEMMA DealtStep ==
    ASSUME "assigned" \in LoggedKinds, "committed" \in LoggedKinds,
           AttemptInv, LogOK, Newest, CoordStep,
           NEW k \in kills, NEW t \in Task, NEW id, Dealt(k, t, id)
    PROVE  Dealt(k, t, id)'
<1>0. /\ events \subseteq events' /\ nextAttempt \in [Task -> Nat]
      /\ state \in [Task -> TaskState]
  BY EventsGrow DEF AttemptInv, TypeOK
<1>1. CASE CommittedAttempt(t, id) \/ \E f \in AssignedIn(events) \ k.before : f.task = t
  BY <1>0, <1>1 DEF Dealt, CommittedAttempt, AssignedIn
<1>2. CASE state[t] # "Completed" /\ nextAttempt[t] = id
  <2>1. ASSUME NEW u \in Task, NEW w \in Worker, NEW backup \in BOOLEAN,
               AssignTask(u, w, backup)
        PROVE  Dealt(k, t, id)'
    <3>1. Start(u, w, backup)
      BY <2>1, AssignStarts
    <3>2. CASE u # t
      <4>1. state'[t] = state[t] /\ nextAttempt'[t] = nextAttempt[t]
        BY <1>0, <3>1, <3>2 DEF Start
      <4> QED
        BY <1>2, <4>1 DEF Dealt
    <3>3. CASE u = t
      <4> PICK e : e = TaskEvent("assigned", t, nextAttempt[t] + 1, w, backup)
        OBVIOUS
      <4>1. e.kind = "assigned" /\ e.task = t /\ e.attempt = nextAttempt[t] + 1
        BY DEF TaskEvent
      <4>2. e \in AssignedIn(events')
        BY <3>1, <3>3, <4>1 DEF Start, Record, AssignedIn
      <4>3. e \notin k.before
        <5>1. SUFFICES ASSUME e \in k.before PROVE FALSE
          OBVIOUS
        <5>2. e \in AssignedIn(events)
          BY <4>1, <5>1 DEF AssignedIn, LogOK
        <5>3. e.attempt \in 1 .. nextAttempt[t]
          BY <4>1, <5>2 DEF LogOK
        <5> QED
          BY <1>0, <4>1, <5>3
      <4> QED
        BY <4>1, <4>2, <4>3 DEF Dealt
    <3> QED
      BY <3>2, <3>3
  <2>2. ASSUME NEW u \in Task, NEW i \in Nat, NEW w, NEW backup, Confirm(u, i, w, backup)
        PROVE  Dealt(k, t, id)'
    <3>1. CASE u # t
      <4>1. state'[t] = state[t] /\ nextAttempt'[t] = nextAttempt[t]
        BY <1>0, <2>2, <3>1 DEF Confirm
      <4> QED
        BY <1>2, <4>1 DEF Dealt
    <3>2. CASE u = t
      <4>1. state[t] = "Committing" /\ committer[t] = i
        BY <2>2, <3>2 DEF Confirm, HoldsClearance
      <4>2. i = id
        BY <1>2, <4>1 DEF AttemptInv, LiveMatchesState, IsLive, Newest
      <4> PICK e : e = TaskEvent("committed", t, id, w, backup)
        OBVIOUS
      <4>3. e.kind = "committed" /\ e.task = t /\ e.attempt = id
        BY DEF TaskEvent
      <4>4. e \in events'
        BY <2>2, <3>2, <4>2, <4>3 DEF Confirm, Record
      <4> QED
        BY <4>3, <4>4 DEF Dealt, CommittedAttempt
    <3> QED
      BY <3>1, <3>2
  <2>3. ASSUME \/ TellWait \/ Clears \/ Refuses \/ Reaps \/ UNCHANGED vars
        PROVE  Dealt(k, t, id)'
    <3>1. nextAttempt' = nextAttempt
      BY <2>3 DEF TellWait, Clears, Clear, Refuses, Refuse, Reaps, Reap, vars
    <3>2. state'[t] \in {state[t], "Idle", "Committing"}
      BY <1>0, <2>3 DEF TellWait, Clears, Clear, Refuses, Refuse, Reaps, Reap, vars
    <3> QED
      BY <1>2, <3>1, <3>2 DEF Dealt
  <2> QED
    BY <2>1, <2>2, <2>3 DEF CoordStep, Assigns, Confirms
<1> QED
  BY <1>1, <1>2 DEF Dealt

(* The attempt a kill interrupts is the last one of its task. *)
LEMMA DealtAtKill ==
    ASSUME WorkerInv, PoolOK, LogOK, Uncontested, Newest, HeldLogged, RunningIsDealt, Kill
    PROVE  RunningIsDealt'
<1> PICK w \in Worker : w = Slot
  BY KillStops
<1>1. UNCHANGED <<events, state, nextAttempt>> /\ kills' = kills \cup {KillOf(w)}
  BY DEF Kill, Signal, Crash, coordVars, jobVars, vars
<1>2. KillOf(w).worker = w /\ KillOf(w).before = events
  BY DEF KillOf
<1>3. ASSUME NEW r \in KillOf(w).running
      PROVE  /\ r \in Task \X Nat /\ HandedOut(events, r[1], r[2], w)
             /\ Dealt(KillOf(w), r[1], r[2])
  <2>1. r = <<held[w].task, held[w].attempt>> /\ held[w] # NoTask
    BY <1>3 DEF KillOf
  <2>2. pc[w] \in Busy
    BY <2>1 DEF WorkerInv, HeldOK
  <2> PICK t \in Task, id \in Nat : t = held[w].task /\ id = held[w].attempt
    BY <2>2, BusyHolds
  <2>3. MayClear(t, id) \/ HoldsClearance(t, id)
    BY <2>2 DEF Uncontested, Busy
  <2>4. state[t] # "Completed" /\ IsLive(t, id)
    BY <2>3 DEF MayClear, HoldsClearance, WorkerInv, PhaseInv, AttemptInv, LiveMatchesState
  <2>5. nextAttempt[t] = id
    BY <2>4 DEF IsLive, Newest
  <2>6. HandedOut(events, t, id, w)
    BY <2>2 DEF HeldLogged
  <2> QED
    BY <2>1, <2>4, <2>5, <2>6 DEF Dealt
<1>4. ASSUME NEW k \in kills', NEW r \in k.running
      PROVE  /\ r \in Task \X Nat /\ HandedOut(k.before, r[1], r[2], k.worker)
             /\ Dealt(k, r[1], r[2])
  BY <1>1, <1>2, <1>3, <1>4 DEF RunningIsDealt
<1>5. \A k, t, id : Dealt(k, t, id) => Dealt(k, t, id)'
  BY <1>1 DEF Dealt, CommittedAttempt, AssignedIn
<1> QED
  BY <1>4, <1>5 DEF RunningIsDealt, HandedOut, AssignedIn

LEMMA DealtTrialStep ==
    ASSUME "assigned" \in LoggedKinds, "committed" \in LoggedKinds,
           WorkerInv, PoolOK, LogOK, Uncontested, Newest, HeldLogged, RunningIsDealt,
           CoordStep, [ChaosNext]_chaosVars, ~StopAll
    PROVE  RunningIsDealt'
<1>1. CASE ~Kill
  <2>1. kills' = kills
    BY <1>1, OtherSteps
  <2>2. AttemptInv
    BY DEF WorkerInv, PhaseInv
  <2>3. ASSUME NEW k \in kills, NEW r \in k.running PROVE Dealt(k, r[1], r[2])'
    <3> PICK t \in Task, id \in Nat : t = r[1] /\ id = r[2]
      BY <2>3 DEF RunningIsDealt
    <3>1. Dealt(k, t, id)
      BY <2>3 DEF RunningIsDealt
    <3>2. Dealt(k, t, id)'
      BY <2>2, <3>1, DealtStep
    <3> QED
      BY <3>2
  <2> QED
    BY <2>1, <2>3 DEF RunningIsDealt, HandedOut, AssignedIn
<1> QED
  BY <1>1, DealtAtKill

-----------------------------------------------------------------------------
(* A whole trial.  What a worker holds means nothing once the pool is      *)
(* stopped, but the log, the kills and the files stay as they were.        *)

ChaosInv ==
    /\ JobTypeOK /\ PoolOK /\ LogOK
    /\ Active => FilesInv /\ GoneWereKilled
    /\ completedInTime => AllDone /\ \A t \in Task : OutputInPlace(t)

LEMMA ChaosInvInit == ChaosInit => ChaosInv
<1> SUFFICES ASSUME ChaosInit PROVE ChaosInv
  OBVIOUS
<1>1. WorkerInv /\ JobInit
  BY WorkerInvInit DEF ChaosInit
<1>2. PoolOK
  BY PoolInit
<1>3. LogOK /\ completedInTime = FALSE /\ kills = {}
  BY <1>1 DEF JobInit, Init, LogOK, AssignedIn, ChaosInit
<1>4. PublishedOK
  BY <1>1 DEF JobInit, Init, PublishedOK, CompletedHasOutput
<1>5. GoneWereKilled
  BY <1>1, <1>3 DEF JobInit, GoneWereKilled, Killed, Stopped
<1> QED
  BY <1>1, <1>2, <1>3, <1>4, <1>5 DEF ChaosInv, FilesInv, WorkerInv

(* Stopping the pool stops processes, and nothing more. *)
LEMMA StopKeeps ==
    ASSUME ChaosInv, StopAll
    PROVE  /\ JobTypeOK' /\ LogOK' /\ ~Active'
           /\ UNCHANGED <<vars, final, faults, sc, kills, completedInTime, failed>>
           /\ AllDone' = AllDone /\ (\A t \in Task : OutputInPlace(t)' = OutputInPlace(t))
<1>1. /\ UNCHANGED <<coordVars, budgetVars, final, delayed, up, granted, kills,
                     completedInTime, sc, failed>>
      /\ harness' = "over"
      /\ pc' = [w \in Worker |-> IF w \in Running THEN "crashed" ELSE pc[w]]
      /\ held' = [w \in Worker |-> IF w \in Running THEN NoTask ELSE held[w]]
      /\ tries' = [w \in Worker |-> 0] /\ renamed' = [w \in Worker |-> 0]
  BY DEF StopAll, GoOn
<1>2. /\ pc \in [Worker -> PC] /\ held \in [Worker -> Assignment \cup {NoTask}]
      /\ TypeOK
  BY DEF ChaosInv, JobTypeOK
<1>3. pc' \in [Worker -> PC] /\ held' \in [Worker -> Assignment \cup {NoTask}]
  BY <1>1, <1>2 DEF PC, Stopped
<1>4. tries' \in [Worker -> 0 .. RpcAttempts - 1] /\ renamed' \in [Worker -> Nat]
  BY <1>1, WorkerBoundsAssumption
<1>5. TypeOK'
  BY <1>1, <1>2 DEF TypeOK, coordVars, vars
<1>6. JobTypeOK'
  BY <1>1, <1>3, <1>4, <1>5 DEF ChaosInv, JobTypeOK, budgetVars
<1>7. LogOK'
  BY <1>1 DEF ChaosInv, LogOK, AssignedIn, Preserved, coordVars, vars
<1> QED
  BY <1>1, <1>6, <1>7 DEF coordVars, vars, budgetVars, AllDone, OutputInPlace, Active

(* SpawnFails is not a step of a job, but the workers do not see it. *)
LEMMA TrialWorkerStep ==
    ASSUME WorkerInv, PoolOK, [ChaosNext]_chaosVars, ~StopAll
    PROVE  WorkerInv'
<1>1. CASE [JobNext]_jobVars
  BY <1>1, WorkerInvStep
<1>2. CASE SpawnFails
  <2>1. /\ UNCHANGED <<vars, workerVars, final, delayed, up, granted, crashes, stalls>>
        /\ faults < MaxFaults /\ faults' = faults + 1
    BY <1>2 DEF SpawnFails, coordVars
  <2>2. faults' \in 0 .. MaxFaults
    BY <2>1, WorkerBoundsAssumption DEF WorkerInv, JobTypeOK
  <2>3. JobTypeOK'
    BY <2>1, <2>2 DEF WorkerInv, JobTypeOK, TypeOK, vars, workerVars
  <2>4. PhaseInv'
    BY <2>1, PhaseInvStep DEF CoordStep, WorkerInv
  <2>5. HeldOK' /\ HeldOnce' /\ DelayedOK'
    BY <2>1 DEF WorkerInv, HeldOK, HeldOnce, DelayedOK, vars, workerVars
  <2> QED
    BY <2>1, <2>3, <2>4, <2>5 DEF WorkerInv
<1> QED
  BY <1>1, <1>2, TrialJobStep

LEMMA ChaosInvStep ==
    ASSUME ChaosInv, [ChaosNext]_chaosVars
    PROVE  ChaosInv'
<1>0. PoolOK'
  BY PoolStep DEF ChaosInv
<1>1. CASE StopAll
  BY <1>0, <1>1, StopKeeps DEF ChaosInv, OutputInPlace
<1>2. CASE ~Active
  <2>1. UNCHANGED <<jobVars, vars, workerVars, budgetVars, final, delayed, up, granted>>
        /\ UNCHANGED harnessVars
    BY <1>2 DEF ChaosNext, Active, chaosVars, jobVars, coordVars
  <2>2. JobTypeOK'
    BY <2>1 DEF ChaosInv, JobTypeOK, TypeOK, vars, workerVars, budgetVars
  <2>3. LogOK'
    BY <2>1 DEF ChaosInv, LogOK, AssignedIn, Preserved, vars, harnessVars
  <2> QED
    BY <1>0, <1>2, <2>1, <2>2, <2>3
       DEF ChaosInv, Active, AllDone, OutputInPlace, harnessVars, vars
<1>3. CASE Active /\ ~StopAll
  <2>0. WorkerInv /\ FilesInv /\ GoneWereKilled /\ PoolOK /\ LogOK
    BY <1>3 DEF ChaosInv, FilesInv
  <2>1. JobStep
    BY <1>3, <2>0, TrialJobStep, JobCases, SpawnFailsLingers DEF JobStep
  <2>2. WorkerInv' /\ LogOK' /\ GoneWereKilled'
    BY <1>3, <2>0, TrialWorkerStep, LogTrialStep, GoneStep
  <2>3. PublishedOK'
    BY <2>0, <2>1, FilesInvStep
  <2>4. completedInTime' => AllDone'
    <3>1. PhaseInv /\ (AllDone => AllDone')
      BY <2>0, <2>1, Forward DEF AllDone, WorkerInv
    <3>2. completedInTime' => completedInTime \/ JobDone
      BY <1>3, <2>0, ChaosCases DEF harnessVars, RunSteps, WaitForPhase, Kill, KillMisses,
                                    Spawn, Pause, AwaitJob, SpawnFails
    <3> QED
      BY <3>1, <3>2, DoneIsAll DEF ChaosInv
  <2>5. AllDone' => \A t \in Task : OutputInPlace(t)'
    BY <2>3 DEF PublishedOK, CompletedHasOutput, AllDone, OutputInPlace
  <2> QED
    BY <1>0, <2>2, <2>3, <2>4, <2>5 DEF ChaosInv, FilesInv, WorkerInv, OutputInPlace
<1> QED
  BY <1>1, <1>2, <1>3

LEMMA ChaosInvHolds == ChaosSpec => []ChaosInv
<1>1. ChaosInit => ChaosInv
  BY ChaosInvInit
<1>2. ChaosInv /\ [ChaosNext]_chaosVars => ChaosInv'
  BY ChaosInvStep
<1> QED
  BY <1>1, <1>2, PTL DEF ChaosSpec

(* The job and the harness keep their types, and there is a process number for *)
(* every worker and replacement of a trial (run, pool.spawn, injectFaults).     *)
THEOREM ChaosTypeCorrect == ChaosSpec => []ChaosTypeOK
<1>1. ChaosInv => ChaosTypeOK
  BY ScenarioTypes DEF ChaosInv, ChaosTypeOK, PoolOK
<1> QED
  BY <1>1, ChaosInvHolds, PTL

(* When a trial counts as completed the output it hashes is all there, however *)
(* many workers were killed, calls lost and live workers timed out (runOnce).   *)
THEOREM OutcomeIsOutputHolds == ChaosSpec => []OutcomeIsOutput
<1>1. ChaosInv => OutcomeIsOutput
  BY DEF ChaosInv, OutcomeIsOutput
<1> QED
  BY <1>1, ChaosInvHolds, PTL

LEMMA PoolIsStrong ==
    ASSUME MaxFaults < RpcAttempts, ChaosInv
    PROVE  PoolStrength
<1> SUFFICES ASSUME Active, ~JobDone
             PROVE  /\ Cardinality(Running) = started - Cardinality(kills)
                    /\ sc.restart /\ harness \in {"kill", "pause"} =>
                          Cardinality(Running) = sc.workers
  BY DEF PoolStrength, Active
<1> USE DEF ChaosInv
<1>1. PoolOK /\ GoneWereKilled
  OBVIOUS
<1>2. /\ started \in Nat \ {0} /\ 0 .. started - 1 \subseteq Worker
      /\ \A w \in Worker : w \in Nat
  BY <1>1, ScenarioTypes, PoolAssumption
<1>3. Running = (0 .. started - 1) \ Killed
  BY <1>1, <1>2 DEF Running, GoneWereKilled
<1>4. /\ Killed \subseteq 0 .. started - 1 /\ Cardinality(Killed) = Cardinality(kills)
  BY <1>1 DEF PoolOK
<1>5. IsFiniteSet(0 .. started - 1) /\ Cardinality(0 .. started - 1) = started
  BY <1>2, FS_Interval
<1>6. Cardinality(Running) = started - Cardinality(kills)
  <2> PICK pool : pool = 0 .. started - 1
    OBVIOUS
  <2>1. Cardinality(pool \ Killed) = Cardinality(pool) - Cardinality(pool \cap Killed)
    BY <1>5, FS_Difference
  <2>2. pool \cap Killed = Killed
    BY <1>4
  <2> QED
    BY <1>3, <1>4, <1>5, <2>1, <2>2
<1>7. sc.restart /\ harness \in {"kill", "pause"} =>
          started = sc.workers + Cardinality(kills)
  BY <1>1 DEF PoolOK
<1>8. Cardinality(kills) \in Nat /\ sc.workers \in Nat
  BY <1>1, ScenarioTypes, FS_CardinalityType DEF PoolOK
<1> QED
  BY <1>6, <1>7, <1>8

(* When fewer calls are lost than one call has dials, the workers that run are *)
(* those not killed until the job is done, and as many as the scenario has when *)
(* the next kill of a replaced worker is due (pool.spawn, injectFaults).         *)
THEOREM PoolStrengthHolds ==
    ASSUME MaxFaults < RpcAttempts
    PROVE  ChaosSpec => []PoolStrength
<1>1. ChaosInv => PoolStrength
  BY PoolIsStrong
<1> QED
  BY <1>1, ChaosInvHolds, PTL

(* The first half of CostOfKills. *)
LossesAreKills ==
    JobDone /\ Calm =>
        \A e \in CutShort :
            /\ e.worker \in Killed
            /\ \A f \in CutShort : f.worker = e.worker => f = e

CalmInv ==
    /\ Active /\ Calm => Uncontested /\ LossesOK
    /\ Calm => RunningWhenKilled
    /\ LossesAreKills

(* Nobody is at work on anything when the job is done. *)
LEMMA LossesWhenDone ==
    ASSUME WorkerInv, LogOK, Uncontested, LossesOK
    PROVE  LossesAreKills
<1> SUFFICES ASSUME JobDone, NEW e \in CutShort PROVE e.worker \in Killed
  BY DEF LossesAreKills, LossesOK, OneLossEach
<1>1. AllDone
  BY DoneIsAll DEF WorkerInv
<1>2. e.worker \in Worker
  BY DEF CutShort, LostAttempts, LogOK
<1> PICK w \in Worker : w = e.worker
  BY <1>2
<1>3. pc[w] \notin Busy
  BY <1>1, BusyHolds DEF Uncontested, MayClear, HoldsClearance, AllDone, Busy
<1> QED
  BY <1>3, NothingLostYet

LEMMA LossesWhenDoneNow == WorkerInv /\ LogOK /\ Uncontested /\ LossesOK => LossesAreKills
BY LossesWhenDone

LEMMA LossesWhenDoneNext ==
    WorkerInv' /\ LogOK' /\ Uncontested' /\ LossesOK' => LossesAreKills'
BY LossesWhenDoneNow, PTL

LEMMA CalmInvInit == ChaosInit => CalmInv
<1> SUFFICES ASSUME ChaosInit PROVE CalmInv
  OBVIOUS
<1>1. Uncontested
  BY DEF ChaosInit, JobInit, Init, Uncontested, Alone, Busy
<1>2. CutShort = {} /\ delayed = {}
  BY DEF ChaosInit, JobInit, Init, CutShort, LostAttempts, AssignedIn
<1> QED
  BY <1>1, <1>2 DEF CalmInv, LossesOK, HeldOrKilled, OneLossEach, LateOfKilled,
                    RunningWhenKilled, LossesAreKills

LEMMA CalmInvStep ==
    ASSUME ~Speculation, MaxStalls = 0, "committed" \in LoggedKinds,
           ChaosInv, CalmInv, [ChaosNext]_chaosVars
    PROVE  CalmInv'
<1>1. ASSUME UNCHANGED <<completed, events, kills, faults, sc, failed>>, ~Active'
      PROVE  CalmInv'
  <2>1. CutShort' = CutShort /\ Calm' = Calm
    BY <1>1 DEF CutShort, LostAttempts, AssignedIn, CommittedAttempt, Calm
  <2>2. RunningWhenKilled' = RunningWhenKilled /\ LossesAreKills' = LossesAreKills
    BY <1>1, <2>1 DEF RunningWhenKilled, LossesAreKills, Killed, JobDone
  <2> QED
    BY <1>1, <2>1, <2>2 DEF CalmInv
<1>2. CASE StopAll
  BY <1>1, <1>2, StopKeeps DEF vars
<1>3. CASE ~Active
  <2>1. UNCHANGED <<vars, kills, faults, sc, failed, harness>>
    BY <1>3 DEF ChaosNext, Active, chaosVars, jobVars, coordVars, budgetVars, harnessVars
  <2> QED
    BY <1>1, <1>3, <2>1 DEF vars, Active
<1>4. CASE Active /\ ~StopAll
  <2>0. WorkerInv /\ GoneWereKilled /\ PoolOK /\ LogOK /\ WorkerInv' /\ LogOK'
    BY <1>4, TrialWorkerStep, LogTrialStep DEF ChaosInv, FilesInv
  <2>1. CASE Calm'
    <3>1. Uncontested /\ LossesOK
      BY <1>4, <2>0, <2>1, CalmStays DEF CalmInv
    <3>2. CoordStep
      BY <1>4, <2>0, TrialJobStep, JobCases, JobCoordStep, SpawnFailsLingers DEF JobStep
    <3>3. (\E v \in Worker : Advances(v)) \/ Besides
      BY <1>4, <2>0, <2>1, CalmCases DEF Besides
    <3>4. Uncontested'
      BY <2>0, <3>1, <3>2, <3>3, UncontestedStep
    <3>5. LossesOK'
      BY <1>4, <2>0, <2>1, <3>1, LossesStep
    <3>6. LossesAreKills'
      BY <2>0, <3>4, <3>5, LossesWhenDoneNext
    <3> QED
      BY <3>4, <3>5, <3>6 DEF CalmInv, LossesOK
  <2>2. CASE ~Calm'
    BY <2>2 DEF CalmInv, Calm, LossesAreKills
  <2> QED
    BY <2>1, <2>2
<1> QED
  BY <1>2, <1>3, <1>4

LEMMA CalmInvHolds ==
    ASSUME ~Speculation, MaxStalls = 0, "committed" \in LoggedKinds
    PROVE  ChaosSpec => []CalmInv
<1>1. ChaosInit => CalmInv
  BY CalmInvInit
<1>2. ChaosInv /\ CalmInv /\ [ChaosNext]_chaosVars => CalmInv'
  BY CalmInvStep
<1> QED
  BY <1>1, <1>2, ChaosInvHolds, PTL DEF ChaosSpec

(* With no backups, no live worker timed out and no call lost, a killed worker *)
(* costs the one attempt it was on, and besides only attempts given up after a *)
(* local error come to nothing; and whatever was committed before a kill is    *)
(* not run again (workLost, recoveryTimes).                                    *)
THEOREM CostOfKillsHolds ==
    ASSUME ~Speculation, MaxStalls = 0, "committed" \in LoggedKinds
    PROVE  ChaosSpec => []CostOfKills
<1>1. ChaosInv /\ CalmInv => CostOfKills
  BY DEF ChaosInv, CalmInv, LossesAreKills, LogOK, CostOfKills
<1> QED
  BY <1>1, ChaosInvHolds, CalmInvHolds, PTL

(* The half of it that needs no assumption: committed work is never repeated,  *)
(* whatever is lost, late or backed up (recoveryTimes).                          *)
THEOREM CommittedWorkIsKept ==
    ChaosSpec => [](\A k \in kills : \A e \in AssignedIn(events) \ k.before :
                        e.task \notin Preserved(k))
<1>1. ChaosInv => \A k \in kills : \A e \in AssignedIn(events) \ k.before :
                      e.task \notin Preserved(k)
  BY DEF ChaosInv, LogOK
<1> QED
  BY <1>1, ChaosInvHolds, PTL

(* With assignments logged as well, what was interrupted can be looked up.     *)
DealtInv ==
    /\ Active /\ Calm => Newest /\ HeldLogged
    /\ Calm => RunningIsDealt

LEMMA DealtInvInit == ChaosInit => DealtInv
<1> SUFFICES ASSUME ChaosInit PROVE DealtInv
  OBVIOUS
<1>1. Newest /\ HeldLogged
  BY DEF ChaosInit, JobInit, Init, Newest, HeldLogged, Busy
<1>2. RunningIsDealt
  BY DEF ChaosInit, RunningIsDealt
<1> QED
  BY <1>1, <1>2 DEF DealtInv

LEMMA DealtInvStep ==
    ASSUME ~Speculation, MaxStalls = 0,
           "assigned" \in LoggedKinds, "committed" \in LoggedKinds,
           ChaosInv, CalmInv, DealtInv, [ChaosNext]_chaosVars
    PROVE  DealtInv'
<1>1. ASSUME UNCHANGED <<events, kills, faults, sc, state, nextAttempt>>, ~Active'
      PROVE  DealtInv'
  <2>1. Calm' = Calm
    BY <1>1 DEF Calm
  <2>2. RunningIsDealt' = RunningIsDealt
    BY <1>1 DEF RunningIsDealt, HandedOut, Dealt, CommittedAttempt, AssignedIn
  <2> QED
    BY <1>1, <2>1, <2>2 DEF DealtInv
<1>2. CASE StopAll
  BY <1>1, <1>2, StopKeeps DEF vars
<1>3. CASE ~Active
  <2>1. UNCHANGED <<vars, kills, faults, sc, harness>>
    BY <1>3 DEF ChaosNext, Active, chaosVars, jobVars, coordVars, budgetVars, harnessVars
  <2> QED
    BY <1>1, <1>3, <2>1 DEF vars, Active
<1>4. CASE Active /\ ~StopAll /\ Calm'
  <2>0. WorkerInv /\ GoneWereKilled /\ PoolOK /\ LogOK
    BY <1>4 DEF ChaosInv, FilesInv
  <2>1. Calm
    BY <1>4, <2>0, CalmStays
  <2>2. Uncontested /\ Newest /\ HeldLogged /\ RunningIsDealt
    BY <1>4, <2>1 DEF CalmInv, DealtInv
  <2>3. CoordStep
    BY <1>4, <2>0, TrialJobStep, JobCases, JobCoordStep, SpawnFailsLingers DEF JobStep
  <2>4. (\E v \in Worker : Advances(v)) \/ Besides
    BY <1>4, <2>0, CalmCases DEF Besides
  <2>5. Newest'
    BY <2>0, <2>2, <2>3, NewestStep DEF WorkerInv, PhaseInv
  <2>6. HeldLogged'
    BY <2>0, <2>2, <2>3, <2>4, HeldLoggedStep
  <2>7. RunningIsDealt'
    BY <1>4, <2>0, <2>2, <2>3, DealtTrialStep
  <2> QED
    BY <2>5, <2>6, <2>7 DEF DealtInv
<1>5. CASE ~Calm'
  BY <1>5 DEF DealtInv
<1> QED
  BY <1>2, <1>3, <1>4, <1>5

LEMMA DealtInvHolds ==
    ASSUME ~Speculation, MaxStalls = 0,
           "assigned" \in LoggedKinds, "committed" \in LoggedKinds
    PROVE  ChaosSpec => []DealtInv
<1>1. ChaosInit => DealtInv
  BY DealtInvInit
<1>2. ChaosInv /\ CalmInv /\ DealtInv /\ [ChaosNext]_chaosVars => DealtInv'
  BY DealtInvStep
<1> QED
  BY <1>1, <1>2, ChaosInvHolds, CalmInvHolds, PTL DEF ChaosSpec

(* Of a kill the analysis measures what the victim was on, or had given up     *)
(* after a local error, and of a completed trial all that was cut short, where *)
(* no live worker is timed out and scenarios that lose calls kill nobody        *)
(* (recoveryTimes, scenarios).                                                   *)
THEOREM RecoveriesAreAccountedHolds ==
    ASSUME ~Speculation, MaxStalls = 0,
           "assigned" \in LoggedKinds, "committed" \in LoggedKinds,
           \A s \in Scenarios : s.drops => s.killCount = 0 /\ s.killRepeat = 0
    PROVE  ChaosSpec => []RecoveriesAreAccounted
<1>1. ASSUME ChaosInv, CalmInv, DealtInv, NEW k \in kills
      PROVE  /\ \A e \in Recovered(k) : <<e.task, e.attempt>> \in k.running \cup failed
             /\ completedInTime =>
                   \A r \in k.running :
                       \/ CommittedAttempt(r[1], r[2])
                       \/ \E e \in Recovered(k) : <<e.task, e.attempt>> = r
  <2>1. sc.drops => Rounds = 0
    BY <1>1 DEF ChaosInv, PoolOK, Rounds, RoundsOf
  <2>2. Calm
    BY <1>1, <2>1 DEF ChaosInv, PoolOK, Calm
  <2>3. ASSUME NEW e \in Recovered(k)
        PROVE  <<e.task, e.attempt>> \in k.running \cup failed
    BY <1>1, <2>2, <2>3 DEF CalmInv, RunningWhenKilled, Recovered, Interrupted, CutShort
  <2>4. ASSUME completedInTime, NEW r \in k.running, ~CommittedAttempt(r[1], r[2])
        PROVE  \E e \in Recovered(k) : <<e.task, e.attempt>> = r
    <3>1. /\ r \in Task \X Nat /\ HandedOut(k.before, r[1], r[2], k.worker)
          /\ Dealt(k, r[1], r[2])
      BY <1>1, <2>2, <2>4 DEF DealtInv, RunningIsDealt
    <3>2. state[r[1]] = "Completed"
      BY <1>1, <2>4, <3>1 DEF ChaosInv, AllDone
    <3> PICK f \in AssignedIn(events) \ k.before : f.task = r[1]
      BY <2>4, <3>1, <3>2 DEF Dealt
    <3> PICK e \in AssignedIn(k.before) :
                e.task = r[1] /\ e.attempt = r[2] /\ e.worker = k.worker
      BY <3>1 DEF HandedOut
    <3>3. e \in AssignedIn(events) /\ e \in k.before
      BY <1>1 DEF ChaosInv, LogOK, AssignedIn
    <3>4. e \in Recovered(k)
      BY <2>4, <3>3 DEF Recovered, Interrupted, LostAttempts
    <3>5. r = <<r[1], r[2]>>
      BY <3>1
    <3> QED
      BY <3>4, <3>5
  <2> QED
    BY <2>3, <2>4
<1>2. ChaosInv /\ CalmInv /\ DealtInv => RecoveriesAreAccounted
  BY <1>1 DEF RecoveriesAreAccounted
<1> QED
  BY <1>2, ChaosInvHolds, CalmInvHolds, DealtInvHolds, PTL
=============================================================================
