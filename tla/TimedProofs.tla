---------------------------- MODULE TimedProofs ----------------------------
(***************************************************************************)
(* Proofs about the coordinator in time and the job it runs, for any       *)
(* number of workers and tasks and any timeouts, intervals and delays: a    *)
(* lost worker is noticed in time, nobody is dropped before the timeout,    *)
(* and the trace of a finished job is sound.                                *)
(***************************************************************************)
EXTENDS TimedJob, Status, CoordinatorProofs, StatsProofs, SequenceTheorems

-----------------------------------------------------------------------------
(* What a step in time is.                                                 *)

(* A handler: a step of the coordinator other than a reaper pass, and the  *)
(* clock is read.                                                          *)
Handles ==
    /\ Assigns \/ TellWait \/ Clears \/ Refuses \/ Confirms \/ UNCHANGED vars
    /\ ReadClock
    /\ UNCHANGED <<now, lastReap>>

LEMMA TimedCases ==
    ASSUME AttemptInv, [TimedNext]_timedVars
    PROVE  Handles \/ ReapPass \/ Tick \/ UNCHANGED timedVars
<1>1. ASSUME NEW t \in Task, NEW w \in Worker, NEW backup \in BOOLEAN,
             TimedAssign(t, w, backup)
      PROVE  Handles
  BY <1>1 DEF TimedAssign, Handles, Assigns
<1>2. ASSUME NEW w \in Worker, TimedWait(w) PROVE Handles
  BY <1>2 DEF TimedWait, Handles
<1>3. TimedExit => UNCHANGED timedVars
  BY DEF TimedExit
<1>4. ASSUME NEW t \in Task, NEW id \in 0 .. MaxAttempts, NEW w \in Worker,
             TimedReport(t, id, w)
      PROVE  Handles
  BY <1>4, BoundAssumption
     DEF TimedReport, ReportTask, Handles, Clears, Refuses, ClearAgain
<1>5. ASSUME NEW t \in Task, NEW a \in live[t], NEW from, NEW to,
             TimedCommit(t, a, from, to)
      PROVE  Handles
  <2>1. a.id \in Nat /\ a.worker \in Worker /\ a.backup \in BOOLEAN
    BY <1>5 DEF AttemptInv, TypeOK, Attempt
  <2> QED
    BY <1>5, <2>1 DEF TimedCommit, CommitTask, Handles, Confirms
<1> QED
  BY <1>1, <1>2, <1>3, <1>4, <1>5 DEF TimedNext

(* A handler starts, clears and finishes; it drops an attempt only by *)
(* finishing its task.                                                 *)
LEMMA HandlesTask ==
    ASSUME AttemptInv, Handles, NEW t \in Task
    PROVE  /\ state'[t] = "InProgress" => state[t] \in {"Idle", "InProgress"}
           /\ state'[t] = "Committing" =>
                 /\ live'[t] = live[t]
                 /\ state[t] = "Committing" \/ state[t] = "InProgress"
           /\ \A a \in live[t] : a \in live'[t] \/ state'[t] = "Completed"
<1>1. /\ state \in [Task -> TaskState] /\ live \in [Task -> SUBSET Attempt]
      /\ LiveMatchesState
  BY DEF AttemptInv, TypeOK
<1>2. CASE Assigns
  <2> PICK u \in Task, w \in Worker, backup \in BOOLEAN : AssignTask(u, w, backup)
    BY <1>2 DEF Assigns
  <2>1. /\ Start(u, w, backup)
        /\ state[u] \in {"Idle", "InProgress"}
    BY AssignStarts DEF FirstIdle, Stragglers
  <2> QED
    BY <1>1, <2>1 DEF Start
<1>3. CASE Clears
  BY <1>1, <1>3 DEF Clears, Clear, MayClear
<1>4. CASE Confirms
  BY <1>1, <1>4 DEF Confirms, Confirm
<1>5. CASE UNCHANGED <<state, live>>
  BY <1>1, <1>5 DEF TaskState
<1>6. TellWait \/ Refuses \/ UNCHANGED vars => UNCHANGED <<state, live>>
  BY DEF TellWait, Refuses, Refuse, vars
<1> QED
  BY <1>2, <1>3, <1>4, <1>5, <1>6 DEF Handles

(* What a pass leaves running is in time, and what it drops is not. *)
LEMMA ReapPassTask ==
    ASSUME ReapPass, TypeOK, NEW t \in Task
    PROVE  /\ state'[t] = "InProgress" =>
                 /\ state[t] = "InProgress"
                 /\ \A a \in live'[t] : /\ a \in live[t]
                                       /\ ~(now - started[t][a.id] > cfg.taskTimeout)
           /\ state'[t] = "Committing" =>
                 /\ state[t] = "Committing" /\ live'[t] = live[t]
                 /\ ~(now - commitStart[t] > cfg.taskTimeout)
           /\ \A a \in live[t] : a \notin live'[t] =>
                 \/ state[t] = "Committing" /\ now - commitStart[t] > cfg.taskTimeout
                 \/ state[t] = "InProgress" /\ now - started[t][a.id] > cfg.taskTimeout
<1>1. /\ state'[t] = IF GivesUp(t, Overdue) THEN "Idle" ELSE state[t]
      /\ live'[t] = CASE GivesUp(t, Overdue) -> {}
                      [] state[t] = "InProgress" -> Survivors(t, Overdue)
                      [] OTHER -> live[t]
  BY DEF ReapPass, CheckTimeouts, Reap
<1>2. ASSUME NEW a \in live[t], state[t] = "InProgress"
      PROVE  <<t, a.id>> \in Overdue <=> now - started[t][a.id] > cfg.taskTimeout
  <2>1. <<t, a.id>> \in Timed
    BY <1>2 DEF Timed
  <2> QED
    BY <1>2, <2>1 DEF Overdue
<1>3. ASSUME state[t] = "Committing"
      PROVE  <<t, committer[t]>> \in Overdue <=> now - commitStart[t] > cfg.taskTimeout
  <2>1. <<t, committer[t]>> \in Timed
    BY <1>3 DEF Timed
  <2> QED
    BY <1>3, <2>1 DEF Overdue
<1>4. CASE state[t] = "InProgress"
  BY <1>1, <1>2, <1>4 DEF GivesUp, Survivors
<1>5. CASE state[t] = "Committing"
  BY <1>1, <1>3, <1>5 DEF GivesUp
<1>6. CASE state[t] \notin {"InProgress", "Committing"}
  BY <1>1, <1>6 DEF GivesUp
<1> QED
  BY <1>4, <1>5, <1>6

-----------------------------------------------------------------------------
(* The coordinator's invariant.                                            *)

(* The clock, and a reading of it for whatever runs. *)
ClockOK ==
    /\ now \in Nat /\ lastReap \in Int /\ lastReap <= now
    /\ now - lastReap <= cfg.reapInterval + MaxLate
    /\ \A t \in Task : started[t] \in [Ids(t) -> 0 .. now]
    /\ commitStart \in [Task -> 0 .. now]

(* At the last pass nothing that still runs was overdue, and the attempts of *)
(* a committing task were all running when it was cleared.                   *)
InTime ==
    \A t \in Task :
        /\ state[t] = "InProgress" =>
              \A id \in Ids(t) : lastReap - started[t][id] <= cfg.taskTimeout
        /\ state[t] = "Committing" =>
              /\ lastReap - commitStart[t] <= cfg.taskTimeout
              /\ \A id \in Ids(t) : started[t][id] <= commitStart[t]

TimedInv == AttemptInv /\ ClockOK /\ InTime

(* New readings are of the present, old ones are kept. *)
LEMMA ReadClockType ==
    ASSUME TypeOK', now' = now, ReadClock, ClockOK
    PROVE  /\ \A t \in Task : started'[t] \in [Ids(t)' -> 0 .. now]
           /\ commitStart' \in [Task -> 0 .. now]
<1>1. now \in 0 .. now
  BY DEF ClockOK
<1>2. ASSUME NEW t \in Task PROVE started'[t] \in [Ids(t)' -> 0 .. now]
  <2>1. started'[t] = [id \in Ids(t)' |-> IF id \in Ids(t) THEN started[t][id] ELSE now]
    BY DEF ReadClock, StampStarts
  <2>2. ASSUME NEW id \in Ids(t) PROVE started[t][id] \in 0 .. now
    BY DEF ClockOK
  <2> QED
    BY <1>1, <2>1, <2>2
<1>3. commitStart' \in [Task -> 0 .. now]
  <2>1. ASSUME NEW t \in Task PROVE commitStart'[t] \in 0 .. now
    <3>1. commitStart[t] \in 0 .. now
      BY DEF ClockOK
    <3>2. commitStart'[t] = CASE state'[t] = "Committing" /\ state[t] # "Committing" -> now
                              [] state'[t] = "Committing" /\ state[t] = "Committing" -> commitStart[t]
                              [] OTHER -> 0
      BY DEF ReadClock, StampClearance
    <3>3. 0 \in 0 .. now
      BY DEF ClockOK
    <3> QED
      BY <1>1, <3>1, <3>2, <3>3
  <2>2. commitStart' = [t \in Task |-> commitStart'[t]]
    BY DEF ReadClock, StampClearance
  <2> QED
    BY <2>1, <2>2
<1> QED
  BY <1>2, <1>3

LEMMA ConfigType == cfg.taskTimeout \in Nat /\ cfg.reapInterval \in Nat /\ MaxLate \in Nat
BY ConfigAssumption

(* A handler reads times that lie after the last pass. *)
LEMMA HandlesInTime ==
    ASSUME TimedInv, Handles, TypeOK'
    PROVE  ClockOK' /\ InTime'
<1>1. /\ now \in Nat /\ lastReap \in Int /\ lastReap <= now
      /\ now - lastReap <= cfg.reapInterval + MaxLate
      /\ now' = now /\ lastReap' = lastReap
  BY DEF TimedInv, ClockOK, Handles
<1>2. ClockOK'
  BY <1>1, ReadClockType DEF ClockOK, TimedInv, Handles
<1>3. ASSUME NEW t \in Task, state'[t] = "InProgress", NEW id \in Ids(t)'
      PROVE  lastReap - started'[t][id] <= cfg.taskTimeout
  <2>1. started'[t][id] = IF id \in Ids(t) THEN started[t][id] ELSE now
    BY <1>3 DEF Handles, ReadClock, StampStarts
  <2>2. CASE id \in Ids(t)
    <3>1. state[t] = "InProgress"
      BY <1>3, <2>2, HandlesTask DEF TimedInv, AttemptInv, LiveMatchesState, Ids
    <3> QED
      BY <2>1, <2>2, <3>1 DEF TimedInv, InTime
  <2>3. CASE id \notin Ids(t)
    BY <1>1, <2>1, <2>3, ConfigType
  <2> QED
    BY <2>2, <2>3
<1>4. ASSUME NEW t \in Task, state'[t] = "Committing"
      PROVE  /\ lastReap - commitStart'[t] <= cfg.taskTimeout
             /\ \A id \in Ids(t)' : started'[t][id] <= commitStart'[t]
  <2>1. /\ Ids(t)' = Ids(t)
        /\ state[t] = "Committing" \/ state[t] = "InProgress"
    BY <1>4, HandlesTask DEF TimedInv, Ids
  <2>2. ASSUME NEW id \in Ids(t) PROVE started'[t][id] = started[t][id]
    BY <2>1, <2>2 DEF Handles, ReadClock, StampStarts
  <2>3. ASSUME NEW id \in Ids(t) PROVE started[t][id] \in 0 .. now
    BY <2>3 DEF TimedInv, ClockOK
  <2>4. CASE state[t] = "Committing"
    <3>1. commitStart'[t] = commitStart[t]
      BY <1>4, <2>4 DEF Handles, ReadClock, StampClearance
    <3> QED
      BY <2>1, <2>2, <2>4, <3>1 DEF TimedInv, InTime
  <2>5. CASE state[t] = "InProgress"
    <3>1. commitStart'[t] = now
      BY <1>4, <2>5 DEF Handles, ReadClock, StampClearance
    <3> QED
      BY <1>1, <2>1, <2>2, <2>3, <3>1, ConfigType
  <2> QED
    BY <2>1, <2>4, <2>5
<1> QED
  BY <1>1, <1>2, <1>3, <1>4 DEF InTime

(* After a pass nothing that runs is overdue. *)
LEMMA ReapPassInTime ==
    ASSUME TimedInv, ReapPass, TypeOK'
    PROVE  ClockOK' /\ InTime'
<1>1. /\ now \in Nat /\ now' = now /\ lastReap' = now
      /\ TypeOK
  BY DEF TimedInv, AttemptInv, ClockOK, ReapPass
<1>2. ClockOK'
  BY <1>1, ReadClockType, ConfigType DEF ClockOK, TimedInv, ReapPass
<1>3. ASSUME NEW t \in Task, state'[t] = "InProgress", NEW id \in Ids(t)'
      PROVE  now - started'[t][id] <= cfg.taskTimeout
  <2>1. PICK a \in live'[t] : a.id = id
    BY <1>3 DEF Ids
  <2>2. a \in live[t] /\ ~(now - started[t][id] > cfg.taskTimeout)
    BY <1>1, <1>3, <2>1, ReapPassTask
  <2>3. started'[t][id] = started[t][id] /\ started[t][id] \in 0 .. now
    BY <1>3, <2>1, <2>2 DEF ReapPass, ReadClock, StampStarts, Ids, TimedInv, ClockOK
  <2> QED
    BY <1>1, <2>2, <2>3, ConfigType
<1>4. ASSUME NEW t \in Task, state'[t] = "Committing"
      PROVE  /\ now - commitStart'[t] <= cfg.taskTimeout
             /\ \A id \in Ids(t)' : started'[t][id] <= commitStart'[t]
  <2>1. /\ state[t] = "Committing" /\ Ids(t)' = Ids(t)
        /\ ~(now - commitStart[t] > cfg.taskTimeout)
    BY <1>1, <1>4, ReapPassTask DEF Ids
  <2>2. commitStart'[t] = commitStart[t] /\ commitStart[t] \in 0 .. now
    BY <1>4, <2>1 DEF ReapPass, ReadClock, StampClearance, TimedInv, ClockOK
  <2>3. ASSUME NEW id \in Ids(t) PROVE started'[t][id] = started[t][id]
    BY <2>1, <2>3 DEF ReapPass, ReadClock, StampStarts
  <2> QED
    BY <1>1, <2>1, <2>2, <2>3, ConfigType DEF TimedInv, InTime
<1> QED
  BY <1>1, <1>2, <1>3, <1>4 DEF InTime

LEMMA TimedInvStep ==
    ASSUME TimedInv, Handles \/ ReapPass \/ Tick \/ UNCHANGED timedVars
    PROVE  TimedInv'
<1>1. CASE Handles
  <2>1. AttemptInv'
    BY <1>1, AttemptInvStep DEF TimedInv, Handles, CoordStep
  <2> QED
    BY <1>1, <2>1, HandlesInTime DEF TimedInv, AttemptInv
<1>2. CASE ReapPass
  <2>1. Reaps
    <3>1. Overdue \in SUBSET Timed
      BY DEF Overdue
    <3> QED
      BY <1>2, <3>1 DEF ReapPass, CheckTimeouts, Reaps
  <2>2. AttemptInv'
    BY <2>1, AttemptInvStep DEF TimedInv, CoordStep
  <2> QED
    BY <1>2, <2>2, ReapPassInTime DEF TimedInv, AttemptInv
<1>3. CASE Tick
  <2>1. AttemptInv'
    BY <1>3, AttemptInvStep DEF TimedInv, Tick, CoordStep
  <2>2. /\ now' = now + 1 /\ lastReap' = lastReap /\ commitStart' = commitStart
        /\ started' = started /\ live' = live /\ state' = state
        /\ ~(now - lastReap >= cfg.reapInterval + MaxLate)
    BY <1>3 DEF Tick, PassDue, clockVars, vars
  <2>3. now \in Nat /\ lastReap \in Int /\ lastReap <= now
    BY DEF TimedInv, ClockOK
  <2>4. ASSUME NEW t \in Task
        PROVE  started'[t] \in [Ids(t)' -> 0 .. now'] /\ commitStart'[t] \in 0 .. now'
    <3>1. 0 .. now \subseteq 0 .. now'
      BY <2>2, <2>3
    <3>2. started[t] \in [Ids(t) -> 0 .. now] /\ commitStart[t] \in 0 .. now
      BY DEF TimedInv, ClockOK
    <3> QED
      BY <2>2, <3>1, <3>2 DEF Ids
  <2>5. ClockOK'
    <3>1. now' - lastReap' <= cfg.reapInterval + MaxLate
      BY <2>2, <2>3, ConfigType
    <3>2. commitStart' \in [Task -> 0 .. now']
      BY <2>2, <2>4 DEF TimedInv, ClockOK
    <3> QED
      BY <2>2, <2>3, <2>4, <3>1, <3>2 DEF ClockOK
  <2>6. InTime'
    BY <2>2 DEF TimedInv, InTime, Ids
  <2> QED
    BY <2>1, <2>5, <2>6 DEF TimedInv
<1>4. CASE UNCHANGED timedVars
  <2>1. AttemptInv'
    BY <1>4, AttemptInvStep DEF TimedInv, timedVars, CoordStep
  <2>2. ClockOK' /\ InTime'
    BY <1>4 DEF TimedInv, ClockOK, InTime, Ids, timedVars, clockVars, vars
  <2> QED
    BY <2>1, <2>2 DEF TimedInv
<1> QED
  BY <1>1, <1>2, <1>3, <1>4

LEMMA TimedInvInit == TimedInit => TimedInv
<1> SUFFICES ASSUME TimedInit PROVE TimedInv
  OBVIOUS
<1>1. AttemptInv
  BY AttemptInvInit DEF TimedInit
<1>2. ASSUME NEW t \in Task PROVE Ids(t) = {} /\ state[t] = "Idle"
  BY DEF TimedInit, Init, Ids
<1>3. now = 0 /\ lastReap = -cfg.reapInterval
  BY DEF TimedInit
<1>4. ClockOK
  <2>1. commitStart \in [Task -> 0 .. now]
    BY <1>3 DEF TimedInit
  <2>2. ASSUME NEW t \in Task PROVE started[t] \in [Ids(t) -> 0 .. now]
    BY <1>2 DEF TimedInit
  <2> QED
    BY <1>3, <2>1, <2>2, ConfigType DEF ClockOK
<1>5. InTime
  BY <1>2 DEF InTime
<1> QED
  BY <1>1, <1>4, <1>5 DEF TimedInv

LEMMA TimedInvHolds == TimedSpec => []TimedInv
<1>1. TimedInit => TimedInv
  BY TimedInvInit
<1>2. TimedInv /\ [TimedNext]_timedVars => TimedInv'
  BY TimedInvStep, TimedCases DEF TimedInv
<1> QED
  BY <1>1, <1>2, PTL DEF TimedSpec

(* What is in time overstays by no more than a late pass allows. *)
LEMMA InTimeIsNoOverstay == TimedInv => NoOverstay
<1> SUFFICES ASSUME TimedInv, NEW t \in Task
             PROVE  /\ state[t] = "InProgress" =>
                          \A a \in live[t] : now - started[t][a.id] <= Patience
                    /\ state[t] = "Committing" => now - commitStart[t] <= Patience
  BY DEF NoOverstay
<1>1. now \in Nat /\ lastReap \in Int /\ now - lastReap <= cfg.reapInterval + MaxLate
  BY DEF TimedInv, ClockOK
<1>2. ASSUME NEW a \in live[t], state[t] = "InProgress"
      PROVE  now - started[t][a.id] <= Patience
  <2>1. started[t][a.id] \in 0 .. now /\ lastReap - started[t][a.id] <= cfg.taskTimeout
    BY <1>2 DEF TimedInv, ClockOK, InTime, Ids
  <2> QED
    BY <1>1, <2>1, ConfigType DEF Patience
<1>3. ASSUME state[t] = "Committing" PROVE now - commitStart[t] <= Patience
  <2>1. commitStart[t] \in 0 .. now /\ lastReap - commitStart[t] <= cfg.taskTimeout
    BY <1>3 DEF TimedInv, ClockOK, InTime
  <2> QED
    BY <1>1, <2>1, ConfigType DEF Patience
<1> QED
  BY <1>2, <1>3

(* An attempt leaves live, if its task is not confirmed, only when overdue. *)
LEMMA DropsAreOverdue ==
    ASSUME TimedInv, Handles \/ ReapPass \/ Tick \/ UNCHANGED timedVars,
           NEW t \in Task, NEW a \in live[t], a \notin live'[t], state'[t] # "Completed"
    PROVE  now - started[t][a.id] > cfg.taskTimeout
<1>1. ReapPass
  <2>1. Handles => FALSE
    BY HandlesTask DEF TimedInv
  <2>2. Tick \/ UNCHANGED timedVars => FALSE
    BY DEF Tick, timedVars, vars
  <2> QED
    BY <2>1, <2>2
<1>2. TypeOK
  BY DEF TimedInv, AttemptInv
<1>3. \/ state[t] = "Committing" /\ now - commitStart[t] > cfg.taskTimeout
      \/ state[t] = "InProgress" /\ now - started[t][a.id] > cfg.taskTimeout
  BY <1>1, <1>2, ReapPassTask
<1>4. CASE state[t] = "Committing" /\ now - commitStart[t] > cfg.taskTimeout
  <2>1. /\ started[t][a.id] \in 0 .. now /\ commitStart[t] \in 0 .. now
        /\ started[t][a.id] <= commitStart[t] /\ now \in Nat
    BY <1>4 DEF TimedInv, ClockOK, InTime, Ids
  <2> QED
    BY <1>4, <2>1, ConfigType
<1> QED
  BY <1>3, <1>4

-----------------------------------------------------------------------------
(* The theorems about open callers.                                        *)

(* For any number of workers and tasks and any timeout and interval, nothing *)
(* runs, or holds a clearance, longer than a timeout, an interval and the    *)
(* lateness of a pass (checkTimeouts, reap).                                 *)
THEOREM NoOverstayHolds == TimedSpec => []NoOverstay
BY InTimeIsNoOverstay, TimedInvHolds, PTL

(* No pass drops an attempt that has not run past the timeout, rivals of a *)
(* committer included (reap).                                               *)
THEOREM OnlyOverdueDroppedHolds == TimedSpec => OnlyOverdueDropped
<1>1. TimedInv /\ [TimedNext]_timedVars =>
        [\A t \in Task : \A a \in live[t] :
            a \notin live'[t] /\ state'[t] # "Completed"
                => now - started[t][a.id] > cfg.taskTimeout]_timedVars
  BY DropsAreOverdue, TimedCases DEF TimedInv
<1> QED
  BY <1>1, TimedInvHolds, PTL DEF TimedSpec, OnlyOverdueDropped

-----------------------------------------------------------------------------
Working == {"execute", "publish", "commit"}
JobRecord == [task : Task, attempt : Nat, backup : BOOLEAN, start : Nat, end : Nat]

-----------------------------------------------------------------------------
(* The job: its invariant.                                                 *)

(* Phase boundaries are stamped in the order of the phases. *)
StampsOK ==
    /\ stamps \in [marks -> 0 .. now]
    /\ "reducePhaseStart" \in marks =>
          "mapPhaseEnd" \in marks /\ stamps["mapPhaseEnd"] <= stamps["reducePhaseStart"]
    /\ "jobEnd" \in marks =>
          "reducePhaseStart" \in marks /\ stamps["reducePhaseStart"] <= stamps["jobEnd"]

(* A stretch of time from..to spent on task t lies in the past, and in the    *)
(* reduce phase if t is a reduce task.                                        *)
Began(t, from, to) ==
    /\ from <= to /\ to <= now
    /\ KindOf(t) = "reduce" =>
          "reducePhaseStart" \in marks /\ stamps["reducePhaseStart"] <= from

(* What a worker works on, and since when. *)
JobsOK ==
    /\ step \in [Worker -> Steps]
    /\ job \in [Worker -> JobRecord \cup {NoJob}]
    /\ \A w \in Worker : step[w] \in Working =>
          job[w] \in JobRecord /\ Began(job[w].task, job[w].start, job[w].end)

(* A metric is of a finished task, and ends before its phase does. *)
MetricOK(m) ==
    /\ state[m.task] = "Completed"
    /\ Began(m.task, m.start, m.end)
    /\ KindOf(m.task) = "map" /\ "mapPhaseEnd" \in marks => m.end <= stamps["mapPhaseEnd"]
    /\ KindOf(m.task) = "reduce" /\ "jobEnd" \in marks => m.end <= stamps["jobEnd"]

(* There is one metric for each finished task. *)
MetricsOK ==
    /\ taskMetrics \in Seq(TaskMetric)
    /\ Len(taskMetrics) = completed["map"] + completed["reduce"]
    /\ \A i \in 1 .. Len(taskMetrics) : MetricOK(taskMetrics[i])
    /\ \A i, j \in 1 .. Len(taskMetrics) : taskMetrics[i].task = taskMetrics[j].task => i = j

(* Whatever a worker finished, it finished before it started what it is on. *)
LanesOK ==
    /\ \A w \in Worker : \A i \in 1 .. Len(taskMetrics) :
          step[w] \in Working /\ taskMetrics[i].worker = w
              => taskMetrics[i].end <= job[w].start
    /\ \A i, j \in 1 .. Len(taskMetrics) :
          i < j /\ taskMetrics[i].worker = taskMetrics[j].worker
              => taskMetrics[i].end <= taskMetrics[j].start

RunInv == TimedInv /\ MarksInv /\ StampsOK /\ JobsOK /\ MetricsOK /\ LanesOK

-----------------------------------------------------------------------------
(* What a step of the job does.                                            *)

LEMMA WorkingHolds ==
    ASSUME JobsOK, NEW w \in Worker, step[w] \in Working
    PROVE  /\ job[w].task \in Task /\ job[w].attempt \in Nat /\ job[w].backup \in BOOLEAN
           /\ job[w].start \in Nat /\ job[w].end \in Nat
           /\ Began(job[w].task, job[w].start, job[w].end)
BY DEF JobsOK, JobRecord

(* To the coordinator and its clock, a step of the job is one of the handlers, *)
(* a pass or a tick.                                                           *)
LEMMA RunCases ==
    ASSUME RunInv, [RunNext]_runVars
    PROVE  Handles \/ ReapPass \/ Tick \/ UNCHANGED timedVars
<1> USE DEF RunInv, Working
<1>1. ASSUME NEW t \in Task, NEW w \in Worker, NEW backup \in BOOLEAN,
             TimedAssign(t, w, backup)
      PROVE  Handles
  BY <1>1 DEF TimedAssign, Handles, Assigns
<1>2. ASSUME NEW w \in Worker, Ask(w) \/ AskInVain(w) \/ AskAndLeave(w)
      PROVE  Handles \/ UNCHANGED timedVars
  BY <1>1, <1>2 DEF Ask, AskInVain, AskAndLeave, TimedWait, TimedExit, Handles
<1>3. ASSUME NEW w \in Worker, Report(w) PROVE Handles
  <2>1. job[w].task \in Task /\ job[w].attempt \in Nat
    BY <1>3, WorkingHolds DEF Report
  <2> QED
    BY <1>3, <2>1
       DEF Report, TimedReport, ReportTask, Handles, Clears, Refuses, ClearAgain
<1>4. ASSUME NEW w \in Worker, Publish(w) PROVE UNCHANGED timedVars
  BY <1>4 DEF Publish
<1>5. ASSUME NEW w \in Worker, Commit(w) PROVE Handles
  <2>1. /\ job[w].task \in Task /\ job[w].attempt \in Nat /\ job[w].backup \in BOOLEAN
        /\ AttemptOf(w).id = job[w].attempt /\ AttemptOf(w).worker = w
        /\ AttemptOf(w).backup = job[w].backup
    BY <1>5, WorkingHolds DEF Commit, AttemptOf
  <2> QED
    BY <1>5, <2>1 DEF Commit, TimedCommit, CommitTask, Handles, Confirms
<1>6. RunReapPass => ReapPass
  BY DEF RunReapPass
<1>7. RunTick => Tick
  BY DEF RunTick
<1>8. UNCHANGED runVars => UNCHANGED timedVars
  BY DEF runVars
<1> QED
  BY <1>2, <1>3, <1>4, <1>5, <1>6, <1>7, <1>8 DEF RunNext

LEMMA OverdueTimed == Overdue \in SUBSET Timed
BY DEF Overdue

LEMMA TimedCoordStep ==
    ASSUME Handles \/ ReapPass \/ Tick \/ UNCHANGED timedVars
    PROVE  CoordStep
BY OverdueTimed
   DEF Handles, ReapPass, CheckTimeouts, Reaps, Tick, timedVars, CoordStep

(* The clock goes on, and marks are stamped with it when they are set. *)
LEMMA ClockStep ==
    ASSUME RunInv, [RunNext]_runVars
    PROVE  /\ now \in Nat /\ now' \in Nat /\ now <= now'
           /\ marks \subseteq marks'
           /\ stamps' = [m \in marks' |-> IF m \in marks THEN stamps[m] ELSE now]
<1>1. now \in Nat /\ stamps = [m \in marks |-> stamps[m]]
  BY DEF RunInv, TimedInv, ClockOK, StampsOK
<1>2. CASE Handles
  <2>1. now' = now /\ StampPhases
    BY <1>2 DEF Handles, ReadClock
  <2>2. marks \subseteq marks'
    BY <1>2, AssignStarts
       DEF Handles, Assigns, AssignTask, MarkReducePhase, TellWait, Clears, Clear, Refuses,
           Refuse, Confirms, Confirm, MarkPhaseEnd, vars
  <2> QED
    BY <1>1, <2>1, <2>2 DEF StampPhases
<1>3. CASE ReapPass
  <2>1. now' = now /\ StampPhases /\ marks' = marks
    BY <1>3 DEF ReapPass, ReadClock, CheckTimeouts, Reap
  <2> QED
    BY <1>1, <2>1 DEF StampPhases
<1>4. CASE Tick \/ UNCHANGED timedVars
  <2>1. marks' = marks /\ stamps' = stamps /\ now' \in {now, now + 1}
    BY <1>4 DEF Tick, timedVars, clockVars, vars
  <2> QED
    BY <1>1, <2>1
<1> QED
  BY <1>2, <1>3, <1>4, RunCases

(* A task is measured when it is confirmed, by the worker that confirms it. *)
Measured(w) ==
    LET t == job[w].task IN
    /\ Commit(w) /\ step[w] = "commit" /\ t \in Task /\ job[w].attempt \in Nat
    /\ Confirm(t, job[w].attempt, w, job[w].backup)
    /\ taskMetrics' = Append(taskMetrics, Metric(t, AttemptOf(w), job[w].start, job[w].end))

LEMMA MetricsStep ==
    ASSUME RunInv, [RunNext]_runVars
    PROVE  \/ \E w \in Worker : Measured(w)
           \/ UNCHANGED <<taskMetrics, completed>>
<1>1. ASSUME NEW w \in Worker, Ask(w) \/ AskInVain(w) \/ AskAndLeave(w)
      PROVE  UNCHANGED <<taskMetrics, completed>>
  BY <1>1 DEF Ask, AskInVain, AskAndLeave, TimedAssign, AssignTask, TimedWait, TellWait,
              TimedExit, TellExit, timedVars, clockVars, vars
<1>2. ASSUME NEW w \in Worker, Report(w) PROVE UNCHANGED <<taskMetrics, completed>>
  BY <1>2 DEF Report, TimedReport, ReportTask, Clear, ClearAgain, Refuse, vars
<1>3. ASSUME NEW w \in Worker, Publish(w) PROVE UNCHANGED <<taskMetrics, completed>>
  BY <1>3 DEF Publish, timedVars, clockVars, vars
<1>4. ASSUME NEW w \in Worker, Commit(w)
      PROVE  Measured(w) \/ UNCHANGED <<taskMetrics, completed>>
  <2>1. /\ step[w] = "commit" /\ job[w].task \in Task /\ job[w].attempt \in Nat
        /\ AttemptOf(w).id = job[w].attempt /\ AttemptOf(w).worker = w
        /\ AttemptOf(w).backup = job[w].backup
    BY <1>4, WorkingHolds DEF Commit, AttemptOf, RunInv, Working
  <2>2. TimedCommit(job[w].task, AttemptOf(w), job[w].start, job[w].end)
    BY <1>4 DEF Commit
  <2>3. CASE HoldsClearance(job[w].task, job[w].attempt)
    BY <1>4, <2>1, <2>2, <2>3 DEF TimedCommit, CommitTask, Measured
  <2>4. CASE ~HoldsClearance(job[w].task, job[w].attempt)
    BY <2>1, <2>2, <2>4 DEF TimedCommit, CommitTask, Confirm, vars
  <2> QED
    BY <2>3, <2>4
<1>5. RunReapPass => UNCHANGED <<taskMetrics, completed>>
  BY DEF RunReapPass, ReapPass, CheckTimeouts, Reap
<1>6. RunTick \/ UNCHANGED runVars => UNCHANGED <<taskMetrics, completed>>
  BY DEF RunTick, Tick, runVars, timedVars, clockVars, vars
<1> QED
  BY <1>1, <1>2, <1>3, <1>4, <1>5, <1>6 DEF RunNext

-----------------------------------------------------------------------------
(* Phase boundaries.                                                       *)

(* A boundary is marked when its phase is over, or has begun. *)
MarksMean ==
    /\ "mapPhaseEnd" \in marks => \A t \in TasksOf("map") : state[t] = "Completed"
    /\ "jobEnd" \in marks => \A t \in TasksOf("reduce") : state[t] = "Completed"
    /\ "reducePhaseStart" \in marks => "mapPhaseEnd" \in marks
    /\ "jobEnd" \in marks => "reducePhaseStart" \in marks
    /\ JobDone => {"mapPhaseEnd", "reducePhaseStart", "jobEnd"} \subseteq marks

LEMMA MarksAreTrue == MarksInv => MarksMean
<1> SUFFICES ASSUME MarksInv PROVE MarksMean
  OBVIOUS
<1> USE HorizonAssumption, CountsAssumption DEF MarksInv, PhaseInv
<1>1. \A k \in Kind : completed[k] = Total(k) => \A t \in TasksOf(k) : state[t] = "Completed"
  BY FullCounter
<1>2. "mapPhaseEnd" \in marks <=> completed["map"] = NMap
  BY DEF PhaseMarks
<1>3. "jobEnd" \in marks <=> completed["reduce"] = NReduce
  BY DEF PhaseMarks
<1>4. "mapPhaseEnd" \in marks => \A t \in TasksOf("map") : state[t] = "Completed"
  BY <1>1, <1>2 DEF Kind, Total
<1>5. "jobEnd" \in marks => \A t \in TasksOf("reduce") : state[t] = "Completed"
  BY <1>1, <1>3 DEF Kind, Total
<1>6. "reducePhaseStart" \in marks => "mapPhaseEnd" \in marks
  BY <1>2 DEF PhaseMarks, Barrier
<1>7. "jobEnd" \in marks => "reducePhaseStart" \in marks
  <2> DEFINE r == <<"reduce", 0>>
  <2>1. r \in TasksOf("reduce")
    BY DEF TasksOf, Total
  <2>2. r \in Task
    BY <2>1, TaskKinds DEF Kind
  <2>3. "jobEnd" \in marks => nextAttempt[r] > 0
    BY <1>5, <2>1, <2>2 DEF Started
  <2> QED
    BY <2>1, <2>3 DEF PhaseMarks
<1>8. JobDone => completed["map"] = NMap /\ completed["reduce"] = NReduce
  BY DEF JobDone, Kind, Total
<1> QED
  BY <1>2, <1>3, <1>4, <1>5, <1>6, <1>7, <1>8 DEF MarksMean

LEMMA MarksStayTrue == MarksInv' => MarksMean'
BY MarksAreTrue, PTL

LEMMA StampsStep ==
    ASSUME RunInv, [RunNext]_runVars, MarksInv'
    PROVE  StampsOK'
<1>1. /\ now \in Nat /\ now' \in Nat /\ now <= now'
      /\ marks \subseteq marks'
      /\ stamps' = [m \in marks' |-> IF m \in marks THEN stamps[m] ELSE now]
  BY ClockStep
<1>2. \A m \in marks : stamps[m] \in 0 .. now
  BY DEF RunInv, StampsOK
<1>3. stamps' \in [marks' -> 0 .. now']
  <2>1. ASSUME NEW m \in marks' PROVE stamps'[m] \in 0 .. now'
    BY <1>1, <1>2
  <2> QED
    BY <1>1, <2>1
<1>4. /\ "reducePhaseStart" \in marks' => "mapPhaseEnd" \in marks'
      /\ "jobEnd" \in marks' => "reducePhaseStart" \in marks'
  BY MarksStayTrue DEF MarksMean
<1> QED
  BY <1>1, <1>2, <1>3, <1>4 DEF StampsOK, RunInv

-----------------------------------------------------------------------------
(* Workers.                                                                *)

(* A stretch of time stays where it is. *)
LEMMA BeganStays ==
    ASSUME RunInv, [RunNext]_runVars, NEW t, NEW from \in Nat, NEW to \in Nat,
           Began(t, from, to)
    PROVE  Began(t, from, to)'
BY ClockStep DEF Began

(* What a worker starts on it starts now, and a reduce task in its phase. *)
LEMMA AskBegins ==
    ASSUME RunInv, [RunNext]_runVars, NEW w \in Worker, Ask(w)
    PROVE  /\ job'[w] \in JobRecord /\ job'[w].start = now
           /\ Began(job[w].task, job[w].start, job[w].end)'
           /\ step' = [step EXCEPT ![w] = "execute"]
           /\ \A v \in Worker : v # w => job'[v] = job[v]
<1> PICK t \in Task, backup \in BOOLEAN :
          /\ TimedAssign(t, w, backup)
          /\ job' = [job EXCEPT ![w] =
                [task |-> t, attempt |-> nextAttempt'[t], backup |-> backup,
                 start |-> now, end |-> now]]
  BY DEF Ask
<1>1. /\ AssignTask(t, w, backup) /\ now' = now
  BY DEF TimedAssign
<1>2. Start(t, w, backup) /\ t \in TasksOf(OpenKind) /\ MarkReducePhase
  BY <1>1, AssignStarts DEF AssignTask
<1>3. nextAttempt'[t] \in Nat
  BY <1>2 DEF Start, RunInv, TimedInv, AttemptInv, TypeOK
<1>4. /\ now \in Nat /\ \A m \in marks : stamps[m] \in 0 .. now
      /\ stamps' = [m \in marks' |-> IF m \in marks THEN stamps[m] ELSE now]
  BY ClockStep DEF RunInv, StampsOK
<1>5. KindOf(t) = "reduce" => "reducePhaseStart" \in marks'
  BY <1>2, TaskKinds DEF MarkReducePhase, OpenKind, Kind
<1>6. job'[w] = [task |-> t, attempt |-> nextAttempt'[t], backup |-> backup,
                 start |-> now, end |-> now]
  BY DEF RunInv, JobsOK
<1>7. KindOf(t) = "reduce" => stamps'["reducePhaseStart"] <= now
  BY <1>4, <1>5
<1>8. Began(job[w].task, job[w].start, job[w].end)'
  BY <1>1, <1>4, <1>5, <1>6, <1>7 DEF Began
<1> QED
  BY <1>3, <1>4, <1>6, <1>8 DEF JobRecord, Ask, GoOn, RunInv, JobsOK

(* Nobody else starts anything; End moves when a worker has published. *)
LEMMA OthersGoOn ==
    ASSUME RunInv, [RunNext]_runVars, NEW w \in Worker, ~Ask(w)
    PROVE  /\ step'[w] \in Steps
           /\ step'[w] \in Working =>
                 /\ step[w] \in Working
                 /\ job'[w] = job[w] \/ job'[w] = [job[w] EXCEPT !.end = now]
           /\ step'[w] \notin Working => job'[w] \in {job[w], NoJob}
<1> USE DEF RunInv, JobsOK, Steps, Working, GoOn
<1>1. ASSUME NEW v \in Worker, Ask(v)
      PROVE  step'[w] = step[w] /\ job'[w] = job[w]
  <2>1. v # w
    BY <1>1
  <2> QED
    BY <1>1, <2>1 DEF Ask
<1>2. ASSUME NEW v \in Worker, AskInVain(v) \/ AskAndLeave(v)
      PROVE  /\ step'[w] = step[w] \/ step'[w] = "left"
             /\ job'[w] = job[w]
  BY <1>2 DEF AskInVain, AskAndLeave, workerVars
<1>3. ASSUME NEW v \in Worker, Report(v)
      PROVE  \/ step'[w] = step[w] /\ job'[w] = job[w]
             \/ step'[w] = "publish" /\ step[w] = "execute" /\ job'[w] = job[w]
             \/ step'[w] = "ask" /\ job'[w] = NoJob
  BY <1>3 DEF Report
<1>4. ASSUME NEW v \in Worker, Publish(v)
      PROVE  \/ step'[w] = step[w] /\ job'[w] = job[w]
             \/ /\ step'[w] = "commit" /\ step[w] = "publish"
                /\ job'[w] = [job[w] EXCEPT !.end = now]
  BY <1>4 DEF Publish
<1>5. ASSUME NEW v \in Worker, Commit(v)
      PROVE  \/ step'[w] = step[w] /\ job'[w] = job[w]
             \/ step'[w] = "ask" /\ job'[w] = NoJob
  BY <1>5 DEF Commit
<1>6. RunReapPass \/ RunTick \/ UNCHANGED runVars => step' = step /\ job' = job
  BY DEF RunReapPass, RunTick, runVars, workerVars
<1> QED
  BY <1>1, <1>2, <1>3, <1>4, <1>5, <1>6 DEF RunNext

LEMMA JobsStep ==
    ASSUME RunInv, [RunNext]_runVars
    PROVE  JobsOK'
<1>1. ASSUME NEW w \in Worker
      PROVE  /\ step'[w] \in Steps /\ job'[w] \in JobRecord \cup {NoJob}
             /\ step'[w] \in Working =>
                   /\ job'[w] \in JobRecord
                   /\ Began(job[w].task, job[w].start, job[w].end)'
  <2>1. CASE Ask(w)
    <3>1. step'[w] = "execute"
      BY <2>1, AskBegins DEF RunInv, JobsOK
    <3> QED
      BY <2>1, <3>1, AskBegins DEF Steps
  <2>2. CASE ~Ask(w)
    <3>0. now \in Nat /\ now' \in Nat /\ now <= now' /\ job[w] \in JobRecord \cup {NoJob}
      BY ClockStep DEF RunInv, JobsOK
    <3>1. step'[w] \notin Working => job'[w] \in JobRecord \cup {NoJob}
      BY <2>2, <3>0, OthersGoOn
    <3>2. ASSUME step'[w] \in Working
          PROVE  /\ job'[w] \in JobRecord
                 /\ Began(job[w].task, job[w].start, job[w].end)'
      <4>1. /\ step[w] \in Working /\ job[w] \in JobRecord
            /\ job'[w] = job[w] \/ job'[w] = [job[w] EXCEPT !.end = now]
            /\ Began(job[w].task, job[w].start, job[w].end)
        BY <2>2, <3>2, OthersGoOn DEF RunInv, JobsOK
      <4>2. PICK t \in Task, from \in Nat, to \in Nat :
               t = job[w].task /\ from = job[w].start /\ to = job[w].end
        BY <4>1 DEF JobRecord
      <4>3. from \in Nat /\ to \in Nat /\ from <= to /\ to <= now
        BY <4>1, <4>2 DEF JobRecord, Began
      <4>4. Began(t, from, to) /\ Began(t, from, now)
        BY <3>0, <4>1, <4>2, <4>3 DEF Began
      <4>5. Began(t, from, to)' /\ from <= now
        BY <4>3, <4>4, BeganStays, <3>0
      <4>6. /\ job'[w] \in JobRecord /\ job'[w].task = t /\ job'[w].start = from
            /\ job'[w].end = to \/ job'[w].end = now
        BY <3>0, <4>1, <4>2 DEF JobRecord
      <4> QED
        BY <3>0, <4>5, <4>6 DEF Began
    <3> QED
      BY <2>2, <3>1, <3>2, OthersGoOn
  <2> QED
    BY <2>1, <2>2
<1>2. /\ step' = [w \in Worker |-> step'[w]]
      /\ job' = [w \in Worker |-> job'[w]]
  BY DEF RunNext, Ask, AskInVain, AskAndLeave, Report, Publish, Commit, RunReapPass, RunTick,
         runVars, workerVars, GoOn, RunInv, JobsOK
<1>3. step' \in [Worker -> Steps] /\ job' \in [Worker -> JobRecord \cup {NoJob}]
  BY <1>1, <1>2
<1> QED
  BY <1>1, <1>3 DEF JobsOK

-----------------------------------------------------------------------------
(* The metrics.                                                            *)

(* A metric stays right: a boundary stamped later is stamped after it ended. *)
LEMMA MetricStays ==
    ASSUME RunInv, [RunNext]_runVars, NEW m \in TaskMetric, MetricOK(m)
    PROVE  MetricOK(m)'
<1>1. m.task \in Task /\ m.start \in Nat /\ m.end \in Nat
  BY DEF TaskMetric
<1>2. Began(m.task, m.start, m.end)' /\ m.end <= now
  BY <1>1, BeganStays DEF MetricOK, Began
<1>3. state'[m.task] = "Completed"
  BY <1>1, RunCases, TimedCoordStep, CoordForward DEF MetricOK, RunInv, TimedInv
<1>4. /\ now \in Nat /\ marks \subseteq marks'
      /\ stamps' = [b \in marks' |-> IF b \in marks THEN stamps[b] ELSE now]
  BY ClockStep
<1> QED
  BY <1>1, <1>2, <1>3, <1>4 DEF MetricOK

(* The metric a worker leaves is of a task of its own, and it is right. *)
LEMMA MetricAdded ==
    ASSUME RunInv, [RunNext]_runVars, NEW w \in Worker, Measured(w),
           NEW n \in Nat, n = Len(taskMetrics)
    PROVE  /\ taskMetrics' \in Seq(TaskMetric) /\ Len(taskMetrics') = n + 1
           /\ \A i \in 1 .. n : taskMetrics'[i] = taskMetrics[i]
           /\ \E m \in TaskMetric :
                 /\ m = taskMetrics'[n + 1] /\ MetricOK(m)'
                 /\ m.task = job[w].task /\ m.worker = w
                 /\ m.start = job[w].start /\ m.end = job[w].end
           /\ state[job[w].task] # "Completed"
           /\ completed'["map"] + completed'["reduce"]
                 = completed["map"] + completed["reduce"] + 1
<1>1. /\ job[w].task \in Task /\ job[w].attempt \in Nat /\ job[w].backup \in BOOLEAN
      /\ job[w].start \in Nat /\ job[w].end \in Nat
      /\ Began(job[w].task, job[w].start, job[w].end)
  BY WorkingHolds DEF Measured, RunInv, Working
<1> PICK t \in Task, from \in Nat, to \in Nat :
         t = job[w].task /\ from = job[w].start /\ to = job[w].end
  BY <1>1
<1> PICK m : m = Metric(t, AttemptOf(w), from, to)
  OBVIOUS
<1>2. /\ m \in TaskMetric /\ m.task = t /\ m.worker = w /\ m.start = from /\ m.end = to
  BY <1>1 DEF Metric, AttemptOf, TaskMetric
<1>3. taskMetrics \in Seq(TaskMetric) /\ taskMetrics' = Append(taskMetrics, m)
  BY DEF Measured, RunInv, MetricsOK
<1>4. /\ taskMetrics' \in Seq(TaskMetric) /\ Len(taskMetrics') = n + 1
      /\ \A i \in 1 .. n : taskMetrics'[i] = taskMetrics[i]
      /\ taskMetrics'[n + 1] = m
  BY <1>2, <1>3, AppendProperties
<1>5. /\ state[t] = "Committing" /\ state' = [state EXCEPT ![t] = "Completed"]
      /\ completed' = [completed EXCEPT ![KindOf(t)] = completed[KindOf(t)] + 1]
  BY DEF Measured, Confirm, HoldsClearance
<1>6. state \in [Task -> TaskState] /\ completed \in [Kind -> Nat]
  BY DEF RunInv, TimedInv, AttemptInv, TypeOK
<1>7. t \in TasksOf(KindOf(t)) /\ KindOf(t) \in Kind
  BY TaskKinds
<1>8. completed'["map"] + completed'["reduce"]
         = completed["map"] + completed["reduce"] + 1
  BY <1>5, <1>6, <1>7 DEF Kind
<1>9. MetricOK(m)'
  <2>1. Began(t, from, to) /\ to <= now
    BY <1>1 DEF Began
  <2>2. Began(t, from, to)'
    BY <2>1, BeganStays
  <2>3. /\ KindOf(t) = "map" => "mapPhaseEnd" \notin marks
        /\ KindOf(t) = "reduce" => "jobEnd" \notin marks
    BY <1>5, <1>7, MarksAreTrue DEF MarksMean, RunInv
  <2>4. stamps' = [b \in marks' |-> IF b \in marks THEN stamps[b] ELSE now]
    BY ClockStep
  <2> QED
    BY <1>2, <1>5, <1>6, <2>1, <2>2, <2>3, <2>4 DEF MetricOK
<1> QED
  BY <1>2, <1>4, <1>5, <1>8, <1>9

LEMMA MetricsOKStep ==
    ASSUME RunInv, [RunNext]_runVars
    PROVE  MetricsOK'
<1>1. /\ taskMetrics \in Seq(TaskMetric)
      /\ Len(taskMetrics) = completed["map"] + completed["reduce"]
      /\ \A i \in 1 .. Len(taskMetrics) :
            taskMetrics[i] \in TaskMetric /\ MetricOK(taskMetrics[i])
      /\ \A i, j \in 1 .. Len(taskMetrics) :
            taskMetrics[i].task = taskMetrics[j].task => i = j
  BY DEF RunInv, MetricsOK
<1>2. ASSUME NEW i \in 1 .. Len(taskMetrics), taskMetrics'[i] = taskMetrics[i]
      PROVE  MetricOK(taskMetrics[i])'
  <2> PICK m \in TaskMetric : m = taskMetrics[i]
    BY <1>1
  <2>1. MetricOK(m)
    BY <1>1
  <2>2. MetricOK(m)'
    BY <2>1, MetricStays
  <2> QED
    BY <1>2, <2>2 DEF MetricOK
<1>3. CASE UNCHANGED <<taskMetrics, completed>>
  BY <1>1, <1>2, <1>3 DEF MetricsOK
<1>4. ASSUME NEW w \in Worker, Measured(w) PROVE MetricsOK'
  <2> PICK n \in Nat : n = Len(taskMetrics)
    BY <1>1
  <2>1. /\ taskMetrics' \in Seq(TaskMetric) /\ Len(taskMetrics') = n + 1
        /\ \A i \in 1 .. n : taskMetrics'[i] = taskMetrics[i]
        /\ state[job[w].task] # "Completed"
        /\ completed'["map"] + completed'["reduce"] = n + 1
    BY <1>1, <1>4, MetricAdded
  <2> PICK m \in TaskMetric :
           m = taskMetrics'[n + 1] /\ MetricOK(m)' /\ m.task = job[w].task
    BY <1>4, MetricAdded
  <2>2. ASSUME NEW i \in 1 .. n + 1 PROVE MetricOK(taskMetrics[i])'
    <3>1. CASE i = n + 1
      BY <3>1 DEF MetricOK
    <3>2. CASE i # n + 1
      BY <1>2, <2>1, <3>2
    <3> QED
      BY <3>1, <3>2
  <2>3. ASSUME NEW i \in 1 .. n + 1, NEW j \in 1 .. n + 1,
               taskMetrics'[i].task = taskMetrics'[j].task
        PROVE  i = j
    <3>1. \A k \in 1 .. n : taskMetrics'[k].task # m.task
      BY <1>1, <2>1 DEF MetricOK
    <3> QED
      BY <1>1, <2>1, <2>3, <3>1
  <2> QED
    BY <2>1, <2>2, <2>3 DEF MetricsOK
<1> QED
  BY <1>3, <1>4, MetricsStep

LEMMA LanesStep ==
    ASSUME RunInv, [RunNext]_runVars
    PROVE  LanesOK'
<1>1. /\ \A i \in 1 .. Len(taskMetrics) :
            taskMetrics[i].end \in Nat /\ taskMetrics[i].end <= now
      /\ now \in Nat /\ Len(taskMetrics) \in Nat
  <2>1. /\ taskMetrics \in Seq(TaskMetric)
        /\ \A i \in 1 .. Len(taskMetrics) :
              taskMetrics[i] \in TaskMetric /\ MetricOK(taskMetrics[i])
    BY DEF RunInv, MetricsOK
  <2>2. now \in Nat
    BY DEF RunInv, TimedInv, ClockOK
  <2> QED
    BY <2>1, <2>2 DEF MetricOK, Began, TaskMetric
<1>2. ASSUME NEW w \in Worker, NEW v \in Worker, Measured(v), step'[w] \in Working
      PROVE  v # w
  BY <1>2 DEF Measured, Commit, GoOn, Working, RunInv, JobsOK
<1>3. ASSUME NEW w \in Worker, step'[w] \in Working,
             NEW i \in 1 .. Len(taskMetrics), taskMetrics[i].worker = w
      PROVE  taskMetrics[i].end <= job'[w].start
  <2>1. CASE Ask(w)
    BY <1>1, <2>1, AskBegins
  <2>2. CASE ~Ask(w)
    <3>1. /\ step[w] \in Working /\ job[w] \in JobRecord
          /\ job'[w] = job[w] \/ job'[w] = [job[w] EXCEPT !.end = now]
      BY <1>3, <2>2, OthersGoOn DEF RunInv, JobsOK
    <3>2. job'[w].start = job[w].start
      BY <3>1 DEF JobRecord
    <3> QED
      BY <1>3, <3>1, <3>2 DEF RunInv, LanesOK
  <2> QED
    BY <2>1, <2>2
<1>4. CASE UNCHANGED taskMetrics
  BY <1>3, <1>4 DEF RunInv, LanesOK
<1>5. ASSUME NEW v \in Worker, Measured(v) PROVE LanesOK'
  <2> PICK n \in Nat : n = Len(taskMetrics)
    BY <1>1
  <2>1. /\ Len(taskMetrics') = n + 1
        /\ \A i \in 1 .. n : taskMetrics'[i] = taskMetrics[i]
        /\ taskMetrics'[n + 1].worker = v /\ taskMetrics'[n + 1].start = job[v].start
    BY <1>5, MetricAdded
  <2>2. step[v] \in Working
    BY <1>5 DEF Measured, Working
  <2>3. ASSUME NEW w \in Worker, NEW i \in 1 .. n + 1,
               step'[w] \in Working, taskMetrics'[i].worker = w
        PROVE  taskMetrics'[i].end <= job'[w].start
    <3>1. i # n + 1
      BY <1>2, <1>5, <2>1, <2>3
    <3> QED
      BY <1>3, <2>1, <2>3, <3>1
  <2>4. ASSUME NEW i \in 1 .. n + 1, NEW j \in 1 .. n + 1, i < j,
               taskMetrics'[i].worker = taskMetrics'[j].worker
        PROVE  taskMetrics'[i].end <= taskMetrics'[j].start
    <3>1. i \in 1 .. n
      BY <2>4
    <3>2. CASE j = n + 1
      BY <2>1, <2>2, <2>4, <3>1, <3>2 DEF RunInv, LanesOK
    <3>3. CASE j # n + 1
      BY <2>1, <2>4, <3>1, <3>3 DEF RunInv, LanesOK
    <3> QED
      BY <3>2, <3>3
  <2> QED
    BY <2>1, <2>3, <2>4 DEF LanesOK
<1> QED
  BY <1>4, <1>5, MetricsStep

-----------------------------------------------------------------------------
(* The invariant holds.                                                    *)

LEMMA RunInvStep ==
    ASSUME RunInv, [RunNext]_runVars
    PROVE  RunInv'
<1>1. TimedInv'
  BY RunCases, TimedInvStep DEF RunInv
<1>2. MarksInv'
  BY RunCases, TimedCoordStep, MarksInvStep DEF RunInv
<1>3. StampsOK'
  BY <1>2, StampsStep
<1> QED
  BY <1>1, <1>2, <1>3, JobsStep, MetricsOKStep, LanesStep DEF RunInv

LEMMA RunInvInit == RunInit => RunInv
<1> SUFFICES ASSUME RunInit PROVE RunInv
  OBVIOUS
<1> USE DEF RunInit
<1>1. TimedInv
  BY TimedInvInit
<1>2. MarksInv
  <2>1. PhaseInv
    BY PhaseInvInit DEF TimedInit
  <2>2. PhaseMarks
    BY HorizonAssumption, TaskKinds DEF TimedInit, Init, PhaseMarks, Kind
  <2> QED
    BY <2>1, <2>2 DEF MarksInv
<1>3. StampsOK
  BY DEF TimedInit, Init, StampsOK
<1>4. JobsOK
  BY DEF JobsOK, Steps, Working
<1>5. taskMetrics = <<>> /\ completed["map"] + completed["reduce"] = 0
  BY DEF TimedInit, Init, Kind
<1>6. MetricsOK /\ LanesOK
  BY <1>5 DEF MetricsOK, LanesOK
<1> QED
  BY <1>1, <1>2, <1>3, <1>4, <1>6 DEF RunInv

LEMMA RunInvHolds == RunSpec => []RunInv
<1>1. RunInv /\ [RunNext]_runVars => RunInv'
  BY RunInvStep
<1> QED
  BY <1>1, RunInvInit, PTL DEF RunSpec

-----------------------------------------------------------------------------
(* The theorems about the job.                                             *)

(* The clock readings are times, one for each thing that runs (TaskInfo,   *)
(* attempt, JobTrace).                                                     *)
THEOREM TimedTypeCorrect == RunSpec => []TimedTypeOK
<1>1. RunInv => TimedTypeOK
  BY DEF RunInv, TimedInv, ClockOK, StampsOK, MetricsOK, TimedTypeOK
<1> QED
  BY <1>1, RunInvHolds, PTL

(* The trace of a finished job is sound, by the invariant. *)
LEMMA SoundWhenDone ==
    ASSUME RunInv, JobDone
    PROVE  SoundTrace(JobTrace)
<1>1. {"mapPhaseEnd", "reducePhaseStart", "jobEnd"} \subseteq marks
  BY MarksAreTrue DEF MarksMean, RunInv
<1>2. /\ JobTrace.mapPhaseEnd = stamps["mapPhaseEnd"]
      /\ JobTrace.reducePhaseStart = stamps["reducePhaseStart"]
      /\ JobTrace.end = stamps["jobEnd"] /\ JobTrace.tasks = taskMetrics
      /\ JobTrace.nMap = NMap /\ JobTrace.nReduce = NReduce
  BY DEF JobTrace
<1>3. /\ taskMetrics \in Seq(TaskMetric)
      /\ DOMAIN taskMetrics = 1 .. Len(taskMetrics)
      /\ Len(taskMetrics) = NMap + NReduce
  BY DEF RunInv, MetricsOK, JobDone, Kind, Total
<1>4. OneBarPerTask(JobTrace)
  BY <1>2, <1>3 DEF OneBarPerTask, RunInv, MetricsOK
<1>5. BarsInPhase(JobTrace)
  <2>1. /\ \A b \in marks : stamps[b] \in Nat
        /\ stamps["mapPhaseEnd"] <= stamps["reducePhaseStart"]
        /\ stamps["reducePhaseStart"] <= stamps["jobEnd"]
    BY <1>1 DEF RunInv, StampsOK
  <2>2. ASSUME NEW i \in 1 .. Len(taskMetrics), NEW m, m = taskMetrics[i]
        PROVE  /\ m.start <= m.end
               /\ IF m.task[1] = "map"
                  THEN 0 <= m.start /\ m.end <= stamps["mapPhaseEnd"]
                  ELSE stamps["reducePhaseStart"] <= m.start /\ m.end <= stamps["jobEnd"]
    <3>1. MetricOK(m) /\ m \in TaskMetric
      BY <1>3, <2>2 DEF RunInv, MetricsOK
    <3>2. /\ m.task[1] = KindOf(m.task) /\ KindOf(m.task) \in Kind
          /\ m.start \in Nat /\ m.end \in Nat
      BY <3>1, TaskKinds DEF KindOf, TaskMetric
    <3> QED
      BY <1>1, <3>1, <3>2 DEF MetricOK, Began, Kind
  <2> QED
    BY <1>1, <1>2, <1>3, <2>1, <2>2 DEF BarsInPhase
<1>6. LanesAreFree(JobTrace)
  BY <1>2, <1>3 DEF LanesAreFree, RunInv, LanesOK
<1> QED
  BY <1>4, <1>5, <1>6 DEF SoundTrace

(* For any number of workers and tasks, whatever is reaped, backed up or    *)
(* reported late: the trace of a finished job has one bar per task, in its  *)
(* phase, and no worker in two places at once (CommitTask, Coordinator.Trace). *)
THEOREM TraceIsSoundHolds == RunSpec => []TraceIsSound
<1>1. RunInv => TraceIsSound
  BY SoundWhenDone DEF TraceIsSound
<1> QED
  BY <1>1, RunInvHolds, PTL

(* What holds for open callers holds of the job that runs: nothing overstays  *)
(* a timeout, an interval and the lateness of a pass (checkTimeouts).          *)
THEOREM RunNoOverstayHolds == RunSpec => []NoOverstay
<1>1. RunInv => NoOverstay
  BY InTimeIsNoOverstay DEF RunInv
<1> QED
  BY <1>1, RunInvHolds, PTL

(* In the job that runs too, no pass drops an attempt that has not run past   *)
(* the timeout (reap).                                                        *)
THEOREM RunOnlyOverdueDroppedHolds == RunSpec => OnlyOverdueDropped
<1>1. RunInv /\ [RunNext]_runVars =>
        [\A t \in Task : \A a \in live[t] :
            a \notin live'[t] /\ state'[t] # "Completed"
                => now - started[t][a.id] > cfg.taskTimeout]_timedVars
  BY DropsAreOverdue, RunCases DEF RunInv
<1> QED
  BY <1>1, RunInvHolds, PTL DEF RunSpec, OnlyOverdueDropped

(* The log of the job that runs agrees with the coordinator's state: one       *)
(* commit per finished task, nothing reaped comes back, every backup is logged *)
(* (record, start, CommitTask, reap).                                          *)
THEOREM RunLogAgreesHolds ==
    ASSUME {"assigned", "committed"} \subseteq LoggedKinds
    PROVE  RunSpec => []LogAgrees
<1>1. RunInit => LogInv
  BY LogInvInit DEF RunInit, TimedInit
<1>2. RunInv /\ LogInv /\ [RunNext]_runVars => LogInv'
  BY RunCases, TimedCoordStep, LogInvStep
<1>3. LogInv => LogAgrees
  BY LogInvAgrees
<1> QED
  BY <1>1, <1>2, <1>3, RunInvHolds, PTL DEF RunSpec

-----------------------------------------------------------------------------
(* Stragglers.                                                             *)

(* What has been measured of the finished tasks are lengths of time. *)
LEMMA DurationsAreTimes ==
    ASSUME RunInv, NEW k
    PROVE  /\ Sample(Durations(k))
           /\ \A i \in DOMAIN Durations(k) : Durations(k)[i] >= 0
<1>1. taskMetrics \in Seq(TaskMetric) /\ DOMAIN taskMetrics = 1 .. Len(taskMetrics)
      /\ Len(taskMetrics) \in Nat
  BY DEF RunInv, MetricsOK
<1>2. ASSUME NEW i \in DOMAIN taskMetrics
      PROVE  Duration(taskMetrics[i]) \in Int /\ Duration(taskMetrics[i]) >= 0
  <2>1. PICK m \in TaskMetric : m = taskMetrics[i]
    BY <1>1
  <2>2. m.start \in Nat /\ m.end \in Nat /\ m.start <= m.end
    BY <1>1, <2>1 DEF RunInv, MetricsOK, MetricOK, Began, TaskMetric
  <2> QED
    BY <2>1, <2>2 DEF Duration
<1>3. IsFiniteSet(DOMAIN taskMetrics)
  BY <1>1, FS_Interval
<1>4. DOMAIN Durations(k) \in SUBSET DOMAIN taskMetrics
  BY DEF Durations
<1>5. IsFiniteSet(DOMAIN Durations(k))
  BY <1>3, <1>4, FS_Subset
<1>6. \A i \in DOMAIN Durations(k) : Durations(k)[i] = Duration(taskMetrics[i])
  BY DEF Durations
<1> QED
  BY <1>2, <1>4, <1>5, <1>6 DEF Sample

(* The upper median of a sample: more than half of it is no greater. *)
LEMMA UpperMedianSplits ==
    ASSUME NEW s, Sample(s), Count(s) > 0, NEW x, x = UpperMedian(s)
    PROVE  x \in Range(s) /\ x \in Int /\ 2 * Cardinality(UpTo(s, x)) > Count(s)
<1> PICK n \in Nat : n = Count(s)
  BY CountsType
<1>1. n \div 2 + 1 \in 1 .. n /\ 2 * (n \div 2 + 1) > n
  OBVIOUS
<1>2. x \in Int /\ IsNth(x, s, n \div 2 + 1)
  BY <1>1, SortedAt DEF UpperMedian
<1> QED
  BY <1>1, <1>2, CountsType DEF IsNth

(* The one running attempt of a straggler has been running for some time. *)
LEMMA ElapsedType ==
    ASSUME TimedInv, NEW t \in Task, state[t] = "InProgress"
    PROVE  Elapsed(t) \in Int
<1>1. live[t] # {}
  BY DEF TimedInv, AttemptInv, LiveMatchesState
<1>2. PICK a \in live[t] : a = CHOOSE b \in live[t] : TRUE
  BY <1>1
<1>3. a.id \in Ids(t)
  BY DEF Ids
<1>4. started[t][a.id] \in 0 .. now /\ now \in Nat
  BY <1>3 DEF TimedInv, ClockOK
<1> QED
  BY <1>2, <1>4 DEF Elapsed

(* A backup is only ever handed out for a straggler. *)
LEMMA BackupIsStraggler ==
    ASSUME RunInv, [RunNext]_runVars, NEW t \in Task,
           backupsLaunched' > backupsLaunched, nextAttempt'[t] > nextAttempt[t]
    PROVE  \E w \in Worker : t \in Straggler(OpenKind, w)
<1>1. backupsLaunched \in Nat /\ nextAttempt \in [Task -> Nat]
  BY DEF RunInv, TimedInv, AttemptInv, TypeOK
<1>2. ASSUME NEW w \in Worker, Ask(w) PROVE t \in Straggler(OpenKind, w)
  <2>1. PICK u \in Task, backup \in BOOLEAN : TimedAssign(u, w, backup)
    BY <1>2 DEF Ask
  <2>2. /\ Start(u, w, backup) /\ backup
    BY <1>1, <2>1, AssignStarts DEF TimedAssign
  <2>3. t = u
    BY <1>1, <2>2 DEF Start
  <2> QED
    BY <2>1, <2>2, <2>3 DEF TimedAssign
<1>3. ASSUME NEW w \in Worker, AskInVain(w) \/ AskAndLeave(w)
      PROVE  backupsLaunched' = backupsLaunched
  BY <1>3 DEF AskInVain, AskAndLeave, TimedWait, TellWait, TimedExit, TellExit, timedVars, vars
<1>4. ASSUME NEW w \in Worker, Report(w) PROVE backupsLaunched' = backupsLaunched
  BY <1>4 DEF Report, TimedReport, ReportTask, Clear, ClearAgain, Refuse, vars
<1>5. ASSUME NEW w \in Worker, Publish(w) PROVE backupsLaunched' = backupsLaunched
  BY <1>5 DEF Publish, timedVars, vars
<1>6. ASSUME NEW w \in Worker, Commit(w) PROVE backupsLaunched' = backupsLaunched
  BY <1>6 DEF Commit, TimedCommit, CommitTask, Confirm, vars
<1>7. RunReapPass => backupsLaunched' = backupsLaunched
  BY DEF RunReapPass, ReapPass, CheckTimeouts, Reap
<1>8. RunTick \/ UNCHANGED runVars => backupsLaunched' = backupsLaunched
  BY DEF RunTick, Tick, runVars, timedVars, vars
<1> QED
  BY <1>1, <1>2, <1>3, <1>4, <1>5, <1>6, <1>7, <1>8 DEF RunNext

(* A straggler has been running longer than most finished tasks of its phase *)
(* took: the cutoff is no lower than their upper median.                     *)
LEMMA StragglersLag ==
    ASSUME RunInv, NEW t \in Task, NEW w \in Worker, t \in Straggler(OpenKind, w),
           cfg.thresholdPct >= 100
    PROVE  LET ds == Durations(KindOf(t))
               faster == {i \in DOMAIN ds : ds[i] < Elapsed(t)}
           IN 2 * Cardinality(faster) > Count(ds)
<1> DEFINE ds == Durations(KindOf(t))
           faster == {i \in DOMAIN ds : ds[i] < Elapsed(t)}
           x == UpperMedian(ds)
<1>1. t \in PastCutoff(OpenKind, w) /\ t \in Stragglers(OpenKind, w)
  BY DEF Straggler, PastCutoff
<1>2. KindOf(t) = OpenKind /\ state[t] = "InProgress"
  BY <1>1, TaskKinds DEF Stragglers, OpenKind, Kind
<1>3. Count(ds) >= cfg.minSamples /\ Elapsed(t) > (x * cfg.thresholdPct) \div 100
  BY <1>1, <1>2 DEF PastCutoff, EnoughSamples, Cutoff
<1>4. Sample(ds) /\ \A i \in DOMAIN ds : ds[i] >= 0
  BY DurationsAreTimes
<1>5. Elapsed(t) \in Int
  BY <1>2, ElapsedType DEF RunInv
<1> HIDE DEF ds
<1>6. Count(ds) \in Nat /\ Count(ds) > 0
  BY <1>3, <1>4, CountsType, ConfigAssumption, SpeculationAssumption
<1>7. x \in Int /\ x \in Range(ds) /\ 2 * Cardinality(UpTo(ds, x)) > Count(ds)
  BY <1>4, <1>6, UpperMedianSplits
<1>8. x >= 0
  BY <1>4, <1>7 DEF Range
<1> HIDE DEF x
<1>9. (x * cfg.thresholdPct) \div 100 >= x
  <2>1. PICK p \in Int : p = cfg.thresholdPct /\ p >= 100
    BY ConfigAssumption
  <2>2. PICK y \in Int : y = x * p
    BY <1>7, <2>1
  <2>3. y >= 100 * x
    BY <1>7, <1>8, <2>1, <2>2
  <2>4. y \div 100 >= x
    BY <1>7, <2>3
  <2> QED
    BY <2>1, <2>2, <2>4
<1>10. UpTo(ds, x) \in SUBSET faster
  <2>1. (x * cfg.thresholdPct) \div 100 \in Int
    BY <1>7, ConfigAssumption
  <2> QED
    BY <1>3, <1>4, <1>5, <1>7, <1>9, <2>1 DEF UpTo, Sample, x
<1>11. faster \in SUBSET DOMAIN ds /\ IsFiniteSet(DOMAIN ds)
  BY <1>4 DEF Sample
<1>12. IsFiniteSet(faster) /\ Cardinality(faster) \in Nat
       /\ Cardinality(UpTo(ds, x)) \in Nat
       /\ Cardinality(UpTo(ds, x)) <= Cardinality(faster)
  <2> HIDE DEF faster
  <2> QED
    BY <1>4, <1>10, <1>11, FS_Subset, FS_CardinalityType, CountsType
<1>13. 2 * Cardinality(faster) > Count(ds)
  BY <1>6, <1>7, <1>12
<1> QED
  BY <1>13 DEF ds

(* For any number of workers and tasks and any timing: a backup goes to a     *)
(* task that has been running longer than most of the finished tasks of its   *)
(* phase took, when the threshold is at least one (straggler,                 *)
(* stragglerCutoff).                                                          *)
THEOREM BackupsAreForLaggardsHolds == RunSpec => BackupsAreForLaggards
<1>1. RunInv /\ [RunNext]_runVars =>
        [\A t \in Task :
          backupsLaunched' > backupsLaunched /\ nextAttempt'[t] > nextAttempt[t] =>
              LET ds == Durations(KindOf(t))
                  faster == {i \in DOMAIN ds : ds[i] < Elapsed(t)}
              IN cfg.thresholdPct >= 100 => 2 * Cardinality(faster) > Count(ds)]_timedVars
  BY BackupIsStraggler, StragglersLag
<1> QED
  BY <1>1, RunInvHolds, PTL DEF RunSpec, BackupsAreForLaggards

-----------------------------------------------------------------------------
(* The replay.                                                             *)

(* The workers that were ever handed an attempt, by the log. *)
Served == {e.worker : e \in {f \in events : f.kind = "assigned"}}

(* Nobody else runs, works, is named in the log or finished a task. *)
OnlyServed ==
    /\ Served \subseteq Worker
    /\ \A e \in events : e.worker \in Served \cup {NoWorker}
    /\ \A t \in Task : \A a \in live[t] : a.worker \in Served
    /\ \A w \in Worker : step[w] \in Working => w \in Served
    /\ \A i \in 1 .. Len(taskMetrics) : taskMetrics[i].worker \in Served

(* Who asks and gets a task is served. *)
LEMMA AskServes ==
    ASSUME "assigned" \in LoggedKinds, RunInv, NEW w \in Worker, Ask(w)
    PROVE  /\ events \subseteq events' /\ w \in Served'
           /\ \A e \in events' \ events : e.worker = w
           /\ \A t \in Task : \A a \in live'[t] : a \in live[t] \/ a.worker = w
<1> PICK t \in Task, backup \in BOOLEAN : TimedAssign(t, w, backup)
  BY DEF Ask
<1> PICK e : e = TaskEvent("assigned", t, nextAttempt[t] + 1, w, backup)
  OBVIOUS
<1>1. e.kind = "assigned" /\ e.worker = w
  BY DEF TaskEvent
<1>2. Start(t, w, backup)
  BY AssignStarts DEF TimedAssign
<1>3. events' = events \cup {e}
  BY <1>1, <1>2 DEF Start, Record
<1>4. w \in Served'
  BY <1>1, <1>3 DEF Served
<1>5. live \in [Task -> SUBSET Attempt]
  BY DEF RunInv, TimedInv, AttemptInv, TypeOK
<1>6. \A u \in Task : \A a \in live'[u] : a \in live[u] \/ a.worker = w
  BY <1>2, <1>5 DEF Start
<1> QED
  BY <1>1, <1>3, <1>4, <1>6

(* A pass names those it drops, or nobody. *)
LEMMA ReapNames ==
    ASSUME RunInv, ReapPass
    PROVE  /\ \A e \in events' \ events :
                 \/ e.worker = NoWorker
                 \/ \E t \in Task : \E a \in live[t] : e.worker = a.worker
           /\ \A t \in Task : live'[t] \subseteq live[t]
<1>1. Reap(Overdue)
  BY DEF ReapPass, CheckTimeouts
<1>2. \A e \in events' \ events : e \in ReapEvents(Overdue)
  BY <1>1 DEF Reap, Record
<1>3. ASSUME NEW e \in ReapEvents(Overdue)
      PROVE  \/ e.worker = NoWorker
             \/ \E t \in Task : \E a \in live[t] : e.worker = a.worker
  BY DEF ReapEvents, TaskEvent
<1>4. ASSUME NEW t \in Task PROVE live'[t] \subseteq live[t]
  BY <1>1 DEF Reap, Survivors
<1> QED
  BY <1>2, <1>3, <1>4

(* In the other steps only a worker that has a task is named. *)
LEMMA OthersName ==
    ASSUME RunInv, [RunNext]_runVars, ~ReapPass, \A w \in Worker : ~Ask(w)
    PROVE  /\ \A e \in events' \ events : \E w \in Worker : step[w] \in Working /\ e.worker = w
           /\ \A t \in Task : live'[t] \subseteq live[t]
<1>1. live \in [Task -> SUBSET Attempt]
  BY DEF RunInv, TimedInv, AttemptInv, TypeOK
<1>2. ASSUME NEW w \in Worker, AskInVain(w) \/ AskAndLeave(w)
      PROVE  UNCHANGED <<events, live>>
  BY <1>2 DEF AskInVain, AskAndLeave, TimedWait, TellWait, TimedExit, TellExit, timedVars, vars
<1>3. ASSUME NEW w \in Worker, Report(w)
      PROVE  /\ step[w] \in Working /\ live' = live
             /\ \A e \in events' \ events : e.worker = w
  BY <1>3 DEF Report, Working, TimedReport, ReportTask, Clear, ClearAgain, Refuse, Record,
              TaskEvent, vars
<1>4. ASSUME NEW w \in Worker, Publish(w) PROVE UNCHANGED <<events, live>>
  BY <1>4 DEF Publish, timedVars, vars
<1>5. ASSUME NEW w \in Worker, Commit(w)
      PROVE  /\ step[w] \in Working /\ \A t \in Task : live'[t] \subseteq live[t]
             /\ \A e \in events' \ events : e.worker = w
  <2>1. \A t, a, from, to : TimedCommit(t, a, from, to) => CommitTask(t, a.id, a.worker, a.backup)
    BY DEF TimedCommit
  <2>2. step[w] \in Working /\ AttemptOf(w).worker = w
    BY <1>5 DEF Commit, Working, AttemptOf
  <2>3. PICK id, backup : CommitTask(job[w].task, id, w, backup)
    BY <1>5, <2>1, <2>2 DEF Commit
  <2> QED
    BY <1>1, <2>2, <2>3 DEF CommitTask, Confirm, Record, TaskEvent, vars
<1>6. RunTick \/ UNCHANGED runVars => UNCHANGED <<events, live>>
  BY DEF RunTick, Tick, runVars, timedVars, vars
<1> QED
  BY <1>1, <1>2, <1>3, <1>4, <1>5, <1>6 DEF RunNext, RunReapPass

LEMMA OnlyServedStep ==
    ASSUME "assigned" \in LoggedKinds, RunInv, OnlyServed, [RunNext]_runVars
    PROVE  OnlyServed'
<1>1. events \subseteq events' /\ Served \subseteq Served'
  <2>1. events \subseteq events'
    BY RunCases, TimedCoordStep, EventsGrow DEF RunInv, TimedInv
  <2> QED
    BY <2>1 DEF Served
<1>2. ASSUME NEW w \in Worker, Ask(w) PROVE w \in Served'
  BY <1>2, AskServes
<1>3. ASSUME NEW w \in Worker, step[w] \in Working PROVE w \in Served'
  BY <1>1, <1>3 DEF OnlyServed
<1>4. ASSUME NEW e \in events' PROVE e.worker \in Served' \cup {NoWorker}
  <2>1. CASE e \in events
    BY <1>1, <2>1 DEF OnlyServed
  <2>2. CASE e \notin events
    <3>1. ASSUME NEW w \in Worker, Ask(w) PROVE e.worker = w
      BY <2>2, <3>1, AskServes
    <3>2. ReapPass => \/ e.worker = NoWorker
                      \/ \E t \in Task : \E a \in live[t] : e.worker = a.worker
      BY <2>2, ReapNames
    <3>3. ~ReapPass /\ (\A w \in Worker : ~Ask(w)) =>
             \E w \in Worker : step[w] \in Working /\ e.worker = w
      BY <2>2, OthersName
    <3> QED
      BY <1>1, <1>2, <1>3, <3>1, <3>2, <3>3 DEF OnlyServed
  <2> QED
    BY <2>1, <2>2
<1>5. ASSUME NEW t \in Task, NEW a \in live'[t] PROVE a.worker \in Served'
  <2>1. ASSUME NEW w \in Worker, Ask(w) PROVE a \in live[t] \/ a.worker = w
    BY <2>1, AskServes
  <2>2. (\A w \in Worker : ~Ask(w)) => a \in live[t]
    BY ReapNames, OthersName
  <2> QED
    BY <1>1, <1>2, <2>1, <2>2 DEF OnlyServed
<1>6. ASSUME NEW w \in Worker, step'[w] \in Working PROVE w \in Served'
  BY <1>2, <1>3, <1>6, OthersGoOn
<1>7. ASSUME NEW i \in 1 .. Len(taskMetrics') PROVE taskMetrics'[i].worker \in Served'
  <2> PICK n \in Nat : n = Len(taskMetrics)
    BY DEF RunInv, MetricsOK
  <2>1. ASSUME NEW w \in Worker, Measured(w) PROVE taskMetrics'[i].worker \in Served'
    <3>1. /\ Len(taskMetrics') = n + 1 /\ taskMetrics'[n + 1].worker = w
          /\ \A j \in 1 .. n : taskMetrics'[j] = taskMetrics[j]
      BY <2>1, MetricAdded
    <3>2. step[w] \in Working
      BY <2>1 DEF Measured, Working
    <3>3. CASE i = n + 1
      BY <1>3, <3>1, <3>2, <3>3
    <3>4. CASE i # n + 1
      BY <1>1, <3>1, <3>4 DEF OnlyServed
    <3> QED
      BY <3>3, <3>4
  <2>2. UNCHANGED taskMetrics => taskMetrics'[i].worker \in Served'
    BY <1>1 DEF OnlyServed
  <2> QED
    BY <2>1, <2>2, MetricsStep
<1>8. Served' \subseteq Worker
  <2>1. ASSUME NEW e \in events', e.kind = "assigned" PROVE e.worker \in Worker
    <3>1. e \in events => e.worker \in Worker
      BY <2>1 DEF OnlyServed, Served
    <3>2. e \notin events => e.worker \in Worker
      BY <2>1, RunCases, TimedCoordStep, EventsGrow DEF RunInv, TimedInv, Noted
    <3> QED
      BY <3>1, <3>2
  <2> QED
    BY <2>1 DEF Served
<1> QED
  BY <1>4, <1>5, <1>6, <1>7, <1>8 DEF OnlyServed

LEMMA OnlyServedInit == RunInit => OnlyServed
BY DEF RunInit, TimedInit, Init, OnlyServed, Served, Working

(* The bars of a replay are the metrics, by start; those of one worker in the *)
(* order it ran them.                                                         *)
LEMMA BarsInOrder ==
    ASSUME RunInv
    PROVE  LET bars == Bars(JobTrace)
           IN /\ Range(bars) = Range(taskMetrics)
              /\ \A i, j \in DOMAIN bars :
                    i < j => /\ bars[i].start <= bars[j].start
                             /\ bars[i].worker = bars[j].worker => bars[i].end <= bars[j].start
<1> PICK n \in Nat : n = Len(taskMetrics)
  BY DEF RunInv, MetricsOK
<1> DEFINE keys == Starts(taskMetrics)  order == StableOrder(keys)
<1>1. DOMAIN taskMetrics = 1 .. n /\ taskMetrics \in Seq(TaskMetric)
  BY DEF RunInv, MetricsOK
<1>2. ASSUME NEW i \in 1 .. n
      PROVE  /\ taskMetrics[i].start \in Nat /\ taskMetrics[i].end \in Nat
             /\ taskMetrics[i].start <= taskMetrics[i].end
  <2>1. taskMetrics[i] \in TaskMetric /\ MetricOK(taskMetrics[i])
    BY <1>1 DEF RunInv, MetricsOK
  <2> QED
    BY <2>1 DEF TaskMetric, MetricOK, Began
<1>3. Keys(keys, n) /\ \A i \in 1 .. n : keys[i] = taskMetrics[i].start
  BY <1>1, <1>2 DEF Keys, Starts
<1>4. DOMAIN order = 1 .. n
  BY <1>1 DEF StableOrder, Starts
<1>5. Bars(JobTrace) = [k \in 1 .. n |-> taskMetrics[order[k]]]
  BY <1>4 DEF Bars, JobTrace
<1> HIDE DEF keys
<1>6. Range(Bars(JobTrace)) = Range(taskMetrics)
  <2>1. \A k \in 1 .. n : order[k] \in 1 .. n
    BY <1>3, OrderAt
  <2>2. \A i \in 1 .. n : \E k \in 1 .. n : order[k] = i
    BY <1>3, OrderHas
  <2> PICK bars : bars = Bars(JobTrace)
    OBVIOUS
  <2>3. Range(bars) \subseteq Range(taskMetrics)
    BY <1>1, <1>5, <2>1 DEF Range
  <2>4. ASSUME NEW m \in Range(taskMetrics) PROVE m \in Range(bars)
    <3> PICK i \in 1 .. n : m = taskMetrics[i]
      BY <1>1 DEF Range
    <3> PICK k \in 1 .. n : order[k] = i
      BY <2>2
    <3> QED
      BY <1>5 DEF Range
  <2> QED
    BY <2>3, <2>4
<1>7. ASSUME NEW k \in 1 .. n, NEW l \in 1 .. n, k < l
      PROVE  /\ taskMetrics[order[k]].start <= taskMetrics[order[l]].start
             /\ taskMetrics[order[k]].worker = taskMetrics[order[l]].worker
                   => taskMetrics[order[k]].end <= taskMetrics[order[l]].start
  <2> PICK i, j : i = order[k] /\ j = order[l]
    OBVIOUS
  <2>1. /\ i \in 1 .. n /\ j \in 1 .. n
        /\ keys[i] < keys[j] \/ (keys[i] = keys[j] /\ i < j)
    BY <1>3, <1>7, OrderAscends
  <2>2. /\ taskMetrics[i].start <= taskMetrics[j].start
        /\ taskMetrics[i].start = taskMetrics[j].start => i < j
    BY <1>2, <1>3, <2>1
  <2>3. ASSUME taskMetrics[i].worker = taskMetrics[j].worker
        PROVE  taskMetrics[i].end <= taskMetrics[j].start
    <3>0. \A p, q \in 1 .. n :
             p < q /\ taskMetrics[p].worker = taskMetrics[q].worker
                 => taskMetrics[p].end <= taskMetrics[q].start
      BY DEF RunInv, LanesOK
    <3>1. CASE i < j
      BY <2>1, <2>3, <3>0, <3>1
    <3>2. CASE j < i
      <4>1. taskMetrics[j].end <= taskMetrics[i].start
        BY <2>1, <2>3, <3>0, <3>2
      <4>2. taskMetrics[i].start <= taskMetrics[j].start /\ taskMetrics[i].start # taskMetrics[j].start
        BY <2>1, <2>2, <3>2
      <4>3. taskMetrics[j].start <= taskMetrics[j].end
        BY <1>2, <2>1
      <4>4. /\ taskMetrics[i].start \in Nat /\ taskMetrics[j].start \in Nat
            /\ taskMetrics[j].end \in Nat
        BY <1>2, <2>1
      <4> QED
        BY <4>1, <4>2, <4>3, <4>4
    <3>3. i # j
      <4>1. keys[i] \in Int
        BY <1>3, <2>1 DEF Keys
      <4> QED
        BY <2>1, <4>1
    <3> QED
      BY <2>1, <3>1, <3>2, <3>3
  <2> QED
    BY <2>2, <2>3
<1> QED
  BY <1>5, <1>6, <1>7

(* The lanes of a replay are exactly the workers that were handed an attempt, *)
(* and its bars are the finished tasks in the order they were run, whatever   *)
(* was lost, reaped or backed up (Build and timelineOf).                      *)
THEOREM ReplayIsFaithfulHolds ==
    ASSUME "assigned" \in LoggedKinds
    PROVE  RunSpec => []ReplayIsFaithful
<1>1. RunInv /\ OnlyServed /\ [RunNext]_runVars => OnlyServed'
  BY OnlyServedStep
<1>2. RunInv /\ OnlyServed => ReplayIsFaithful
  <2> SUFFICES ASSUME RunInv, OnlyServed PROVE ReplayIsFaithful
    OBVIOUS
  <2>1. Lanes(JobTrace, events, NoWorker) = Served
    <3>1. Finishers(JobTrace) \subseteq Served
      BY DEF Finishers, JobTrace, OnlyServed, RunInv, MetricsOK
    <3>2. {e.worker : e \in events} \ {NoWorker} \subseteq Served
      BY DEF OnlyServed
    <3>3. Served \subseteq {e.worker : e \in events} \ {NoWorker}
      BY WorkerAssumption DEF OnlyServed, Served
    <3> QED
      BY <3>1, <3>2, <3>3 DEF Lanes
  <2> QED
    BY <2>1, BarsInOrder DEF ReplayIsFaithful, Served
<1> QED
  BY <1>1, <1>2, OnlyServedInit, RunInvHolds, PTL DEF RunSpec

-----------------------------------------------------------------------------
(* Reports of a job.                                                       *)

LEMMA FewFinishers ==
    ASSUME NEW tr, IsFiniteSet(DOMAIN tr.tasks)
    PROVE  IsFiniteSet(Finishers(tr)) /\ Cardinality(Finishers(tr)) \in Nat
<1> DEFINE I == DOMAIN tr.tasks  f == [i \in I |-> tr.tasks[i].worker]
<1>1. Finishers(tr) = {f[i] : i \in I}
  BY DEF Finishers
<1>2. IsFiniteSet(I)
  OBVIOUS
<1> HIDE DEF I, f
<1> QED
  BY <1>1, <1>2, Images, FS_CardinalityType

(* Every task is credited to the worker that finished it. *)
LEMMA EachCredited ==
    ASSUME NEW tr, IsFiniteSet(DOMAIN tr.tasks), NEW u, u = Utilization(tr)
    PROVE  SumUp([w \in DOMAIN u |-> u[w].tasks]) = Cardinality(DOMAIN tr.tasks)
<1> DEFINE I == DOMAIN tr.tasks  W == Finishers(tr)
           part == [i \in I |-> tr.tasks[i].worker]
           f == [w \in W |-> Cardinality({i \in I : part[i] = w})]
<1>1. DOMAIN u = W /\ \A w \in W : u[w].tasks = f[w]
  <2>1. \A w \in W : TasksBy(tr, w) = {i \in I : part[i] = w}
    BY DEF TasksBy
  <2> QED
    BY <2>1 DEF Utilization
<1>2. DOMAIN f = W /\ \A i \in I : part[i] \in W
  BY DEF Finishers
<1>3. \A w \in DOMAIN f : f[w] = Cardinality({i \in I : part[i] = w})
  OBVIOUS
<1>4. [w \in DOMAIN u |-> u[w].tasks] = f
  BY <1>1
<1>5. IsFiniteSet(I) /\ IsFiniteSet(W)
  BY FewFinishers
<1> HIDE DEF I, W, part, f
<1>6. SumFunction(f) = Cardinality(I)
  BY <1>2, <1>3, <1>5, SumOfParts
<1> QED
  BY <1>4, <1>6 DEF SumUp, I

(* Shares of any sound trace whose times are whole and not negative. *)
LEMMA SharesFit ==
    ASSUME NEW tr, NEW n \in Nat, DOMAIN tr.tasks = 1 .. n, LanesAreFree(tr), tr.end \in Nat,
           \A i \in 1 .. n : /\ tr.tasks[i].start \in Nat /\ tr.tasks[i].end \in Nat
                             /\ tr.tasks[i].start <= tr.tasks[i].end
                             /\ tr.tasks[i].end <= tr.end,
           NEW u, u = Utilization(tr)
    PROVE  /\ \A w \in DOMAIN u : u[w].share <= 1000
           /\ SumUp([w \in DOMAIN u |-> u[w].tasks]) = n
           /\ MeanBusyShare(tr) <= 1000
<1> PICK I : I = 1 .. n
  OBVIOUS
<1> PICK W : W = Finishers(tr)
  OBVIOUS
<1>1. IsFiniteSet(I) /\ Cardinality(I) = n
  BY Numbered
<1>2. W = {tr.tasks[i].worker : i \in I}
  BY DEF Finishers
<1>3. IsFiniteSet(W) /\ Cardinality(W) \in Nat
  BY <1>1, FewFinishers
<1>4. ASSUME NEW J \in SUBSET I, NEW V, IsFiniteSet(V), \A i \in J : tr.tasks[i].worker \in V
      PROVE  SumUp(Lengths(tr, J)) \in Nat /\ SumUp(Lengths(tr, J)) <= tr.end * Cardinality(V)
  <2>1. IsFiniteSet(J)
    BY <1>1, FS_Subset
  <2>2. \A i, j \in J : i # j /\ tr.tasks[i].worker = tr.tasks[j].worker
            => tr.tasks[i].end <= tr.tasks[j].start \/ tr.tasks[j].end <= tr.tasks[i].start
    BY DEF LanesAreFree
  <2> PICK tasks : tasks = tr.tasks
    OBVIOUS
  <2> PICK f : f = [i \in J |-> Duration(tasks[i])]
    OBVIOUS
  <2>3. SumFunction(f) \in Nat /\ SumFunction(f) <= tr.end * Cardinality(V)
    BY <1>4, <2>1, <2>2, TimeFits
  <2> QED
    BY <2>3 DEF SumUp, Lengths
<1>5. ASSUME NEW part \in Nat, NEW whole \in Nat, part <= whole
      PROVE  Share(part, whole) <= 1000
  BY <1>5, ShareFits DEF Share
<1>6. ASSUME NEW w \in W PROVE Utilization(tr)[w].share <= 1000
  <2>1. Busy(tr, w) \in Nat /\ Busy(tr, w) <= tr.end * Cardinality({w})
    <3>1. TasksBy(tr, w) \in SUBSET I /\ \A i \in TasksBy(tr, w) : tr.tasks[i].worker \in {w}
      BY DEF TasksBy
    <3> QED
      BY <1>4, <3>1, FS_Singleton DEF Busy
  <2>2. Busy(tr, w) <= tr.end
    <3>1. Cardinality({w}) = 1
      BY FS_Singleton, Zenon
    <3>2. Busy(tr, w) <= tr.end * 1
      BY <2>1, <3>1, Zenon
    <3> QED
      BY <3>2
  <2>3. Utilization(tr)[w].share = Share(Busy(tr, w), tr.end)
    BY DEF Utilization
  <2> QED
    BY <1>5, <2>1, <2>2, <2>3
<1>7. MeanBusyShare(tr) <= 1000
  <2>1. AllBusy(tr) \in Nat /\ AllBusy(tr) <= tr.end * Cardinality(W)
    BY <1>2, <1>3, <1>4 DEF AllBusy
  <2> PICK whole \in Nat : whole = tr.end * Cardinality(W)
    BY <1>3
  <2> QED
    BY <1>5, <2>1 DEF MeanBusyShare
<1>8. DOMAIN u = W /\ SumUp([w \in DOMAIN u |-> u[w].tasks]) = n
  BY <1>1, EachCredited DEF Utilization
<1> QED
  BY <1>6, <1>7, <1>8

LEMMA TypedWhenDone ==
    ASSUME RunInv, JobDone
    PROVE  TraceType(JobTrace)
<1>1. {"mapPhaseEnd", "reducePhaseStart", "jobEnd"} \subseteq marks
  BY MarksAreTrue DEF MarksMean, RunInv
<1>2. \A b \in marks : stamps[b] \in Nat
  BY DEF RunInv, StampsOK
<1>3. {JobTrace.mapPhaseEnd, JobTrace.reducePhaseStart, JobTrace.end} \subseteq Nat
  BY <1>1, <1>2 DEF JobTrace
<1>4. JobTrace.tasks = taskMetrics
  BY DEF JobTrace
<1>5. taskMetrics \in Seq(TaskMetric)
  BY DEF RunInv, MetricsOK
<1>6. taskMetrics \in Seq(Range(taskMetrics))
  <2>1. PICK n \in Nat : n = Len(taskMetrics)
    BY <1>5
  <2>2. \A i \in 1 .. n : taskMetrics[i] \in Range(taskMetrics)
    BY <1>5, <2>1 DEF Range
  <2>3. taskMetrics = [i \in 1 .. n |-> taskMetrics[i]]
    BY <1>5, <2>1
  <2> QED
    BY <2>2, <2>3
<1>7. \A i \in DOMAIN taskMetrics : {taskMetrics[i].start, taskMetrics[i].end} \subseteq Nat
  <2> SUFFICES ASSUME NEW i \in DOMAIN taskMetrics
               PROVE  taskMetrics[i].start \in Nat /\ taskMetrics[i].end \in Nat
    OBVIOUS
  <2>1. taskMetrics[i] \in TaskMetric
    BY <1>5
  <2> QED
    BY <2>1 DEF TaskMetric
<1> QED
  BY <1>3, <1>4, <1>6, <1>7 DEF TraceType

(* The trace of a finished job is what the reports of a benchmark and the      *)
(* replay are proved for: what module Measure assumes of the traces it is      *)
(* given is no assumption about the job (Coordinator.Trace, summarizeTrial).   *)
THEOREM TraceIsAsAssumed == RunSpec => [](JobDone => TraceType(JobTrace) /\ SoundTrace(JobTrace))
<1>1. RunInv => (JobDone => TraceType(JobTrace) /\ SoundTrace(JobTrace))
  BY TypedWhenDone, SoundWhenDone
<1> QED
  BY <1>1, RunInvHolds, PTL

(* The figures of a report add up for any job: its phases are its wall clock, *)
(* no worker was busy for longer than there was time, and every task is       *)
(* credited once (workerUtilization, summarizeTrial).                         *)
THEOREM ReportAddsUpHolds == RunSpec => []ReportAddsUp
<1>1. RunInv => ReportAddsUp
  <2> SUFFICES ASSUME RunInv, JobDone PROVE ReportAddsUp
    BY DEF ReportAddsUp
  <2> DEFINE tr == JobTrace  u == Utilization(tr)  p == Phases(tr)
  <2> PICK n \in Nat : n = NMap + NReduce
    BY CountsAssumption
  <2>1. SoundTrace(tr)
    BY SoundWhenDone
  <2>2. {"mapPhaseEnd", "reducePhaseStart", "jobEnd"} \subseteq marks
    BY MarksAreTrue DEF MarksMean, RunInv
  <2>3. /\ tr.mapPhaseEnd \in Nat /\ tr.reducePhaseStart \in Nat /\ tr.end \in Nat
        /\ tr.tasks = taskMetrics
    <3>1. \A b \in marks : stamps[b] \in Nat
      BY DEF RunInv, StampsOK
    <3> QED
      BY <2>2, <3>1 DEF JobTrace
  <2>4. DOMAIN tr.tasks = 1 .. n /\ taskMetrics \in Seq(TaskMetric)
    BY <2>3 DEF RunInv, MetricsOK, JobDone, Kind, Total
  <2>5. tr.mapPhaseEnd <= tr.reducePhaseStart /\ tr.reducePhaseStart <= tr.end
    BY <2>1 DEF SoundTrace, BarsInPhase
  <2>6. ASSUME NEW i \in 1 .. n
        PROVE  /\ tr.tasks[i].start \in Nat /\ tr.tasks[i].end \in Nat
               /\ tr.tasks[i].start <= tr.tasks[i].end /\ tr.tasks[i].end <= tr.end
    <3>1. tr.tasks[i] \in TaskMetric
      BY <2>3, <2>4
    <3>2. /\ tr.tasks[i].start <= tr.tasks[i].end
          /\ tr.tasks[i].end <= tr.mapPhaseEnd \/ tr.tasks[i].end <= tr.end
      BY <2>1, <2>4 DEF SoundTrace, BarsInPhase
    <3>3. tr.tasks[i].start \in Nat /\ tr.tasks[i].end \in Nat
      BY <3>1 DEF TaskMetric
    <3> QED
      BY <2>3, <2>5, <3>2, <3>3
  <2>7. /\ p.map + p.stall + p.reduce = p.wall
        /\ p.map >= 0 /\ p.stall >= 0 /\ p.reduce >= 0
    BY <2>3, <2>5 DEF Phases
  <2>8. u = Utilization(tr)
    OBVIOUS
  <2> HIDE DEF tr, u, p
  <2>9. /\ \A w \in DOMAIN u : u[w].share <= 1000
        /\ SumUp([w \in DOMAIN u |-> u[w].tasks]) = n
        /\ MeanBusyShare(tr) <= 1000
    BY <2>1, <2>3, <2>4, <2>6, <2>8, SharesFit DEF SoundTrace
  <2> QED
    BY <2>7, <2>9 DEF ReportAddsUp, tr, u, p
<1> QED
  BY <1>1, RunInvHolds, PTL

-----------------------------------------------------------------------------
(* Snapshots of the coordinator, whatever its callers and timing.          *)

(* The label as a counter says it. *)
LEMMA PhaseCases ==
    /\ Phase = "done" <=> JobDone
    /\ Phase = "reduce" <=> ~JobDone /\ completed["map"] = NMap
    /\ Phase = "map" <=> completed["map"] # NMap
BY DEF Phase, JobDone, Kind, Total

(* A task that is finished or not begun has no attempt in flight. *)
LEMMA NothingRuns ==
    ASSUME LiveMatchesState, NEW k \in Kind,
           \A t \in TasksOf(k) : state[t] = "Completed"
    PROVE  RunningTasks(k) = {}
BY TaskKinds DEF RunningTasks, LiveMatchesState

(* The label of a snapshot agrees with the states of the tasks in it (Status, *)
(* phaseStatus, runningTasks), for any callers, timing and number of tasks.   *)
THEOREM PhaseIsTrueHolds == Spec => []PhaseIsTrue
<1>1. ASSUME PhaseInv PROVE PhaseIsTrue
  <2> USE <1>1 DEF PhaseInv
  <2>1. LiveMatchesState /\ TypeOK
    BY DEF AttemptInv
  <2>2. Phase = "map" => \A t \in TasksOf("reduce") : state[t] = "Idle"
    <3> SUFFICES ASSUME completed["map"] # NMap, NEW t \in TasksOf("reduce")
                 PROVE  state[t] = "Idle"
      BY PhaseCases
    <3>1. ~(nextAttempt[t] > 0)
      BY DEF Barrier
    <3>2. t \in Task
      BY TaskKinds DEF Kind
    <3> QED
      BY <3>1, <3>2 DEF Started
  <2>3. ASSUME completed["map"] = NMap
        PROVE  RunningTasks("map") = {} /\ \A t \in TasksOf("map") : state[t] = "Completed"
    <3>1. \A t \in TasksOf("map") : state[t] = "Completed"
      BY <2>3, FullCounter DEF Kind, Total
    <3> QED
      BY <2>1, <3>1, NothingRuns DEF Kind
  <2>4. ASSUME JobDone
        PROVE  RunningTasks("reduce") = {} /\ \A t \in TasksOf("reduce") : state[t] = "Completed"
    <3>1. \A t \in TasksOf("reduce") : state[t] = "Completed"
      BY <2>4, FullCounter DEF Kind, JobDone
    <3> QED
      BY <2>1, <3>1, NothingRuns DEF Kind
  <2>5. JobDone => completed["map"] = NMap
    BY DEF JobDone, Kind, Total
  <2> QED
    BY <2>2, <2>3, <2>4, <2>5, PhaseCases DEF PhaseIsTrue
<1> QED
  BY <1>1, PhaseInvHolds, PTL

(* A full counter stays full: no step counts down, and only an unfinished *)
(* task is confirmed.                                                      *)
LEMMA FullStaysFull ==
    ASSUME PhaseInv, [Next]_vars, NEW k \in Kind, completed[k] = Total(k)
    PROVE  completed'[k] = Total(k)
<1>1. CASE completed' = completed
  BY <1>1
<1>2. CASE Confirms
  <2>1. PICK t \in Task, id \in Nat, w \in Worker, backup \in BOOLEAN :
              Confirm(t, id, w, backup)
    BY <1>2 DEF Confirms
  <2>2. completed[KindOf(t)] < Total(KindOf(t))
    BY <2>1, CountConfirmed DEF PhaseInv, AttemptInv
  <2>3. k # KindOf(t)
    BY <2>2, TotalType, TaskKinds
  <2>4. completed' = [completed EXCEPT ![KindOf(t)] = @ + 1]
    BY <2>1 DEF Confirm
  <2> QED
    BY <2>3, <2>4 DEF PhaseInv, AttemptInv, TypeOK
<1>3. Confirms \/ completed' = completed
  BY NextCases, AssignStarts DEF CoordStep, Assigns, TellWait, Clears, Clear, Refuses, Refuse, Reaps,
                   Reap, vars, AssignTask
<1> QED
  BY <1>1, <1>2, <1>3

(* Successive snapshots never go back a phase (Status). *)
THEOREM PhaseNeverGoesBackHolds == Spec => PhaseNeverGoesBack
<1>1. ASSUME PhaseInv, [Next]_vars
      PROVE  [/\ Phase = "reduce" => Phase' \in {"reduce", "done"}
              /\ Phase = "done" => Phase' = "done"]_vars
  <2>1. \A k \in Kind : completed[k] = Total(k) => completed'[k] = Total(k)
    BY <1>1, FullStaysFull
  <2>2. JobDone => JobDone'
    BY <2>1 DEF JobDone
  <2>3. completed["map"] = NMap => completed'["map"] = NMap
    BY <2>1 DEF Kind, Total
  <2>4. /\ JobDone' => Phase' = "done"
        /\ completed'["map"] = NMap => Phase' \in {"reduce", "done"}
    BY DEF Phase, JobDone, Kind, Total
  <2> QED
    BY <2>2, <2>3, <2>4, PhaseCases
<1> QED
  BY <1>1, PhaseInvHolds, PTL DEF Spec, PhaseNeverGoesBack

-----------------------------------------------------------------------------
(* The workers of a snapshot.                                              *)

(* What is confirmed is confirmed by a worker, of a task. *)
ConfirmedByWorkers ==
    \A e \in events : e.kind = "committed" => e.worker \in Worker /\ e.task \in Task

CountInv == PhaseInv /\ OneCommit /\ ConfirmedByWorkers

LEMMA ConfirmedByWorkersStep ==
    ASSUME AttemptInv, ConfirmedByWorkers, CoordStep
    PROVE  ConfirmedByWorkers'
<1>1. ASSUME NEW e \in events', e.kind = "committed", e \notin events
      PROVE  e.worker \in Worker /\ e.task \in Task
  <2>1. Confirms
    BY <1>1, EventsGrow DEF Noted
  <2> PICK t \in Task, id \in Nat, w \in Worker, backup \in BOOLEAN : Confirm(t, id, w, backup)
    BY <2>1 DEF Confirms
  <2>2. e = TaskEvent("committed", t, id, w, backup)
    BY <1>1 DEF Confirm, Record
  <2> QED
    BY <2>2 DEF TaskEvent
<1> QED
  BY <1>1 DEF ConfirmedByWorkers

LEMMA CountInvInit == Init => CountInv
BY PhaseInvInit DEF Init, CountInv, OneCommit, CommittedOf, ConfirmedByWorkers

LEMMA CountInvStep ==
    ASSUME "committed" \in LoggedKinds, CountInv, CoordStep
    PROVE  CountInv'
BY PhaseInvStep, OneCommitStep, ConfirmedByWorkersStep DEF CountInv, PhaseInv

(* A snapshot has one metric for each finished task. *)
LEMMA MetricsCounted ==
    ASSUME CountInv
    PROVE  /\ IsFiniteSet(Metrics)
           /\ Cardinality(Metrics) = PhaseStatus("map")["Completed"]
                                        + PhaseStatus("reduce")["Completed"]
<1> DEFINE maps == Done("map")  reduces == Done("reduce")  all == maps \cup reduces
           f == [e \in Metrics |-> e.task]
<1>1. IsFiniteSet(maps) /\ IsFiniteSet(reduces)
  <2>1. maps \in SUBSET TasksOf("map") /\ reduces \in SUBSET TasksOf("reduce")
    BY DEF Done
  <2> QED
    BY <2>1, TaskCount, FS_Subset DEF Kind
<1>2. maps \cap reduces = {}
  BY TaskKinds DEF Done, Kind
<1>3. PhaseStatus("map")["Completed"] = Cardinality(maps)
      /\ PhaseStatus("reduce")["Completed"] = Cardinality(reduces)
  BY DEF PhaseStatus, Done, TaskState
<1>4. all = {t \in Task : state[t] = "Completed"}
  BY TaskKinds DEF Done, Kind, Task
<1>5. ASSUME NEW e \in Metrics PROVE e.task \in all /\ CommittedOf(e.task) = {e}
  <2>1. e \in CommittedOf(e.task) /\ e.task \in Task
    BY DEF Metrics, CommittedOf, CountInv, ConfirmedByWorkers
  <2> QED
    BY <1>4, <2>1 DEF CountInv, OneCommit
<1>6. ASSUME NEW t \in all PROVE \E e \in Metrics : e.task = t
  <2>1. PICK c : CommittedOf(t) = {c}
    BY <1>4 DEF CountInv, OneCommit
  <2> QED
    BY <2>1 DEF CommittedOf, Metrics
<1>7. f \in Bijection(Metrics, all)
  <2>1. f \in [Metrics -> all]
    BY <1>5
  <2>2. ASSUME NEW d \in Metrics, NEW e \in Metrics, f[d] = f[e] PROVE d = e
    <3>1. CommittedOf(d.task) = {d} /\ CommittedOf(e.task) = {e} /\ d.task = e.task
      BY <1>5, <2>2
    <3> QED
      BY <3>1
  <2>3. \A t \in all : \E e \in Metrics : f[e] = t
    BY <1>6
  <2> HIDE DEF f, all
  <2> QED
    BY <2>1, <2>2, <2>3 DEF Bijection, Injection, Surjection, IsInjective
<1> HIDE DEF maps, reduces, f
<1>8. IsFiniteSet(all) /\ Cardinality(all) = Cardinality(maps) + Cardinality(reduces)
  BY <1>1, <1>2, TwoParts, FS_Union
<1> HIDE DEF all
<1>9. IsFiniteSet(Metrics) /\ Cardinality(Metrics) = Cardinality(all)
  BY <1>7, <1>8, FS_Injection DEF Bijection
<1> QED
  BY <1>3, <1>8, <1>9

(* The attempts in flight are finitely many, and known by task and id. *)
InFlight == RunningTasks("map") \cup RunningTasks("reduce")
FlightIds == UNION {{<<t, a.id>> : a \in live[t]} : t \in Task}

LEMMA InFlightIs ==
    /\ \A t \in Task : \A a \in live[t] : <<t, a>> \in InFlight /\ <<t, a.id>> \in FlightIds
    /\ \A p \in InFlight : \E t \in Task : \E a \in live[t] : p = <<t, a>>
    /\ \A q \in FlightIds : \E t \in Task : \E a \in live[t] : q = <<t, a.id>>
BY TaskKinds DEF InFlight, RunningTasks, FlightIds, Task, Kind

LEMMA InFlightCounted ==
    ASSUME AttemptInv
    PROVE  IsFiniteSet(InFlight) /\ Cardinality(InFlight) = Cardinality(FlightIds)
<1>1. ASSUME NEW t \in Task PROVE IsFiniteSet({<<t, a>> : a \in live[t]})
  <2>1. IsFiniteSet(live[t])
    <3>1. CASE live[t] = {}
      BY <3>1, FS_EmptySet
    <3>2. ASSUME NEW a \in live[t], live[t] = {a} PROVE IsFiniteSet(live[t])
      BY <3>2, FS_Singleton
    <3>3. ASSUME NEW a \in live[t], NEW b \in live[t], a # b PROVE IsFiniteSet(live[t])
      <4>1. live[t] = {a} \cup {b}
        BY <3>3 DEF AttemptInv, AtMostTwoRunning
      <4>2. IsFiniteSet({a}) /\ IsFiniteSet({b})
        BY FS_Singleton
      <4> QED
        BY <4>1, <4>2, FS_Union
    <3> QED
      BY <3>1, <3>2, <3>3
  <2> DEFINE f == [a \in live[t] |-> <<t, a>>]
  <2>2. {<<t, a>> : a \in live[t]} = {f[a] : a \in live[t]}
    OBVIOUS
  <2> HIDE DEF f
  <2> QED
    BY <2>1, <2>2, Images
<1>2. IsFiniteSet(InFlight)
  <2> DEFINE f == [t \in Task |-> {<<t, a>> : a \in live[t]}]
  <2>1. ASSUME NEW p \in InFlight PROVE p \in UNION {f[t] : t \in Task}
    <3>1. PICK t \in Task : \E a \in live[t] : p = <<t, a>>
      BY InFlightIs
    <3>2. p \in f[t] /\ f[t] \in {f[u] : u \in Task}
      BY <3>1
    <3> HIDE DEF f
    <3> QED
      BY <3>2
  <2>2. \A t \in Task : IsFiniteSet(f[t])
    BY <1>1
  <2>3. IsFiniteSet(Task)
    BY TaskCount, FS_Union DEF Task, Kind
  <2> HIDE DEF f
  <2> DEFINE F == {f[t] : t \in Task}
  <2>4. IsFiniteSet(F)
    BY <2>3, Images
  <2>5. (\A T \in F : IsFiniteSet(T)) /\ InFlight \in SUBSET UNION F
    BY <2>1, <2>2
  <2> HIDE DEF F
  <2>6. IsFiniteSet(UNION F)
    BY <2>4, <2>5, FS_UNION
  <2> QED
    BY <2>5, <2>6, FS_Subset
<1> DEFINE g == [p \in InFlight |-> <<p[1], p[2].id>>]
<1>3. g \in Bijection(InFlight, FlightIds)
  <2>1. ASSUME NEW p \in InFlight PROVE g[p] \in FlightIds
    BY InFlightIs
  <2>2. ASSUME NEW p \in InFlight, NEW q \in InFlight, g[p] = g[q] PROVE p = q
    <3>1. PICK t \in Task : \E a \in live[t] : p = <<t, a>>
      BY InFlightIs
    <3>2. PICK a \in live[t] : p = <<t, a>>
      BY <3>1
    <3>3. PICK u \in Task : \E b \in live[u] : q = <<u, b>>
      BY InFlightIs
    <3>4. PICK b \in live[u] : q = <<u, b>>
      BY <3>3
    <3>5. t = u /\ a.id = b.id
      BY <2>2, <3>2, <3>4
    <3> QED
      BY <3>2, <3>4, <3>5 DEF AttemptInv, AtMostTwoRunning
  <2>3. ASSUME NEW q \in FlightIds PROVE \E p \in InFlight : g[p] = q
    <3>1. PICK t \in Task : \E a \in live[t] : q = <<t, a.id>>
      BY InFlightIs
    <3>2. PICK a \in live[t] : q = <<t, a.id>>
      BY <3>1
    <3>3. <<t, a>> \in InFlight /\ g[<<t, a>>] = q
      BY <3>2, InFlightIs
    <3> QED
      BY <3>3
  <2>4. g \in [InFlight -> FlightIds]
    BY <2>1
  <2> HIDE DEF g
  <2> QED
    BY <2>2, <2>3, <2>4 DEF Bijection, Injection, Surjection, IsInjective
<1> HIDE DEF g
<1> QED
  BY <1>2, <1>3, FS_Surjection DEF Bijection

(* A field of a status that counts things by worker sums to their number. *)
LEMMA FieldSum ==
    ASSUME NEW M, IsFiniteSet(M), NEW status, IsFiniteSet(DOMAIN status), NEW field,
           NEW part, \A m \in M : part[m] \in DOMAIN status,
           \A w \in DOMAIN status : status[w][field] = Cardinality({m \in M : part[m] = w})
    PROVE  SumOf(field, status) = Cardinality(M)
<1> DEFINE f == [w \in DOMAIN status |-> status[w][field]]
<1>1. /\ \A m \in M : part[m] \in DOMAIN f
      /\ IsFiniteSet(DOMAIN f)
      /\ \A w \in DOMAIN f : f[w] = Cardinality({m \in M : part[m] = w})
  OBVIOUS
<1>2. SumOf(field, status) = SumFunction(f)
  BY DEF SumOf
<1> HIDE DEF f
<1> QED
  BY <1>1, <1>2, SumOfParts

(* The workers of a snapshot are those with something to show. *)
LEMMA StatusIs ==
    ASSUME CountInv, NEW D, D = DOMAIN WorkerStatus
    PROVE  /\ IsFiniteSet(D)
           /\ \A e \in Metrics : e.worker \in D
           /\ \A p \in InFlight : p[2].worker \in D
           /\ \A w \in D : /\ WorkerStatus[w]["committed"] = Committed(w)
                           /\ WorkerStatus[w]["running"] = RunningOn(w)
<1>1. IsFiniteSet(Metrics) /\ IsFiniteSet(InFlight)
  BY MetricsCounted, InFlightCounted DEF CountInv, PhaseInv
<1>2. ASSUME NEW w
      PROVE  /\ Committed(w) \in Nat /\ RunningOn(w) \in Nat
             /\ Committed(w) > 0 <=> \E e \in Metrics : e.worker = w
             /\ RunningOn(w) > 0 <=> \E p \in InFlight : p[2].worker = w
  <2> DEFINE own == {e \in Metrics : e.worker = w}
             on == {p \in InFlight : p[2].worker = w}
  <2>1. IsFiniteSet(own) /\ IsFiniteSet(on)
    BY <1>1, FS_Subset
  <2>2. Committed(w) = Cardinality(own) /\ RunningOn(w) = Cardinality(on)
    BY DEF Committed, RunningOn, InFlight
  <2>3. (own # {} <=> \E e \in Metrics : e.worker = w)
        /\ (on # {} <=> \E p \in InFlight : p[2].worker = w)
    OBVIOUS
  <2> HIDE DEF own, on
  <2> QED
    BY <2>1, <2>2, <2>3, FS_EmptySet, FS_CardinalityType
<1>3. D = {w \in Worker : Committed(w) + RunningOn(w) > 0}
  BY DEF WorkerStatus
<1>4. \A w \in D : WorkerStatus[w] = [committed |-> Committed(w), running |-> RunningOn(w)]
  BY DEF WorkerStatus
<1>5. \A e \in Metrics : e.worker \in Worker
  BY DEF Metrics, CountInv, ConfirmedByWorkers
<1>6. \A p \in InFlight : p[2].worker \in Worker
  <2>1. ASSUME NEW t \in Task, NEW a \in live[t] PROVE a.worker \in Worker
    BY DEF CountInv, PhaseInv, AttemptInv, TypeOK, Attempt
  <2> QED
    BY <2>1, InFlightIs
<1>7. IsFiniteSet(D)
  <2> DEFINE f == [e \in Metrics |-> e.worker]  g == [p \in InFlight |-> p[2].worker]
             F == {f[e] : e \in Metrics}  G == {g[p] : p \in InFlight}
  <2>1. ASSUME NEW w \in D PROVE w \in F \cup G
    <3>1. Committed(w) > 0 \/ RunningOn(w) > 0
      BY <1>2, <1>3
    <3> QED
      BY <1>2, <3>1
  <2> HIDE DEF f, g
  <2>2. IsFiniteSet(F) /\ IsFiniteSet(G)
    BY <1>1, Images
  <2> HIDE DEF F, G
  <2> QED
    BY <2>1, <2>2, FS_Union, FS_Subset
<1>8. /\ \A e \in Metrics : e.worker \in D
      /\ \A p \in InFlight : p[2].worker \in D
  BY <1>2, <1>3, <1>5, <1>6
<1>9. \A w \in D : /\ WorkerStatus[w]["committed"] = Committed(w)
                   /\ WorkerStatus[w]["running"] = RunningOn(w)
  BY <1>4
<1> QED
  BY <1>7, <1>8, <1>9

LEMMA CountsAddUp ==
    ASSUME CountInv
    PROVE  WorkersAddUp
<1> DEFINE status == WorkerStatus
           by == [e \in Metrics |-> e.worker]  on == [p \in InFlight |-> p[2].worker]
<1>1. /\ IsFiniteSet(DOMAIN status)
      /\ \A e \in Metrics : by[e] \in DOMAIN status
      /\ \A p \in InFlight : on[p] \in DOMAIN status
      /\ \A w \in DOMAIN status : /\ status[w]["committed"] = Committed(w)
                                  /\ status[w]["running"] = RunningOn(w)
  BY StatusIs
<1>2. ASSUME NEW w
      PROVE  /\ Committed(w) = Cardinality({e \in Metrics : by[e] = w})
             /\ RunningOn(w) = Cardinality({p \in InFlight : on[p] = w})
  <2>1. /\ {e \in Metrics : by[e] = w} = {e \in Metrics : e.worker = w}
        /\ {p \in InFlight : on[p] = w} = {p \in InFlight : p[2].worker = w}
    OBVIOUS
  <2> QED
    BY <2>1 DEF Committed, RunningOn, InFlight
<1>3. WorkersAddUp <=>
         /\ SumOf("committed", status) = PhaseStatus("map")["Completed"]
                                            + PhaseStatus("reduce")["Completed"]
         /\ SumOf("running", status) = Cardinality(FlightIds)
  BY DEF WorkersAddUp, FlightIds
<1>4. /\ IsFiniteSet(Metrics) /\ IsFiniteSet(InFlight)
      /\ Cardinality(InFlight) = Cardinality(FlightIds)
  BY MetricsCounted, InFlightCounted DEF CountInv, PhaseInv
<1> HIDE DEF status, by, on
<1>5. SumOf("committed", status) = Cardinality(Metrics)
  <2>1. \A w \in DOMAIN status :
           status[w]["committed"] = Cardinality({e \in Metrics : by[e] = w})
    BY <1>1, <1>2
  <2> QED
    BY <1>1, <1>4, <2>1, FieldSum
<1>6. SumOf("running", status) = Cardinality(InFlight)
  <2>1. \A w \in DOMAIN status :
           status[w]["running"] = Cardinality({p \in InFlight : on[p] = w})
    BY <1>1, <1>2
  <2> QED
    BY <1>1, <1>4, <2>1, FieldSum
<1> QED
  BY <1>3, <1>4, <1>5, <1>6, MetricsCounted

(* A snapshot's parts agree for any number of workers and tasks: what its     *)
(* workers finished is what its phases count, what they run is all that runs  *)
(* (Status, workerStatuses).                                                  *)
THEOREM WorkersAddUpHolds ==
    ASSUME "committed" \in LoggedKinds
    PROVE  Spec => []WorkersAddUp
<1>1. CountInv /\ [Next]_vars => CountInv'
  BY NextCases, CountInvStep
<1>2. CountInv => WorkersAddUp
  BY CountsAddUp
<1> QED
  BY <1>1, <1>2, CountInvInit, PTL DEF Spec

(* And so do those taken of the timed job. *)
THEOREM RunWorkersAddUpHolds ==
    ASSUME "committed" \in LoggedKinds
    PROVE  RunSpec => []WorkersAddUp
<1>1. RunInit => CountInv
  BY CountInvInit DEF RunInit, TimedInit
<1>2. RunInv /\ CountInv /\ [RunNext]_runVars => CountInv'
  BY RunCases, TimedCoordStep, CountInvStep
<1>3. CountInv => WorkersAddUp
  BY CountsAddUp
<1> QED
  BY <1>1, <1>2, <1>3, RunInvHolds, PTL DEF RunSpec
=============================================================================
