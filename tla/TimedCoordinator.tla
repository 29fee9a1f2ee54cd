------------------------- MODULE TimedCoordinator -------------------------
(***************************************************************************)
(* The coordinator in time: the clock readings src/mr/coordinator.go takes *)
(* and the three decisions it makes from them - which attempts a reaper    *)
(* pass finds overdue, when the next pass comes, and which running task    *)
(* is slow enough to be backed up.  Module Coordinator leaves all three    *)
(* open; every step here is one of its steps, or time passing.             *)
(*                                                                         *)
(* Time is counted in whole units from the start of the job.  A handler    *)
(* takes no time: what passes between its clock readings is far below the  *)
(* timeouts it compares them with.                                         *)
(***************************************************************************)
EXTENDS Coordinator, Stats

CONSTANTS
    Given,     \* the timing fields of the Config the caller passes
    Default,   \* the same fields of DefaultConfig
    MaxLate    \* bound: how much later than ReapInterval a pass may start

(* A zero timeout or interval, and a threshold or sample count that is not  *)
(* positive, mean the default; the threshold is in hundredths.              *)
WithDefaults(c) ==
    [taskTimeout  |-> IF c.taskTimeout = 0 THEN Default.taskTimeout ELSE c.taskTimeout,
     reapInterval |-> IF c.reapInterval = 0 THEN Default.reapInterval ELSE c.reapInterval,
     thresholdPct |-> IF c.thresholdPct <= 0 THEN Default.thresholdPct ELSE c.thresholdPct,
     minSamples   |-> IF c.minSamples <= 0 THEN Default.minSamples ELSE c.minSamples]

cfg == WithDefaults(Given)

(* Callers pass no negative duration. *)
ASSUME ConfigAssumption ==
    /\ cfg.taskTimeout \in Nat /\ cfg.reapInterval \in Nat /\ cfg.thresholdPct \in Nat
    /\ MinSamples = cfg.minSamples
    /\ MaxLate \in Nat

VARIABLES
    now,           \* the clock, from jobStart
    started,       \* attempt.Start of the running attempts, by attempt id
    commitStart,   \* TaskInfo.CommitStart of a committing task
    lastReap,      \* when checkTimeouts last made a pass, or would have
    taskMetrics,   \* TaskMetrics confirmed, in order
    stamps         \* mapPhaseEnd, reducePhaseStart, jobEnd, once set

clockVars == <<started, commitStart, taskMetrics, stamps>>
timedVars == <<vars, clockVars, now, lastReap>>

Ids(t) == {a.id : a \in live[t]}

TimedInit ==
    /\ Init
    /\ now = 0
    /\ started = [t \in Task |-> [id \in {} |-> 0]]
    /\ commitStart = [t \in Task |-> 0]
    /\ lastReap = -cfg.reapInterval        \* the first pass is made at once
    /\ taskMetrics = <<>>
    /\ stamps = [m \in {} |-> 0]

-----------------------------------------------------------------------------
(* Reading the clock.                                                      *)

(* start: a new attempt keeps the time it was handed out. *)
StampStarts ==
    started' = [t \in Task |-> [id \in Ids(t)' |->
                  IF id \in Ids(t) THEN started[t][id] ELSE now]]

(* Bug for StampClearance: the clearance is timed from its attempt's start. *)
StampClearanceEarly ==
    commitStart' = [t \in Task |->
        CASE state'[t] = "Committing" /\ state[t] # "Committing" -> started[t][committer'[t]]
          [] state'[t] = "Committing" /\ state[t] = "Committing" -> commitStart[t]
          [] OTHER -> 0]

(* ReportTask: a task keeps the time its committer was cleared, while it is. *)
StampClearance ==
    commitStart' = [t \in Task |->
        CASE state'[t] = "Committing" /\ state[t] # "Committing" -> now
          [] state'[t] = "Committing" /\ state[t] = "Committing" -> commitStart[t]
          [] OTHER -> 0]

(* The phase boundaries are stamped once, when they are reached. *)
StampPhases ==
    stamps' = [m \in marks' |-> IF m \in marks THEN stamps[m] ELSE now]

ReadClock == StampStarts /\ StampClearance /\ StampPhases

-----------------------------------------------------------------------------
(* Stragglers.                                                             *)

(* The durations of the tasks of kind k that are done. *)
Durations(k) ==
    [i \in {j \in DOMAIN taskMetrics : KindOf(taskMetrics[j].task) = k} |->
        Duration(taskMetrics[i])]

EnoughSamples(k) == Count(Durations(k)) >= cfg.minSamples

(* Bug for Cutoff: the fastest task so far is the yardstick. *)
CutoffFastest(k) == (Lowest(Durations(k)) * cfg.thresholdPct) \div 100

Cutoff(k) == (UpperMedian(Durations(k)) * cfg.thresholdPct) \div 100

(* For a task that runs one attempt, how long that attempt has been running. *)
Elapsed(t) ==
    LET only == CHOOSE a \in live[t] : TRUE IN now - started[t][only.id]

PastCutoff(k, w) ==
    {t \in Stragglers(k, w) : EnoughSamples(k) /\ Elapsed(t) > Cutoff(k)}

(* The task straggler returns, if any: the one running longest past the     *)
(* cutoff, the first of several.                                            *)
Straggler(k, w) ==
    {t \in PastCutoff(k, w) :
        \A u \in PastCutoff(k, w) :
            \/ Elapsed(u) < Elapsed(t)
            \/ Elapsed(u) = Elapsed(t) /\ t[2] <= u[2]}

-----------------------------------------------------------------------------
(* The handlers.                                                           *)

TimedAssign(t, w, backup) ==
    /\ AssignTask(t, w, backup)
    /\ backup => t \in Straggler(OpenKind, w)
    /\ ReadClock
    /\ UNCHANGED <<now, lastReap, taskMetrics>>

TimedWait(w) ==
    /\ TellWait
    /\ Straggler(OpenKind, w) = {}
    /\ ReadClock
    /\ UNCHANGED <<now, lastReap, taskMetrics>>

TimedExit == TellExit /\ UNCHANGED timedVars

TimedReport(t, id, w) ==
    /\ ReportTask(t, id, w)
    /\ ReadClock
    /\ UNCHANGED <<now, lastReap, taskMetrics>>

Metric(t, a, from, to) ==
    [task |-> t, attempt |-> a.id, worker |-> a.worker, backup |-> a.backup,
     start |-> from, end |-> to]

(* Attempt a confirms with the times its worker took, or too late. *)
TimedCommit(t, a, from, to) ==
    /\ CommitTask(t, a.id, a.worker, a.backup)
    /\ taskMetrics' = IF HoldsClearance(t, a.id)
                      THEN Append(taskMetrics, Metric(t, a, from, to))
                      ELSE taskMetrics
    /\ ReadClock
    /\ UNCHANGED <<now, lastReap>>

-----------------------------------------------------------------------------
(* The reaper.                                                             *)

(* A committer is timed from its clearance, a running attempt from its start. *)
Overdue ==
    {p \in Timed : LET t == p[1]  id == p[2] IN
        IF state[t] = "Committing" THEN now - commitStart[t] > cfg.taskTimeout
        ELSE now - started[t][id] > cfg.taskTimeout}

ReapPass ==
    /\ now - lastReap >= cfg.reapInterval
    /\ CheckTimeouts(Overdue)
    /\ lastReap' = now
    /\ ReadClock
    /\ UNCHANGED <<now, taskMetrics>>

(* Bug for PassDue: the reaper oversleeps. *)
PassDueTwice == now - lastReap >= 2 * cfg.reapInterval + MaxLate

(* The reaper sleeps ReapInterval and may then be scheduled MaxLate late. *)
PassDue == now - lastReap >= cfg.reapInterval + MaxLate

Tick ==
    /\ ~JobDone
    /\ ~PassDue
    /\ now' = now + 1
    /\ UNCHANGED <<vars, clockVars, lastReap>>

-----------------------------------------------------------------------------
(* Any worker may ask and report at any time; an attempt confirms with a    *)
(* stretch of time it was running in.                                       *)
TimedNext ==
    \/ \E t \in Task, w \in Worker, backup \in BOOLEAN :
          TimedAssign(t, w, backup) /\ Bounded
    \/ \E w \in Worker : TimedWait(w)
    \/ TimedExit
    \/ \E t \in Task, id \in 0 .. MaxAttempts, w \in Worker : TimedReport(t, id, w)
    \/ \E t \in Task : \E a \in live[t] : \E from, to \in started[t][a.id] .. now :
          from <= to /\ TimedCommit(t, a, from, to)
    \/ ReapPass
    \/ Tick

TimedSpec == TimedInit /\ [][TimedNext]_timedVars

-----------------------------------------------------------------------------
(* Properties.                                                             *)

TaskMetric == [task : Task, attempt : Nat, worker : Worker, backup : BOOLEAN,
               start : Nat, end : Nat]

(* The clock readings are times, and there is one for what is running. *)
TimedTypeOK ==
    /\ now \in Nat
    /\ lastReap \in Int
    /\ \A t \in Task : started[t] \in [Ids(t) -> 0 .. now]
    /\ commitStart \in [Task -> 0 .. now]
    /\ taskMetrics \in Seq(TaskMetric)
    /\ stamps \in [marks -> 0 .. now]

(* The longest a pass can leave something overdue. *)
Patience == cfg.taskTimeout + cfg.reapInterval + MaxLate

(* A lost worker is noticed in time: no attempt is still running, and no      *)
(* clearance still held, more than one reap interval after its timeout        *)
(* ("how long a task may run before it is assumed lost", Config.TaskTimeout). *)
NoOverstay ==
    \A t \in Task :
        /\ state[t] = "InProgress" =>
              \A a \in live[t] : now - started[t][a.id] <= Patience
        /\ state[t] = "Committing" => now - commitStart[t] <= Patience

(* The reaper drops nobody who is in time: "a reaped record is an attempt     *)
(* dropped for running past the timeout" (docs/observability.md).  A pass     *)
(* that gives up on a committer drops its rivals without timing them; they    *)
(* too have been running past it.                                             *)
OnlyOverdueDropped ==
    [][\A t \in Task : \A a \in live[t] :
          a \notin live'[t] /\ state'[t] # "Completed"
              => now - started[t][a.id] > cfg.taskTimeout]_timedVars

(* A backup goes to a task "running well past the median for its phase": with *)
(* a threshold of at least one, more than half of the finished tasks of the   *)
(* phase took less time than it has been running.                             *)
BackupsAreForLaggards ==
    [][\A t \in Task :
          backupsLaunched' > backupsLaunched /\ nextAttempt'[t] > nextAttempt[t] =>
              LET ds == Durations(KindOf(t))
                  faster == {i \in DOMAIN ds : ds[i] < Elapsed(t)}
              IN cfg.thresholdPct >= 100 => 2 * Cardinality(faster) > Count(ds)]_timedVars
=============================================================================
