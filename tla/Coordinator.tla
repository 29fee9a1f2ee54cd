---------------------------- MODULE Coordinator ----------------------------
(***************************************************************************)
(* The coordinator of a map-reduce job (src/mr/coordinator.go): which task *)
(* is handed to whom, which attempt is cleared to publish, when a task     *)
(* counts as done, and what the reaper takes back.  Every RPC handler and  *)
(* every pass of the reaper runs under one mutex, so each is one action.   *)
(*                                                                         *)
(* The module is open: Next lets any worker ask, report and confirm        *)
(* anything at any time, and lets the reaper find any set of running       *)
(* attempts past TaskTimeout.  Module MapReduce closes it with the         *)
(* workers of src/mr/worker.go.                                            *)
(*                                                                         *)
(* Time is abstracted to the choices it decides: which attempts a pass     *)
(* finds expired, and which of the eligible stragglers is past the cutoff. *)
(***************************************************************************)
EXTENDS Integers, FiniteSets

CONSTANTS
    Worker,        \* the ids workers identify themselves with
    NoWorker,      \* the empty worker id a reaped committer is logged with
    NMap,          \* number of map tasks, one per input split
    NReduce,       \* number of reduce tasks
    Speculation,   \* Config.Speculation
    MinSamples,    \* Config.SpeculationMinSamples, after withDefaults
    MaxAttempts,   \* bound of the open Next only: attempts started per task
    LoggedKinds    \* kinds of TaskEvent the instance keeps in events

ASSUME CountsAssumption == NMap \in Nat /\ NReduce \in Nat
ASSUME SpeculationAssumption == Speculation \in BOOLEAN /\ MinSamples \in Nat \ {0}
ASSUME WorkerAssumption == NoWorker \notin Worker
ASSUME BoundAssumption == MaxAttempts \in Nat

VARIABLES
    state,            \* TaskInfo.State
    nextAttempt,      \* TaskInfo.NextAttempt
    live,             \* TaskInfo.Live, a set: ids in it are distinct
    committer,        \* TaskInfo.Committer, keeps its value when stale
    completed,        \* mapTasksCompleted and reduceTasksCompleted
    backupsLaunched,
    backupsWon,
    marks,            \* which of mapPhaseEnd, reducePhaseStart, jobEnd are set
    events            \* the events recorded, of the kinds in LoggedKinds

vars == <<state, nextAttempt, live, committer, completed,
          backupsLaunched, backupsWon, marks, events>>

Kind == {"map", "reduce"}
Total(k) == IF k = "map" THEN NMap ELSE NReduce
TasksOf(k) == {k} \X (0 .. Total(k) - 1)
Task == TasksOf("map") \cup TasksOf("reduce")
KindOf(t) == t[1]

TaskState == {"Idle", "InProgress", "Committing", "Completed"}
Attempt == [id : Nat, worker : Worker, backup : BOOLEAN]
Mark == {"mapPhaseEnd", "reducePhaseStart", "jobEnd"}
EventKind == {"assigned", "reaped", "committed", "refused"}
Event == [kind : EventKind, task : Task, attempt : Nat,
          worker : Worker \cup {NoWorker}, backup : BOOLEAN]

Init ==
    /\ state = [t \in Task |-> "Idle"]
    /\ nextAttempt = [t \in Task |-> 0]
    /\ live = [t \in Task |-> {}]
    /\ committer = [t \in Task |-> 0]
    /\ completed = [k \in Kind |-> 0]
    /\ backupsLaunched = 0
    /\ backupsWon = 0
    /\ marks = {}
    /\ events = {}

JobDone == \A k \in Kind : completed[k] = Total(k)

(* A task event; the order events were appended in is not kept. *)
TaskEvent(kind, t, id, w, backup) ==
    [kind |-> kind, task |-> t, attempt |-> id, worker |-> w, backup |-> backup]

Record(es) == events' = events \cup {e \in es : e.kind \in LoggedKinds}

-----------------------------------------------------------------------------
(* RequestTask: an idle task, else a backup, else wait, else exit.         *)

(* Bug for OpenKind: reduces are handed out once no map task is idle. *)
OpenKindEarly ==
    IF \E t \in TasksOf("map") : state[t] = "Idle" THEN "map" ELSE "reduce"

(* The phase being handed out: reduce tasks only after every map task. *)
OpenKind == IF completed["map"] < NMap THEN "map" ELSE "reduce"

(* Bug for FirstIdle: tasks that are running are handed out again. *)
FirstIdleUnfinished(k) ==
    {t \in TasksOf(k) :
        /\ state[t] # "Completed"
        /\ \A i \in 0 .. t[2] - 1 : state[<<k, i>>] = "Completed"}

(* The idle tasks of kind k that handOut meets first: at most one. *)
FirstIdle(k) ==
    {t \in TasksOf(k) :
        /\ state[t] = "Idle"
        /\ \A i \in 0 .. t[2] - 1 : state[<<k, i>>] # "Idle"}

(* Bug for Stragglers: a task that has a backup already qualifies. *)
StragglersBackedUp(k, w) ==
    {t \in TasksOf(k) :
        /\ Speculation
        /\ completed[k] >= MinSamples
        /\ state[t] = "InProgress"
        /\ \A a \in live[t] : a.worker # w}

(* The tasks straggler may return: enough samples for a median, one attempt *)
(* running, and not on w.  Which of them is past the cutoff, and is the     *)
(* worst, is left to time.                                                  *)
Stragglers(k, w) ==
    {t \in TasksOf(k) :
        /\ Speculation
        /\ completed[k] >= MinSamples
        /\ state[t] = "InProgress"
        /\ \E a \in live[t] : live[t] = {a} /\ a.worker # w}

Start(t, w, backup) ==
    LET id == nextAttempt[t] + 1 IN
    /\ nextAttempt' = [nextAttempt EXCEPT ![t] = id]
    /\ state' = [state EXCEPT ![t] = "InProgress"]
    /\ live' = [live EXCEPT
                  ![t] = @ \cup {[id |-> id, worker |-> w, backup |-> backup]}]
    /\ Record({TaskEvent("assigned", t, id, w, backup)})

(* Bug for HandOut: backups are not counted. *)
HandOutUncounted(k, t, w, backup) ==
    /\ t \in IF backup THEN Stragglers(k, w) ELSE FirstIdle(k)
    /\ backup => FirstIdle(k) = {}
    /\ Start(t, w, backup)
    /\ UNCHANGED backupsLaunched

HandOut(k, t, w, backup) ==
    \/ /\ ~backup
       /\ t \in FirstIdle(k)
       /\ Start(t, w, FALSE)
       /\ UNCHANGED backupsLaunched
    \/ /\ backup
       /\ FirstIdle(k) = {}
       /\ t \in Stragglers(k, w)
       /\ Start(t, w, TRUE)
       /\ backupsLaunched' = backupsLaunched + 1

(* The first request answered in the reduce phase stamps its start. *)
MarkReducePhase ==
    marks' = IF OpenKind = "reduce" THEN marks \cup {"reducePhaseStart"} ELSE marks

AssignTask(t, w, backup) ==
    /\ completed[OpenKind] < Total(OpenKind)
    /\ HandOut(OpenKind, t, w, backup)
    /\ MarkReducePhase
    /\ UNCHANGED <<committer, completed, backupsWon>>

(* Nothing to hand out; stragglers may exist that are not past the cutoff. *)
TellWait ==
    /\ completed[OpenKind] < Total(OpenKind)
    /\ FirstIdle(OpenKind) = {}
    /\ MarkReducePhase
    /\ UNCHANGED <<state, nextAttempt, live, committer, completed,
                   backupsLaunched, backupsWon, events>>

TellExit ==
    /\ JobDone
    /\ UNCHANGED vars

RequestTask(w) ==
    \/ \E t \in Task, backup \in BOOLEAN : AssignTask(t, w, backup)
    \/ TellWait
    \/ TellExit

-----------------------------------------------------------------------------
(* ReportTask: a worker asks to publish attempt id of task t.              *)

IsLive(t, id) == \E a \in live[t] : a.id = id

(* Bug for HoldsClearance: a confirm is counted whatever the task's state. *)
HoldsClearanceStale(t, id) == id > 0 /\ committer[t] = id

HoldsClearance(t, id) == state[t] = "Committing" /\ committer[t] = id

(* Bugs for MayClear: a rival is cleared while one publishes; a reaped *)
(* attempt is cleared.                                                  *)
MayClearRival(t, id) == IsLive(t, id)
MayClearReaped(t, id) == state[t] = "InProgress" /\ id \in 1 .. nextAttempt[t]

MayClear(t, id) == state[t] = "InProgress" /\ IsLive(t, id)

(* Bug for Clear: the task counts as done when its attempt is cleared. *)
ClearCompletes(t, id) ==
    /\ MayClear(t, id)
    /\ state' = [state EXCEPT ![t] = "Completed"]
    /\ committer' = [committer EXCEPT ![t] = id]
    /\ live' = [live EXCEPT ![t] = {}]
    /\ completed' = [completed EXCEPT ![KindOf(t)] = @ + 1]
    /\ UNCHANGED <<nextAttempt, backupsLaunched, backupsWon, marks, events>>

Clear(t, id) ==
    /\ MayClear(t, id)
    /\ state' = [state EXCEPT ![t] = "Committing"]
    /\ committer' = [committer EXCEPT ![t] = id]
    /\ UNCHANGED <<nextAttempt, live, completed, backupsLaunched, backupsWon,
                   marks, events>>

(* The holder asking again gets the same answer. *)
ClearAgain(t, id) ==
    /\ HoldsClearance(t, id)
    /\ UNCHANGED vars

(* Every refusal is recorded as not a backup, whatever the attempt was. *)
Refuse(t, id, w) ==
    /\ ~HoldsClearance(t, id)
    /\ ~MayClear(t, id)
    /\ Record({TaskEvent("refused", t, id, w, FALSE)})
    /\ UNCHANGED <<state, nextAttempt, live, committer, completed,
                   backupsLaunched, backupsWon, marks>>

ReportTask(t, id, w) ==
    \/ t \notin Task /\ UNCHANGED vars
    \/ t \in Task /\ (Clear(t, id) \/ ClearAgain(t, id) \/ Refuse(t, id, w))

-----------------------------------------------------------------------------
(* CommitTask: the committer says its output is in place.                  *)

(* Bug for MarkPhaseEnd: the phase is compared before the commit counts. *)
MarkPhaseEndLate(k) ==
    marks' = IF completed[k] # Total(k) THEN marks
             ELSE marks \cup {IF k = "map" THEN "mapPhaseEnd" ELSE "jobEnd"}

MarkPhaseEnd(k) ==
    marks' = IF completed'[k] # Total(k) THEN marks
             ELSE marks \cup {IF k = "map" THEN "mapPhaseEnd" ELSE "jobEnd"}

Confirm(t, id, w, backup) ==
    /\ HoldsClearance(t, id)
    /\ backupsWon' = IF backup THEN backupsWon + 1 ELSE backupsWon
    /\ Record({TaskEvent("committed", t, id, w, backup)})
    /\ state' = [state EXCEPT ![t] = "Completed"]
    /\ live' = [live EXCEPT ![t] = {}]
    /\ completed' = [completed EXCEPT ![KindOf(t)] = @ + 1]
    /\ MarkPhaseEnd(KindOf(t))
    /\ UNCHANGED <<nextAttempt, committer, backupsLaunched>>

CommitTask(t, id, w, backup) ==
    \/ t \in Task /\ Confirm(t, id, w, backup)
    \/ (t \in Task => ~HoldsClearance(t, id)) /\ UNCHANGED vars

-----------------------------------------------------------------------------
(* The reaper.                                                             *)

(* The attempts a pass times: those running, or only the one publishing. *)
Timed ==
    {<<t, committer[t]>> : t \in {u \in Task : state[u] = "Committing"}}
    \cup UNION {{<<t, a.id>> : a \in live[t]} :
                    t \in {u \in Task : state[u] = "InProgress"}}

Survivors(t, expired) == {a \in live[t] : <<t, a.id>> \notin expired}

(* Bugs for GivesUp: a task whose last attempt was dropped is not put back; *)
(* a task whose committer died is not put back.                             *)
GivesUpCommitting(t, expired) ==
    state[t] = "Committing" /\ <<t, committer[t]>> \in expired
GivesUpInProgress(t, expired) ==
    state[t] = "InProgress" /\ Survivors(t, expired) = {}

GivesUp(t, expired) ==
    \/ state[t] = "Committing" /\ <<t, committer[t]>> \in expired
    \/ state[t] = "InProgress" /\ Survivors(t, expired) = {}

(* A reaped committer is logged without its worker or its backup flag. *)
ReapEvents(expired) ==
    {TaskEvent("reaped", t, committer[t], NoWorker, FALSE) :
        t \in {u \in Task : state[u] = "Committing" /\ GivesUp(u, expired)}}
    \cup UNION {{TaskEvent("reaped", t, a.id, a.worker, a.backup) :
                    a \in live[t] \ Survivors(t, expired)} :
                t \in {u \in Task : state[u] = "InProgress"}}

(* Bug for Reap: a task put back is taken off its phase's counter. *)
ReapUncounts(expired) ==
    /\ state' = [t \in Task |-> IF GivesUp(t, expired) THEN "Idle" ELSE state[t]]
    /\ live' = [t \in Task |-> IF GivesUp(t, expired) THEN {} ELSE live[t]]
    /\ completed' = [k \in Kind |-> completed[k]
                        - Cardinality({t \in TasksOf(k) : GivesUp(t, expired)})]
    /\ Record(ReapEvents(expired))
    /\ UNCHANGED <<nextAttempt, committer, backupsLaunched, backupsWon, marks>>

(* One pass over both phases that finds the attempts in expired overdue. *)
Reap(expired) ==
    /\ state' = [t \in Task |-> IF GivesUp(t, expired) THEN "Idle" ELSE state[t]]
    /\ live' = [t \in Task |->
                  CASE GivesUp(t, expired) -> {}
                    [] state[t] = "InProgress" -> Survivors(t, expired)
                    [] OTHER -> live[t]]
    /\ Record(ReapEvents(expired))
    /\ UNCHANGED <<nextAttempt, committer, completed,
                   backupsLaunched, backupsWon, marks>>

(* checkTimeouts stops looking once the job is done. *)
CheckTimeouts(expired) == ~JobDone /\ Reap(expired)

-----------------------------------------------------------------------------
(* Reports may name a task that does not exist; the handlers ignore them.  *)
BadTask == {<<"map", NMap>>, <<"wait", 0>>}

Bounded == \A t \in Task : nextAttempt'[t] <= MaxAttempts

Next ==
    \/ \E w \in Worker : RequestTask(w) /\ Bounded
    \/ \E t \in Task \cup BadTask, id \in 0 .. MaxAttempts, w \in Worker :
          ReportTask(t, id, w)
    \/ \E t \in Task \cup BadTask, id \in 0 .. MaxAttempts, w \in Worker,
          backup \in BOOLEAN : CommitTask(t, id, w, backup)
    \/ \E expired \in SUBSET Timed : CheckTimeouts(expired)

Spec == Init /\ [][Next]_vars

-----------------------------------------------------------------------------
(* Properties.                                                             *)

(* The fields keep the types of TaskInfo and Coordinator. *)
TypeOK ==
    /\ state \in [Task -> TaskState]
    /\ nextAttempt \in [Task -> Nat]
    /\ live \in [Task -> SUBSET Attempt]
    /\ committer \in [Task -> Nat]
    /\ completed \in [Kind -> Nat]
    /\ backupsLaunched \in Nat
    /\ backupsWon \in Nat
    /\ marks \subseteq Mark
    /\ events \subseteq Event

(* A task's state and its list of running attempts never disagree: an idle or *)
(* finished task runs nothing, one in progress runs something (or no reaper   *)
(* pass would ever free it), and the attempt cleared to publish is running.   *)
LiveMatchesState ==
    \A t \in Task :
        /\ state[t] \in {"Idle", "Completed"} => live[t] = {}
        /\ state[t] = "InProgress" => live[t] # {}
        /\ state[t] = "Committing" => IsLive(t, committer[t])

(* Speculation never runs more than two attempts of a task at once, and never *)
(* both on one worker, however backups, reports and reaper passes interleave. *)
AtMostTwoRunning ==
    \A t \in Task : \A a, b \in live[t] :
        a # b => /\ a.worker # b.worker
                 /\ a.id # b.id
                 /\ live[t] = {a, b}

(* "At most one backup per task is allowed" (docs/speculation.md, Limitations). *)
AtMostOneBackup ==
    \A t \in Task : Cardinality({a \in live[t] : a.backup}) <= 1

(* The counters that decide the phase and the end of the job are the numbers *)
(* of finished tasks: no commit is counted twice and none is lost.           *)
CompletedCount ==
    \A k \in Kind :
        completed[k] = Cardinality({t \in TasksOf(k) : state[t] = "Completed"})

(* No reduce task is ever handed out before every map task has finished. *)
ReduceAfterMaps ==
    (\E r \in TasksOf("reduce") : nextAttempt[r] > 0)
        => \A m \in TasksOf("map") : state[m] = "Completed"

(* The phase boundaries of the trace are stamped exactly when they happen:    *)
(* the last map commit, the first reduce assignment, the last reduce commit.  *)
PhaseMarks ==
    /\ "mapPhaseEnd" \in marks <=> NMap > 0 /\ completed["map"] = NMap
    /\ "reducePhaseStart" \in marks <=> \E r \in TasksOf("reduce") : nextAttempt[r] > 0
    /\ "jobEnd" \in marks <=> NReduce > 0 /\ completed["reduce"] = NReduce

(* An attempt is still a candidate only while no clearance was given since it *)
(* started: a clearance that is taken back takes every rival with it.         *)
CandidatesAreFresh ==
    \A t \in Task :
        /\ committer[t] <= nextAttempt[t]
        /\ \A a \in live[t] :
              /\ a.id \in 1 .. nextAttempt[t]
              /\ state[t] = "InProgress" => a.id > committer[t]

(* The log holds one committed event for a finished task and none for others. *)
CommittedExactlyOnce ==
    \A t \in Task :
        Cardinality({e \in events : e.kind = "committed" /\ e.task = t})
            = IF state[t] = "Completed" THEN 1 ELSE 0

(* An attempt logged as reaped is out for good: it is never again running,   *)
(* cleared, or logged as committed.                                          *)
ReapedStaysOut ==
    \A e \in events : e.kind = "reaped" =>
        /\ ~IsLive(e.task, e.attempt)
        /\ ~HoldsClearance(e.task, e.attempt)
        /\ \A f \in events : f.kind = "committed" /\ f.task = e.task
                                => f.attempt # e.attempt

(* backups_launched of the trace is the number of backups in its log. *)
BackupsCounted ==
    backupsLaunched = Cardinality({e \in events : e.kind = "assigned" /\ e.backup})

(* The log agrees with the coordinator's state and counters, whatever callers *)
(* repeat, lose or delay.                                                     *)
LogAgrees == CommittedExactlyOnce /\ ReapedStaysOut /\ BackupsCounted

(* The two-step commit implements the abstract right to publish. *)
ClearancePhase(t) ==
    CASE state[t] \in {"Idle", "InProgress"} -> "free"
      [] state[t] = "Committing" -> "held"
      [] OTHER -> "closed"

Right == INSTANCE Clearance WITH
            Task <- Task,
            phase <- [t \in Task |-> ClearancePhase(t)],
            holder <- committer

RightToPublish == Right!Spec
=============================================================================
