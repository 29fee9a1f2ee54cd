------------------------- MODULE CoordinatorProofs -------------------------
(***************************************************************************)
(* Proofs about module Coordinator, for any number of tasks and workers,   *)
(* any callers and any timing of the reaper.                               *)
(***************************************************************************)
EXTENDS Coordinator, FiniteSetTheorems, TLAPS

-----------------------------------------------------------------------------
(* The tasks.                                                              *)

LEMMA TaskKinds ==
    /\ \A t \in Task : KindOf(t) \in Kind /\ t \in TasksOf(KindOf(t))
    /\ \A k \in Kind : TasksOf(k) \subseteq Task
    /\ \A k \in Kind : \A t \in TasksOf(k) : KindOf(t) = k
BY DEF Task, TasksOf, KindOf, Kind

LEMMA TotalType == \A k \in Kind : Total(k) \in Nat
BY CountsAssumption DEF Total, Kind

LEMMA TaskCount ==
    ASSUME NEW k \in Kind
    PROVE  IsFiniteSet(TasksOf(k)) /\ Cardinality(TasksOf(k)) = Total(k)
<1>1. Total(k) \in Nat
  BY TotalType
<1>2. /\ IsFiniteSet(0 .. Total(k) - 1)
      /\ Cardinality(0 .. Total(k) - 1) = Total(k)
  BY <1>1, FS_Interval
<1>3. IsFiniteSet({k}) /\ Cardinality({k}) = 1
  BY FS_Singleton
<1>4. /\ IsFiniteSet({k} \X (0 .. Total(k) - 1))
      /\ Cardinality({k} \X (0 .. Total(k) - 1)) = 1 * Total(k)
  BY <1>2, <1>3, FS_Product
<1> QED
  BY <1>1, <1>4 DEF TasksOf

-----------------------------------------------------------------------------
(* The steps that change something.                                        *)

Assigns == \E t \in Task, w \in Worker, backup \in BOOLEAN : AssignTask(t, w, backup)
Clears == \E t \in Task, id \in Nat : Clear(t, id)
Refuses == \E t \in Task, id \in Nat, w \in Worker : Refuse(t, id, w)
Confirms == \E t \in Task, id \in Nat, w \in Worker, backup \in BOOLEAN :
                Confirm(t, id, w, backup)
Reaps == \E expired \in SUBSET Timed : Reap(expired)

(* What the coordinator may do, however many attempts there are: the steps of *)
(* Next, of TimedCoordinator and of MapReduce are among these.               *)
CoordStep ==
    \/ Assigns \/ TellWait \/ Clears \/ Refuses \/ Confirms \/ Reaps
    \/ UNCHANGED vars

LEMMA NextCases ==
    ASSUME [Next]_vars
    PROVE  CoordStep
<1>1. ASSUME NEW w \in Worker, RequestTask(w) PROVE Assigns \/ TellWait \/ UNCHANGED vars
  BY <1>1 DEF RequestTask, Assigns, TellExit
<1>2. ASSUME NEW t, NEW id \in 0 .. MaxAttempts, NEW w \in Worker, ReportTask(t, id, w)
      PROVE  Clears \/ Refuses \/ UNCHANGED vars
  BY <1>2, BoundAssumption DEF ReportTask, Clears, Refuses, ClearAgain
<1>3. ASSUME NEW t, NEW id \in 0 .. MaxAttempts, NEW w \in Worker,
             NEW backup \in BOOLEAN, CommitTask(t, id, w, backup)
      PROVE  Confirms \/ UNCHANGED vars
  BY <1>3, BoundAssumption DEF CommitTask, Confirms
<1>4. ASSUME NEW expired \in SUBSET Timed, CheckTimeouts(expired) PROVE Reaps
  BY <1>4 DEF CheckTimeouts, Reaps
<1> QED
  BY <1>1, <1>2, <1>3, <1>4 DEF Next, CoordStep

-----------------------------------------------------------------------------
(* Types.                                                                  *)

LEMMA RecordType ==
    ASSUME NEW es, es \subseteq Event, events \subseteq Event, Record(es)
    PROVE  events' \subseteq Event
BY DEF Record

LEMMA TaskEventType ==
    ASSUME NEW kind \in EventKind, NEW t \in Task, NEW id \in Nat,
           NEW w \in Worker \cup {NoWorker}, NEW backup \in BOOLEAN
    PROVE  TaskEvent(kind, t, id, w, backup) \in Event
BY DEF TaskEvent, Event

LEMMA StartType ==
    ASSUME TypeOK, NEW t \in Task, NEW w \in Worker, NEW backup \in BOOLEAN,
           Start(t, w, backup)
    PROVE  /\ state' \in [Task -> TaskState]
           /\ nextAttempt' \in [Task -> Nat]
           /\ live' \in [Task -> SUBSET Attempt]
           /\ events' \subseteq Event
<1> DEFINE id == nextAttempt[t] + 1
           a == [id |-> id, worker |-> w, backup |-> backup]
<1>1. id \in Nat /\ a \in Attempt
  BY DEF TypeOK, Attempt
<1>2. TaskEvent("assigned", t, id, w, backup) \in Event
  BY <1>1, TaskEventType DEF EventKind
<1>3. events' \subseteq Event
  <2>1. Record({TaskEvent("assigned", t, id, w, backup)})
    BY DEF Start
  <2> QED
    BY <1>2, <2>1, RecordType DEF TypeOK
<1>4. nextAttempt' = [nextAttempt EXCEPT ![t] = id]
      /\ live' = [live EXCEPT ![t] = @ \cup {a}]
      /\ state' = [state EXCEPT ![t] = "InProgress"]
  BY DEF Start
<1> HIDE DEF id, a
<1> QED
  BY <1>1, <1>3, <1>4 DEF TypeOK, TaskState

LEMMA AssignStarts ==
    ASSUME NEW t \in Task, NEW w \in Worker, NEW backup \in BOOLEAN,
           AssignTask(t, w, backup)
    PROVE  /\ Start(t, w, backup)
           /\ t \in TasksOf(OpenKind)
           /\ \/ t \in FirstIdle(OpenKind) /\ ~backup /\ UNCHANGED backupsLaunched
              \/ t \in Stragglers(OpenKind, w) /\ backup
                 /\ backupsLaunched' = backupsLaunched + 1
BY DEF AssignTask, HandOut, FirstIdle, Stragglers

LEMMA TypeStep ==
    ASSUME TypeOK, CoordStep
    PROVE  TypeOK'
<1> USE DEF TypeOK
<1>1. CASE Assigns
  <2> PICK t \in Task, w \in Worker, backup \in BOOLEAN : AssignTask(t, w, backup)
    BY <1>1 DEF Assigns
  <2>1. Start(t, w, backup) /\ backupsLaunched' \in Nat
    BY AssignStarts
  <2>2. marks' \subseteq Mark /\ UNCHANGED <<committer, completed, backupsWon>>
    BY DEF AssignTask, MarkReducePhase, Mark
  <2> QED
    BY <2>1, <2>2, StartType
<1>2. CASE TellWait
  BY <1>2 DEF TellWait, MarkReducePhase, Mark
<1>3. CASE Clears
  BY <1>3 DEF Clears, Clear, TaskState
<1>4. CASE Refuses
  <2> PICK t \in Task, id \in Nat, w \in Worker : Refuse(t, id, w)
    BY <1>4 DEF Refuses
  <2>1. TaskEvent("refused", t, id, w, FALSE) \in Event
    BY TaskEventType DEF EventKind
  <2>2. Record({TaskEvent("refused", t, id, w, FALSE)})
    BY DEF Refuse
  <2>3. events' \subseteq Event
    BY <2>1, <2>2, RecordType
  <2> QED
    BY <2>3 DEF Refuse
<1>5. CASE Confirms
  <2> PICK t \in Task, id \in Nat, w \in Worker, backup \in BOOLEAN :
           Confirm(t, id, w, backup)
    BY <1>5 DEF Confirms
  <2>1. TaskEvent("committed", t, id, w, backup) \in Event
    BY TaskEventType DEF EventKind
  <2>2. Record({TaskEvent("committed", t, id, w, backup)})
    BY DEF Confirm
  <2>3. events' \subseteq Event
    BY <2>1, <2>2, RecordType
  <2>4. completed' \in [Kind -> Nat]
    BY TaskKinds DEF Confirm
  <2>5. marks' \subseteq Mark
    BY DEF Confirm, MarkPhaseEnd, Mark
  <2>6. state' \in [Task -> TaskState] /\ live' \in [Task -> SUBSET Attempt]
    BY DEF Confirm, TaskState
  <2>7. backupsWon' \in Nat /\ UNCHANGED <<nextAttempt, committer, backupsLaunched>>
    BY DEF Confirm
  <2> QED
    BY <2>3, <2>4, <2>5, <2>6, <2>7
<1>6. CASE Reaps
  <2> PICK expired \in SUBSET Timed : Reap(expired)
    BY <1>6 DEF Reaps
  <2>1. ReapEvents(expired) \subseteq Event
    <3>1. ASSUME NEW t \in Task
          PROVE  TaskEvent("reaped", t, committer[t], NoWorker, FALSE) \in Event
      BY TaskEventType DEF EventKind
    <3>2. ASSUME NEW t \in Task, NEW a \in live[t]
          PROVE  TaskEvent("reaped", t, a.id, a.worker, a.backup) \in Event
      <4>1. a \in Attempt
        OBVIOUS
      <4> QED
        BY <4>1, TaskEventType DEF EventKind, Attempt
    <3>3. {TaskEvent("reaped", t, committer[t], NoWorker, FALSE) :
              t \in {u \in Task : state[u] = "Committing" /\ GivesUp(u, expired)}}
            \subseteq Event
      BY <3>1
    <3>4. ASSUME NEW t \in Task
          PROVE  {TaskEvent("reaped", t, a.id, a.worker, a.backup) :
                      a \in live[t] \ Survivors(t, expired)} \subseteq Event
      BY <3>2
    <3>5. UNION {{TaskEvent("reaped", t, a.id, a.worker, a.backup) :
                      a \in live[t] \ Survivors(t, expired)} :
                  t \in {u \in Task : state[u] = "InProgress"}} \subseteq Event
      BY <3>4
    <3> QED
      BY <3>3, <3>5 DEF ReapEvents
  <2>2. Record(ReapEvents(expired))
    BY DEF Reap
  <2>3. events' \subseteq Event
    BY <2>1, <2>2, RecordType
  <2>4. state' \in [Task -> TaskState]
    BY DEF Reap, TaskState
  <2>5. live' \in [Task -> SUBSET Attempt]
    BY DEF Reap, Survivors
  <2> QED
    BY <2>3, <2>4, <2>5 DEF Reap
<1>7. CASE UNCHANGED vars
  BY <1>7 DEF vars
<1> QED
  BY <1>1, <1>2, <1>3, <1>4, <1>5, <1>6, <1>7 DEF CoordStep

(* Every field keeps its type, whatever callers send (TaskInfo, Coordinator). *)
THEOREM TypeCorrect == Spec => []TypeOK
<1>1. Init => TypeOK
  BY DEF Init, TypeOK, TaskState, Kind, Mark
<1>2. TypeOK /\ [Next]_vars => TypeOK'
  BY TypeStep, NextCases
<1> QED
  BY <1>1, <1>2, PTL DEF Spec

-----------------------------------------------------------------------------
(* Which attempts run.                                                     *)

(* TypeOK and the three statements about attempts are inductive together: a  *)
(* backup's id is new because ids never exceed nextAttempt, and a task is    *)
(* put back to idle exactly when nothing of it is left running.              *)
AttemptInv == TypeOK /\ LiveMatchesState /\ CandidatesAreFresh /\ AtMostTwoRunning

(* Handing a task out, whether it was idle or is a straggler. *)
LEMMA StartAttemptInv ==
    ASSUME AttemptInv, NEW t \in Task, NEW w \in Worker, NEW backup \in BOOLEAN,
           AssignTask(t, w, backup)
    PROVE  LiveMatchesState' /\ CandidatesAreFresh' /\ AtMostTwoRunning'
<1> DEFINE id == nextAttempt[t] + 1
           new == [id |-> id, worker |-> w, backup |-> backup]
<1>1. /\ nextAttempt' = [nextAttempt EXCEPT ![t] = id]
      /\ state' = [state EXCEPT ![t] = "InProgress"]
      /\ live' = [live EXCEPT ![t] = @ \cup {new}]
      /\ UNCHANGED committer
  <2>1. Start(t, w, backup)
    BY AssignStarts
  <2>2. UNCHANGED committer
    BY DEF AssignTask
  <2> QED
    BY <2>1, <2>2 DEF Start
<1>2. /\ state \in [Task -> TaskState] /\ nextAttempt \in [Task -> Nat]
      /\ live \in [Task -> SUBSET Attempt] /\ committer \in [Task -> Nat]
  BY DEF AttemptInv, TypeOK
<1>3. /\ state'[t] = "InProgress" /\ nextAttempt'[t] = id
      /\ live'[t] = live[t] \cup {new} /\ committer'[t] = committer[t]
  BY <1>1, <1>2
<1>4. ASSUME NEW u \in Task, u # t
      PROVE  /\ state'[u] = state[u] /\ nextAttempt'[u] = nextAttempt[u]
             /\ live'[u] = live[u] /\ committer'[u] = committer[u]
  BY <1>1, <1>2, <1>4
<1>5. new.id = id /\ new.worker = w /\ id \in Nat /\ id > nextAttempt[t]
  BY <1>2
<1>6. \/ live[t] = {}
      \/ \E a \in live[t] : live[t] = {a} /\ a.worker # w /\ state[t] = "InProgress"
  <2>1. CASE t \in FirstIdle(OpenKind)
    BY <2>1 DEF FirstIdle, AttemptInv, LiveMatchesState
  <2>2. CASE t \in Stragglers(OpenKind, w)
    BY <2>2 DEF Stragglers
  <2> QED
    BY <2>1, <2>2, AssignStarts
<1>7. \A a \in live[t] : a.id \in 1 .. nextAttempt[t]
  BY DEF AttemptInv, CandidatesAreFresh
<1>8. /\ committer[t] <= nextAttempt[t]
      /\ state[t] = "InProgress" => \A a \in live[t] : a.id > committer[t]
  BY DEF AttemptInv, CandidatesAreFresh
<1> HIDE DEF id, new
<1>9. LiveMatchesState'
  <2>1. ASSUME NEW u \in Task
        PROVE  /\ state'[u] \in {"Idle", "Completed"} => live'[u] = {}
               /\ state'[u] = "InProgress" => live'[u] # {}
               /\ state'[u] = "Committing" => \E a \in live'[u] : a.id = committer'[u]
    <3>1. CASE u = t
      BY <3>1, <1>3
    <3>2. CASE u # t
      BY <3>2, <1>4 DEF AttemptInv, LiveMatchesState, IsLive
    <3> QED
      BY <3>1, <3>2
  <2> QED
    BY <2>1 DEF LiveMatchesState, IsLive
<1>10. CandidatesAreFresh'
  <2>1. ASSUME NEW u \in Task
        PROVE  /\ committer'[u] <= nextAttempt'[u]
               /\ \A a \in live'[u] :
                     /\ a.id \in 1 .. nextAttempt'[u]
                     /\ state'[u] = "InProgress" => a.id > committer'[u]
    <3>1. CASE u = t
      <4>1. committer[t] < id /\ id \in Nat /\ id >= 1 /\ committer[t] \in Nat
        BY <1>2, <1>5, <1>8
      <4>2. \A a \in live[t] : a.id \in 1 .. id
        BY <1>2, <1>5, <1>7
      <4>3. \A a \in live[t] : a.id > committer[t]
        BY <1>6, <1>8
      <4> QED
        BY <3>1, <4>1, <4>2, <4>3, <1>3, <1>5
    <3>2. CASE u # t
      BY <3>2, <1>4 DEF AttemptInv, CandidatesAreFresh
    <3> QED
      BY <3>1, <3>2
  <2> QED
    BY <2>1 DEF CandidatesAreFresh
<1>11. AtMostTwoRunning'
  <2>1. ASSUME NEW u \in Task, NEW a \in live'[u], NEW b \in live'[u], a # b
        PROVE  a.worker # b.worker /\ a.id # b.id /\ live'[u] = {a, b}
    <3>1. CASE u = t
      <4>1. PICK c \in live[t] : live[t] = {c} /\ c.worker # w
        BY <1>3, <1>6, <2>1, <3>1
      <4>2. c.id # id
        BY <1>2, <1>5, <1>7, <4>1
      <4> QED
        BY <1>3, <1>5, <2>1, <3>1, <4>1, <4>2
    <3>2. CASE u # t
      BY <2>1, <3>2, <1>4 DEF AttemptInv, AtMostTwoRunning
    <3> QED
      BY <3>1, <3>2
  <2> QED
    BY <2>1 DEF AtMostTwoRunning
<1> QED
  BY <1>9, <1>10, <1>11

LEMMA ClearAttemptInv ==
    ASSUME AttemptInv, NEW t \in Task, NEW id \in Nat, Clear(t, id)
    PROVE  LiveMatchesState' /\ CandidatesAreFresh' /\ AtMostTwoRunning'
<1>1. /\ state' = [state EXCEPT ![t] = "Committing"]
      /\ committer' = [committer EXCEPT ![t] = id]
      /\ live' = live /\ nextAttempt' = nextAttempt
      /\ \E a \in live[t] : a.id = id
  BY DEF Clear, MayClear, IsLive
<1>2. /\ state \in [Task -> TaskState] /\ committer \in [Task -> Nat]
      /\ nextAttempt \in [Task -> Nat]
  BY DEF AttemptInv, TypeOK
<1>3. LiveMatchesState'
  BY <1>1, <1>2 DEF AttemptInv, LiveMatchesState, IsLive
<1>4. CandidatesAreFresh'
  <2>1. id \in 1 .. nextAttempt[t]
    BY <1>1 DEF AttemptInv, CandidatesAreFresh
  <2> QED
    BY <2>1, <1>1, <1>2 DEF AttemptInv, CandidatesAreFresh
<1>5. AtMostTwoRunning'
  BY <1>1 DEF AttemptInv, AtMostTwoRunning
<1> QED
  BY <1>3, <1>4, <1>5

LEMMA ConfirmAttemptInv ==
    ASSUME AttemptInv, NEW t \in Task, NEW id \in Nat, NEW w \in Worker,
           NEW backup \in BOOLEAN, Confirm(t, id, w, backup)
    PROVE  LiveMatchesState' /\ CandidatesAreFresh' /\ AtMostTwoRunning'
<1>1. /\ state' = [state EXCEPT ![t] = "Completed"]
      /\ live' = [live EXCEPT ![t] = {}]
      /\ committer' = committer /\ nextAttempt' = nextAttempt
  BY DEF Confirm
<1>2. state \in [Task -> TaskState] /\ live \in [Task -> SUBSET Attempt]
  BY DEF AttemptInv, TypeOK
<1>3. LiveMatchesState'
  BY <1>1, <1>2 DEF AttemptInv, LiveMatchesState, IsLive
<1>4. CandidatesAreFresh'
  BY <1>1, <1>2 DEF AttemptInv, CandidatesAreFresh
<1>5. AtMostTwoRunning'
  BY <1>1, <1>2 DEF AttemptInv, AtMostTwoRunning
<1> QED
  BY <1>3, <1>4, <1>5

(* What a reaper pass does to one task. *)
LEMMA ReapTask ==
    ASSUME TypeOK, NEW expired, Reap(expired), NEW t \in Task
    PROVE  /\ live'[t] \subseteq live[t]
           /\ committer' = committer /\ nextAttempt' = nextAttempt
           /\ \/ state'[t] = "Idle" /\ live'[t] = {} /\ state[t] # "Completed"
              \/ /\ state'[t] = state[t]
                 /\ live'[t] = live[t] \/ state[t] = "InProgress"
                 /\ state[t] = "InProgress" => live'[t] # {}
<1>1. /\ state'[t] = IF GivesUp(t, expired) THEN "Idle" ELSE state[t]
      /\ live'[t] = CASE GivesUp(t, expired) -> {}
                      [] state[t] = "InProgress" -> Survivors(t, expired)
                      [] OTHER -> live[t]
      /\ committer' = committer /\ nextAttempt' = nextAttempt
  BY DEF Reap
<1>2. Survivors(t, expired) \subseteq live[t]
  BY DEF Survivors
<1>3. CASE GivesUp(t, expired)
  BY <1>1, <1>3 DEF GivesUp
<1>4. CASE ~GivesUp(t, expired) /\ state[t] = "InProgress"
  BY <1>1, <1>2, <1>4 DEF GivesUp
<1>5. CASE ~GivesUp(t, expired) /\ state[t] # "InProgress"
  BY <1>1, <1>5
<1> QED
  BY <1>3, <1>4, <1>5

LEMMA ReapAttemptInv ==
    ASSUME AttemptInv, NEW expired, Reap(expired)
    PROVE  LiveMatchesState' /\ CandidatesAreFresh' /\ AtMostTwoRunning'
<1>1. TypeOK
  BY DEF AttemptInv
<1>2. LiveMatchesState'
  BY <1>1, ReapTask DEF AttemptInv, LiveMatchesState, IsLive
<1>3. CandidatesAreFresh'
  BY <1>1, ReapTask DEF AttemptInv, CandidatesAreFresh
<1>4. AtMostTwoRunning'
  <2>1. ASSUME NEW t \in Task, NEW a \in live'[t], NEW b \in live'[t], a # b
        PROVE  a.worker # b.worker /\ a.id # b.id /\ live'[t] = {a, b}
    <3>1. live'[t] \subseteq live[t]
      BY <1>1, ReapTask
    <3>2. a.worker # b.worker /\ a.id # b.id /\ live[t] = {a, b}
      BY <2>1, <3>1 DEF AttemptInv, AtMostTwoRunning
    <3> QED
      BY <2>1, <3>1, <3>2
  <2> QED
    BY <2>1 DEF AtMostTwoRunning
<1> QED
  BY <1>2, <1>3, <1>4

LEMMA AttemptInvStep ==
    ASSUME AttemptInv, CoordStep
    PROVE  AttemptInv'
<1>1. TypeOK'
  BY TypeStep DEF AttemptInv
<1>2. LiveMatchesState' /\ CandidatesAreFresh' /\ AtMostTwoRunning'
  <2>1. CASE Assigns
    BY <2>1, StartAttemptInv DEF Assigns
  <2>2. CASE Clears
    BY <2>2, ClearAttemptInv DEF Clears
  <2>3. CASE Confirms
    BY <2>3, ConfirmAttemptInv DEF Confirms
  <2>4. CASE Reaps
    BY <2>4, ReapAttemptInv DEF Reaps
  <2>5. CASE UNCHANGED <<state, live, committer, nextAttempt>>
    BY <2>5 DEF AttemptInv, LiveMatchesState, CandidatesAreFresh, AtMostTwoRunning, IsLive
  <2>6. TellWait \/ Refuses \/ UNCHANGED vars
            => UNCHANGED <<state, live, committer, nextAttempt>>
    BY DEF TellWait, Refuses, Refuse, vars
  <2> QED
    BY <2>1, <2>2, <2>3, <2>4, <2>5, <2>6 DEF CoordStep
<1> QED
  BY <1>1, <1>2 DEF AttemptInv

(* What no step of the coordinator undoes: attempts handed out, clearances *)
(* given, tasks finished.                                                  *)
LEMMA CoordForward ==
    ASSUME AttemptInv, CoordStep, NEW t \in Task
    PROVE  /\ nextAttempt'[t] \in Nat /\ nextAttempt[t] <= nextAttempt'[t]
           /\ committer'[t] \in Nat /\ committer[t] <= committer'[t]
           /\ state[t] = "Completed" => state'[t] = "Completed" /\ committer'[t] = committer[t]
<1>1. /\ state \in [Task -> TaskState] /\ committer \in [Task -> Nat]
      /\ nextAttempt \in [Task -> Nat]
  BY DEF AttemptInv, TypeOK
<1>2. CASE Assigns
  <2> PICK u \in Task, w \in Worker, backup \in BOOLEAN : AssignTask(u, w, backup)
    BY <1>2 DEF Assigns
  <2>0. Start(u, w, backup) /\ committer' = committer
    BY AssignStarts DEF AssignTask
  <2>1. /\ nextAttempt' = [nextAttempt EXCEPT ![u] = nextAttempt[u] + 1]
        /\ state' = [state EXCEPT ![u] = "InProgress"]
        /\ committer' = committer
    BY <2>0 DEF Start
  <2>2. state[u] # "Completed"
    BY AssignStarts DEF FirstIdle, Stragglers
  <2> QED
    BY <1>1, <2>1, <2>2
<1>3. CASE Clears
  <2> PICK u \in Task, id \in Nat : Clear(u, id)
    BY <1>3 DEF Clears
  <2>1. /\ state[u] = "InProgress" /\ state' = [state EXCEPT ![u] = "Committing"]
        /\ committer' = [committer EXCEPT ![u] = id] /\ nextAttempt' = nextAttempt
    BY DEF Clear, MayClear
  <2>2. committer[u] < id
    BY DEF Clear, MayClear, IsLive, AttemptInv, CandidatesAreFresh
  <2> QED
    BY <1>1, <2>1, <2>2
<1>4. CASE Confirms
  BY <1>1, <1>4 DEF Confirms, Confirm
<1>5. CASE Reaps
  <2> PICK expired \in SUBSET Timed : Reap(expired)
    BY <1>5 DEF Reaps
  <2>1. state[t] = "Completed" => ~GivesUp(t, expired)
    BY DEF GivesUp
  <2> QED
    BY <1>1, <2>1 DEF Reap
<1>6. CASE UNCHANGED <<state, committer, nextAttempt>>
  BY <1>1, <1>6
<1>7. TellWait \/ Refuses \/ UNCHANGED vars => UNCHANGED <<state, committer, nextAttempt>>
  BY DEF TellWait, Refuses, Refuse, vars
<1> QED
  BY <1>2, <1>3, <1>4, <1>5, <1>6, <1>7 DEF CoordStep

LEMMA AttemptInvInit == Init => AttemptInv
BY DEF Init, AttemptInv, TypeOK, LiveMatchesState, CandidatesAreFresh,
       AtMostTwoRunning, IsLive, TaskState, Kind, Mark

LEMMA AttemptInvHolds == Spec => []AttemptInv
<1>1. Init => AttemptInv
  BY AttemptInvInit
<1>2. AttemptInv /\ [Next]_vars => AttemptInv'
  BY AttemptInvStep, NextCases
<1> QED
  BY <1>1, <1>2, PTL DEF Spec

(* A task's state and its running attempts never disagree (reap, CommitTask). *)
THEOREM LiveMatchesStateHolds == Spec => []LiveMatchesState
BY AttemptInvHolds, PTL DEF AttemptInv

(* Speculation never runs three attempts of a task, nor two on one worker *)
(* (straggler, start).                                                     *)
THEOREM AtMostTwoRunningHolds == Spec => []AtMostTwoRunning
BY AttemptInvHolds, PTL DEF AttemptInv

(* No running attempt of a task in progress has been cleared before, nor is *)
(* it older than one that was (ReportTask, reap).                            *)
THEOREM CandidatesAreFreshHolds == Spec => []CandidatesAreFresh
BY AttemptInvHolds, PTL DEF AttemptInv

-----------------------------------------------------------------------------
(* Counters and phases.                                                    *)

Done(k) == {t \in TasksOf(k) : state[t] = "Completed"}

(* A phase's counter is full only when every task of the phase is finished. *)
LEMMA FullCounter ==
    ASSUME CompletedCount, NEW k \in Kind
    PROVE  /\ completed[k] <= Total(k)
           /\ completed[k] = Total(k) => \A t \in TasksOf(k) : state[t] = "Completed"
<1>1. completed[k] = Cardinality(Done(k))
  BY DEF CompletedCount, Done
<1>2. Done(k) \in SUBSET TasksOf(k)
  BY DEF Done
<1>3. IsFiniteSet(TasksOf(k)) /\ Cardinality(TasksOf(k)) = Total(k)
  BY TaskCount
<1>4. /\ Cardinality(Done(k)) <= Cardinality(TasksOf(k))
      /\ Cardinality(TasksOf(k)) = Cardinality(Done(k)) => TasksOf(k) = Done(k)
  BY <1>2, <1>3, FS_Subset
<1>5. TasksOf(k) = Done(k) => \A t \in TasksOf(k) : state[t] = "Completed"
  BY DEF Done
<1> QED
  BY <1>1, <1>3, <1>4, <1>5

LEMMA CountUnchanged ==
    ASSUME CompletedCount, completed' = completed,
           \A t \in Task : state'[t] = "Completed" <=> state[t] = "Completed"
    PROVE  CompletedCount'
<1>1. ASSUME NEW k \in Kind PROVE Done(k)' = Done(k)
  <2>1. TasksOf(k) \subseteq Task
    BY TaskKinds
  <2> QED
    BY <2>1 DEF Done
<1> QED
  BY <1>1 DEF CompletedCount, Done

LEMMA CountConfirmed ==
    ASSUME TypeOK, CompletedCount, NEW t \in Task, NEW id, NEW w, NEW backup,
           Confirm(t, id, w, backup)
    PROVE  CompletedCount' /\ completed[KindOf(t)] < Total(KindOf(t))
<1>1. /\ state[t] = "Committing"
      /\ state' = [state EXCEPT ![t] = "Completed"]
      /\ completed' = [completed EXCEPT ![KindOf(t)] = @ + 1]
  BY DEF Confirm, HoldsClearance
<1>2. state \in [Task -> TaskState] /\ completed \in [Kind -> Nat]
  BY DEF TypeOK
<1>3. KindOf(t) \in Kind /\ t \in TasksOf(KindOf(t))
  BY TaskKinds
<1>4. CompletedCount'
  <2>1. ASSUME NEW k \in Kind
        PROVE  completed'[k] = Cardinality(Done(k)')
    <3>1. TasksOf(k) \subseteq Task /\ IsFiniteSet(TasksOf(k))
      BY TaskKinds, TaskCount
    <3>2. IsFiniteSet(Done(k))
      <4>1. Done(k) \in SUBSET TasksOf(k)
        BY DEF Done
      <4> QED
        BY <3>1, <4>1, FS_Subset
    <3>3. completed[k] = Cardinality(Done(k))
      BY DEF CompletedCount, Done
    <3>4. CASE k = KindOf(t)
      <4>1. t \notin Done(k) /\ Done(k)' = Done(k) \cup {t}
        BY <1>1, <1>2, <1>3, <3>1, <3>4 DEF Done
      <4>2. Cardinality(Done(k)') = Cardinality(Done(k)) + 1
        BY <3>2, <4>1, FS_AddElement
      <4> QED
        BY <1>1, <1>2, <3>3, <3>4, <4>2
    <3>5. CASE k # KindOf(t)
      <4>1. t \notin TasksOf(k)
        BY <3>5, TaskKinds
      <4>2. Done(k)' = Done(k)
        BY <1>1, <1>2, <3>1, <4>1 DEF Done
      <4>3. completed'[k] = completed[k]
        BY <1>1, <1>2, <3>5
      <4> QED
        BY <3>3, <4>2, <4>3
    <3> QED
      BY <3>4, <3>5
  <2> QED
    BY <2>1 DEF CompletedCount, Done
<1>5. completed[KindOf(t)] # Total(KindOf(t))
  BY <1>1, <1>3, FullCounter
<1>6. completed[KindOf(t)] <= Total(KindOf(t))
  BY <1>3, FullCounter
<1> QED
  BY <1>2, <1>3, <1>4, <1>5, <1>6, TotalType

(* A task that is not idle has been handed out. *)
Started == \A t \in Task : state[t] # "Idle" => nextAttempt[t] > 0

(* A reduce task has been handed out only if the map counter is full. *)
Barrier == (\E r \in TasksOf("reduce") : nextAttempt[r] > 0) => completed["map"] = NMap

PhaseInv == AttemptInv /\ CompletedCount /\ Started /\ Barrier

LEMMA AssignPhaseInv ==
    ASSUME PhaseInv, NEW t \in Task, NEW w \in Worker, NEW backup \in BOOLEAN,
           AssignTask(t, w, backup)
    PROVE  CompletedCount' /\ Started' /\ Barrier'
<1>1. Start(t, w, backup) /\ t \in TasksOf(OpenKind)
  BY AssignStarts
<1>2. completed' = completed
  BY DEF AssignTask
<1>3. /\ state' = [state EXCEPT ![t] = "InProgress"]
      /\ nextAttempt' = [nextAttempt EXCEPT ![t] = @ + 1]
  BY <1>1 DEF Start
<1>4. /\ state \in [Task -> TaskState] /\ nextAttempt \in [Task -> Nat]
      /\ completed \in [Kind -> Nat]
  BY DEF PhaseInv, AttemptInv, TypeOK
<1>5. state[t] \in {"Idle", "InProgress"}
  BY AssignStarts DEF FirstIdle, Stragglers
<1>6. CompletedCount'
  BY <1>2, <1>3, <1>4, <1>5, CountUnchanged DEF PhaseInv
<1>7. Started'
  BY <1>3, <1>4 DEF PhaseInv, Started
<1>8. Barrier'
  <2>1. CASE OpenKind = "map"
    <3>1. t \notin TasksOf("reduce")
      BY <1>1, <2>1, TaskKinds DEF Kind
    <3>2. \A r \in TasksOf("reduce") : nextAttempt'[r] = nextAttempt[r]
      BY <3>1, <1>3, <1>4, TaskKinds DEF Kind
    <3> QED
      BY <3>2, <1>2 DEF PhaseInv, Barrier
  <2>2. CASE OpenKind = "reduce"
    <3>1. ~(completed["map"] < NMap)
      BY <2>2 DEF OpenKind
    <3>2. completed["map"] <= NMap /\ completed["map"] \in Nat
      BY <1>4, FullCounter DEF PhaseInv, Kind, Total
    <3> QED
      BY <3>1, <3>2, <1>2, CountsAssumption DEF Barrier
  <2> QED
    BY <2>1, <2>2 DEF OpenKind
<1> QED
  BY <1>6, <1>7, <1>8

LEMMA ConfirmPhaseInv ==
    ASSUME PhaseInv, NEW t \in Task, NEW id \in Nat, NEW w \in Worker,
           NEW backup \in BOOLEAN, Confirm(t, id, w, backup)
    PROVE  CompletedCount' /\ Started' /\ Barrier'
<1>1. CompletedCount' /\ completed[KindOf(t)] < Total(KindOf(t))
  BY CountConfirmed DEF PhaseInv, AttemptInv
<1>2. /\ state[t] = "Committing"
      /\ state' = [state EXCEPT ![t] = "Completed"]
      /\ nextAttempt' = nextAttempt
      /\ completed' = [completed EXCEPT ![KindOf(t)] = @ + 1]
  BY DEF Confirm, HoldsClearance
<1>3. state \in [Task -> TaskState] /\ completed \in [Kind -> Nat]
  BY DEF PhaseInv, AttemptInv, TypeOK
<1>4. Started'
  BY <1>2, <1>3 DEF PhaseInv, Started
<1>5. Barrier'
  <2>1. CASE KindOf(t) = "map"
    <3>1. completed["map"] # NMap
      BY <1>1, <1>3, <2>1, CountsAssumption DEF Total, Kind
    <3> QED
      BY <3>1, <1>2 DEF PhaseInv, Barrier
  <2>2. CASE KindOf(t) # "map"
    BY <2>2, <1>2, <1>3 DEF PhaseInv, Barrier, Kind
  <2> QED
    BY <2>1, <2>2
<1> QED
  BY <1>1, <1>4, <1>5

LEMMA PhaseInvStep ==
    ASSUME PhaseInv, CoordStep
    PROVE  PhaseInv'
<1>1. AttemptInv'
  BY AttemptInvStep DEF PhaseInv
<1>2. CompletedCount' /\ Started' /\ Barrier'
  <2>1. CASE Assigns
    BY <2>1, AssignPhaseInv DEF Assigns
  <2>2. CASE Confirms
    BY <2>2, ConfirmPhaseInv DEF Confirms
  <2>3. CASE Clears
    <3> PICK t \in Task, id \in Nat : Clear(t, id)
      BY <2>3 DEF Clears
    <3>1. /\ state[t] = "InProgress"
          /\ state' = [state EXCEPT ![t] = "Committing"]
          /\ completed' = completed /\ nextAttempt' = nextAttempt
      BY DEF Clear, MayClear
    <3>2. state \in [Task -> TaskState]
      BY DEF PhaseInv, AttemptInv, TypeOK
    <3>3. CompletedCount'
      BY <3>1, <3>2, CountUnchanged DEF PhaseInv
    <3> QED
      BY <3>1, <3>2, <3>3 DEF PhaseInv, Started, Barrier
  <2>4. CASE Reaps
    <3> PICK expired \in SUBSET Timed : Reap(expired)
      BY <2>4 DEF Reaps
    <3>1. completed' = completed /\ nextAttempt' = nextAttempt
      BY DEF Reap
    <3>2. TypeOK
      BY DEF PhaseInv, AttemptInv
    <3>3. ASSUME NEW t \in Task
          PROVE  state'[t] = state[t] \/ (state'[t] = "Idle" /\ state[t] # "Completed")
      <4>1. \/ state'[t] = "Idle" /\ live'[t] = {} /\ state[t] # "Completed"
            \/ /\ state'[t] = state[t]
               /\ live'[t] = live[t] \/ state[t] = "InProgress"
               /\ state[t] = "InProgress" => live'[t] # {}
        BY <3>2, ReapTask
      <4> QED
        BY <4>1
    <3>4. CompletedCount'
      BY <3>1, <3>3, CountUnchanged DEF PhaseInv
    <3> QED
      BY <3>1, <3>3, <3>4 DEF PhaseInv, Started, Barrier
  <2>5. CASE UNCHANGED <<state, completed, nextAttempt>>
    BY <2>5, CountUnchanged DEF PhaseInv, Started, Barrier
  <2>6. TellWait \/ Refuses \/ UNCHANGED vars
            => UNCHANGED <<state, completed, nextAttempt>>
    BY DEF TellWait, Refuses, Refuse, vars
  <2> QED
    BY <2>1, <2>2, <2>3, <2>4, <2>5, <2>6 DEF CoordStep
<1> QED
  BY <1>1, <1>2 DEF PhaseInv

LEMMA PhaseInvInit == Init => PhaseInv
<1> SUFFICES ASSUME Init PROVE PhaseInv
  OBVIOUS
<1>1. AttemptInv
  BY AttemptInvInit
<1>2. CompletedCount
  <2>1. ASSUME NEW k \in Kind PROVE Done(k) = {}
    BY TaskKinds DEF Done, Init
  <2> QED
    BY <2>1, FS_EmptySet DEF CompletedCount, Done, Init
<1>3. Started /\ Barrier
  BY TaskKinds DEF Init, Started, Barrier, Kind
<1> QED
  BY <1>1, <1>2, <1>3 DEF PhaseInv

LEMMA PhaseInvHolds == Spec => []PhaseInv
<1>1. Init => PhaseInv
  BY PhaseInvInit
<1>2. PhaseInv /\ [Next]_vars => PhaseInv'
  BY PhaseInvStep, NextCases
<1> QED
  BY <1>1, <1>2, PTL DEF Spec

(* mapTasksCompleted and reduceTasksCompleted count the finished tasks. *)
THEOREM CompletedCountHolds == Spec => []CompletedCount
BY PhaseInvHolds, PTL DEF PhaseInv

(* No reduce task is handed out before every map task has finished *)
(* (RequestTask).                                                   *)
THEOREM ReduceAfterMapsHolds == Spec => []ReduceAfterMaps
<1>1. PhaseInv => ReduceAfterMaps
  BY FullCounter DEF PhaseInv, Barrier, ReduceAfterMaps, Kind, Total
<1> QED
  BY <1>1, PhaseInvHolds, PTL

-----------------------------------------------------------------------------
(* Phase boundaries of the trace.                                          *)

MarksInv == PhaseInv /\ PhaseMarks

LEMMA AssignMarks ==
    ASSUME MarksInv, NEW t \in Task, NEW w \in Worker, NEW backup \in BOOLEAN,
           AssignTask(t, w, backup)
    PROVE  PhaseMarks'
<1>1. Start(t, w, backup) /\ t \in TasksOf(OpenKind)
  BY AssignStarts
<1>2. completed' = completed /\ MarkReducePhase
  BY DEF AssignTask
<1>3. nextAttempt' = [nextAttempt EXCEPT ![t] = @ + 1] /\ nextAttempt \in [Task -> Nat]
  BY <1>1 DEF Start, MarksInv, PhaseInv, AttemptInv, TypeOK
<1>4. CASE OpenKind = "map"
  <2>1. \A r \in TasksOf("reduce") : nextAttempt'[r] = nextAttempt[r]
    BY <1>1, <1>3, <1>4, TaskKinds DEF Kind
  <2>2. marks' = marks
    BY <1>2, <1>4 DEF MarkReducePhase
  <2> QED
    BY <1>2, <2>1, <2>2 DEF MarksInv, PhaseMarks
<1>5. CASE OpenKind = "reduce"
  <2>1. t \in TasksOf("reduce") /\ nextAttempt'[t] > 0
    BY <1>1, <1>3, <1>5
  <2>2. marks' = marks \cup {"reducePhaseStart"}
    BY <1>2, <1>5 DEF MarkReducePhase
  <2> QED
    BY <1>2, <2>1, <2>2 DEF MarksInv, PhaseMarks
<1> QED
  BY <1>4, <1>5 DEF OpenKind

(* A request told to wait in the reduce phase finds its start stamped: *)
(* reduce task 0 would otherwise be idle and be handed out.            *)
LEMMA WaitMarks ==
    ASSUME MarksInv, TellWait
    PROVE  PhaseMarks'
<1>1. completed' = completed /\ nextAttempt' = nextAttempt /\ MarkReducePhase
  BY DEF TellWait
<1>2. CASE OpenKind = "map"
  BY <1>1, <1>2 DEF MarkReducePhase, MarksInv, PhaseMarks
<1>3. CASE OpenKind = "reduce"
  <2>1. completed["reduce"] < NReduce /\ completed["reduce"] \in Nat
    BY <1>3 DEF TellWait, Total, MarksInv, PhaseInv, AttemptInv, TypeOK, Kind
  <2> DEFINE r == <<"reduce", 0>>
  <2>2. r \in TasksOf("reduce") /\ r[2] = 0
    BY <2>1, CountsAssumption DEF TasksOf, Total
  <2>3. r \notin FirstIdle("reduce")
    BY <1>3 DEF TellWait
  <2>4. state[r] # "Idle"
    BY <2>2, <2>3 DEF FirstIdle
  <2>5. nextAttempt[r] > 0
    BY <2>2, <2>4, TaskKinds DEF MarksInv, PhaseInv, Started, Kind
  <2>6. "reducePhaseStart" \in marks
    BY <2>2, <2>5 DEF MarksInv, PhaseMarks
  <2> QED
    BY <1>1, <2>6 DEF MarkReducePhase, MarksInv, PhaseMarks
<1> QED
  BY <1>2, <1>3 DEF OpenKind

LEMMA ConfirmMarks ==
    ASSUME MarksInv, NEW t \in Task, NEW id \in Nat, NEW w \in Worker,
           NEW backup \in BOOLEAN, Confirm(t, id, w, backup)
    PROVE  PhaseMarks'
<1> DEFINE k == KindOf(t)
<1>1. completed[k] < Total(k)
  BY CountConfirmed DEF MarksInv, PhaseInv, AttemptInv
<1>2. /\ completed' = [completed EXCEPT ![k] = @ + 1] /\ nextAttempt' = nextAttempt
      /\ MarkPhaseEnd(k)
  BY DEF Confirm
<1>3. completed \in [Kind -> Nat] /\ k \in Kind
  BY TaskKinds DEF MarksInv, PhaseInv, AttemptInv, TypeOK
<1>4. /\ marks' = IF completed'[k] # Total(k) THEN marks
                  ELSE marks \cup {IF k = "map" THEN "mapPhaseEnd" ELSE "jobEnd"}
  BY <1>2 DEF MarkPhaseEnd
<1>5. PhaseMarks
  BY DEF MarksInv
<1> HIDE DEF k
<1>6. CASE k = "map"
  <2>1. /\ completed["map"] < NMap /\ completed["map"] \in Nat
        /\ completed'["map"] = completed["map"] + 1
        /\ completed'["reduce"] = completed["reduce"]
    BY <1>1, <1>2, <1>3, <1>6 DEF Total, Kind
  <2>2. marks' = IF completed'["map"] # NMap THEN marks ELSE marks \cup {"mapPhaseEnd"}
    BY <1>4, <1>6 DEF Total
  <2> QED
    BY <1>2, <1>5, <2>1, <2>2, CountsAssumption DEF PhaseMarks
<1>7. CASE k = "reduce"
  <2>1. /\ completed["reduce"] < NReduce /\ completed["reduce"] \in Nat
        /\ completed'["reduce"] = completed["reduce"] + 1
        /\ completed'["map"] = completed["map"]
    BY <1>1, <1>2, <1>3, <1>7 DEF Total, Kind
  <2>2. marks' = IF completed'["reduce"] # NReduce THEN marks ELSE marks \cup {"jobEnd"}
    BY <1>4, <1>7 DEF Total
  <2> QED
    BY <1>2, <1>5, <2>1, <2>2, CountsAssumption DEF PhaseMarks
<1> QED
  BY <1>3, <1>6, <1>7 DEF Kind

LEMMA MarksInvStep ==
    ASSUME MarksInv, CoordStep
    PROVE  MarksInv'
<1>1. PhaseInv'
  BY PhaseInvStep DEF MarksInv
<1>2. PhaseMarks'
  <2>1. CASE Assigns
    BY <2>1, AssignMarks DEF Assigns
  <2>2. CASE TellWait
    BY <2>2, WaitMarks
  <2>3. CASE Confirms
    BY <2>3, ConfirmMarks DEF Confirms
  <2>4. CASE UNCHANGED <<marks, completed, nextAttempt>>
    BY <2>4 DEF MarksInv, PhaseMarks
  <2>5. Clears \/ Refuses \/ Reaps \/ UNCHANGED vars
            => UNCHANGED <<marks, completed, nextAttempt>>
    BY DEF Clears, Clear, Refuses, Refuse, Reaps, Reap, vars
  <2> QED
    BY <2>1, <2>2, <2>3, <2>4, <2>5 DEF CoordStep
<1> QED
  BY <1>1, <1>2 DEF MarksInv

(* The trace's phase boundaries are stamped exactly when they happen *)
(* (RequestTask, CommitTask).                                         *)
THEOREM PhaseMarksHolds == Spec => []PhaseMarks
<1>1. Init => PhaseMarks
  BY TaskKinds, CountsAssumption DEF Init, PhaseMarks, Kind
<1>2. PhaseMarks /\ PhaseInv /\ [Next]_vars => PhaseMarks'
  BY MarksInvStep, NextCases DEF MarksInv
<1> QED
  BY <1>1, <1>2, PhaseInvHolds, PTL DEF Spec

-----------------------------------------------------------------------------
(* The two-step commit implements the right to publish.                    *)

LEMMA ClearGrants ==
    ASSUME AttemptInv, NEW t \in Task, NEW id \in Nat, Clear(t, id)
    PROVE  Right!Grant(t)
<1>1. /\ state[t] = "InProgress"
      /\ state' = [state EXCEPT ![t] = "Committing"]
      /\ committer' = [committer EXCEPT ![t] = id]
      /\ \E a \in live[t] : a.id = id
  BY DEF Clear, MayClear, IsLive
<1>2. state \in [Task -> TaskState] /\ committer \in [Task -> Nat]
  BY DEF AttemptInv, TypeOK
<1>3. id > committer[t]
  BY <1>1 DEF AttemptInv, CandidatesAreFresh
<1>4. ClearancePhase(t) = "free" /\ ClearancePhase(t)' = "held"
  BY <1>1, <1>2 DEF ClearancePhase
<1>5. \A u \in Task : u # t => ClearancePhase(u)' = ClearancePhase(u)
  BY <1>1, <1>2 DEF ClearancePhase
<1>6. committer'[t] = id
  BY <1>1, <1>2
<1> QED
  BY <1>1, <1>3, <1>4, <1>5, <1>6 DEF Right!Grant

LEMMA ConfirmCloses ==
    ASSUME AttemptInv, NEW t \in Task, NEW id \in Nat, NEW w \in Worker,
           NEW backup \in BOOLEAN, Confirm(t, id, w, backup)
    PROVE  Right!Close(t)
<1>1. /\ state[t] = "Committing"
      /\ state' = [state EXCEPT ![t] = "Completed"]
      /\ committer' = committer
  BY DEF Confirm, HoldsClearance
<1>2. state \in [Task -> TaskState]
  BY DEF AttemptInv, TypeOK
<1>3. ClearancePhase(t) = "held" /\ ClearancePhase(t)' = "closed"
  BY <1>1, <1>2 DEF ClearancePhase
<1>4. \A u \in Task : u # t => ClearancePhase(u)' = ClearancePhase(u)
  BY <1>1, <1>2 DEF ClearancePhase
<1> QED
  BY <1>1, <1>3, <1>4 DEF Right!Close

LEMMA ReapRevokes ==
    ASSUME AttemptInv, NEW expired \in SUBSET Timed, Reap(expired)
    PROVE  \E ts \in SUBSET Task : Right!Revoke(ts)
<1> DEFINE ts == {t \in Task : state[t] = "Committing" /\ state'[t] = "Idle"}
<1>1. TypeOK /\ committer' = committer
  BY DEF AttemptInv, Reap
<1>2. ASSUME NEW t \in Task
      PROVE  /\ t \in ts => ClearancePhase(t) = "held" /\ ClearancePhase(t)' = "free"
             /\ t \notin ts => ClearancePhase(t)' = ClearancePhase(t)
  <2>1. \/ state'[t] = "Idle" /\ live'[t] = {} /\ state[t] # "Completed"
        \/ /\ state'[t] = state[t]
           /\ live'[t] = live[t] \/ state[t] = "InProgress"
           /\ state[t] = "InProgress" => live'[t] # {}
    BY <1>1, ReapTask
  <2>2. state[t] \in TaskState
    BY <1>1 DEF TypeOK
  <2> QED
    BY <2>1, <2>2 DEF ClearancePhase, TaskState
<1>3. ts \in SUBSET Task
  OBVIOUS
<1> HIDE DEF ts
<1>4. Right!Revoke(ts)
  BY <1>1, <1>2, <1>3 DEF Right!Revoke
<1> QED
  BY <1>3, <1>4

(* The coordinator implements module Clearance: at most one attempt of a task *)
(* holds the right to publish, none gets it twice, and a finished task is     *)
(* never opened again (ReportTask, CommitTask, reap).                         *)
THEOREM Implements == Spec => RightToPublish
<1>1. Init => Right!Init
  BY DEF Init, Right!Init, ClearancePhase
<1>2. AttemptInv /\ [Next]_vars => [Right!Next]_Right!vars
  <2> SUFFICES ASSUME AttemptInv, [Next]_vars PROVE [Right!Next]_Right!vars
    OBVIOUS
  <2>1. CASE Assigns
    <3> PICK t \in Task, w \in Worker, backup \in BOOLEAN : AssignTask(t, w, backup)
      BY <2>1 DEF Assigns
    <3>1. Start(t, w, backup) /\ state[t] \in {"Idle", "InProgress"}
      BY AssignStarts DEF FirstIdle, Stragglers
    <3>2. state' = [state EXCEPT ![t] = "InProgress"] /\ state \in [Task -> TaskState]
      BY <3>1 DEF Start, AttemptInv, TypeOK
    <3>3. \A u \in Task : ClearancePhase(u)' = ClearancePhase(u)
      BY <3>1, <3>2 DEF ClearancePhase
    <3>4. committer' = committer
      BY DEF AssignTask
    <3> QED
      BY <3>3, <3>4 DEF Right!vars
  <2>2. CASE Clears
    BY <2>2, ClearGrants DEF Clears, Right!Next
  <2>3. CASE Confirms
    BY <2>3, ConfirmCloses DEF Confirms, Right!Next
  <2>4. CASE Reaps
    BY <2>4, ReapRevokes DEF Reaps, Right!Next
  <2>5. CASE UNCHANGED <<state, committer>>
    BY <2>5 DEF ClearancePhase, Right!vars
  <2>6. TellWait \/ Refuses \/ UNCHANGED vars => UNCHANGED <<state, committer>>
    BY DEF TellWait, Refuses, Refuse, vars
  <2> QED
    BY <2>1, <2>2, <2>3, <2>4, <2>5, <2>6, NextCases DEF CoordStep
<1> QED
  BY <1>1, <1>2, AttemptInvHolds, PTL DEF Spec, RightToPublish, Right!Spec

-----------------------------------------------------------------------------
(* The log.                                                                *)

Noted == {"reaped", "refused"}

(* What a step of the coordinator may add to the log. *)
LEMMA EventsGrow ==
    ASSUME AttemptInv, CoordStep
    PROVE  /\ events \subseteq events'
           /\ \A e \in events' \ events :
                 \/ e.kind \in Noted
                 \/ e.kind = "committed" /\ Confirms /\ state'[e.task] = "Completed"
                 \/ /\ e.kind = "assigned" /\ Assigns /\ e.worker \in Worker
                    /\ state[e.task] # "Completed"
                    /\ e.attempt = nextAttempt[e.task] + 1
                    /\ nextAttempt'[e.task] = nextAttempt[e.task] + 1
           /\ \A e, f \in events' \ events : e = f \/ e.kind \in Noted
<1>0. state \in [Task -> TaskState] /\ nextAttempt \in [Task -> Nat]
  BY DEF AttemptInv, TypeOK
<1>1. CASE Assigns
  <2> PICK t \in Task, w \in Worker, backup \in BOOLEAN : AssignTask(t, w, backup)
    BY <1>1 DEF Assigns
  <2>1. Start(t, w, backup) /\ state[t] # "Completed"
    BY AssignStarts DEF FirstIdle, Stragglers
  <2> PICK a : a = TaskEvent("assigned", t, nextAttempt[t] + 1, w, backup)
    OBVIOUS
  <2>2. /\ a.kind = "assigned" /\ a.task = t /\ a.attempt = nextAttempt[t] + 1
        /\ a.worker = w
    BY DEF TaskEvent
  <2>3. events \subseteq events' /\ \A e \in events' \ events : e = a
    BY <2>1 DEF Start, Record
  <2>4. nextAttempt'[t] = nextAttempt[t] + 1
    BY <1>0, <2>1 DEF Start
  <2> QED
    BY <1>1, <2>1, <2>2, <2>3, <2>4
<1>2. CASE Confirms
  <2> PICK t \in Task, id \in Nat, w \in Worker, backup \in BOOLEAN :
              Confirm(t, id, w, backup)
    BY <1>2 DEF Confirms
  <2> PICK c : c = TaskEvent("committed", t, id, w, backup)
    OBVIOUS
  <2>1. c.kind = "committed" /\ c.task = t
    BY DEF TaskEvent
  <2>2. events \subseteq events' /\ \A e \in events' \ events : e = c
    BY DEF Confirm, Record
  <2>3. state'[t] = "Completed"
    BY <1>0 DEF Confirm
  <2> QED
    BY <1>2, <2>1, <2>2, <2>3
<1>3. CASE Refuses
  <2> PICK t \in Task, id \in Nat, w \in Worker : Refuse(t, id, w)
    BY <1>3 DEF Refuses
  <2>1. \A e \in events' \ events : e = TaskEvent("refused", t, id, w, FALSE)
    BY DEF Refuse, Record
  <2> QED
    BY <2>1 DEF Refuse, Record, TaskEvent, Noted
<1>4. CASE Reaps
  <2> PICK expired \in SUBSET Timed : Reap(expired)
    BY <1>4 DEF Reaps
  <2>1. events \subseteq events' /\ \A e \in events' \ events : e \in ReapEvents(expired)
    BY DEF Reap, Record
  <2>2. \A e \in ReapEvents(expired) : e.kind = "reaped"
    BY DEF ReapEvents, TaskEvent
  <2> QED
    BY <2>1, <2>2 DEF Noted
<1>5. TellWait \/ Clears \/ UNCHANGED vars => events' = events
  BY DEF TellWait, Clears, Clear, vars
<1> QED
  BY <1>1, <1>2, <1>3, <1>4, <1>5 DEF CoordStep

(* What a pass takes back is not running any more when it is logged. *)
LEMMA ReapLogs ==
    ASSUME AttemptInv, Reaps
    PROVE  /\ events \subseteq events'
           /\ \A e \in events' \ events :
                 /\ e.kind = "reaped" /\ e.task \in Task /\ state[e.task] # "Completed"
                 /\ e.attempt \in Nat /\ e.attempt <= nextAttempt[e.task]
                 /\ \A a \in live'[e.task] : a.id # e.attempt
<1> PICK expired \in SUBSET Timed : Reap(expired)
  BY DEF Reaps
<1>0. state \in [Task -> TaskState] /\ live \in [Task -> SUBSET Attempt]
      /\ committer \in [Task -> Nat]
  BY DEF AttemptInv, TypeOK
<1>1. events \subseteq events' /\ events' \ events \subseteq ReapEvents(expired)
  BY DEF Reap, Record
<1>2. ASSUME NEW t \in Task, state[t] = "Committing", GivesUp(t, expired),
             NEW e, e = TaskEvent("reaped", t, committer[t], NoWorker, FALSE)
      PROVE  /\ e.kind = "reaped" /\ e.task \in Task /\ state[e.task] # "Completed"
             /\ e.attempt \in Nat /\ e.attempt <= nextAttempt[e.task]
             /\ \A a \in live'[e.task] : a.id # e.attempt
  <2>1. e.kind = "reaped" /\ e.task = t /\ e.attempt = committer[t]
    BY <1>2 DEF TaskEvent
  <2>2. live'[t] = {}
    BY <1>2 DEF Reap
  <2>3. committer[t] <= nextAttempt[t]
    BY DEF AttemptInv, CandidatesAreFresh
  <2> QED
    BY <1>0, <1>2, <2>1, <2>2, <2>3
<1>3. ASSUME NEW t \in Task, state[t] = "InProgress", NEW a \in live[t] \ Survivors(t, expired),
             NEW e, e = TaskEvent("reaped", t, a.id, a.worker, a.backup)
      PROVE  /\ e.kind = "reaped" /\ e.task \in Task /\ state[e.task] # "Completed"
             /\ e.attempt \in Nat /\ e.attempt <= nextAttempt[e.task]
             /\ \A b \in live'[e.task] : b.id # e.attempt
  <2>1. e.kind = "reaped" /\ e.task = t /\ e.attempt = a.id
    BY <1>3 DEF TaskEvent
  <2>2. live'[t] \subseteq Survivors(t, expired)
    BY <1>3 DEF Reap
  <2>3. <<t, a.id>> \in expired
    BY DEF Survivors
  <2>4. \A b \in live'[t] : b.id # a.id
    BY <2>2, <2>3 DEF Survivors
  <2>5. a.id \in Nat /\ a.id <= nextAttempt[t]
    BY <1>0 DEF AttemptInv, CandidatesAreFresh, TypeOK
  <2> QED
    BY <1>3, <2>1, <2>4, <2>5
<1>4. ASSUME NEW e \in ReapEvents(expired)
      PROVE  \/ \E t \in Task : /\ state[t] = "Committing" /\ GivesUp(t, expired)
                                /\ e = TaskEvent("reaped", t, committer[t], NoWorker, FALSE)
             \/ \E t \in Task : /\ state[t] = "InProgress"
                                /\ \E a \in live[t] \ Survivors(t, expired) :
                                      e = TaskEvent("reaped", t, a.id, a.worker, a.backup)
  BY DEF ReapEvents
<1> QED
  BY <1>1, <1>2, <1>3, <1>4

(* The one committed event of a finished task names the attempt cleared last. *)
CommittedOf(t) == {e \in events : e.kind = "committed" /\ e.task = t}

OneCommit ==
    \A t \in Task :
        IF state[t] = "Completed"
        THEN \E c : CommittedOf(t) = {c} /\ c.attempt = committer[t]
        ELSE CommittedOf(t) = {}

(* A reaped attempt is none to come, none running, and not the one that won. *)
ReapedAreOut ==
    \A e \in events : e.kind = "reaped" =>
        /\ e.task \in Task /\ e.attempt \in Nat /\ e.attempt <= nextAttempt[e.task]
        /\ ~IsLive(e.task, e.attempt)
        /\ state[e.task] = "Completed" => committer[e.task] # e.attempt

BackupsLogged == {e \in events : e.kind = "assigned" /\ e.backup}

BackupsAreLogged ==
    /\ IsFiniteSet(BackupsLogged) /\ backupsLaunched = Cardinality(BackupsLogged)
    /\ \A e \in BackupsLogged : e.attempt <= nextAttempt[e.task]

LEMMA OneCommitStep ==
    ASSUME "committed" \in LoggedKinds, AttemptInv, OneCommit, CoordStep
    PROVE  OneCommit'
<1>0. state \in [Task -> TaskState] /\ committer \in [Task -> Nat]
  BY DEF AttemptInv, TypeOK
<1>1. CASE Confirms
  <2> PICK t \in Task, id \in Nat, w \in Worker, backup \in BOOLEAN :
              Confirm(t, id, w, backup)
    BY <1>1 DEF Confirms
  <2> PICK c : c = TaskEvent("committed", t, id, w, backup)
    OBVIOUS
  <2>1. c.kind = "committed" /\ c.task = t /\ c.attempt = id
    BY DEF TaskEvent
  <2>2. events' = events \cup {c} /\ state[t] = "Committing" /\ committer[t] = id
        /\ committer' = committer /\ state' = [state EXCEPT ![t] = "Completed"]
    BY <2>1 DEF Confirm, Record, HoldsClearance
  <2>3. CommittedOf(t) = {}
    BY <2>2 DEF OneCommit
  <2>4. {e \in events' : e.kind = "committed" /\ e.task = t} = {c} /\ state'[t] = "Completed"
    BY <1>0, <2>1, <2>2, <2>3 DEF CommittedOf
  <2>5. ASSUME NEW u \in Task, u # t
        PROVE  /\ {e \in events' : e.kind = "committed" /\ e.task = u} = CommittedOf(u)
               /\ state'[u] = state[u]
    BY <1>0, <2>1, <2>2, <2>5 DEF CommittedOf
  <2> QED
    BY <2>1, <2>2, <2>4, <2>5 DEF OneCommit, CommittedOf
<1>2. CASE ~Confirms
  <2>1. ASSUME NEW t \in Task
        PROVE  /\ {e \in events' : e.kind = "committed" /\ e.task = t} = CommittedOf(t)
               /\ state'[t] = "Completed" <=> state[t] = "Completed"
               /\ state[t] = "Completed" => committer'[t] = committer[t]
    <3>1. \A e \in events' \ events : e.kind # "committed"
      BY <1>2, EventsGrow DEF Noted
    <3>2. events \subseteq events'
      BY EventsGrow
    <3>3. state[t] = "Completed" => state'[t] = "Completed" /\ committer'[t] = committer[t]
      BY CoordForward
    <3>4. state'[t] = "Completed" => state[t] = "Completed"
      BY <1>0, <1>2, AssignStarts
         DEF CoordStep, Assigns, Start, TellWait, Clears, Clear, Refuses, Refuse, Reaps, Reap,
             vars
    <3> QED
      BY <3>1, <3>2, <3>3, <3>4 DEF CommittedOf
  <2> QED
    BY <2>1 DEF OneCommit, CommittedOf
<1> QED
  BY <1>1, <1>2

(* An attempt that is not running does not come back, and does not win. *)
LEMMA OutStaysOut ==
    ASSUME AttemptInv, CoordStep, NEW t \in Task, NEW id \in Nat, id <= nextAttempt[t],
           \A a \in live[t] : a.id # id,
           state[t] = "Completed" => committer[t] # id
    PROVE  /\ id <= nextAttempt'[t]
           /\ \A a \in live'[t] : a.id # id
           /\ state'[t] = "Completed" => committer'[t] # id
<1>0. /\ state \in [Task -> TaskState] /\ committer \in [Task -> Nat]
      /\ nextAttempt \in [Task -> Nat] /\ live \in [Task -> SUBSET Attempt]
  BY DEF AttemptInv, TypeOK
<1>1. id <= nextAttempt'[t] /\ (state[t] = "Completed" => committer'[t] = committer[t])
  BY <1>0, CoordForward
<1>2. CASE Assigns
  <2> PICK u \in Task, w \in Worker, backup \in BOOLEAN : AssignTask(u, w, backup)
    BY <1>2 DEF Assigns
  <2>1. Start(u, w, backup)
    BY AssignStarts
  <2> PICK a : a = [id |-> nextAttempt[u] + 1, worker |-> w, backup |-> backup]
    OBVIOUS
  <2>2. /\ live' = [live EXCEPT ![u] = live[u] \cup {a}] /\ a.id = nextAttempt[u] + 1
        /\ state' = [state EXCEPT ![u] = "InProgress"]
    BY <2>1 DEF Start
  <2>3. \A b \in live'[t] : b \in live[t] \/ (t = u /\ b = a)
    BY <1>0, <2>2
  <2>4. state'[t] = "Completed" => state[t] = "Completed"
    BY <1>0, <2>2
  <2> QED
    BY <1>0, <1>1, <2>2, <2>3, <2>4
<1>3. CASE Confirms
  <2> PICK u \in Task, i \in Nat, w \in Worker, backup \in BOOLEAN :
              Confirm(u, i, w, backup)
    BY <1>3 DEF Confirms
  <2>1. /\ state[u] = "Committing" /\ committer' = committer
        /\ live' = [live EXCEPT ![u] = {}] /\ state' = [state EXCEPT ![u] = "Completed"]
    BY DEF Confirm, HoldsClearance
  <2>2. t = u => committer[t] # id
    BY <2>1 DEF AttemptInv, LiveMatchesState, IsLive
  <2> QED
    BY <1>0, <1>1, <2>1, <2>2
<1>4. CASE Reaps
  <2> PICK expired \in SUBSET Timed : Reap(expired)
    BY <1>4 DEF Reaps
  <2> QED
    BY <1>1, ReapTask DEF AttemptInv
<1>5. CASE Clears
  BY <1>0, <1>1, <1>5 DEF Clears, Clear, MayClear
<1>6. TellWait \/ Refuses \/ UNCHANGED vars => UNCHANGED <<state, committer, live>>
  BY DEF TellWait, Refuses, Refuse, vars
<1> QED
  BY <1>1, <1>2, <1>3, <1>4, <1>5, <1>6 DEF CoordStep

LEMMA ReapedAreOutStep ==
    ASSUME AttemptInv, ReapedAreOut, CoordStep
    PROVE  ReapedAreOut'
<1>0. \A t \in Task : nextAttempt[t] \in Nat
  BY DEF AttemptInv, TypeOK
<1>1. ASSUME NEW e \in events', e.kind = "reaped"
      PROVE  /\ e.task \in Task /\ e.attempt \in Nat /\ e.attempt <= nextAttempt'[e.task]
             /\ \A a \in live'[e.task] : a.id # e.attempt
             /\ state'[e.task] = "Completed" => committer'[e.task] # e.attempt
  <2>1. CASE e \in events
    <3> PICK t, id : t = e.task /\ id = e.attempt
      OBVIOUS
    <3>1. /\ t \in Task /\ id \in Nat /\ id <= nextAttempt[t]
          /\ \A a \in live[t] : a.id # id
          /\ state[t] = "Completed" => committer[t] # id
      BY <1>1, <2>1 DEF ReapedAreOut, IsLive
    <3> QED
      BY <1>1, <3>1, OutStaysOut
  <2>2. CASE e \notin events
    <3>1. Reaps
      BY <1>1, <2>2, AssignStarts
         DEF CoordStep, Assigns, Start, TellWait, Clears, Clear, Refuses, Refuse,
             Confirms, Confirm, Record, TaskEvent, vars
    <3>2. /\ e.task \in Task /\ e.attempt \in Nat /\ e.attempt <= nextAttempt[e.task]
          /\ state[e.task] # "Completed" /\ \A a \in live'[e.task] : a.id # e.attempt
      BY <2>2, <3>1, ReapLogs
    <3>3. state'[e.task] # "Completed" /\ nextAttempt' = nextAttempt
      BY <3>1, <3>2, ReapTask DEF Reaps, AttemptInv
    <3> QED
      BY <3>2, <3>3
  <2> QED
    BY <2>1, <2>2
<1> QED
  BY <1>1 DEF ReapedAreOut, IsLive

LEMMA BackupsAreLoggedStep ==
    ASSUME "assigned" \in LoggedKinds, AttemptInv, BackupsAreLogged, CoordStep
    PROVE  BackupsAreLogged'
<1>0. nextAttempt \in [Task -> Nat] /\ backupsLaunched \in Nat /\ events' \subseteq Event
  BY TypeStep DEF AttemptInv, TypeOK
<1>1. \A e \in events' : e.task \in Task /\ e.attempt \in Nat
  BY <1>0 DEF Event
<1>2. \A e \in events : e \in events'
  BY EventsGrow
<1>3. \A e \in BackupsLogged : e.attempt <= nextAttempt'[e.task]
  <2>1. ASSUME NEW e \in BackupsLogged PROVE e.attempt <= nextAttempt'[e.task]
    <3> PICK t \in Task : t = e.task
      BY <1>1, <1>2 DEF BackupsLogged
    <3>1. nextAttempt[t] <= nextAttempt'[t] /\ nextAttempt[t] \in Nat /\ nextAttempt'[t] \in Nat
      BY <1>0, CoordForward
    <3>2. e.attempt <= nextAttempt[t] /\ e.attempt \in Nat
      BY <1>1, <1>2 DEF BackupsAreLogged, BackupsLogged
    <3> QED
      BY <3>1, <3>2
  <2> QED
    BY <2>1
<1> PICK logged : logged = {e \in events' : e.kind = "assigned" /\ e.backup}
  OBVIOUS
<1>4. CASE Assigns
  <2> PICK t \in Task, w \in Worker, backup \in BOOLEAN : AssignTask(t, w, backup)
    BY <1>4 DEF Assigns
  <2> PICK a : a = TaskEvent("assigned", t, nextAttempt[t] + 1, w, backup)
    OBVIOUS
  <2>1. a.kind = "assigned" /\ a.task = t /\ a.attempt = nextAttempt[t] + 1
        /\ a.backup = backup
    BY DEF TaskEvent
  <2>2. /\ Start(t, w, backup)
        /\ backupsLaunched' = IF backup THEN backupsLaunched + 1 ELSE backupsLaunched
    BY AssignStarts
  <2>3. events' = events \cup {a} /\ nextAttempt'[t] = nextAttempt[t] + 1
    BY <1>0, <2>1, <2>2 DEF Start, Record
  <2>4. CASE backup
    <3>0. a \notin BackupsLogged
      <4>1. nextAttempt[t] \in Nat /\ ~(a.attempt <= nextAttempt[a.task])
        BY <1>0, <2>1
      <4> QED
        BY <4>1 DEF BackupsAreLogged
    <3>1. logged = BackupsLogged \cup {a}
      <4>1. a.backup
        BY <2>1, <2>4
      <4> QED
        BY <2>1, <2>3, <4>1, Zenon DEF BackupsLogged
    <3> PICK old : old = BackupsLogged
      OBVIOUS
    <3>2. IsFiniteSet(logged) /\ Cardinality(logged) = Cardinality(BackupsLogged) + 1
      <4>1. IsFiniteSet(old) /\ a \notin old /\ logged = old \cup {a}
        BY <3>0, <3>1 DEF BackupsAreLogged
      <4>2. IsFiniteSet(old \cup {a}) /\ Cardinality(old \cup {a}) = Cardinality(old) + 1
        BY <4>1, FS_AddElement
      <4> QED
        BY <4>1, <4>2
    <3>3. \A e \in logged : e.attempt <= nextAttempt'[e.task]
      BY <1>0, <1>3, <2>1, <2>3, <3>1
    <3> QED
      BY <2>2, <2>4, <3>2, <3>3 DEF BackupsAreLogged, BackupsLogged
  <2>5. CASE ~backup
    <3>1. logged = BackupsLogged
      BY <2>1, <2>3, <2>5 DEF BackupsLogged
    <3> QED
      BY <1>3, <2>2, <2>5, <3>1 DEF BackupsAreLogged, BackupsLogged
  <2> QED
    BY <2>4, <2>5
<1>5. CASE ~Assigns
  <2>1. logged = BackupsLogged
    BY <1>2, <1>5, EventsGrow DEF BackupsLogged, Noted
  <2>2. backupsLaunched' = backupsLaunched
    BY <1>5 DEF CoordStep, TellWait, Clears, Clear, Refuses, Refuse, Confirms, Confirm, Reaps,
                Reap, vars
  <2> QED
    BY <1>3, <2>1, <2>2 DEF BackupsAreLogged, BackupsLogged
<1> QED
  BY <1>4, <1>5

(* What the log agrees with, step by step. *)
LogInv == AttemptInv /\ OneCommit /\ ReapedAreOut /\ BackupsAreLogged

LEMMA LogInvInit == Init => LogInv
<1> SUFFICES ASSUME Init PROVE LogInv
  OBVIOUS
<1>1. BackupsLogged = {} /\ \A t \in Task : CommittedOf(t) = {}
  BY DEF Init, BackupsLogged, CommittedOf
<1> QED
  BY <1>1, AttemptInvInit, FS_EmptySet
     DEF Init, LogInv, OneCommit, ReapedAreOut, BackupsAreLogged

LEMMA LogInvStep ==
    ASSUME {"assigned", "committed"} \subseteq LoggedKinds, LogInv, CoordStep
    PROVE  LogInv'
BY AttemptInvStep, OneCommitStep, ReapedAreOutStep, BackupsAreLoggedStep DEF LogInv

LEMMA LogInvAgrees == LogInv => LogAgrees
<1> SUFFICES ASSUME LogInv PROVE LogAgrees
  OBVIOUS
<1> USE DEF LogInv
<1>1. CommittedExactlyOnce
  <2>1. ASSUME NEW t \in Task
        PROVE  Cardinality(CommittedOf(t)) = IF state[t] = "Completed" THEN 1 ELSE 0
    BY FS_EmptySet, FS_Singleton DEF OneCommit
  <2> QED
    BY <2>1 DEF CommittedExactlyOnce, CommittedOf
<1>2. ASSUME NEW e \in events, e.kind = "reaped"
      PROVE  /\ ~HoldsClearance(e.task, e.attempt)
             /\ \A f \in events : f.kind = "committed" /\ f.task = e.task
                                     => f.attempt # e.attempt
  <2>1. e.task \in Task /\ ~IsLive(e.task, e.attempt)
        /\ (state[e.task] = "Completed" => committer[e.task] # e.attempt)
    BY <1>2 DEF ReapedAreOut
  <2>2. ~HoldsClearance(e.task, e.attempt)
    BY <2>1 DEF HoldsClearance, AttemptInv, LiveMatchesState
  <2>3. ASSUME NEW f \in events, f.kind = "committed", f.task = e.task
        PROVE  f.attempt # e.attempt
    <3>1. f \in CommittedOf(e.task)
      BY <2>3 DEF CommittedOf
    <3>2. state[e.task] = "Completed" /\ f.attempt = committer[e.task]
      BY <2>1, <3>1 DEF OneCommit
    <3> QED
      BY <2>1, <3>2
  <2> QED
    BY <2>2, <2>3
<1>3. ReapedStaysOut
  BY <1>2 DEF ReapedStaysOut, ReapedAreOut
<1>4. BackupsCounted
  BY DEF BackupsCounted, BackupsAreLogged, BackupsLogged
<1> QED
  BY <1>1, <1>3, <1>4 DEF LogAgrees

(* The log agrees with the state, for any callers and any timing: a finished   *)
(* task was committed once, what was reaped stays out, and every backup        *)
(* launched is logged (record, start, CommitTask, reap).                        *)
THEOREM LogAgreesHolds ==
    ASSUME {"assigned", "committed"} \subseteq LoggedKinds
    PROVE  Spec => []LogAgrees
<1>1. Init => LogInv
  BY LogInvInit
<1>2. LogInv /\ [Next]_vars => LogInv'
  BY LogInvStep, NextCases
<1>3. LogInv => LogAgrees
  BY LogInvAgrees
<1> QED
  BY <1>1, <1>2, <1>3, PTL DEF Spec
=============================================================================
