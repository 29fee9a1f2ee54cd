-------------------------- MODULE MapReduceProofs --------------------------
(***************************************************************************)
(* Proofs about module MapReduce: a whole job, for any number of workers   *)
(* and tasks and any bounds on lost calls, crashes and stalls.             *)
(***************************************************************************)
EXTENDS MapReduce, CoordinatorProofs

-----------------------------------------------------------------------------
(* What workers hold and what is on its way.                               *)

Busy == {"execute", "report", "publish", "commit"}

Requests ==
    [rpc : Calling, worker : Worker, task : Task \cup {NoTask.task}, attempt : Nat,
     backup : BOOLEAN, serial : Nat]

(* A worker at work holds an attempt that was handed out, and nobody else     *)
(* holds it; files are moved only while publishing, and not past the last.    *)
HeldOK ==
    \A w \in Worker :
        /\ IF pc[w] \in Busy
           THEN held[w] \in Assignment /\ held[w].attempt \in 1 .. nextAttempt[held[w].task]
           ELSE held[w] = NoTask
        /\ pc[w] \notin {"publish", "commit"} => renamed[w] = 0
        /\ pc[w] = "publish" => renamed[w] < Files(held[w].task)

HeldOnce ==
    \A v, w \in Worker :
        v # w /\ pc[v] \in Busy /\ held[v].task = held[w].task
            => held[v].attempt # held[w].attempt

(* A late request was sent by a worker that held the attempt it names. *)
DelayedOK ==
    \A m \in delayed :
        /\ m \in Requests
        /\ m.rpc # "request" =>
              m.task \in Task /\ m.attempt \in 1 .. nextAttempt[m.task]

(* The types of JobTypeOK are inductive together with what HeldOK, HeldOnce   *)
(* and DelayedOK say, on top of the coordinator's own invariant.              *)
WorkerInv ==
    /\ PhaseInv /\ JobTypeOK
    /\ final = [t \in Task |-> final[t]]
    /\ HeldOK /\ HeldOnce /\ DelayedOK

-----------------------------------------------------------------------------
(* What a step does.                                                       *)

(* No request is on its way but those of calls in progress. *)
DelayedGrows ==
    \A m \in delayed' : \/ m \in delayed
                        \/ \E w \in Worker : pc[w] \in Calling /\ m = Request(w)

(* Worker w gives up what it holds, for whatever reason. *)
Drops(w) ==
    /\ pc' = [pc EXCEPT ![w] = pc'[w]] /\ pc'[w] \in {"request"} \cup Stopped
    /\ held' = [held EXCEPT ![w] = NoTask]
    /\ renamed' = [renamed EXCEPT ![w] = 0]
    /\ DelayedGrows
    /\ UNCHANGED <<final, granted, stalls>>
    /\ \/ UNCHANGED vars
       \/ Refuses
       \/ pc[w] = "commit" /\ Confirm(held[w].task, held[w].attempt, w, held[w].backup)

(* No worker gets anywhere. *)
Lingers ==
    /\ UNCHANGED <<pc, held, renamed, final, granted, stalls>>
    /\ DelayedGrows
    /\ UNCHANGED vars \/ TellWait

(* Every step is one of eight kinds. *)
JobStep ==
    \/ \E w \in Worker :
          GetTask(w) \/ Execute(w) \/ GetClearance(w) \/ Rename(w) \/ Drops(w)
    \/ \E m \in delayed : HandleDelayed(m)
    \/ \E expired \in SUBSET Timed : ReaperPass(expired)
    \/ Lingers

LEMMA LeaveDrops ==
    ASSUME JobTypeOK, NEW w \in Worker, NEW p, Leave(w, p)
    PROVE  /\ pc' = [pc EXCEPT ![w] = pc'[w]] /\ pc'[w] = p
           /\ held' = [held EXCEPT ![w] = NoTask]
           /\ renamed' = [renamed EXCEPT ![w] = 0]
<1>1. pc' = [pc EXCEPT ![w] = p] /\ pc'[w] = p
  BY DEF Leave, JobTypeOK
<1> QED
  BY <1>1 DEF Leave

LEMMA ArrivesLate ==
    ASSUME NEW w \in Worker, MayArrive(w)
    PROVE  DelayedGrows
BY DEF MayArrive, DelayedGrows

LEMMA JobCases ==
    ASSUME WorkerInv, [JobNext]_jobVars
    PROVE  JobStep
<1> USE DEF WorkerInv
<1>1. ASSUME NEW w \in Worker, GetWait(w) PROVE Lingers
  BY <1>1 DEF GetWait, Lingers, DelayedGrows, budgetVars
<1>2. ASSUME NEW w \in Worker, GetExit(w) PROVE Drops(w)
  <2>1. Leave(w, "exited") /\ UNCHANGED <<vars, final, granted, delayed, stalls>>
    BY <1>2 DEF GetExit, TellExit, budgetVars
  <2> QED
    BY <2>1, LeaveDrops DEF Drops, DelayedGrows, Stopped
<1>3. ASSUME NEW w \in Worker, ExecuteFails(w) PROVE Drops(w)
  <2>1. Leave(w, "request") /\ UNCHANGED <<vars, final, granted, delayed, stalls>>
    BY <1>3 DEF ExecuteFails, coordVars
  <2> QED
    BY <2>1, LeaveDrops DEF Drops, DelayedGrows
<1>4. ASSUME NEW w \in Worker, GetRefusal(w) PROVE Drops(w)
  <2>1. Leave(w, "request") /\ UNCHANGED <<final, granted, delayed, stalls>>
    BY <1>4 DEF GetRefusal, budgetVars
  <2>2. held[w].task \in Task /\ held[w].attempt \in Nat
    BY <1>4 DEF GetRefusal, HeldOK, Busy, Assignment
  <2>3. Refuses
    BY <1>4, <2>2 DEF GetRefusal, Refuses
  <2> QED
    BY <2>1, <2>3, LeaveDrops DEF Drops, DelayedGrows
<1>5. ASSUME NEW w \in Worker, RenameFails(w) PROVE Drops(w)
  <2>1. Leave(w, "request") /\ UNCHANGED <<vars, final, granted, delayed, stalls>>
    BY <1>5 DEF RenameFails, coordVars
  <2> QED
    BY <2>1, LeaveDrops DEF Drops, DelayedGrows
<1>6. ASSUME NEW w \in Worker, ConfirmCommit(w) PROVE Drops(w)
  <2>1. Leave(w, "request") /\ UNCHANGED <<final, granted, delayed, stalls>>
    BY <1>6 DEF ConfirmCommit, budgetVars
  <2>2. pc[w] = "commit" /\ CommitTask(held[w].task, held[w].attempt, w, held[w].backup)
    BY <1>6 DEF ConfirmCommit
  <2>3. UNCHANGED vars \/ Confirm(held[w].task, held[w].attempt, w, held[w].backup)
    BY <2>2 DEF CommitTask
  <2> QED
    BY <2>1, <2>2, <2>3, LeaveDrops DEF Drops, DelayedGrows
<1>7. ASSUME NEW w \in Worker, DialFails(w) PROVE Drops(w) \/ Lingers
  <2>1. UNCHANGED <<vars, final, granted, stalls>>
    BY <1>7 DEF DialFails, coordVars
  <2>2. DelayedGrows
    BY <1>7, ArrivesLate DEF DialFails, DelayedGrows
  <2>3. CASE LastDial(w)
    <3>1. Leave(w, "exited") \/ Leave(w, "request")
      BY <1>7, <2>3 DEF DialFails, GiveUp
    <3> QED
      BY <2>1, <2>2, <3>1, LeaveDrops DEF Drops, Stopped
  <2>4. CASE ~LastDial(w)
    BY <1>7, <2>1, <2>2, <2>4 DEF DialFails, Lingers
  <2> QED
    BY <2>3, <2>4
<1>8. ASSUME NEW w \in Worker, Crash(w) PROVE Drops(w)
  <2>1. Leave(w, "crashed") /\ UNCHANGED <<vars, final, granted, stalls>>
    BY <1>8 DEF Crash, coordVars
  <2>2. DelayedGrows
    BY <1>8, ArrivesLate DEF Crash
  <2> QED
    BY <2>1, <2>2, LeaveDrops DEF Drops, Stopped
<1>9. CoordinatorExit => Lingers
  BY DEF CoordinatorExit, Lingers, DelayedGrows, coordVars, workerVars, budgetVars
<1>10. UNCHANGED jobVars => Lingers
  BY DEF jobVars, Lingers, DelayedGrows, coordVars, workerVars, budgetVars
<1> QED
  BY <1>1, <1>2, <1>3, <1>4, <1>5, <1>6, <1>7, <1>8, <1>9, <1>10
     DEF JobNext, Progress, JobStep

(* What a step does to the coordinator is one of its own steps. *)
LEMMA JobCoordStep ==
    ASSUME WorkerInv, JobStep
    PROVE  CoordStep
<1>1. ASSUME NEW w \in Worker, GetTask(w) PROVE Assigns
  BY <1>1 DEF GetTask, Assigns
<1>2. ASSUME NEW w \in Worker, GetClearance(w) PROVE Clears \/ UNCHANGED vars
  <2>1. held[w].task \in Task /\ held[w].attempt \in Nat
    BY <1>2 DEF GetClearance, WorkerInv, HeldOK, Busy, Assignment
  <2> QED
    BY <1>2, <2>1 DEF GetClearance, Clears, ClearAgain
<1>3. ASSUME NEW w \in Worker, Execute(w) \/ Rename(w) PROVE UNCHANGED vars
  BY <1>3 DEF Execute, Rename, coordVars
<1>4. ASSUME NEW w \in Worker, Drops(w) PROVE Refuses \/ Confirms \/ UNCHANGED vars
  <2>1. pc[w] = "commit" => /\ held[w].task \in Task /\ held[w].attempt \in Nat
                            /\ held[w].backup \in BOOLEAN
    BY DEF WorkerInv, HeldOK, Busy, Assignment
  <2> QED
    BY <1>4, <2>1 DEF Drops, Confirms
<1>5. ASSUME NEW m \in delayed, HandleDelayed(m) PROVE CoordStep
  <2>1. /\ m.rpc \in Calling /\ m.worker \in Worker /\ m.attempt \in Nat
        /\ m.backup \in BOOLEAN
    BY DEF WorkerInv, DelayedOK, Requests
  <2>2. CASE m.rpc = "request"
    BY <1>5, <2>1, <2>2 DEF HandleDelayed, RequestTask, CoordStep, Assigns, TellExit
  <2>3. CASE m.rpc = "report"
    BY <1>5, <2>1, <2>3
       DEF HandleDelayed, ReportTask, CoordStep, Clears, Refuses, ClearAgain
  <2>4. CASE m.rpc = "commit"
    BY <1>5, <2>1, <2>4 DEF HandleDelayed, CommitTask, CoordStep, Confirms
  <2> QED
    BY <2>1, <2>2, <2>3, <2>4 DEF Calling
<1>6. ASSUME NEW expired \in SUBSET Timed, ReaperPass(expired) PROVE Reaps
  BY <1>6 DEF ReaperPass, CheckTimeouts, Reaps
<1>7. Lingers => UNCHANGED vars \/ TellWait
  BY DEF Lingers
<1> QED
  BY <1>1, <1>2, <1>3, <1>4, <1>5, <1>6, <1>7 DEF JobStep, CoordStep

-----------------------------------------------------------------------------
(* Budgets and dials.                                                      *)

LEMMA ImageFinite ==
    ASSUME NEW A, IsFiniteSet(A), NEW f, f \in [A -> {f[x] : x \in A}]
    PROVE  IsFiniteSet({f[x] : x \in A})
<1>1. f \in Surjection(A, {f[x] : x \in A})
  BY DEF Surjection
<1> QED
  BY <1>1, FS_Surjection

LEMMA TaskFinite == IsFiniteSet(Task)
BY TaskCount, FS_Union DEF Task, Kind

(* A pass has finitely many attempts to look at: two of a task at most. *)
LEMMA TimedFinite ==
    ASSUME AttemptInv
    PROVE  IsFiniteSet(Timed)
<1> DEFINE pairs == [t \in Task |-> {<<t, a.id>> : a \in live[t]}]
<1>1. ASSUME NEW t \in Task PROVE IsFiniteSet({<<t, a.id>> : a \in live[t]})
  <2>1. CASE live[t] = {}
    <3>1. {<<t, a.id>> : a \in live[t]} = {}
      BY <2>1
    <3> QED
      BY <3>1, FS_EmptySet
  <2>2. CASE live[t] # {}
    <3>1. PICK b \in live[t] : TRUE
      BY <2>2
    <3>2. PICK c \in live[t] : live[t] = {b, c}
      BY <3>1 DEF AttemptInv, AtMostTwoRunning
    <3> DEFINE x == <<t, b.id>>
               y == <<t, c.id>>
    <3>3. {<<t, a.id>> : a \in live[t]} = {x} \cup {y}
      BY <3>2
    <3> HIDE DEF x, y
    <3>4. IsFiniteSet({x}) /\ IsFiniteSet({y})
      BY FS_Singleton
    <3>5. IsFiniteSet({x} \cup {y})
      BY <3>4, FS_Union
    <3> QED
      BY <3>3, <3>5
  <2> QED
    BY <2>1, <2>2
<1>2. IsFiniteSet({pairs[t] : t \in Task})
  <2>1. pairs \in [Task -> {pairs[t] : t \in Task}]
    OBVIOUS
  <2> HIDE DEF pairs
  <2> QED
    BY <2>1, TaskFinite, ImageFinite
<1>3. \A T \in {pairs[t] : t \in Task} : IsFiniteSet(T)
  BY <1>1
<1>4. Timed \in SUBSET UNION {pairs[t] : t \in Task}
  BY DEF Timed, AttemptInv, LiveMatchesState, IsLive
<1> HIDE DEF pairs
<1>5. IsFiniteSet(UNION {pairs[t] : t \in Task})
  BY <1>2, <1>3, FS_UNION
<1> QED
  BY <1>4, <1>5, FS_Subset

LEMMA BudgetTypes ==
    ASSUME WorkerInv, [JobNext]_jobVars
    PROVE  /\ tries' \in [Worker -> 0 .. RpcAttempts - 1] /\ up' \in BOOLEAN
           /\ faults' \in 0 .. MaxFaults /\ crashes' \in 0 .. MaxCrashes
           /\ stalls' \in 0 .. MaxStalls
<1>1. /\ tries \in [Worker -> 0 .. RpcAttempts - 1] /\ up \in BOOLEAN
      /\ faults \in 0 .. MaxFaults /\ crashes \in 0 .. MaxCrashes
      /\ stalls \in 0 .. MaxStalls /\ RpcAttempts \in Nat \ {0}
      /\ MaxFaults \in Nat /\ MaxCrashes \in Nat /\ MaxStalls \in Nat
  BY WorkerBoundsAssumption DEF WorkerInv, JobTypeOK
<1>2. ASSUME NEW w \in Worker, NEW p, Leave(w, p) \/ GoTo(w, p)
      PROVE  tries' \in [Worker -> 0 .. RpcAttempts - 1]
  BY <1>1, <1>2 DEF Leave, GoTo
<1>3. ASSUME NEW w \in Worker, DialFails(w)
      PROVE  tries' \in [Worker -> 0 .. RpcAttempts - 1]
  <2>1. CASE LastDial(w)
    BY <1>2, <1>3, <2>1 DEF DialFails, GiveUp
  <2>2. CASE ~LastDial(w)
    BY <1>1, <1>3, <2>2 DEF DialFails, LastDial
  <2> QED
    BY <2>1, <2>2
<1>4. ASSUME NEW expired \in SUBSET Timed, ReaperPass(expired)
      PROVE  stalls' \in 0 .. MaxStalls
  <2>1. IsFiniteSet(expired \ Orphans)
    BY TimedFinite, FS_Subset DEF WorkerInv, PhaseInv
  <2>2. Cardinality(expired \ Orphans) \in Nat
    BY <2>1, FS_CardinalityType
  <2> QED
    BY <1>1, <1>4, <2>2 DEF ReaperPass
<1>5. ASSUME NEW w \in Worker, Progress(w) \/ GetWait(w)
      PROVE  /\ tries' \in [Worker -> 0 .. RpcAttempts - 1]
             /\ up' = up /\ crashes' = crashes /\ stalls' = stalls
             /\ faults' \in 0 .. MaxFaults
  BY <1>1, <1>2, <1>3, <1>5
     DEF Progress, GetTask, GetWait, GetExit, Execute, GetClearance, GetRefusal, Rename,
         ConfirmCommit, DialFails, budgetVars
<1>6. ASSUME NEW w \in Worker,
             ExecuteFails(w) \/ RenameFails(w) \/ (up /\ DialFails(w)) \/ Crash(w)
      PROVE  /\ tries' \in [Worker -> 0 .. RpcAttempts - 1]
             /\ up' = up /\ stalls' = stalls
             /\ faults' \in 0 .. MaxFaults /\ crashes' \in 0 .. MaxCrashes
  BY <1>1, <1>2, <1>3, <1>6 DEF ExecuteFails, RenameFails, DialFails, Crash
<1>7. ASSUME NEW m \in delayed, HandleDelayed(m)
      PROVE  UNCHANGED <<tries, up, faults, crashes, stalls>>
  BY <1>7 DEF HandleDelayed, workerVars, budgetVars
<1>8. ASSUME NEW expired \in SUBSET Timed, ReaperPass(expired)
      PROVE  UNCHANGED <<tries, up, faults, crashes>>
  BY <1>8 DEF ReaperPass, workerVars
<1>9. CoordinatorExit => UNCHANGED <<tries, faults, crashes, stalls>> /\ up' = FALSE
  BY DEF CoordinatorExit, workerVars, budgetVars
<1>10. UNCHANGED jobVars => UNCHANGED <<tries, up, faults, crashes, stalls>>
  BY DEF jobVars, workerVars, budgetVars
<1> QED
  BY <1>1, <1>4, <1>5, <1>6, <1>7, <1>8, <1>9, <1>10 DEF JobNext

-----------------------------------------------------------------------------
(* Workers, files and late requests keep their types.                      *)

LEMMA FilesType == \A t \in Task : Files(t) \in Nat \ {0}
BY CountsAssumption, WorkerBoundsAssumption DEF Files

LEMMA NoTaskIsNone ==
    /\ NoTask.task \notin Task /\ NoTask.attempt = 0
    /\ NoTask.backup \in BOOLEAN /\ ~NoTask.backup
BY TaskKinds DEF NoTask, KindOf, Kind

LEMMA BusyHolds ==
    ASSUME WorkerInv, NEW w \in Worker, pc[w] \in Busy
    PROVE  /\ held[w].task \in Task /\ held[w].backup \in BOOLEAN
           /\ held[w].attempt \in Nat \ {0}
           /\ held[w].attempt <= nextAttempt[held[w].task]
BY DEF WorkerInv, HeldOK, Assignment

LEMMA WorkerTypes ==
    ASSUME WorkerInv
    PROVE  /\ pc \in [Worker -> PC] /\ renamed \in [Worker -> Nat]
           /\ held \in [Worker -> Assignment \cup {NoTask}]
           /\ granted \in [Task -> SUBSET Nat]
           /\ \A t \in Task : final[t] \in [0 .. Files(t) - 1 -> Nat]
           /\ nextAttempt \in [Task -> Nat] /\ committer \in [Task -> Nat]
           /\ state \in [Task -> TaskState]
BY DEF WorkerInv, JobTypeOK, TypeOK

LEMMA Forward ==
    ASSUME WorkerInv, JobStep, NEW t \in Task
    PROVE  /\ nextAttempt'[t] \in Nat /\ nextAttempt[t] <= nextAttempt'[t]
           /\ committer'[t] \in Nat /\ committer[t] <= committer'[t]
           /\ state[t] = "Completed" => state'[t] = "Completed" /\ committer'[t] = committer[t]
BY JobCoordStep, CoordForward DEF WorkerInv, PhaseInv

(* The steps that leave a worker where it is. *)
Stays == UNCHANGED <<pc, held, renamed>>

LEMMA OthersStay ==
    ASSUME WorkerInv,
           \/ \E m \in delayed : HandleDelayed(m)
           \/ \E expired \in SUBSET Timed : ReaperPass(expired)
           \/ Lingers
    PROVE  Stays /\ final' = final
BY DEF HandleDelayed, ReaperPass, Lingers, workerVars, Stays

LEMMA TakesTask ==
    ASSUME WorkerInv, NEW w \in Worker, GetTask(w)
    PROVE  \E t \in Task, backup \in BOOLEAN :
              /\ nextAttempt' = [nextAttempt EXCEPT ![t] = nextAttempt[t] + 1]
              /\ held' = [held EXCEPT ![w] =
                    [task |-> t, attempt |-> nextAttempt[t] + 1, backup |-> backup]]
              /\ pc' = [pc EXCEPT ![w] = "execute"] /\ pc[w] = "request"
              /\ state' = [state EXCEPT ![t] = "InProgress"]
              /\ state[t] \in {"Idle", "InProgress"}
              /\ AssignTask(t, w, backup)
              /\ UNCHANGED <<renamed, final, delayed, granted, committer, stalls>>
<1> PICK t \in Task, backup \in BOOLEAN :
          /\ AssignTask(t, w, backup)
          /\ held' = [held EXCEPT ![w] =
                [task |-> t, attempt |-> nextAttempt'[t], backup |-> backup]]
  BY DEF GetTask
<1>1. Start(t, w, backup) /\ committer' = committer
  BY AssignStarts DEF AssignTask
<1>2. nextAttempt' = [nextAttempt EXCEPT ![t] = nextAttempt[t] + 1]
      /\ state' = [state EXCEPT ![t] = "InProgress"]
  BY <1>1 DEF Start
<1>3. nextAttempt'[t] = nextAttempt[t] + 1
  BY <1>2, WorkerTypes
<1>4. state[t] \in {"Idle", "InProgress"}
  BY AssignStarts DEF FirstIdle, Stragglers
<1> QED
  BY <1>1, <1>2, <1>3, <1>4 DEF GetTask, budgetVars

LEMMA HeldStep ==
    ASSUME WorkerInv, JobStep
    PROVE  /\ pc' \in [Worker -> PC] /\ renamed' \in [Worker -> Nat]
           /\ held' \in [Worker -> Assignment \cup {NoTask}]
           /\ HeldOK' /\ HeldOnce'
<1> USE WorkerTypes, NoTaskIsNone DEF PC, Busy, Calling, Stopped
<1>0. /\ \A v \in Worker : pc[v] \in Busy =>
            /\ held[v].task \in Task /\ held[v].attempt \in Nat
            /\ held[v].attempt <= nextAttempt[held[v].task]
      /\ HeldOK /\ HeldOnce
      /\ \A t \in Task : nextAttempt[t] \in Nat /\ nextAttempt'[t] \in Nat
                         /\ nextAttempt[t] <= nextAttempt'[t]
  BY BusyHolds, Forward DEF WorkerInv
<1>1. ASSUME NEW w \in Worker, GetTask(w)
      PROVE  /\ pc' \in [Worker -> PC] /\ renamed' \in [Worker -> Nat]
             /\ held' \in [Worker -> Assignment \cup {NoTask}]
             /\ HeldOK' /\ HeldOnce'
  <2> PICK t \in Task, backup \in BOOLEAN :
              /\ nextAttempt' = [nextAttempt EXCEPT ![t] = nextAttempt[t] + 1]
              /\ held' = [held EXCEPT ![w] =
                    [task |-> t, attempt |-> nextAttempt[t] + 1, backup |-> backup]]
              /\ pc' = [pc EXCEPT ![w] = "execute"] /\ pc[w] = "request"
              /\ renamed' = renamed
    BY <1>1, TakesTask
  <2>1. [task |-> t, attempt |-> nextAttempt[t] + 1, backup |-> backup] \in Assignment
    BY DEF Assignment
  <2>2. /\ pc' \in [Worker -> PC] /\ renamed' \in [Worker -> Nat]
        /\ held' \in [Worker -> Assignment \cup {NoTask}]
    BY <2>1
  <2>3. HeldOK'
    BY <1>0, <2>1 DEF HeldOK
  <2>4. ASSUME NEW v \in Worker, NEW x \in Worker, v # x, pc'[v] \in Busy,
               held'[v].task = held'[x].task
        PROVE  held'[v].attempt # held'[x].attempt
    <3>1. CASE v = w
      <4>1. held'[x] = held[x] /\ held'[v].task = t /\ held'[v].attempt = nextAttempt[t] + 1
        BY <2>4, <3>1
      <4>2. pc[x] \in Busy
        BY <1>0, <2>4, <4>1 DEF HeldOK
      <4> QED
        BY <1>0, <2>4, <4>1, <4>2
    <3>2. CASE x = w
      <4>1. /\ held'[v] = held[v] /\ pc[v] \in Busy
            /\ held'[x].task = t /\ held'[x].attempt = nextAttempt[t] + 1
        BY <2>4, <3>2
      <4> QED
        BY <1>0, <2>4, <4>1
    <3>3. CASE v # w /\ x # w
      BY <1>0, <2>4, <3>3 DEF HeldOnce
    <3> QED
      BY <3>1, <3>2, <3>3
  <2>5. HeldOnce'
    BY <2>4 DEF HeldOnce
  <2> QED
    BY <2>2, <2>3, <2>5
<1>2. ASSUME NEW w \in Worker, Execute(w) \/ GetClearance(w)
      PROVE  /\ pc' \in [Worker -> PC] /\ renamed' \in [Worker -> Nat]
             /\ held' \in [Worker -> Assignment \cup {NoTask}]
             /\ HeldOK' /\ HeldOnce'
  <2>1. /\ \E p \in {"report", "publish"} : pc' = [pc EXCEPT ![w] = p]
        /\ pc[w] \in {"execute", "report"}
        /\ UNCHANGED <<held, renamed>>
    BY <1>2 DEF Execute, GetClearance, GoTo
  <2>2. renamed[w] < Files(held[w].task)
    <3>1. renamed[w] = 0
      BY <1>0, <2>1 DEF HeldOK
    <3>2. Files(held[w].task) \in Nat \ {0}
      BY <1>0, <2>1, FilesType
    <3> QED
      BY <3>1, <3>2
  <2> PICK p \in {"report", "publish"} : pc' = [pc EXCEPT ![w] = p]
    BY <2>1
  <2>3. ASSUME NEW v \in Worker
        PROVE  /\ IF pc'[v] \in Busy
                  THEN /\ held'[v] \in Assignment
                       /\ held'[v].attempt \in 1 .. nextAttempt'[held'[v].task]
                  ELSE held'[v] = NoTask
               /\ pc'[v] \notin {"publish", "commit"} => renamed'[v] = 0
               /\ pc'[v] = "publish" => renamed'[v] < Files(held'[v].task)
    <3>1. CASE v = w
      <4>1. pc'[v] = p /\ pc[v] \in Busy /\ held'[v] = held[v] /\ renamed'[v] = renamed[v]
        BY <2>1, <3>1
      <4>2. /\ held[v] \in Assignment /\ held[v].task \in Task
            /\ held[v].attempt \in 1 .. nextAttempt[held[v].task]
            /\ pc[v] \in {"execute", "report"} => renamed[v] = 0
        BY <1>0, <4>1 DEF HeldOK
      <4>3. held[v].attempt \in 1 .. nextAttempt'[held[v].task]
        BY <1>0, <4>2
      <4> QED
        BY <2>1, <2>2, <3>1, <4>1, <4>2, <4>3
    <3>2. CASE v # w
      BY <1>0, <2>1, <3>2 DEF HeldOK
    <3> QED
      BY <3>1, <3>2
  <2>4. HeldOK'
    BY <2>3 DEF HeldOK
  <2> QED
    BY <1>0, <2>1, <2>4 DEF HeldOnce
<1>3. ASSUME NEW w \in Worker, Rename(w)
      PROVE  /\ pc' \in [Worker -> PC] /\ renamed' \in [Worker -> Nat]
             /\ held' \in [Worker -> Assignment \cup {NoTask}]
             /\ HeldOK' /\ HeldOnce'
  <2>1. /\ pc' = [pc EXCEPT ![w] = IF LastFile(w) THEN "commit" ELSE "publish"]
        /\ pc[w] = "publish" /\ held' = held
        /\ renamed' = [renamed EXCEPT ![w] = renamed[w] + 1]
    BY <1>3 DEF Rename
  <2>2. renamed[w] < Files(held[w].task) /\ Files(held[w].task) \in Nat
    BY <1>0, <2>1, FilesType DEF HeldOK
  <2>3. ~LastFile(w) => renamed[w] + 1 < Files(held[w].task)
    BY <2>2 DEF LastFile
  <2>4. HeldOK'
    BY <1>0, <2>1, <2>2, <2>3 DEF HeldOK
  <2> QED
    BY <1>0, <2>1, <2>4 DEF HeldOnce
<1>4. ASSUME NEW w \in Worker, Drops(w)
      PROVE  /\ pc' \in [Worker -> PC] /\ renamed' \in [Worker -> Nat]
             /\ held' \in [Worker -> Assignment \cup {NoTask}]
             /\ HeldOK' /\ HeldOnce'
  <2>1. /\ pc' = [pc EXCEPT ![w] = pc'[w]] /\ pc'[w] \in {"request"} \cup Stopped
        /\ held' = [held EXCEPT ![w] = NoTask]
        /\ renamed' = [renamed EXCEPT ![w] = 0]
    BY <1>4 DEF Drops
  <2>2. HeldOK'
    BY <1>0, <2>1 DEF HeldOK
  <2> QED
    BY <1>0, <2>1, <2>2 DEF HeldOnce
<1>5. CASE Stays
  <2>1. HeldOK'
    BY <1>0, <1>5 DEF HeldOK, Stays
  <2> QED
    BY <1>0, <1>5, <2>1 DEF HeldOnce, Stays
<1> QED
  BY <1>1, <1>2, <1>3, <1>4, <1>5, OthersStay DEF JobStep

LEMMA RequestType ==
    ASSUME WorkerInv, NEW w \in Worker, pc[w] \in Calling
    PROVE  /\ Request(w) \in Requests
           /\ pc[w] # "request" => /\ held[w].task \in Task
                                   /\ held[w].attempt \in 1 .. nextAttempt[held[w].task]
<1>1. pc[w] # "request" => /\ held[w].task \in Task /\ held[w].backup \in BOOLEAN
                           /\ held[w].attempt \in Nat
                           /\ held[w].attempt \in 1 .. nextAttempt[held[w].task]
  BY DEF WorkerInv, HeldOK, Assignment, Busy, Calling
<1>2. pc[w] = "request" => held[w] = NoTask
  BY DEF WorkerInv, HeldOK, Busy
<1>3. faults + crashes \in Nat
  BY WorkerBoundsAssumption DEF WorkerInv, JobTypeOK
<1>4. /\ held[w].task \in Task \cup {NoTask.task} /\ held[w].backup \in BOOLEAN
      /\ held[w].attempt \in Nat
  BY <1>1, <1>2, NoTaskIsNone
<1>5. Request(w) \in Requests
  BY <1>3, <1>4 DEF Request, Requests
<1> QED
  BY <1>1, <1>5

(* A request on its way was so before, or is that of a call in progress. *)
LEMMA DelayedStep ==
    ASSUME WorkerInv, JobStep
    PROVE  DelayedGrows
<1>1. ASSUME NEW w \in Worker, GetTask(w) \/ Execute(w) \/ GetClearance(w) \/ Rename(w)
      PROVE  delayed' = delayed
  BY <1>1 DEF GetTask, Execute, GetClearance, Rename
<1>2. ASSUME NEW m \in delayed, HandleDelayed(m) PROVE delayed' \subseteq delayed
  BY <1>2 DEF HandleDelayed
<1>3. ASSUME NEW expired, ReaperPass(expired) PROVE delayed' = delayed
  BY <1>3 DEF ReaperPass
<1> QED
  BY <1>1, <1>2, <1>3 DEF JobStep, DelayedGrows, Drops, Lingers

LEMMA DelayedTypeStep ==
    ASSUME WorkerInv, JobStep
    PROVE  DelayedOK'
<1>1. ASSUME NEW m \in delayed'
      PROVE  /\ m \in Requests
             /\ m.rpc # "request" => m.task \in Task /\ m.attempt \in 1 .. nextAttempt[m.task]
  <2>1. CASE m \in delayed
    BY <2>1 DEF WorkerInv, DelayedOK
  <2>2. ASSUME NEW w \in Worker, pc[w] \in Calling, m = Request(w)
        PROVE  /\ m \in Requests
               /\ m.rpc # "request" =>
                     m.task \in Task /\ m.attempt \in 1 .. nextAttempt[m.task]
    <3>1. m.rpc = pc[w] /\ m.task = held[w].task /\ m.attempt = held[w].attempt
      BY <2>2 DEF Request
    <3> QED
      BY <2>2, <3>1, RequestType
  <2> QED
    BY <1>1, <2>1, <2>2, DelayedStep DEF DelayedGrows
<1>2. \A t \in Task : nextAttempt[t] \in Nat /\ nextAttempt'[t] \in Nat
                      /\ nextAttempt[t] <= nextAttempt'[t]
  BY Forward, WorkerTypes
<1> QED
  BY <1>1, <1>2 DEF DelayedOK

(* One file changes when a worker renames, none otherwise. *)
LEMMA FinalStep ==
    ASSUME WorkerInv, JobStep
    PROVE  \/ final' = final
           \/ \E w \in Worker : Rename(w)
BY OthersStay DEF JobStep, GetTask, Execute, GetClearance, Drops

LEMMA RenameFile ==
    ASSUME WorkerInv, NEW w \in Worker, Rename(w)
    PROVE  /\ held[w].task \in Task /\ held[w].attempt \in Nat \ {0}
           /\ renamed[w] \in 0 .. Files(held[w].task) - 1
           /\ final' = [t \in Task |-> final'[t]]
           /\ \A t \in Task : t # held[w].task => final'[t] = final[t]
           /\ final'[held[w].task] =
                 [final[held[w].task] EXCEPT ![renamed[w]] = held[w].attempt]
           /\ renamed' = [renamed EXCEPT ![w] = renamed[w] + 1]
           /\ pc[w] = "publish" /\ held' = held /\ UNCHANGED <<vars, granted, delayed, stalls>>
           /\ pc' = [pc EXCEPT ![w] = IF LastFile(w) THEN "commit" ELSE "publish"]
<1>1. pc[w] = "publish"
  BY DEF Rename
<1>2. /\ held[w].task \in Task /\ held[w].attempt \in Nat \ {0}
      /\ renamed[w] < Files(held[w].task) /\ renamed[w] \in Nat
  BY <1>1, BusyHolds, WorkerTypes DEF Busy, WorkerInv, HeldOK
<1>3. final' = [final EXCEPT ![held[w].task] = [@ EXCEPT ![renamed[w]] = held[w].attempt]]
  BY DEF Rename
<1>4. final = [t \in Task |-> final[t]]
  BY DEF WorkerInv
<1>5. DOMAIN final = Task
  BY <1>4
<1>6. /\ final' = [t \in Task |-> final'[t]]
      /\ \A t \in Task : t # held[w].task => final'[t] = final[t]
      /\ final'[held[w].task] =
            [final[held[w].task] EXCEPT ![renamed[w]] = held[w].attempt]
  BY <1>2, <1>3, <1>5
<1>7. renamed[w] \in 0 .. Files(held[w].task) - 1
  BY <1>2, FilesType
<1> QED
  BY <1>1, <1>2, <1>6, <1>7 DEF Rename, coordVars, budgetVars

LEMMA FinalTypeStep ==
    ASSUME WorkerInv, JobStep
    PROVE  /\ final' = [t \in Task |-> final'[t]]
           /\ \A t \in Task : final'[t] \in [0 .. Files(t) - 1 -> Nat]
<1>1. CASE final' = final
  BY <1>1, WorkerTypes DEF WorkerInv
<1>2. ASSUME NEW w \in Worker, Rename(w)
      PROVE  /\ final' = [t \in Task |-> final'[t]]
             /\ \A t \in Task : final'[t] \in [0 .. Files(t) - 1 -> Nat]
  <2> DEFINE t == held[w].task
  <2>1. /\ t \in Task /\ held[w].attempt \in Nat
        /\ final' = [u \in Task |-> final'[u]]
        /\ \A u \in Task : u # t => final'[u] = final[u]
        /\ final'[t] = [final[t] EXCEPT ![renamed[w]] = held[w].attempt]
    BY <1>2, RenameFile
  <2>2. \A u \in Task : final[u] \in [0 .. Files(u) - 1 -> Nat]
    BY WorkerTypes
  <2> HIDE DEF t
  <2>3. ASSUME NEW u \in Task PROVE final'[u] \in [0 .. Files(u) - 1 -> Nat]
    <3>1. CASE u = t
      BY <2>1, <2>2, <3>1
    <3>2. CASE u # t
      BY <2>1, <2>2, <3>2
    <3> QED
      BY <3>1, <3>2
  <2> QED
    BY <2>1, <2>3
<1> QED
  BY <1>1, <1>2, FinalStep

(* Clearances given stay on record, and new ones are of attempts that exist. *)
LEMMA GrantedStep ==
    ASSUME WorkerInv, JobStep
    PROVE  /\ granted' \in [Task -> SUBSET Nat]
           /\ \A t \in Task : granted[t] \subseteq granted'[t]
<1>0. granted \in [Task -> SUBSET Nat]
  BY WorkerTypes
<1>1. ASSUME NEW w \in Worker, GetClearance(w)
      PROVE  \E t \in Task, id \in Nat : granted' = [granted EXCEPT ![t] = @ \cup {id}]
  BY <1>1, BusyHolds DEF GetClearance, Busy
<1>2. ASSUME NEW m \in delayed, HandleDelayed(m)
      PROVE  \/ granted' = granted
             \/ \E t \in Task, id \in Nat : granted' = [granted EXCEPT ![t] = @ \cup {id}]
  <2>1. m.rpc \in Calling /\ m.attempt \in Nat /\ (m.rpc = "report" => m.task \in Task)
    BY DEF WorkerInv, DelayedOK, Requests
  <2>2. CASE m.rpc = "report"
    <3>1. granted' = [granted EXCEPT ![m.task] =
              IF state'[m.task] = "Committing" /\ committer'[m.task] = m.attempt
              THEN @ \cup {m.attempt} ELSE @]
      BY <1>2, <2>2 DEF HandleDelayed
    <3> QED
      BY <1>0, <2>1, <2>2, <3>1
  <2>3. CASE m.rpc # "report"
    BY <1>2, <2>1, <2>3 DEF HandleDelayed, Calling
  <2> QED
    BY <2>2, <2>3
<1>3. \/ granted' = granted
      \/ \E t \in Task, id \in Nat : granted' = [granted EXCEPT ![t] = @ \cup {id}]
  BY <1>1, <1>2
     DEF JobStep, GetTask, Execute, Rename, Drops, ReaperPass, Lingers, budgetVars
<1> QED
  BY <1>0, <1>3

LEMMA WorkerInvStep ==
    ASSUME WorkerInv, [JobNext]_jobVars
    PROVE  WorkerInv'
<1>1. JobStep
  BY JobCases
<1>2. PhaseInv'
  BY <1>1, JobCoordStep, PhaseInvStep DEF WorkerInv
<1>3. DelayedOK'
  BY <1>1, DelayedTypeStep
<1>4. \A m \in delayed' : m.rpc \in Calling /\ m.worker \in Worker
  BY <1>3 DEF DelayedOK, Requests
<1>5. TypeOK'
  BY <1>2 DEF PhaseInv, AttemptInv
<1>6. JobTypeOK'
  BY <1>1, <1>4, <1>5, BudgetTypes, HeldStep, FinalTypeStep, GrantedStep DEF JobTypeOK
<1> QED
  BY <1>1, <1>2, <1>3, <1>6, HeldStep, FinalTypeStep DEF WorkerInv

LEMMA WorkerInvInit == JobInit => WorkerInv
<1> SUFFICES ASSUME JobInit PROVE WorkerInv
  OBVIOUS
<1>1. PhaseInv
  BY PhaseInvInit DEF JobInit
<1>2. JobTypeOK
  BY <1>1, WorkerBoundsAssumption, FilesType
     DEF JobInit, JobTypeOK, PhaseInv, AttemptInv, PC, Calling
<1> QED
  BY <1>1, <1>2 DEF JobInit, WorkerInv, HeldOK, HeldOnce, DelayedOK, Busy, NoTask

LEMMA WorkerInvHolds == JobSpec => []WorkerInv
<1>1. JobInit => WorkerInv
  BY WorkerInvInit
<1>2. WorkerInv /\ [JobNext]_jobVars => WorkerInv'
  BY WorkerInvStep
<1> QED
  BY <1>1, <1>2, PTL DEF JobSpec

(* Workers, files, calls and budgets keep their types, for any number of       *)
(* workers, tasks, faults, crashes and stalls (run, finish, call).             *)
THEOREM JobTypeCorrect == JobSpec => []JobTypeOK
BY WorkerInvHolds, PTL DEF WorkerInv

-----------------------------------------------------------------------------
(* Files in place.                                                         *)

(* How a worker comes to publish, and to confirm. *)
LEMMA PublishStep ==
    ASSUME WorkerInv, JobStep, NEW w \in Worker
    PROVE  /\ pc'[w] = "publish" =>
                 \/ pc[w] = "publish" /\ held'[w] = held[w] /\ renamed'[w] = renamed[w]
                 \/ GetClearance(w)
                 \/ Rename(w) /\ ~LastFile(w)
           /\ pc'[w] = "commit" =>
                 \/ pc[w] = "commit" /\ held'[w] = held[w]
                 \/ Rename(w) /\ LastFile(w)
<1> USE WorkerTypes
<1>1. ASSUME NEW v \in Worker, GetTask(v)
      PROVE  \/ pc'[w] = "execute"
             \/ pc'[w] = pc[w] /\ held'[w] = held[w] /\ renamed'[w] = renamed[w]
  BY <1>1, TakesTask
<1>2. ASSUME NEW v \in Worker, Execute(v)
      PROVE  \/ pc'[w] = "report"
             \/ pc'[w] = pc[w] /\ held'[w] = held[w] /\ renamed'[w] = renamed[w]
  BY <1>2 DEF Execute, GoTo
<1>3. ASSUME NEW v \in Worker, GetClearance(v)
      PROVE  \/ v = w /\ pc'[w] = "publish"
             \/ pc'[w] = pc[w] /\ held'[w] = held[w] /\ renamed'[w] = renamed[w]
  BY <1>3 DEF GetClearance, GoTo
<1>4. ASSUME NEW v \in Worker, Rename(v)
      PROVE  \/ v = w /\ pc'[w] = IF LastFile(w) THEN "commit" ELSE "publish"
             \/ pc'[w] = pc[w] /\ held'[w] = held[w] /\ renamed'[w] = renamed[w]
  <2>1. /\ renamed' = [renamed EXCEPT ![v] = renamed[v] + 1] /\ held' = held
        /\ pc' = [pc EXCEPT ![v] = IF LastFile(v) THEN "commit" ELSE "publish"]
    BY <1>4, RenameFile
  <2>2. CASE v = w
    BY <2>1, <2>2
  <2>3. CASE v # w
    BY <2>1, <2>3
  <2> QED
    BY <2>2, <2>3
<1>5. ASSUME NEW v \in Worker, Drops(v)
      PROVE  \/ pc'[w] \in {"request"} \cup Stopped
             \/ pc'[w] = pc[w] /\ held'[w] = held[w] /\ renamed'[w] = renamed[w]
  BY <1>5 DEF Drops
<1> QED
  BY <1>1, <1>2, <1>3, <1>4, <1>5, OthersStay DEF JobStep, Stays, Stopped

(* What a step does to one task. *)
Untouched(t) == state'[t] = state[t] /\ committer'[t] = committer[t]

Begun(t) ==
    /\ state[t] \in {"Idle", "InProgress"} /\ state'[t] = "InProgress"
    /\ committer'[t] = committer[t]

Cleared(t) ==
    /\ state[t] = "InProgress" /\ state'[t] = "Committing"
    /\ committer[t] < committer'[t]

Confirmed(t) ==
    /\ state[t] = "Committing" /\ state'[t] = "Completed" /\ committer'[t] = committer[t]
    /\ \/ \E w \in Worker : /\ pc[w] = "commit" /\ Drops(w)
                            /\ held[w].task = t /\ held[w].attempt = committer[t]
       \/ \E m \in delayed : /\ m.rpc = "commit" /\ HandleDelayed(m)
                             /\ m.task = t /\ m.attempt = committer[t]

TakenBack(t) ==
    /\ state[t] # "Completed" /\ state'[t] = "Idle" /\ committer'[t] = committer[t]
    /\ \E expired \in SUBSET Timed : ReaperPass(expired) /\ GivesUp(t, expired)

LEMMA AssignTouches ==
    ASSUME WorkerInv, NEW u \in Task, NEW w \in Worker, NEW backup \in BOOLEAN,
           AssignTask(u, w, backup), NEW t \in Task
    PROVE  Untouched(t) \/ Begun(t)
<1>1. Start(u, w, backup) /\ committer' = committer
  BY AssignStarts DEF AssignTask
<1>2. state' = [state EXCEPT ![u] = "InProgress"] /\ state[u] \in {"Idle", "InProgress"}
  BY <1>1, AssignStarts DEF Start, FirstIdle, Stragglers
<1> QED
  BY <1>1, <1>2, WorkerTypes DEF Untouched, Begun

LEMMA ClearTouches ==
    ASSUME WorkerInv, NEW u \in Task, NEW id \in Nat, Clear(u, id), NEW t \in Task
    PROVE  Untouched(t) \/ (t = u /\ committer'[t] = id /\ Cleared(t))
<1>1. /\ state[u] = "InProgress" /\ state' = [state EXCEPT ![u] = "Committing"]
      /\ committer' = [committer EXCEPT ![u] = id]
  BY DEF Clear, MayClear
<1>2. committer[u] < id
  BY DEF Clear, MayClear, IsLive, WorkerInv, PhaseInv, AttemptInv, CandidatesAreFresh
<1> QED
  BY <1>1, <1>2, WorkerTypes DEF Untouched, Cleared

LEMMA ConfirmTouches ==
    ASSUME WorkerInv, NEW u \in Task, NEW id, NEW w, NEW backup,
           Confirm(u, id, w, backup), NEW t \in Task
    PROVE  \/ Untouched(t)
           \/ /\ t = u /\ id = committer[t] /\ state[t] = "Committing"
              /\ state'[t] = "Completed" /\ committer'[t] = committer[t]
BY WorkerTypes DEF Confirm, HoldsClearance, Untouched

LEMMA TaskStep ==
    ASSUME WorkerInv, JobStep, NEW t \in Task
    PROVE  Untouched(t) \/ Begun(t) \/ Cleared(t) \/ Confirmed(t) \/ TakenBack(t)
<1>1. ASSUME NEW w \in Worker, GetTask(w) PROVE Untouched(t) \/ Begun(t)
  BY <1>1, TakesTask, AssignTouches
<1>2. ASSUME NEW w \in Worker, GetClearance(w) PROVE Untouched(t) \/ Cleared(t)
  <2>1. held[w].task \in Task /\ held[w].attempt \in Nat
    BY <1>2, BusyHolds DEF GetClearance, Busy
  <2> QED
    BY <1>2, <2>1, ClearTouches DEF GetClearance, ClearAgain, vars, Untouched
<1>3. ASSUME NEW w \in Worker, Drops(w) PROVE Untouched(t) \/ Confirmed(t)
  <2>1. CASE pc[w] = "commit" /\ Confirm(held[w].task, held[w].attempt, w, held[w].backup)
    <3>1. held[w].task \in Task
      BY <2>1, BusyHolds DEF Busy
    <3> QED
      BY <1>3, <2>1, <3>1, ConfirmTouches DEF Confirmed
  <2>2. Refuses \/ UNCHANGED vars => Untouched(t)
    BY DEF Refuses, Refuse, vars, Untouched
  <2> QED
    BY <1>3, <2>1, <2>2 DEF Drops
<1>4. ASSUME NEW m \in delayed, HandleDelayed(m)
      PROVE  Untouched(t) \/ Begun(t) \/ Cleared(t) \/ Confirmed(t)
  <2>1. /\ m.rpc \in Calling /\ m.worker \in Worker /\ m.attempt \in Nat
        /\ m.backup \in BOOLEAN
        /\ m.rpc # "request" => m.task \in Task
    BY DEF WorkerInv, DelayedOK, Requests
  <2>2. CASE m.rpc = "request"
    <3>1. RequestTask(m.worker)
      BY <1>4, <2>2 DEF HandleDelayed
    <3> QED
      BY <2>1, <3>1, AssignTouches DEF RequestTask, TellWait, TellExit, vars, Untouched
  <2>3. CASE m.rpc = "report"
    <3>1. Clear(m.task, m.attempt) \/ ClearAgain(m.task, m.attempt)
             \/ Refuse(m.task, m.attempt, m.worker)
      BY <1>4, <2>1, <2>3 DEF HandleDelayed, ReportTask
    <3> QED
      BY <2>1, <2>3, <3>1, ClearTouches DEF ClearAgain, Refuse, vars, Untouched
  <2>4. CASE m.rpc = "commit"
    <3>1. Confirm(m.task, m.attempt, m.worker, m.backup) \/ UNCHANGED vars
      BY <1>4, <2>1, <2>4 DEF HandleDelayed, CommitTask
    <3>2. CASE Confirm(m.task, m.attempt, m.worker, m.backup)
      BY <1>4, <2>1, <2>4, <3>2, ConfirmTouches DEF Confirmed
    <3> QED
      BY <3>1, <3>2 DEF vars, Untouched
  <2> QED
    BY <2>1, <2>2, <2>3, <2>4 DEF Calling
<1>5. ASSUME NEW expired \in SUBSET Timed, ReaperPass(expired)
      PROVE  Untouched(t) \/ TakenBack(t)
  <2>1. /\ state'[t] = IF GivesUp(t, expired) THEN "Idle" ELSE state[t]
        /\ committer' = committer
    BY <1>5 DEF ReaperPass, CheckTimeouts, Reap
  <2>2. GivesUp(t, expired) => state[t] # "Completed"
    BY DEF GivesUp
  <2> QED
    BY <1>5, <2>1, <2>2 DEF Untouched, TakenBack
<1>6. ASSUME NEW w \in Worker, Execute(w) \/ Rename(w) PROVE Untouched(t)
  BY <1>6 DEF Execute, Rename, coordVars, vars, Untouched
<1>7. Lingers => Untouched(t)
  BY DEF Lingers, TellWait, vars, Untouched
<1> QED
  BY <1>1, <1>2, <1>3, <1>4, <1>5, <1>6, <1>7 DEF JobStep

(* What is in place stays, whoever put it there and whoever replaces it. *)
LEMMA FilesStay ==
    ASSUME WorkerInv, JobStep, NEW t \in Task, NEW f \in 0 .. Files(t) - 1, final[t][f] # 0
    PROVE  final'[t][f] # 0
<1>1. ASSUME NEW w \in Worker, Rename(w) PROVE final'[t][f] # 0
  <2>1. final[t] \in [0 .. Files(t) - 1 -> Nat]
    BY WorkerTypes
  <2>2. /\ held[w].attempt # 0
        /\ t # held[w].task => final'[t] = final[t]
        /\ t = held[w].task => final'[t] = [final[t] EXCEPT ![renamed[w]] = held[w].attempt]
    BY <1>1, RenameFile
  <2> QED
    BY <2>1, <2>2
<1> QED
  BY <1>1, FinalStep

(* A publisher has moved its first files, a committer all of them: when a task *)
(* is confirmed, now or by a request sent before, its output is in place.      *)
PublishedOK ==
    /\ \A w \in Worker :
          /\ pc[w] = "publish" => \A f \in 0 .. renamed[w] - 1 : final[held[w].task][f] # 0
          /\ pc[w] = "commit" => OutputInPlace(held[w].task)
    /\ \A m \in delayed : m.rpc = "commit" => OutputInPlace(m.task)
    /\ CompletedHasOutput

FilesInv == WorkerInv /\ PublishedOK

LEMMA FilesInvStep ==
    ASSUME FilesInv, JobStep
    PROVE  PublishedOK'
<1> USE DEF FilesInv
<1>1. ASSUME NEW t \in Task, OutputInPlace(t) PROVE OutputInPlace(t)'
  BY <1>1, FilesStay DEF OutputInPlace
<1>2. ASSUME NEW w \in Worker, Rename(w)
      PROVE  \A f \in 0 .. renamed[w] : final'[held[w].task][f] # 0
  <2> DEFINE t == held[w].task
  <2>1. /\ t \in Task /\ held[w].attempt # 0 /\ renamed[w] \in 0 .. Files(t) - 1
        /\ final'[t] = [final[t] EXCEPT ![renamed[w]] = held[w].attempt]
        /\ pc[w] = "publish"
    BY <1>2, RenameFile
  <2>2. final[t] \in [0 .. Files(t) - 1 -> Nat] /\ renamed[w] \in Nat /\ Files(t) \in Nat
    BY <2>1, WorkerTypes, FilesType
  <2>3. \A f \in 0 .. renamed[w] - 1 : final[t][f] # 0
    BY <2>1 DEF PublishedOK
  <2> HIDE DEF t
  <2>4. ASSUME NEW f \in 0 .. renamed[w] PROVE final'[t][f] # 0
    <3>1. f \in 0 .. Files(t) - 1 /\ (f = renamed[w] \/ f \in 0 .. renamed[w] - 1)
      BY <2>1, <2>2
    <3> QED
      BY <2>1, <2>2, <2>3, <3>1
  <2> QED
    BY <2>4 DEF t
<1>3. ASSUME NEW w \in Worker, pc'[w] = "publish"
      PROVE  \A f \in 0 .. renamed'[w] - 1 : final'[held'[w].task][f] # 0
  <2>1. CASE pc[w] = "publish" /\ held'[w] = held[w] /\ renamed'[w] = renamed[w]
    <3>1. /\ held[w].task \in Task /\ renamed[w] \in Nat
          /\ renamed[w] < Files(held[w].task) /\ Files(held[w].task) \in Nat
      BY <2>1, BusyHolds, WorkerTypes, FilesType DEF Busy, WorkerInv, HeldOK
    <3>2. \A f \in 0 .. renamed[w] - 1 :
             f \in 0 .. Files(held[w].task) - 1 /\ final[held[w].task][f] # 0
      BY <2>1, <3>1 DEF PublishedOK
    <3> QED
      BY <2>1, <3>1, <3>2, FilesStay
  <2>2. CASE GetClearance(w)
    <3>1. renamed'[w] = 0
      BY <2>2 DEF GetClearance, GoTo, WorkerInv, HeldOK
    <3> QED
      BY <3>1
  <2>3. CASE Rename(w)
    <3>1. held' = held /\ renamed'[w] = renamed[w] + 1 /\ renamed[w] \in Nat
      BY <2>3, RenameFile, WorkerTypes
    <3> QED
      BY <1>2, <2>3, <3>1
  <2> QED
    BY <1>3, <2>1, <2>2, <2>3, PublishStep
<1>4. ASSUME NEW w \in Worker, pc'[w] = "commit"
      PROVE  held'[w].task \in Task /\ OutputInPlace(held[w].task)'
  <2>1. CASE pc[w] = "commit" /\ held'[w] = held[w]
    <3>1. held[w].task \in Task /\ OutputInPlace(held[w].task)
      BY <2>1, BusyHolds DEF Busy, PublishedOK
    <3> QED
      BY <1>1, <2>1, <3>1
  <2>2. CASE Rename(w) /\ LastFile(w)
    <3>1. held' = held /\ held[w].task \in Task /\ renamed[w] + 1 = Files(held[w].task)
      BY <2>2, RenameFile DEF LastFile
    <3>2. renamed[w] \in Nat /\ Files(held[w].task) - 1 = renamed[w]
      BY <3>1, WorkerTypes
    <3> QED
      BY <1>2, <2>2, <3>1, <3>2 DEF OutputInPlace
  <2> QED
    BY <1>4, <2>1, <2>2, PublishStep
<1>5. ASSUME NEW m \in delayed', m.rpc = "commit"
      PROVE  OutputInPlace(m.task)'
  <2>1. m.task \in Task /\ OutputInPlace(m.task)
    <3>1. CASE m \in delayed
      BY <1>5, <3>1 DEF PublishedOK, WorkerInv, DelayedOK
    <3>2. ASSUME NEW w \in Worker, pc[w] \in Calling, m = Request(w)
          PROVE  m.task \in Task /\ OutputInPlace(m.task)
      <4>1. pc[w] = "commit" /\ m.task = held[w].task
        BY <1>5, <3>2 DEF Request
      <4> QED
        BY <4>1, BusyHolds DEF Busy, PublishedOK
    <3> QED
      BY <3>1, <3>2, DelayedStep DEF DelayedGrows
  <2> QED
    BY <1>1, <2>1
<1>6. ASSUME NEW t \in Task, state'[t] = "Completed" PROVE OutputInPlace(t)
  <2>1. state[t] = "Completed" \/ Confirmed(t)
    BY <1>6, TaskStep DEF Untouched, Begun, Cleared, TakenBack
  <2> QED
    BY <2>1 DEF PublishedOK, CompletedHasOutput, Confirmed
<1>7. CompletedHasOutput'
  BY <1>1, <1>6 DEF CompletedHasOutput
<1> QED
  BY <1>3, <1>4, <1>5, <1>7 DEF PublishedOK

LEMMA FilesInvHolds == JobSpec => []FilesInv
<1>1. JobInit => PublishedOK
  BY DEF JobInit, Init, PublishedOK, CompletedHasOutput
<1>2. WorkerInv /\ PublishedOK /\ [JobNext]_jobVars => PublishedOK'
  BY FilesInvStep, JobCases DEF FilesInv
<1> QED
  BY <1>1, <1>2, WorkerInvHolds, PTL DEF JobSpec, FilesInv

(* A reduce attempt was handed out, so every map task is finished and has its *)
(* files in place.                                                            *)
LEMMA InputsReady == FilesInv => ReduceInputsReady
<1> SUFFICES ASSUME FilesInv, NEW w \in Worker, pc[w] = "execute"
             PROVE  InputsPresent(held[w].task)
  BY DEF ReduceInputsReady
<1> DEFINE t == held[w].task
<1>1. t \in Task /\ nextAttempt[t] > 0
  BY BusyHolds, WorkerTypes DEF FilesInv, Busy
<1>2. ASSUME KindOf(t) = "reduce", NEW m \in TasksOf("map") PROVE final[m][t[2]] # 0
  <2>1. t \in TasksOf("reduce") /\ t[2] \in 0 .. NReduce - 1
    BY <1>1, <1>2, TaskKinds DEF TasksOf, Total
  <2>2. ReduceAfterMaps
    BY FullCounter DEF FilesInv, WorkerInv, PhaseInv, Barrier, ReduceAfterMaps, Kind, Total
  <2>3. m \in Task /\ KindOf(m) = "map" /\ state[m] = "Completed"
    BY <1>1, <2>1, <2>2, TaskKinds DEF ReduceAfterMaps, Kind
  <2>4. OutputInPlace(m)
    BY <2>3 DEF FilesInv, PublishedOK, CompletedHasOutput
  <2> QED
    BY <2>1, <2>3, <2>4 DEF OutputInPlace, Files
<1> QED
  BY <1>2 DEF InputsPresent

(* A finished task has all its files in place, and so has every map task when  *)
(* a reduce attempt runs, whatever crashes, stalls or is lost (finish,         *)
(* doReduceTask, CommitTask).                                                  *)
THEOREM FilesInPlaceHolds == JobSpec => []FilesInPlace
<1>1. FilesInv => FilesInPlace
  BY InputsReady DEF FilesInv, PublishedOK, FilesInPlace
<1> QED
  BY <1>1, FilesInvHolds, PTL
-----------------------------------------------------------------------------
(* The job implements module Job.                                          *)

Available == {t \in Task : OutputInPlace(t)}
Finished == {t \in Task : state[t] = "Completed"}

(* A rename completes the output of the task it is of, or of none. *)
LEMMA RenameAvails ==
    ASSUME WorkerInv, NEW w \in Worker, Rename(w)
    PROVE  Available' = Available \/ Available' = Available \cup {held[w].task}
<1> PICK u \in Task : u = held[w].task
  BY RenameFile
<1>1. \A t \in Task : t # u => (OutputInPlace(t)' <=> OutputInPlace(t))
  BY RenameFile DEF OutputInPlace
<1>2. OutputInPlace(u) => OutputInPlace(u)'
  <2>1. JobStep
    BY DEF JobStep
  <2> QED
    BY <2>1, FilesStay DEF OutputInPlace
<1>3. CASE OutputInPlace(u)'
  BY <1>1, <1>3 DEF Available
<1>4. CASE ~OutputInPlace(u)'
  BY <1>1, <1>2, <1>4 DEF Available
<1> QED
  BY <1>3, <1>4

(* A step finishes one task or none. *)
LEMMA OneFinishes ==
    ASSUME AttemptInv, CoordStep
    PROVE  Finished' = Finished \/ \E t \in Task : Finished' = Finished \cup {t}
<1>1. state \in [Task -> TaskState]
  BY DEF AttemptInv, TypeOK
<1>2. ASSUME NEW u \in Task, NEW id, NEW w, NEW backup, Confirm(u, id, w, backup)
      PROVE  Finished' = Finished \cup {u}
  <2>1. state' = [state EXCEPT ![u] = "Completed"]
    BY <1>2 DEF Confirm
  <2> QED
    BY <1>1, <2>1 DEF Finished
<1>3. ASSUME \A t \in Task : state'[t] = "Completed" <=> state[t] = "Completed"
      PROVE  Finished' = Finished
  BY <1>3 DEF Finished
<1>4. CASE Assigns
  <2> PICK u \in Task, w \in Worker, backup \in BOOLEAN : AssignTask(u, w, backup)
    BY <1>4 DEF Assigns
  <2>1. Start(u, w, backup) /\ state[u] # "Completed"
    BY AssignStarts DEF FirstIdle, Stragglers
  <2>2. state' = [state EXCEPT ![u] = "InProgress"]
    BY <2>1 DEF Start
  <2> QED
    BY <1>1, <1>3, <2>1, <2>2
<1>5. CASE Clears
  <2> PICK u \in Task, id \in Nat : Clear(u, id)
    BY <1>5 DEF Clears
  <2>1. state' = [state EXCEPT ![u] = "Committing"] /\ state[u] # "Completed"
    BY DEF Clear, MayClear
  <2> QED
    BY <1>1, <1>3, <2>1
<1>6. CASE Reaps
  <2> PICK expired \in SUBSET Timed : Reap(expired)
    BY <1>6 DEF Reaps
  <2>1. \A t \in Task : state'[t] = IF GivesUp(t, expired) THEN "Idle" ELSE state[t]
    BY DEF Reap
  <2>2. \A t \in Task : GivesUp(t, expired) => state[t] # "Completed"
    BY DEF GivesUp
  <2> QED
    BY <1>3, <2>1, <2>2
<1>7. CASE state' = state
  BY <1>3, <1>7
<1>8. TellWait \/ Refuses \/ UNCHANGED vars => state' = state
  BY DEF TellWait, Refuses, Refuse, vars
<1> QED
  BY <1>2, <1>4, <1>5, <1>6, <1>7, <1>8 DEF CoordStep, Confirms

(* No reduce attempt exists before every map task is finished. *)
LEMMA MapsFinished ==
    ASSUME PhaseInv, NEW t \in TasksOf("reduce"), nextAttempt[t] > 0
    PROVE  TasksOf("map") \subseteq Finished
<1>1. completed["map"] = Total("map")
  BY DEF PhaseInv, Barrier, Total
<1>2. \A m \in TasksOf("map") : state[m] = "Completed"
  BY <1>1, FullCounter DEF PhaseInv, Kind
<1> QED
  BY <1>2, TaskKinds DEF Finished, Kind

LEMMA JobStepImplements ==
    ASSUME FilesInv, PublishedOK', JobStep
    PROVE  [AbstractJob!Next]_AbstractJob!vars
<1>1. ASSUME NEW w \in Worker, Rename(w) PROVE [AbstractJob!Next]_AbstractJob!vars
  <2> DEFINE u == held[w].task
  <2>1. u \in Task /\ nextAttempt[u] > 0
    <3>1. pc[w] \in Busy
      BY <1>1 DEF Rename, Busy
    <3>2. /\ u \in Task /\ held[w].attempt \in Nat \ {0}
          /\ held[w].attempt <= nextAttempt[u] /\ nextAttempt[u] \in Nat
      BY <3>1, BusyHolds, WorkerTypes DEF FilesInv
    <3> QED
      BY <3>2
  <2>2. Finished' = Finished
    BY <1>1 DEF Rename, Finished, coordVars, vars
  <2>3. Available' = Available \/ Available' = Available \cup {u}
    BY <1>1, RenameAvails DEF FilesInv
  <2>4. u \in TasksOf("reduce") => TasksOf("map") \subseteq Finished
    BY <2>1, MapsFinished DEF FilesInv, WorkerInv
  <2>5. CASE Available' = Available
    BY <2>2, <2>5 DEF AbstractJob!vars, Available, Finished
  <2>6. CASE Available' = Available \cup {u}
    <3>1. AbstractJob!Publish(u)
      BY <2>2, <2>4, <2>6 DEF AbstractJob!Publish, Available, Finished
    <3> QED
      BY <2>1, <3>1 DEF AbstractJob!Next, AbstractJob!Task, Task
  <2> QED
    BY <2>3, <2>5, <2>6
<1>2. CASE final' = final
  <2>1. Available' = Available
    BY <1>2 DEF Available, OutputInPlace
  <2>2. Finished' \subseteq Available
    BY <2>1 DEF PublishedOK, CompletedHasOutput, Finished, Available
  <2>3. CASE Finished' = Finished
    BY <2>1, <2>3 DEF AbstractJob!vars, Available, Finished
  <2>4. ASSUME NEW u \in Task, Finished' = Finished \cup {u}
        PROVE  AbstractJob!Next
    <3>1. AbstractJob!Finish(u)
      BY <2>1, <2>2, <2>4 DEF AbstractJob!Finish, Available, Finished
    <3> QED
      BY <3>1 DEF AbstractJob!Next, AbstractJob!Task, Task
  <2> QED
    BY <2>3, <2>4, OneFinishes, JobCoordStep DEF FilesInv, WorkerInv, PhaseInv
<1> QED
  BY <1>1, <1>2, FinalStep DEF FilesInv

(* A job keeps the promises of module Job: a task's output is in place before  *)
(* the task counts as done, no reduce output is before every map task is done, *)
(* and done is for good.  The state is mapped by which tasks have all their    *)
(* files and which are Completed (finish, handOut, CommitTask).                *)
THEOREM ImplementsJobHolds == JobSpec => ImplementsJob
<1>1. JobInit => AbstractJob!Init
  <2>1. JobInit => \A t \in Task : final[t][0] = 0 /\ state[t] = "Idle"
    BY FilesType DEF JobInit, Init
  <2>2. \A t \in Task : 0 \in 0 .. Files(t) - 1
    BY FilesType
  <2> QED
    BY <2>1, <2>2 DEF AbstractJob!Init, OutputInPlace
<1>2. FilesInv /\ [JobNext]_jobVars => [AbstractJob!Next]_AbstractJob!vars
  BY FilesInvStep, JobCases, JobStepImplements DEF FilesInv
<1> QED
  BY <1>1, <1>2, FilesInvHolds, PTL DEF JobSpec, ImplementsJob, AbstractJob!Spec
-----------------------------------------------------------------------------
(* Clearance and files.                                                    *)

(* A worker publishes, and confirms, only what it was cleared to publish. *)
PublishersGranted ==
    \A w \in Worker :
        pc[w] \in {"publish", "commit"} => held[w].attempt \in granted[held[w].task]

GrantedInv == WorkerInv /\ PublishersGranted /\ OnlyClearedPublish

(* A worker given clearance has the task's only one. *)
LEMMA ClearanceGiven ==
    ASSUME WorkerInv, NEW w \in Worker, GetClearance(w)
    PROVE  /\ held' = held /\ UNCHANGED <<final, delayed, stalls>>
           /\ renamed' = renamed /\ renamed[w] = 0 /\ pc[w] = "report"
           /\ held[w].task \in Task /\ held[w].attempt \in Nat
           /\ held[w].attempt \in granted'[held[w].task]
           /\ state'[held[w].task] = "Committing"
           /\ committer'[held[w].task] = held[w].attempt
<1>1. pc[w] = "report" /\ held' = held /\ renamed' = renamed
  BY DEF GetClearance, GoTo
<1>2. held[w].task \in Task /\ held[w].attempt \in Nat /\ renamed[w] = 0
  BY <1>1, BusyHolds DEF Busy, WorkerInv, HeldOK
<1>3. held[w].attempt \in granted'[held[w].task]
  BY <1>2, WorkerTypes DEF GetClearance
<1>4. /\ state'[held[w].task] = "Committing"
      /\ committer'[held[w].task] = held[w].attempt
  <2>1. CASE Clear(held[w].task, held[w].attempt)
    BY <1>2, <2>1, WorkerTypes DEF Clear
  <2>2. CASE ClearAgain(held[w].task, held[w].attempt)
    BY <1>2, <2>2 DEF ClearAgain, HoldsClearance, vars
  <2> QED
    BY <2>1, <2>2 DEF GetClearance
<1> QED
  BY <1>1, <1>2, <1>3, <1>4 DEF GetClearance, budgetVars

LEMMA GrantedInvStep ==
    ASSUME GrantedInv, JobStep
    PROVE  PublishersGranted' /\ OnlyClearedPublish'
<1> USE DEF GrantedInv
<1>0. \A t \in Task : granted[t] \subseteq granted'[t]
  BY GrantedStep
<1>1. ASSUME NEW w \in Worker, pc'[w] \in {"publish", "commit"}
      PROVE  held'[w].attempt \in granted'[held'[w].task]
  <2>1. ASSUME pc[w] \in {"publish", "commit"}, held'[w] = held[w]
        PROVE  held'[w].attempt \in granted'[held'[w].task]
    <3>1. held[w].task \in Task /\ held[w].attempt \in granted[held[w].task]
      BY <2>1, BusyHolds DEF Busy, PublishersGranted
    <3> QED
      BY <1>0, <2>1, <3>1
  <2>2. CASE GetClearance(w)
    BY <2>2, ClearanceGiven
  <2>3. CASE Rename(w)
    BY <2>1, <2>3, RenameFile
  <2> QED
    BY <1>1, <2>1, <2>2, <2>3, PublishStep
<1>2. ASSUME NEW t \in Task, NEW f \in 0 .. Files(t) - 1
      PROVE  final'[t][f] \in granted'[t] \cup {0}
  <2>1. final[t][f] \in granted'[t] \cup {0}
    BY <1>0 DEF OnlyClearedPublish
  <2>2. ASSUME NEW w \in Worker, Rename(w), held[w].task = t
        PROVE  final'[t][f] \in granted'[t] \cup {0}
    <3>1. /\ final'[t] = [final[t] EXCEPT ![renamed[w]] = held[w].attempt]
          /\ final[t] \in [0 .. Files(t) - 1 -> Nat]
      BY <2>2, RenameFile, WorkerTypes
    <3>2. held[w].attempt \in granted'[t]
      BY <1>0, <2>2, RenameFile DEF PublishersGranted
    <3> QED
      BY <2>1, <3>1, <3>2
  <2>3. ASSUME NEW w \in Worker, Rename(w), held[w].task # t PROVE final'[t] = final[t]
    BY <2>3, RenameFile
  <2> QED
    BY <2>1, <2>2, <2>3, FinalStep
<1>3. PublishersGranted'
  BY <1>1 DEF PublishersGranted
<1> QED
  BY <1>2, <1>3 DEF OnlyClearedPublish

(* Every file of every output was written by an attempt that had been cleared, *)
(* also while workers crash, requests are late and tasks are taken back        *)
(* (publish, ReportTask).                                                      *)
THEOREM OnlyClearedPublishHolds == JobSpec => []OnlyClearedPublish
<1>1. JobInit => PublishersGranted /\ OnlyClearedPublish
  BY DEF JobInit, PublishersGranted, OnlyClearedPublish
<1>2. /\ WorkerInv /\ PublishersGranted /\ OnlyClearedPublish
      /\ [JobNext]_jobVars
      => PublishersGranted' /\ OnlyClearedPublish'
  BY GrantedInvStep, JobCases DEF GrantedInv
<1> QED
  BY <1>1, <1>2, WorkerInvHolds, PTL DEF JobSpec
-----------------------------------------------------------------------------
(* Jobs in which no live worker is timed out.                              *)

(* The attempts workers still have to publish, or are publishing. *)
Unpublished == {"execute", "report", "publish"}

(* An attempt that publishes or has published is not newer than the last one  *)
(* cleared; and once one has confirmed nobody is to publish it.               *)
ConfirmedOnce ==
    /\ \A w \in Worker :
          pc[w] \in {"publish", "commit"} => held[w].attempt <= committer[held[w].task]
    /\ \A m \in delayed : m.rpc = "commit" =>
          /\ m.attempt <= committer[m.task]
          /\ \A w \in Worker :
                pc[w] \in Unpublished /\ held[w].task = m.task
                    => held[w].attempt # m.attempt

LEMMA UnpublishedStep ==
    ASSUME WorkerInv, JobStep, NEW w \in Worker, pc'[w] \in Unpublished
    PROVE  \/ pc[w] \in Unpublished /\ held'[w] = held[w]
           \/ /\ held'[w].task \in Task
              /\ held'[w].attempt = nextAttempt[held'[w].task] + 1
<1> USE WorkerTypes DEF Unpublished
<1>1. ASSUME NEW v \in Worker, GetTask(v)
      PROVE  \/ pc[w] \in Unpublished /\ held'[w] = held[w]
             \/ /\ held'[w].task \in Task
                /\ held'[w].attempt = nextAttempt[held'[w].task] + 1
  <2> PICK t \in Task, backup \in BOOLEAN :
              /\ held' = [held EXCEPT ![v] =
                    [task |-> t, attempt |-> nextAttempt[t] + 1, backup |-> backup]]
              /\ pc' = [pc EXCEPT ![v] = "execute"]
    BY <1>1, TakesTask
  <2>1. CASE v = w
    BY <2>1
  <2>2. CASE v # w
    BY <2>2
  <2> QED
    BY <2>1, <2>2
<1>2. ASSUME NEW v \in Worker, Execute(v) \/ GetClearance(v)
      PROVE  pc[w] \in Unpublished /\ held'[w] = held[w]
  BY <1>2 DEF Execute, GetClearance, GoTo
<1>3. ASSUME NEW v \in Worker, Rename(v)
      PROVE  pc[w] \in Unpublished /\ held'[w] = held[w]
  <2>1. /\ pc[v] = "publish" /\ held' = held
        /\ \E p \in {"commit", "publish"} : pc' = [pc EXCEPT ![v] = p]
    BY <1>3 DEF Rename
  <2> QED
    BY <2>1
<1>4. ASSUME NEW v \in Worker, Drops(v)
      PROVE  pc[w] \in Unpublished /\ held'[w] = held[w]
  <2>1. /\ pc' = [pc EXCEPT ![v] = pc'[v]] /\ pc'[v] \notin Unpublished
        /\ held' = [held EXCEPT ![v] = NoTask]
    BY <1>4 DEF Drops, Stopped
  <2> QED
    BY <2>1
<1> QED
  BY <1>1, <1>2, <1>3, <1>4, OthersStay DEF JobStep, Stays

LEMMA ConfirmedOnceStep ==
    ASSUME WorkerInv, ConfirmedOnce, JobStep
    PROVE  ConfirmedOnce'
<1>0. \A t \in Task : /\ committer[t] \in Nat /\ committer'[t] \in Nat
                      /\ committer[t] <= committer'[t] /\ nextAttempt[t] \in Nat
  BY Forward, WorkerTypes
<1>1. ASSUME NEW w \in Worker, pc'[w] \in {"publish", "commit"}
      PROVE  held'[w].attempt <= committer'[held'[w].task]
  <2>1. ASSUME pc[w] \in {"publish", "commit"}, held'[w] = held[w]
        PROVE  held'[w].attempt <= committer'[held'[w].task]
    <3>1. /\ held[w].task \in Task /\ held[w].attempt \in Nat
          /\ held[w].attempt <= committer[held[w].task]
      BY <2>1, BusyHolds DEF Busy, ConfirmedOnce
    <3> QED
      BY <1>0, <2>1, <3>1
  <2>2. CASE GetClearance(w)
    BY <2>2, ClearanceGiven
  <2>3. CASE Rename(w)
    BY <2>1, <2>3, RenameFile
  <2> QED
    BY <1>1, <2>1, <2>2, <2>3, PublishStep
<1>2. ASSUME NEW m \in delayed', m.rpc = "commit"
      PROVE  /\ m.attempt <= committer'[m.task]
             /\ m.task \in Task /\ m.attempt \in Nat /\ m.attempt <= nextAttempt[m.task]
             /\ \A w \in Worker :
                   pc[w] \in Unpublished /\ held[w].task = m.task
                       => held[w].attempt # m.attempt
  <2>1. CASE m \in delayed
    <3>1. /\ m.task \in Task /\ m.attempt \in Nat /\ m.attempt <= nextAttempt[m.task]
          /\ m.attempt <= committer[m.task]
      BY <1>2, <2>1, <1>0 DEF ConfirmedOnce, WorkerInv, DelayedOK
    <3> QED
      BY <1>0, <1>2, <2>1, <3>1 DEF ConfirmedOnce
  <2>2. ASSUME NEW v \in Worker, m = Request(v)
        PROVE  /\ m.attempt <= committer'[m.task]
               /\ m.task \in Task /\ m.attempt \in Nat /\ m.attempt <= nextAttempt[m.task]
               /\ \A w \in Worker :
                     pc[w] \in Unpublished /\ held[w].task = m.task
                         => held[w].attempt # m.attempt
    <3>1. pc[v] = "commit" /\ m.task = held[v].task /\ m.attempt = held[v].attempt
      BY <1>2, <2>2 DEF Request
    <3>2. /\ held[v].task \in Task /\ held[v].attempt \in Nat
          /\ held[v].attempt <= nextAttempt[held[v].task]
          /\ held[v].attempt <= committer[held[v].task]
      BY <3>1, BusyHolds DEF Busy, ConfirmedOnce
    <3>3. \A w \in Worker : pc[w] \in Unpublished /\ held[w].task = held[v].task
                                => held[w].attempt # held[v].attempt
      BY <3>1 DEF WorkerInv, HeldOnce, Unpublished, Busy
    <3> QED
      BY <1>0, <3>1, <3>2, <3>3
  <2> QED
    BY <2>1, <2>2, DelayedStep DEF DelayedGrows
<1>3. ASSUME NEW m \in delayed', m.rpc = "commit", NEW w \in Worker,
             pc'[w] \in Unpublished, held'[w].task = m.task
      PROVE  held'[w].attempt # m.attempt
  BY <1>0, <1>2, <1>3, UnpublishedStep
<1> QED
  BY <1>1, <1>2, <1>3 DEF ConfirmedOnce

FilesOf(t, id) == \A f \in 0 .. Files(t) - 1 : final[t][f] = id

(* While no live worker has been timed out, whoever publishes holds clearance *)
(* and whoever has published is the one the task was cleared for, so no file  *)
(* is written over.                                                           *)
Timely ==
    /\ \A w \in Worker : pc[w] = "publish" =>
          /\ HoldsClearance(held[w].task, held[w].attempt)
          /\ \A f \in 0 .. renamed[w] - 1 : final[held[w].task][f] = held[w].attempt
    /\ \A w \in Worker : pc[w] = "commit" =>
          /\ committer[held[w].task] = held[w].attempt
          /\ state[held[w].task] \in {"Committing", "Completed"}
          /\ FilesOf(held[w].task, held[w].attempt)
    /\ \A m \in delayed :
          m.rpc = "commit" /\ HoldsClearance(m.task, m.attempt)
              => FilesOf(m.task, m.attempt)
    /\ OutputIsCommitters

TimelyInv == WorkerInv /\ ConfirmedOnce /\ (stalls = 0 => Timely)

(* Stalls are never taken back. *)
LEMMA StallsGrow ==
    ASSUME WorkerInv, JobStep, stalls' = 0
    PROVE  stalls = 0
<1>1. stalls \in Nat
  BY WorkerBoundsAssumption DEF WorkerInv, JobTypeOK
<1>2. ASSUME NEW expired \in SUBSET Timed, ReaperPass(expired) PROVE stalls = 0
  <2>1. Cardinality(expired \ Orphans) \in Nat
    BY TimedFinite, FS_Subset, FS_CardinalityType DEF WorkerInv, PhaseInv
  <2> QED
    BY <1>1, <1>2, <2>1 DEF ReaperPass
<1> QED
  BY <1>2 DEF JobStep, GetTask, Execute, GetClearance, Rename, Drops, HandleDelayed,
              Lingers, budgetVars

(* A pass that stalls nobody takes back no attempt a live worker is on. *)
LEMMA AttendedKept ==
    ASSUME WorkerInv, stalls = 0, stalls' = 0,
           NEW expired \in SUBSET Timed, ReaperPass(expired),
           NEW w \in Worker, NEW t \in Task, held[w].task = t,
           state[t] = "Committing", committer[t] = held[w].attempt
    PROVE  ~GivesUp(t, expired)
<1>1. IsFiniteSet(expired \ Orphans)
  BY TimedFinite, FS_Subset DEF WorkerInv, PhaseInv
<1>2. Cardinality(expired \ Orphans) = 0
  BY <1>1, FS_CardinalityType DEF ReaperPass
<1>3. expired \ Orphans = {}
  BY <1>1, <1>2, FS_EmptySet
<1>4. Attended(t, committer[t])
  BY DEF Attended
<1>5. <<t, committer[t]>> \notin Orphans
  BY <1>4 DEF Orphans
<1> QED
  BY <1>3, <1>5 DEF GivesUp

(* Only the attempt that has clearance moves files. *)
LEMMA RenamesOwn ==
    ASSUME TimelyInv, stalls = 0, NEW w \in Worker, Rename(w)
    PROVE  /\ state[held[w].task] = "Committing"
           /\ committer[held[w].task] = held[w].attempt
BY RenameFile DEF TimelyInv, Timely, HoldsClearance

LEMMA KeepsFile ==
    ASSUME TimelyInv, stalls = 0, JobStep,
           NEW t \in Task, NEW f \in 0 .. Files(t) - 1, final[t][f] = committer[t]
    PROVE  final'[t][f] = committer[t]
<1>1. ASSUME NEW w \in Worker, Rename(w), held[w].task = t PROVE final'[t][f] = committer[t]
  <2>1. held[w].attempt = committer[t]
    BY <1>1, RenamesOwn
  <2>2. /\ final'[t] = [final[t] EXCEPT ![renamed[w]] = held[w].attempt]
        /\ final[t] \in [0 .. Files(t) - 1 -> Nat]
    BY <1>1, RenameFile, WorkerTypes DEF TimelyInv
  <2> QED
    BY <2>1, <2>2
<1>2. ASSUME NEW w \in Worker, Rename(w), held[w].task # t PROVE final'[t] = final[t]
  BY <1>2, RenameFile DEF TimelyInv
<1> QED
  BY <1>1, <1>2, FinalStep DEF TimelyInv

(* A worker publishing keeps its clearance until it has moved its last file. *)
LEMMA PublisherKept ==
    ASSUME TimelyInv, JobStep, stalls = 0, stalls' = 0,
           NEW w \in Worker, pc[w] = "publish", NEW t \in Task, held[w].task = t
    PROVE  state'[t] = "Committing" /\ committer'[t] = held[w].attempt
<1> USE DEF TimelyInv
<1>1. state[t] = "Committing" /\ committer[t] = held[w].attempt
  BY DEF Timely, HoldsClearance
<1>2. ~TakenBack(t)
  BY <1>1, AttendedKept DEF TakenBack
<1>3. ASSUME NEW v \in Worker, pc[v] = "commit", held[v].task = t,
             held[v].attempt = committer[t]
      PROVE  FALSE
  BY <1>1, <1>3 DEF WorkerInv, HeldOnce, Busy
<1>4. ASSUME NEW m \in delayed, m.rpc = "commit", m.task = t, m.attempt = committer[t]
      PROVE  FALSE
  BY <1>1, <1>4 DEF ConfirmedOnce, Unpublished
<1>5. ~Confirmed(t)
  BY <1>3, <1>4 DEF Confirmed
<1>6. Untouched(t)
  BY <1>1, <1>2, <1>5, TaskStep DEF Begun, Cleared
<1> QED
  BY <1>1, <1>6 DEF Untouched

(* One that has moved them all stays the one the task was cleared for. *)
LEMMA ConfirmerKept ==
    ASSUME TimelyInv, JobStep, stalls = 0, stalls' = 0,
           NEW w \in Worker, pc[w] = "commit", NEW t \in Task, held[w].task = t
    PROVE  /\ state'[t] \in {"Committing", "Completed"}
           /\ committer'[t] = committer[t]
<1> USE DEF TimelyInv
<1>1. state[t] \in {"Committing", "Completed"} /\ committer[t] = held[w].attempt
  BY DEF Timely
<1>2. ~TakenBack(t)
  <2>1. TakenBack(t) => state[t] = "Committing"
    BY <1>1 DEF TakenBack
  <2> QED
    BY <1>1, <2>1, AttendedKept DEF TakenBack
<1> QED
  BY <1>1, <1>2, TaskStep DEF Untouched, Begun, Cleared, Confirmed

LEMMA TimelyStep ==
    ASSUME TimelyInv, JobStep, stalls = 0, stalls' = 0
    PROVE  Timely'
<1> USE DEF TimelyInv
<1>0. \A t \in Task : committer[t] \in Nat /\ committer'[t] \in Nat /\ Files(t) \in Nat
  BY Forward, WorkerTypes, FilesType
<1>1. ASSUME NEW w \in Worker, pc'[w] = "publish", NEW t \in Task, held'[w].task = t
      PROVE  /\ state'[t] = "Committing" /\ committer'[t] = held'[w].attempt
             /\ \A f \in 0 .. renamed'[w] - 1 : final'[t][f] = held'[w].attempt
  <2>1. CASE pc[w] = "publish" /\ held'[w] = held[w] /\ renamed'[w] = renamed[w]
    <3>1. state'[t] = "Committing" /\ committer'[t] = held[w].attempt
      BY <1>1, <2>1, PublisherKept
    <3>2. committer[t] = held[w].attempt /\ renamed[w] < Files(t) /\ renamed[w] \in Nat
      BY <1>1, <2>1, WorkerTypes DEF Timely, HoldsClearance, WorkerInv, HeldOK
    <3>3. \A f \in 0 .. renamed[w] - 1 :
             f \in 0 .. Files(t) - 1 /\ final[t][f] = committer[t]
      BY <1>0, <1>1, <2>1, <3>2 DEF Timely
    <3>4. \A f \in 0 .. renamed[w] - 1 : final'[t][f] = committer[t]
      BY <3>3, KeepsFile
    <3> QED
      BY <2>1, <3>1, <3>2, <3>4
  <2>2. CASE GetClearance(w)
    BY <1>1, <2>2, ClearanceGiven
  <2>3. CASE Rename(w)
    <3>1. /\ held' = held /\ state' = state /\ committer' = committer
          /\ renamed'[w] = renamed[w] + 1
          /\ final'[t] = [final[t] EXCEPT ![renamed[w]] = held[w].attempt]
          /\ final[t] \in [0 .. Files(t) - 1 -> Nat]
          /\ renamed[w] \in 0 .. Files(t) - 1 /\ pc[w] = "publish"
      BY <1>1, <2>3, RenameFile, WorkerTypes DEF vars
    <3>2. state[t] = "Committing" /\ committer[t] = held[w].attempt
      BY <1>1, <2>3, <3>1, RenamesOwn
    <3>3. \A f \in 0 .. renamed[w] - 1 : final[t][f] = held[w].attempt
      BY <1>1, <3>1 DEF Timely
    <3>4. \A f \in 0 .. renamed[w] : final'[t][f] = held[w].attempt
      <4> TAKE f \in 0 .. renamed[w]
      <4>1. f \in 0 .. Files(t) - 1 /\ (f = renamed[w] \/ f \in 0 .. renamed[w] - 1)
        BY <1>0, <3>1
      <4> QED
        BY <3>1, <3>3, <4>1
    <3> QED
      BY <1>0, <3>1, <3>2, <3>4
  <2> QED
    BY <1>1, <2>1, <2>2, <2>3, PublishStep
<1>2. ASSUME NEW w \in Worker, pc'[w] = "commit", NEW t \in Task, held'[w].task = t
      PROVE  /\ committer'[t] = held'[w].attempt
             /\ state'[t] \in {"Committing", "Completed"}
             /\ \A f \in 0 .. Files(t) - 1 : final'[t][f] = held'[w].attempt
  <2>1. CASE pc[w] = "commit" /\ held'[w] = held[w]
    <3>1. committer[t] = held[w].attempt /\ FilesOf(t, committer[t])
      BY <1>2, <2>1 DEF Timely
    <3> QED
      BY <1>2, <2>1, <3>1, ConfirmerKept, KeepsFile DEF FilesOf
  <2>2. CASE Rename(w) /\ LastFile(w)
    <3>1. /\ held' = held /\ state' = state /\ committer' = committer
          /\ final'[t] = [final[t] EXCEPT ![renamed[w]] = held[w].attempt]
          /\ final[t] \in [0 .. Files(t) - 1 -> Nat]
          /\ renamed[w] \in Nat /\ pc[w] = "publish" /\ renamed[w] + 1 = Files(t)
      BY <1>2, <2>2, RenameFile, WorkerTypes DEF vars, LastFile
    <3>2. state[t] = "Committing" /\ committer[t] = held[w].attempt
      BY <1>2, <2>2, <3>1, RenamesOwn
    <3>3. \A f \in 0 .. renamed[w] - 1 : final[t][f] = held[w].attempt
      BY <1>2, <3>1 DEF Timely
    <3>4. \A f \in 0 .. Files(t) - 1 : final'[t][f] = held[w].attempt
      <4> TAKE f \in 0 .. Files(t) - 1
      <4>1. f = renamed[w] \/ f \in 0 .. renamed[w] - 1
        BY <1>0, <3>1
      <4> QED
        BY <3>1, <3>3, <4>1
    <3> QED
      BY <3>1, <3>2, <3>4
  <2> QED
    BY <1>2, <2>1, <2>2, PublishStep
<1>3. ASSUME NEW m \in delayed', m.rpc = "commit", HoldsClearance(m.task, m.attempt)'
      PROVE  \A f \in 0 .. Files(m.task) - 1 : final'[m.task][f] = m.attempt
  <2> DEFINE t == m.task
  <2>1. CASE m \in delayed
    <3>1. t \in Task /\ m.attempt \in Nat /\ m.attempt <= committer[t]
      BY <1>3, <2>1 DEF ConfirmedOnce, WorkerInv, DelayedOK
    <3>2. state'[t] = "Committing" /\ committer'[t] = m.attempt
      BY <1>3 DEF HoldsClearance
    <3>3. ~Cleared(t)
      BY <1>0, <3>1, <3>2 DEF Cleared
    <3>4. Untouched(t)
      BY <3>1, <3>2, <3>3, TaskStep DEF Begun, Confirmed, TakenBack
    <3>5. committer[t] = m.attempt /\ FilesOf(t, m.attempt)
      BY <1>3, <2>1, <3>2, <3>4 DEF Untouched, Timely, HoldsClearance
    <3> QED
      BY <3>1, <3>5, KeepsFile DEF FilesOf
  <2>2. ASSUME NEW w \in Worker, m = Request(w)
        PROVE  \A f \in 0 .. Files(t) - 1 : final'[t][f] = m.attempt
    <3>1. pc[w] = "commit" /\ t = held[w].task /\ m.attempt = held[w].attempt
      BY <1>3, <2>2 DEF Request
    <3>2. t \in Task /\ committer[t] = m.attempt /\ FilesOf(t, m.attempt)
      BY <3>1, BusyHolds DEF Busy, Timely
    <3> QED
      BY <3>2, KeepsFile DEF FilesOf
  <2> QED
    BY <1>3, <2>1, <2>2, DelayedStep DEF DelayedGrows
<1>4. ASSUME NEW t \in Task, state'[t] = "Completed"
      PROVE  \A f \in 0 .. Files(t) - 1 : final'[t][f] = committer'[t]
  <2>1. CASE Untouched(t)
    <3>1. \A f \in 0 .. Files(t) - 1 : final[t][f] = committer[t]
      BY <1>4, <2>1 DEF Untouched, Timely, OutputIsCommitters
    <3> QED
      BY <2>1, <3>1, KeepsFile DEF Untouched
  <2>2. CASE Confirmed(t)
    <3>1. FilesOf(t, committer[t])
      BY <2>2 DEF Confirmed, Timely, HoldsClearance
    <3> QED
      BY <2>2, <3>1, KeepsFile DEF FilesOf, Confirmed
  <2> QED
    BY <1>4, <2>1, <2>2, TaskStep DEF Begun, Cleared, TakenBack
<1>5. \A w \in Worker : pc'[w] \in {"publish", "commit"} => held'[w].task \in Task
  <2>1. HeldOK'
    BY HeldStep
  <2> QED
    BY <2>1 DEF HeldOK, Busy, Assignment
<1>6. \A w \in Worker : pc'[w] = "publish" =>
          /\ HoldsClearance(held[w].task, held[w].attempt)'
          /\ \A f \in 0 .. renamed'[w] - 1 : final'[held'[w].task][f] = held'[w].attempt
  BY <1>1, <1>5 DEF HoldsClearance
<1>7. \A w \in Worker : pc'[w] = "commit" =>
          /\ committer'[held'[w].task] = held'[w].attempt
          /\ state'[held'[w].task] \in {"Committing", "Completed"}
          /\ FilesOf(held[w].task, held[w].attempt)'
  BY <1>2, <1>5 DEF FilesOf
<1>8. \A m \in delayed' :
          m.rpc = "commit" /\ HoldsClearance(m.task, m.attempt)'
              => FilesOf(m.task, m.attempt)'
  BY <1>3 DEF FilesOf
<1>9. OutputIsCommitters'
  BY <1>4 DEF OutputIsCommitters
<1> QED
  BY <1>6, <1>7, <1>8, <1>9 DEF Timely

LEMMA TimelyInvHolds == JobSpec => []TimelyInv
<1>1. JobInit => ConfirmedOnce /\ Timely
  BY DEF JobInit, Init, ConfirmedOnce, Unpublished, Timely, OutputIsCommitters
<1>2. /\ WorkerInv /\ ConfirmedOnce /\ (stalls = 0 => Timely)
      /\ [JobNext]_jobVars
      => ConfirmedOnce' /\ (stalls = 0 => Timely)'
  BY JobCases, ConfirmedOnceStep, TimelyStep, StallsGrow DEF TimelyInv
<1> QED
  BY <1>1, <1>2, WorkerInvHolds, PTL DEF JobSpec, TimelyInv

(* As long as no live worker was timed out, all files of a finished task are   *)
(* those of the attempt that confirmed it, whatever crashed or got lost        *)
(* (publish, CommitTask, checkTimeouts).                                       *)
THEOREM OutputIsCommittersHolds == JobSpec => [](stalls = 0 => OutputIsCommitters)
<1>1. TimelyInv => (stalls = 0 => OutputIsCommitters)
  BY DEF TimelyInv, Timely
<1> QED
  BY <1>1, TimelyInvHolds, PTL

(* With TaskTimeout long enough for every live worker, a finished task's files *)
(* never change again: "a losing backup never writes over a good result"       *)
(* (worker.go, pendingOutput).                                                 *)
THEOREM FinishedOutputIsFinalHolds ==
    ASSUME MaxStalls = 0
    PROVE  JobSpec => FinishedOutputIsFinal
<1>1. ASSUME TimelyInv, [JobNext]_jobVars, NEW t \in Task, state[t] = "Completed"
      PROVE  final'[t] = final[t]
  <2>1. stalls = 0 /\ WorkerInv /\ JobStep
    BY <1>1, JobCases DEF TimelyInv, WorkerInv, JobTypeOK
  <2>2. ASSUME NEW w \in Worker, Rename(w) PROVE final'[t] = final[t]
    <3>1. state[held[w].task] = "Committing"
      BY <1>1, <2>1, <2>2, RenamesOwn
    <3>2. t # held[w].task
      BY <1>1, <3>1
    <3> QED
      BY <2>1, <2>2, <3>2, RenameFile
  <2> QED
    BY <2>1, <2>2, FinalStep
<1>2. TimelyInv /\ [JobNext]_jobVars
      => [\A t \in Task : state[t] = "Completed" => final'[t] = final[t]]_jobVars
  BY <1>1
<1> QED
  BY <1>2, TimelyInvHolds, PTL DEF JobSpec, FinishedOutputIsFinal

-----------------------------------------------------------------------------
(* Backups.                                                                *)

(* The unfinished tasks a backup of which a worker is on, or a late call names. *)
BackupInPlay ==
    {t \in Task :
        /\ state[t] # "Completed"
        /\ \/ \E w \in Worker : held[w].task = t /\ held[w].backup
           \/ \E m \in delayed : m.rpc # "request" /\ m.task = t /\ m.backup}

(* Each of them may still win, once. *)
BackupsInv == backupsWon + Cardinality(BackupInPlay) <= backupsLaunched

LEMMA HeldChange ==
    ASSUME WorkerInv, JobStep, NEW w \in Worker
    PROVE  held'[w] = held[w] \/ held'[w] = NoTask \/ GetTask(w)
<1> USE WorkerTypes
<1>1. ASSUME NEW v \in Worker, GetTask(v) PROVE v = w \/ held'[w] = held[w]
  BY <1>1 DEF GetTask
<1>2. ASSUME NEW v \in Worker, Drops(v) PROVE held'[w] = NoTask \/ held'[w] = held[w]
  BY <1>2 DEF Drops
<1> QED
  BY <1>1, <1>2, OthersStay DEF JobStep, Stays, Execute, GetClearance, GoTo, Rename

(* A backup comes into play only by being handed out to a waiting worker. *)
LEMMA PlayGrows ==
    ASSUME WorkerInv, JobStep, NEW t \in BackupInPlay'
    PROVE  \/ t \in BackupInPlay
           \/ \E w \in Worker : GetTask(w) /\ held'[w].task = t /\ held'[w].backup
<1>1. t \in Task /\ state[t] # "Completed"
  BY Forward DEF BackupInPlay
<1>2. ASSUME NEW w \in Worker, held'[w].task = t, held'[w].backup
      PROVE  t \in BackupInPlay \/ GetTask(w)
  <2>1. held'[w] # NoTask
    BY <1>1, <1>2, NoTaskIsNone
  <2> QED
    BY <1>1, <1>2, <2>1, HeldChange DEF BackupInPlay
<1>3. ASSUME NEW m \in delayed', m.rpc # "request", m.task = t, m.backup
      PROVE  t \in BackupInPlay
  <2>1. CASE m \in delayed
    BY <1>1, <1>3, <2>1 DEF BackupInPlay
  <2>2. ASSUME NEW w \in Worker, m = Request(w) PROVE t \in BackupInPlay
    <3>1. held[w].task = t /\ held[w].backup
      BY <1>3, <2>2 DEF Request
    <3> QED
      BY <1>1, <3>1 DEF BackupInPlay
  <2> QED
    BY <1>3, <2>1, <2>2, DelayedStep DEF DelayedGrows
<1> QED
  BY <1>2, <1>3 DEF BackupInPlay

LEMMA PlayFinite == IsFiniteSet(BackupInPlay) /\ IsFiniteSet(BackupInPlay')
BY TaskFinite, FS_Subset DEF BackupInPlay

LEMMA BackupTypes ==
    ASSUME WorkerInv
    PROVE  backupsWon \in Nat /\ backupsLaunched \in Nat
BY DEF WorkerInv, JobTypeOK, TypeOK

(* A confirmed backup was in play until then. *)
LEMMA ConfirmedBackup ==
    ASSUME WorkerInv, BackupsInv, JobStep, BackupInPlay' \subseteq BackupInPlay,
           NEW t \in Task, NEW id, NEW w, NEW backup \in BOOLEAN,
           Confirm(t, id, w, backup), backup => t \in BackupInPlay
    PROVE  BackupsInv'
<1>1. state'[t] = "Completed" /\ backupsLaunched' = backupsLaunched
  BY WorkerTypes DEF Confirm
<1>2. t \notin BackupInPlay'
  BY <1>1 DEF BackupInPlay
<1>3. BackupInPlay' \subseteq BackupInPlay \ {t}
  BY <1>2
<1>4. /\ IsFiniteSet(BackupInPlay \ {t})
      /\ Cardinality(BackupInPlay \ {t}) =
            IF t \in BackupInPlay THEN Cardinality(BackupInPlay) - 1
            ELSE Cardinality(BackupInPlay)
  BY PlayFinite, FS_RemoveElement
<1>5. /\ Cardinality(BackupInPlay') <= Cardinality(BackupInPlay \ {t})
      /\ Cardinality(BackupInPlay') \in Nat /\ Cardinality(BackupInPlay) \in Nat
  BY <1>3, <1>4, PlayFinite, FS_Subset, FS_CardinalityType
<1>6. backupsWon' = IF backup THEN backupsWon + 1 ELSE backupsWon
  BY DEF Confirm
<1> QED
  BY <1>1, <1>4, <1>5, <1>6, BackupTypes DEF BackupsInv

LEMMA BackupsInvStep ==
    ASSUME WorkerInv, BackupsInv, JobStep
    PROVE  BackupsInv'
<1>0. /\ Cardinality(BackupInPlay) \in Nat /\ Cardinality(BackupInPlay') \in Nat
      /\ backupsWon \in Nat /\ backupsLaunched \in Nat
  BY PlayFinite, FS_CardinalityType, BackupTypes
<1>1. ASSUME BackupInPlay' \subseteq BackupInPlay, backupsWon' = backupsWon,
             backupsLaunched' \in {backupsLaunched, backupsLaunched + 1}
      PROVE  BackupsInv'
  <2>1. Cardinality(BackupInPlay') <= Cardinality(BackupInPlay)
    BY <1>1, PlayFinite, FS_Subset
  <2> QED
    BY <1>0, <1>1, <2>1 DEF BackupsInv
<1>2. ASSUME NEW w \in Worker, GetTask(w) PROVE BackupsInv'
  <2> PICK t \in Task, backup \in BOOLEAN :
              /\ held' = [held EXCEPT ![w] =
                    [task |-> t, attempt |-> nextAttempt[t] + 1, backup |-> backup]]
              /\ AssignTask(t, w, backup)
    BY <1>2, TakesTask
  <2>1. backupsWon' = backupsWon
        /\ backupsLaunched' = IF backup THEN backupsLaunched + 1 ELSE backupsLaunched
    BY AssignStarts DEF AssignTask
  <2>2. held'[w].task = t /\ held'[w].backup = backup
    BY WorkerTypes
  <2>3. ASSUME NEW v \in Worker, GetTask(v), v # w PROVE held'[v] = held[v]
    BY WorkerTypes, <2>3
  <2>4. ASSUME NEW u \in BackupInPlay' PROVE u \in BackupInPlay \/ (u = t /\ backup)
    <3>1. PICK v \in Worker : \/ u \in BackupInPlay
                              \/ GetTask(v) /\ held'[v].task = u /\ held'[v].backup
      BY <2>4, PlayGrows
    <3>2. CASE v = w
      BY <2>2, <3>1, <3>2
    <3>3. CASE v # w
      <4>1. u \in Task /\ state[u] # "Completed"
        BY <2>4, Forward DEF BackupInPlay
      <4> QED
        BY <2>3, <3>1, <3>3, <4>1 DEF BackupInPlay
    <3> QED
      BY <3>2, <3>3
  <2>5. CASE ~backup
    BY <1>1, <2>1, <2>4, <2>5
  <2>6. CASE backup
    <3>1. BackupInPlay' \subseteq BackupInPlay \cup {t}
      BY <2>4
    <3>2. /\ IsFiniteSet(BackupInPlay \cup {t})
          /\ Cardinality(BackupInPlay \cup {t}) =
                IF t \in BackupInPlay THEN Cardinality(BackupInPlay)
                ELSE Cardinality(BackupInPlay) + 1
      BY PlayFinite, FS_AddElement
    <3>3. /\ Cardinality(BackupInPlay') <= Cardinality(BackupInPlay \cup {t})
          /\ Cardinality(BackupInPlay \cup {t}) \in Nat
      BY <3>1, <3>2, FS_Subset, FS_CardinalityType
    <3> QED
      BY <1>0, <2>1, <2>6, <3>2, <3>3 DEF BackupsInv
  <2> QED
    BY <2>5, <2>6
<1>3. ASSUME \A w \in Worker : ~GetTask(w) PROVE BackupInPlay' \subseteq BackupInPlay
  BY <1>3, PlayGrows
<1>4. ASSUME NEW w \in Worker, Drops(w), \A v \in Worker : ~GetTask(v)
      PROVE  BackupsInv'
  <2>1. CASE pc[w] = "commit" /\ Confirm(held[w].task, held[w].attempt, w, held[w].backup)
    <3>1. held[w].task \in Task /\ held[w].backup \in BOOLEAN
      BY <2>1, BusyHolds DEF Busy
    <3>2. held[w].backup => held[w].task \in BackupInPlay
      BY <2>1, <3>1 DEF BackupInPlay, Confirm, HoldsClearance
    <3> QED
      BY <1>3, <1>4, <2>1, <3>1, <3>2, ConfirmedBackup
  <2>2. CASE Refuses \/ UNCHANGED vars
    <3>1. UNCHANGED <<backupsWon, backupsLaunched>>
      BY <2>2 DEF Refuses, Refuse, vars
    <3> QED
      BY <1>1, <1>3, <1>4, <3>1
  <2> QED
    BY <1>4, <2>1, <2>2 DEF Drops
<1>5. ASSUME NEW m \in delayed, HandleDelayed(m), \A v \in Worker : ~GetTask(v)
      PROVE  BackupsInv'
  <2>1. /\ m.rpc \in Calling /\ m.backup \in BOOLEAN
        /\ m.rpc # "request" => m.task \in Task
    BY DEF WorkerInv, DelayedOK, Requests
  <2>2. CASE m.rpc = "commit" /\ Confirm(m.task, m.attempt, m.worker, m.backup)
    <3>1. m.backup => m.task \in BackupInPlay
      BY <2>1, <2>2 DEF BackupInPlay, Confirm, HoldsClearance
    <3> QED
      BY <1>3, <1>5, <2>1, <2>2, <3>1, ConfirmedBackup
  <2>3. CASE ~(m.rpc = "commit" /\ Confirm(m.task, m.attempt, m.worker, m.backup))
    <3>1. /\ backupsWon' = backupsWon
          /\ backupsLaunched' \in {backupsLaunched, backupsLaunched + 1}
      <4>1. CASE m.rpc = "request"
        <5>1. RequestTask(m.worker) /\ m.worker \in Worker
          BY <1>5, <4>1 DEF HandleDelayed, WorkerInv, DelayedOK, Requests
        <5> QED
          BY <5>1, AssignStarts DEF RequestTask, AssignTask, TellWait, TellExit, vars
      <4>2. CASE m.rpc = "report"
        <5>1. ReportTask(m.task, m.attempt, m.worker)
          BY <1>5, <4>2 DEF HandleDelayed
        <5> QED
          BY <5>1 DEF ReportTask, Clear, ClearAgain, Refuse, vars
      <4>3. CASE m.rpc = "commit"
        <5>1. UNCHANGED vars
          BY <1>5, <2>3, <4>3 DEF HandleDelayed, CommitTask
        <5> QED
          BY <5>1 DEF vars
      <4> QED
        BY <2>1, <4>1, <4>2, <4>3 DEF Calling
    <3> QED
      BY <1>1, <1>3, <1>5, <3>1
  <2> QED
    BY <2>2, <2>3
<1>6. ASSUME \/ \E w \in Worker : Execute(w) \/ GetClearance(w) \/ Rename(w)
             \/ \E expired \in SUBSET Timed : ReaperPass(expired)
             \/ Lingers
      PROVE  UNCHANGED <<backupsWon, backupsLaunched>>
  BY <1>6 DEF Execute, GetClearance, Clear, ClearAgain, Rename, ReaperPass, CheckTimeouts,
              Reap, Lingers, TellWait, coordVars, vars
<1> QED
  BY <1>1, <1>2, <1>3, <1>4, <1>5, <1>6 DEF JobStep

(* No more backups win than were launched, retried and late confirmations      *)
(* included (CommitTask, handOut).                                             *)
THEOREM WonWereLaunchedHolds == JobSpec => []WonWereLaunched
<1>1. JobInit => BackupsInv
  <2> SUFFICES ASSUME JobInit PROVE BackupsInv
    OBVIOUS
  <2>1. \A w \in Worker : ~held[w].backup
    BY DEF JobInit, NoTask
  <2>2. BackupInPlay = {}
    BY <2>1 DEF BackupInPlay, JobInit
  <2> QED
    BY <2>2, FS_EmptySet DEF BackupsInv, JobInit, Init
<1>2. WorkerInv /\ BackupsInv /\ [JobNext]_jobVars => BackupsInv'
  BY JobCases, BackupsInvStep
<1>3. WorkerInv /\ BackupsInv => WonWereLaunched
  BY BackupTypes, PlayFinite, FS_CardinalityType DEF BackupsInv, WonWereLaunched
<1> QED
  BY <1>1, <1>2, <1>3, WorkerInvHolds, PTL DEF JobSpec
=============================================================================
