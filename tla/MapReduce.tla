----------------------------- MODULE MapReduce -----------------------------
(***************************************************************************)
(* A whole job: the coordinator of module Coordinator, the workers of      *)
(* src/mr/worker.go, the RPCs between them and the files they publish.     *)
(*                                                                         *)
(* A worker asks for a task, executes it into temp files, asks to publish, *)
(* renames the files one by one, and confirms.  Any call may be lost, its  *)
(* request may still be handled later, a worker may crash or be slow at    *)
(* any step, and a call that fails RpcAttempts times in a row is given up. *)
(* The handler of a call and the receipt of its reply are one action: a    *)
(* worker slow to read a reply is slow in its next step.  A restarted      *)
(* worker process has a new id, so it is another element of Worker.        *)
(***************************************************************************)
EXTENDS Coordinator

CONSTANTS
    RpcAttempts,   \* rpcAttempts: dials of one call before it is given up
    MaxFaults,     \* bound: calls lost and local errors, over the whole run
    MaxCrashes,    \* bound: workers that crash
    MaxStalls      \* bound: attempts timed out while their worker is alive

ASSUME WorkerBoundsAssumption ==
    /\ NReduce > 0
    /\ RpcAttempts \in Nat \ {0}
    /\ MaxFaults \in Nat /\ MaxCrashes \in Nat /\ MaxStalls \in Nat

VARIABLES
    pc,        \* what each worker does next
    held,      \* the RequestTaskReply a worker is working on
    tries,     \* dials made of the call in progress
    renamed,   \* files a publishing worker has moved into place
    final,     \* for each task and file, the attempt whose output is in it
    delayed,   \* requests of calls their worker no longer waits for
    up,        \* the coordinator process is running
    faults, crashes, stalls,   \* used up of the bounds
    granted    \* history: the attempts ever cleared, by task

workerVars == <<pc, held, tries, renamed>>
budgetVars == <<faults, crashes, stalls>>
coordVars == vars
jobVars == <<coordVars, workerVars, budgetVars, final, delayed, up, granted>>

Calling == {"request", "report", "commit"}
Stopped == {"exited", "crashed"}
PC == Calling \cup Stopped \cup {"execute", "publish"}

(* A worker between tasks. *)
NoTask == [task |-> <<"wait", 0>>, attempt |-> 0, backup |-> FALSE]
Assignment == [task : Task, attempt : Nat, backup : BOOLEAN]

(* A map attempt writes one file per reduce task, a reduce attempt one. *)
Files(t) == IF KindOf(t) = "map" THEN NReduce ELSE 1

JobInit ==
    /\ Init
    /\ pc = [w \in Worker |-> "request"]
    /\ held = [w \in Worker |-> NoTask]
    /\ tries = [w \in Worker |-> 0]
    /\ renamed = [w \in Worker |-> 0]
    /\ final = [t \in Task |-> [f \in 0 .. Files(t) - 1 |-> 0]]
    /\ delayed = {}
    /\ up = TRUE
    /\ faults = 0 /\ crashes = 0 /\ stalls = 0
    /\ granted = [t \in Task |-> {}]

(* Worker w goes on to step p with its current assignment. *)
GoTo(w, p) ==
    /\ pc' = [pc EXCEPT ![w] = p]
    /\ tries' = [tries EXCEPT ![w] = 0]
    /\ UNCHANGED <<held, renamed>>

(* Worker w drops what it was doing and goes on to step p with nothing. *)
Leave(w, p) ==
    /\ pc' = [pc EXCEPT ![w] = p]
    /\ tries' = [tries EXCEPT ![w] = 0]
    /\ held' = [held EXCEPT ![w] = NoTask]
    /\ renamed' = [renamed EXCEPT ![w] = 0]

-----------------------------------------------------------------------------
(* Asking for work.                                                        *)

GetTask(w) ==
    /\ up /\ pc[w] = "request"
    /\ \E t \in Task, backup \in BOOLEAN :
          /\ AssignTask(t, w, backup)
          /\ held' = [held EXCEPT ![w] =
                [task |-> t, attempt |-> nextAttempt'[t], backup |-> backup]]
    /\ pc' = [pc EXCEPT ![w] = "execute"]
    /\ tries' = [tries EXCEPT ![w] = 0]
    /\ UNCHANGED <<renamed, budgetVars, final, delayed, up, granted>>

(* Sleeps for the backoff and asks again. *)
GetWait(w) ==
    /\ up /\ pc[w] = "request"
    /\ TellWait
    /\ tries' = [tries EXCEPT ![w] = 0]
    /\ UNCHANGED <<pc, held, renamed, budgetVars, final, delayed, up, granted>>

GetExit(w) ==
    /\ up /\ pc[w] = "request"
    /\ TellExit
    /\ Leave(w, "exited")
    /\ UNCHANGED <<budgetVars, final, delayed, up, granted>>

-----------------------------------------------------------------------------
(* Executing.                                                              *)

(* A reduce attempt opens its partition of every map task's output. *)
InputsPresent(t) ==
    KindOf(t) = "reduce" => \A m \in TasksOf("map") : final[m][t[2]] # 0

Execute(w) ==
    /\ pc[w] = "execute"
    /\ InputsPresent(held[w].task)
    /\ GoTo(w, "report")
    /\ UNCHANGED <<coordVars, budgetVars, final, delayed, up, granted>>

(* A failed task is not reported; the coordinator has to time it out. *)
ExecuteFails(w) ==
    /\ pc[w] = "execute"
    /\ InputsPresent(held[w].task) => faults < MaxFaults
    /\ faults' = IF InputsPresent(held[w].task) THEN faults + 1 ELSE faults
    /\ Leave(w, "request")
    /\ UNCHANGED <<coordVars, crashes, stalls, final, delayed, up, granted>>

-----------------------------------------------------------------------------
(* Publishing.                                                             *)

GetClearance(w) ==
    LET t == held[w].task  id == held[w].attempt IN
    /\ up /\ pc[w] = "report"
    /\ Clear(t, id) \/ ClearAgain(t, id)
    /\ granted' = [granted EXCEPT ![t] = @ \cup {id}]
    /\ GoTo(w, "publish")
    /\ UNCHANGED <<budgetVars, final, delayed, up>>

(* Bug for GetRefusal: the answer is not looked at. *)
GetRefusalIgnored(w) ==
    /\ up /\ pc[w] = "report"
    /\ Refuse(held[w].task, held[w].attempt, w)
    /\ GoTo(w, "publish")
    /\ UNCHANGED <<budgetVars, final, delayed, up, granted>>

GetRefusal(w) ==
    /\ up /\ pc[w] = "report"
    /\ Refuse(held[w].task, held[w].attempt, w)
    /\ Leave(w, "request")
    /\ UNCHANGED <<budgetVars, final, delayed, up, granted>>

(* Bug for LastFile: the loop ends one file early. *)
LastFileShort(w) == renamed[w] + 2 >= Files(held[w].task)

LastFile(w) == renamed[w] + 1 = Files(held[w].task)

(* One rename; the last one lets the worker confirm. *)
Rename(w) ==
    LET t == held[w].task IN
    /\ pc[w] = "publish"
    /\ final' = [final EXCEPT ![t][renamed[w]] = held[w].attempt]
    /\ renamed' = [renamed EXCEPT ![w] = @ + 1]
    /\ pc' = [pc EXCEPT ![w] = IF LastFile(w) THEN "commit" ELSE "publish"]
    /\ UNCHANGED <<held, tries, coordVars, budgetVars, delayed, up, granted>>

(* Files already moved stay where they are. *)
RenameFails(w) ==
    /\ pc[w] = "publish"
    /\ faults < MaxFaults /\ faults' = faults + 1
    /\ Leave(w, "request")
    /\ UNCHANGED <<coordVars, crashes, stalls, final, delayed, up, granted>>

(* The reply says nothing, so the worker cannot tell if it still counted. *)
ConfirmCommit(w) ==
    /\ up /\ pc[w] = "commit"
    /\ CommitTask(held[w].task, held[w].attempt, w, held[w].backup)
    /\ Leave(w, "request")
    /\ UNCHANGED <<budgetVars, final, delayed, up, granted>>

-----------------------------------------------------------------------------
(* Calls that fail.                                                        *)

Request(w) ==
    [rpc |-> pc[w], worker |-> w, task |-> held[w].task, attempt |-> held[w].attempt,
     backup |-> held[w].backup, serial |-> faults + crashes]

(* The request of w's call may be lost or be on its way still. *)
MayArrive(w) ==
    \/ UNCHANGED delayed
    \/ up /\ pc[w] \in Calling /\ delayed' = delayed \cup {Request(w)}

LastDial(w) == tries[w] + 1 = RpcAttempts

(* Bug for GiveUp: a worker whose request failed asks again for ever. *)
GiveUpNever(w) == Leave(w, "request")

(* What a worker does when the last dial of a call has failed. *)
GiveUp(w) ==
    IF pc[w] = "request" THEN Leave(w, "exited") ELSE Leave(w, "request")

(* A dial returns no reply; once the coordinator has exited every dial does. *)
DialFails(w) ==
    /\ pc[w] \in Calling
    /\ \/ up /\ faults < MaxFaults /\ faults' = faults + 1 /\ MayArrive(w)
       \/ ~up /\ UNCHANGED <<faults, delayed>>
    /\ IF LastDial(w)
       THEN GiveUp(w)
       ELSE tries' = [tries EXCEPT ![w] = @ + 1] /\ UNCHANGED <<pc, held, renamed>>
    /\ UNCHANGED <<coordVars, crashes, stalls, final, up, granted>>

(* The coordinator handles a request nobody waits for. *)
HandleDelayed(m) ==
    /\ up
    /\ delayed' = delayed \ {m}
    /\ CASE m.rpc = "request" -> RequestTask(m.worker) /\ UNCHANGED granted
         [] m.rpc = "report" ->
              /\ ReportTask(m.task, m.attempt, m.worker)
              /\ granted' = [granted EXCEPT ![m.task] =
                    IF state'[m.task] = "Committing" /\ committer'[m.task] = m.attempt
                    THEN @ \cup {m.attempt} ELSE @]
         [] m.rpc = "commit" ->
              /\ CommitTask(m.task, m.attempt, m.worker, m.backup)
              /\ UNCHANGED granted
    /\ UNCHANGED <<workerVars, budgetVars, final, up>>

(* A worker process dies; files it published stay, the rest is temp files. *)
Crash(w) ==
    /\ pc[w] \notin Stopped
    /\ crashes < MaxCrashes /\ crashes' = crashes + 1
    /\ MayArrive(w)
    /\ Leave(w, "crashed")
    /\ UNCHANGED <<coordVars, faults, stalls, final, up, granted>>

-----------------------------------------------------------------------------
(* The coordinator's own steps.                                            *)

(* A running attempt whose worker is still working on it. *)
Attended(t, id) ==
    \E w \in Worker : held[w].task = t /\ held[w].attempt = id

Orphans == {p \in Timed : ~Attended(p[1], p[2])}

(* TaskTimeout passed for every attempt in expired; for one a live worker *)
(* is still busy with, that is a stall.                                    *)
ReaperPass(expired) ==
    /\ up
    /\ stalls' = stalls + Cardinality(expired \ Orphans)
    /\ stalls' <= MaxStalls
    /\ CheckTimeouts(expired)
    /\ UNCHANGED <<workerVars, faults, crashes, final, delayed, up, granted>>

(* mr-main polls Done, waits a second and exits. *)
CoordinatorExit ==
    /\ up /\ JobDone
    /\ up' = FALSE
    /\ delayed' = {}
    /\ UNCHANGED <<coordVars, workerVars, budgetVars, final, granted>>

-----------------------------------------------------------------------------
(* Steps a worker takes whenever nothing fails. *)
Progress(w) ==
    \/ GetTask(w) \/ GetExit(w)
    \/ Execute(w)
    \/ GetClearance(w) \/ GetRefusal(w)
    \/ Rename(w)
    \/ ConfirmCommit(w)
    \/ ~up /\ DialFails(w)

JobNext ==
    \/ \E w \in Worker :
          \/ Progress(w)
          \/ GetWait(w)
          \/ ExecuteFails(w)
          \/ RenameFails(w)
          \/ up /\ DialFails(w)
          \/ Crash(w)
    \/ \E m \in delayed : HandleDelayed(m)
    \/ \E expired \in SUBSET Timed : expired # {} /\ ReaperPass(expired)
    \/ CoordinatorExit

JobSpec == JobInit /\ [][JobNext]_jobVars

(* Every process that is alive keeps running, and the clock does too: an     *)
(* attempt no worker is busy with is timed out in the end.  Faults, crashes  *)
(* and stalls are never forced.                                              *)
Fairness ==
    /\ \A w \in Worker : WF_jobVars(Progress(w))
    /\ WF_jobVars(Orphans # {} /\ ReaperPass(Orphans))
    /\ WF_jobVars(CoordinatorExit)

FairSpec == JobSpec /\ Fairness

-----------------------------------------------------------------------------
(* Properties.                                                             *)

(* Workers, files and requests keep their types, and the bounds their names. *)
JobTypeOK ==
    /\ TypeOK
    /\ pc \in [Worker -> PC]
    /\ held \in [Worker -> Assignment \cup {NoTask}]
    /\ tries \in [Worker -> 0 .. RpcAttempts - 1]
    /\ renamed \in [Worker -> Nat]
    /\ \A t \in Task : final[t] \in [0 .. Files(t) - 1 -> Nat]
    /\ \A m \in delayed : m.rpc \in Calling /\ m.worker \in Worker
    /\ up \in BOOLEAN
    /\ faults \in 0 .. MaxFaults /\ crashes \in 0 .. MaxCrashes /\ stalls \in 0 .. MaxStalls
    /\ granted \in [Task -> SUBSET Nat]

OutputInPlace(t) == \A f \in 0 .. Files(t) - 1 : final[t][f] # 0

(* A task counts as done only when all its files are in place, whoever put    *)
(* them there and however many attempts died between two renames.             *)
CompletedHasOutput == \A t \in Task : state[t] = "Completed" => OutputInPlace(t)

(* A reduce attempt never finds a partition missing: doReduceTask calls that  *)
(* lost data, since every map task completed before it was handed out.        *)
ReduceInputsReady ==
    \A w \in Worker : pc[w] = "execute" => InputsPresent(held[w].task)

(* Files are there when somebody counts on them: the job, or a reduce task. *)
FilesInPlace == CompletedHasOutput /\ ReduceInputsReady

(* No file was ever written by an attempt that had not been cleared. *)
OnlyClearedPublish ==
    \A t \in Task : \A f \in 0 .. Files(t) - 1 : final[t][f] \in granted[t] \cup {0}

(* Backups won never outnumber backups launched, retries and late confirms    *)
(* included.                                                                  *)
WonWereLaunched == backupsWon <= backupsLaunched

(* Every event of an attempt names the worker and the backup flag it was      *)
(* assigned with: "every task transition carries the task id, attempt number, *)
(* worker id, phase, whether the attempt was a speculative backup"            *)
(* (docs/observability.md).                                                   *)
EventsNameTheAttempt ==
    \A e \in events : \E a \in events :
        a = [e EXCEPT !.kind = "assigned"]

(* The files of a finished task all come from the attempt that confirmed it.  *)
OutputIsCommitters ==
    \A t \in Task : state[t] = "Completed" =>
        \A f \in 0 .. Files(t) - 1 : final[t][f] = committer[t]

(* Once a task is finished its output files never change again: "a losing     *)
(* backup never writes over a good result" (worker.go, pendingOutput).        *)
FinishedOutputIsFinal ==
    [][\A t \in Task : state[t] = "Completed" => final'[t] = final[t]]_jobVars

(* Liveness: with fewer lost calls than one call has dials, and a worker that *)
(* survives, every task is done in the end.                                   *)
JobFinishes == <>JobDone

(* Liveness: every worker that does not crash exits after the job. *)
WorkersStop == <>(\A w \in Worker : pc[w] \in Stopped)

(* The abstract job: output before done, maps before reduces, done for good. *)
AbstractJob == INSTANCE Job WITH
                  MapTasks <- TasksOf("map"),
                  ReduceTasks <- TasksOf("reduce"),
                  available <- {t \in Task : OutputInPlace(t)},
                  finished <- {t \in Task : state[t] = "Completed"}

ImplementsJob == AbstractJob!Spec
=============================================================================
