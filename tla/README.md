# A verification project for the map-reduce engine

TLA+ models of the coordinator and worker protocol of this repository (`mr/`,
`mr-main/`), in any timing and with a clock, of its input splits, of what its jobs
compute, of the fault-injection harness (`chaos/`) and of what benchmarks, fault matrix
and replays (`bench/`, `trace/`) report of finished jobs, the TLC runs that check them
on small instances, and TLAPS proofs for instances of any size.

## The system

One coordinator process hands map and reduce tasks to worker processes over
RPC, times attempts out, optionally runs backups of stragglers, and decides
which attempt of a task may publish its output.

| part | state | operations | talks to |
|---|---|---|---|
| coordinator (`mr/coordinator.go`) | per task: state, attempt counter, live attempts, committer; counters, phase stamps, event log; one mutex | `RequestTask`, `ReportTask`, `CommitTask`, the reaper `checkTimeouts`, `Done`, `Status`, `Trace` | workers by RPC, the reaper goroutine by the mutex |
| worker (`mr/worker.go`) | the task it works on, its temp files, dials made | request, execute, report, publish (one rename per file), commit, give up, abandon | coordinator; files shared with other workers |
| job files | `mr-M-R` and `mr-out-R` in the work directory | rename over, open | workers |
| splits (`mr/split.go`) | none | `PlanSplits`, `ReadSplit` | input files |
| processes (`mr-main/`) | running or not | the coordinator polls `Done`, waits a second and exits; a worker exits on `ExitTask` or when four dials in a row fail | |
| chaos harness (`chaos/`) | pool of worker processes, kills, event log analysis | spawn, kill, restart, analyse | coordinator in process, workers by signals |
| measuring programs (`bench/`, `chaos/main.go`) | trials run so far, one report | run a trial, summarise, write | jobs, one after the other |
| status, trace export, verification | snapshots and finished traces | read only | coordinator |

What is hard here:

* *Interleaving*: handlers and the reaper are atomic under one mutex, but a
  worker acts on a reply long after the lock is released. Two attempts of one
  task run, report and publish in any order.
* *Failure*: a worker dies between two renames, or after the last and before it
  confirms; a rename fails half way; a task fails and is deliberately not
  reported.
* *Messages*: a call or its reply is lost and retried; a request nobody waits
  for is still handled, perhaps after the task was taken back.
* *Time*: the reaper cannot tell a dead worker from a slow one.
* *Clocks*: the worker stamps when an attempt starts and ends, the coordinator stamps
  phases, clearances and hand-outs; everything reported later is computed from both.
* *Counting*: phases and the end of the job are decided by counters compared
  for equality, so one count too many or too few stops the job.

`PROJECT.json` lists these hazards line by line with the properties that watch
them.

## Modules

| module | models | composes |
|---|---|---|
| `Clearance` | abstract: the right to publish a task's output | |
| `Coordinator` | every handler of `coordinator.go` and the reaper, open to any caller | refines `Clearance` |
| `CoordinatorProofs` | TLAPS proofs about `Coordinator` | extends `Coordinator` |
| `Job` | abstract: output before done, maps before reduces, done for good | |
| `MapReduce` | workers, calls that fail, files, crashes, the coordinator's exit | extends `Coordinator`, refines `Job` |
| `MapReduceProofs` | TLAPS proofs about `MapReduce` | extends it and `CoordinatorProofs` |
| `Split` | `PlanSplits` and `ReadSplit` of `split.go` | |
| `SplitProofs` | TLAPS proofs about `Split` | extends `Split` |
| `JobData` | what map and reduce tasks compute, against `mrsequential.go` | |
| `JobDataProofs` | TLAPS proofs about `JobData` | extends `JobData` |
| `Status` | the snapshot of `status.go` | extends `Coordinator` |
| `Chaos` | a trial of the fault-injection harness and its analysis of the log | extends `MapReduce` |
| `ChaosProofs` | TLAPS proofs about `Chaos` | extends it and `MapReduceProofs` |
| `Stats` | sorting, medians, percentiles and ratios | |
| `StatsProofs` | TLAPS proofs about `Stats` and sums | extends `Stats` |
| `TimedCoordinator` | clock readings: timeouts, the reaper's period, the straggler cutoff | extends `Coordinator`, `Stats` |
| `Trace` | timeline, lanes, phases and utilization made of a finished job's trace | extends `Stats` |
| `TimedJob` | workers that stamp their metrics, with the timed coordinator | extends `TimedCoordinator`, `Trace` |
| `TimedProofs` | TLAPS proofs about `TimedCoordinator`, `TimedJob` and `Status` | extends `TimedJob`, `Status`, `CoordinatorProofs`, `StatsProofs` |
| `Measure` | benchmark, sweep and fault matrix: trials, summaries, verdict | extends `Trace` |
| `MeasureProofs` | TLAPS proofs about `Measure` | extends `Measure`, `StatsProofs` |
| `MCCoordinator`, `MCMapReduce`, `MCSplit`, `MCJobData`, `MCChaos`, `MCTimedJob`, `MCMeasure` | symmetry sets, split sizes, the fault matrix, settings and sample traces for TLC | |

### Coordinator

A task is a pair `<<kind, index>>`. The fields of `TaskInfo` are functions on
tasks: `state`, `nextAttempt`, `live`, `committer` (which keeps its value after
a reap, as the field does). `completed` holds both counters, `marks` says which
of the three phase times are set, `events` is the event log as a set, filtered
by the constant `LoggedKinds` so that an instance remembers no more than its
properties read. `live` is a set because the code uses the order of the slice
only to look at its single element.

`RequestTask` is `AssignTask` (through `HandOut` and `Start`), `TellWait` or
`TellExit`; `ReportTask` is `Clear`, `ClearAgain` or `Refuse`; `CommitTask` is
`Confirm` or nothing. `Reap(expired)` is one whole pass over both phases.

Time is abstracted to the decisions it takes: `Reap` may find any set of timed
attempts overdue, and a request may find any eligible straggler past the cutoff,
or none. Everything the code can do at some speed is therefore a behaviour of
the model. Call counters are left out; durations come back in `TimedCoordinator`.

### MapReduce

`pc[w]` is where worker `w` stands in `run` and `finish`: `request`, `execute`,
`report`, `publish`, `commit`, or stopped (`exited`, `crashed`). `held[w]` is
the reply it works on. `final[t][f]` is the attempt whose output is in file `f`
of task `t`: publishing is one `Rename` per file, so a crash or another worker
may come between two. The handler of a call and the receipt of its reply are one
action; a reply that is lost is `DialFails` leaving the request in `delayed`,
handled by `HandleDelayed` at any later time or never. A restarted worker has a
new id, as `defaultWorkerID` and the chaos harness give it, so it is one more
element of `Worker` that starts late.

`MaxFaults`, `MaxCrashes` and `MaxStalls` bound a run: failed calls and local
errors, dead workers, and attempts timed out although their worker is alive and
busy with them. `MaxStalls = 0` reads: TaskTimeout is longer than a live worker
ever needs from assignment to confirmation.

### Split

A file is its size and the positions of its newlines; nothing else of its contents
matters to where lines end. `Splits` is the plan, `Open` seeks and skips a partial
first line, `ReadLine` takes one line. `taken[s]` is the set of bytes that the
content of split `s` holds, so "exactly once" is disjointness and cover. A file that
cannot be opened or read gives an error and no content, and is left out.

### JobData

A text is a set of places with a word each; `splitOf` is the plan, any plan, as
`Split` shows that each byte is read by one split. `Mapf` and `Reducef` are the two
workloads. A record names its origin (`from`), so that a set of records counts equal
pairs. Files move one at a time: `PublishPartition` is any attempt's rename, early,
repeated or late; `ReadPartition` opens one partition; `PublishOut` groups and
renames. Record order, JSON and the letters of words are left out: both reduce
functions ignore the order of values. The workloads are deterministic; what late
attempts of other functions may do is `late_overwrite`.

### Status

A snapshot is a function of the coordinator's state, computed under its mutex, so
the module adds definitions and no variables. `Metrics` are the committed events:
`CommitTask` appends one of each together.

### Chaos

`harness` is where `run` and `injectFaults` stand: waiting for the phase, killing,
spawning a replacement, pausing, waiting for the job, stopping the pool. Processes
are numbered in start order, which is their index in `pool.workers`, so the victim
is the arithmetic of the code (`Slot`). A kill is the `Crash` of `MapReduce`, or
nothing when the victim has exited already. The look at the phase and the kill are
two steps, as are the look at the job and the next kill; a later kill of
`kill-repeat-map` may therefore land after the map phase, which its description does
not say. A deadline is a choice; `Patient` makes it one that passes only when the job
has no worker left.

`kills` keeps, as history, what the victim was running and the log as it was, so the
time stamps that `analysis.go` compares are membership in that log. `LostAttempts`,
`Interrupted` and `Recovered` are what `workLost` and `recoveryTimes` conclude.

A worker of a trial may also fail an attempt by itself (`LocalError`: an error while it
executes, or a failed rename). It reports nothing, so the coordinator and the log have
the attempt running there until the reaper comes. `failed`, also history, holds these
attempts: they are what the log cannot tell from work that a kill cut short. `Erring`
is a bound, the scenarios in which a run tries local errors; the proofs hold for any.

### TimedCoordinator and TimedJob

`TimedCoordinator` adds a clock and the readings the coordinator takes of it: when an
attempt was handed out (`started`), a committer cleared (`commitStart`), a phase
reached (`stamps`), and the metrics confirmed (`taskMetrics`). Each action is the
action of `Coordinator` of the same name with its open choice made: `Overdue` are the
attempts whose time exceeds the timeout, `Straggler` the task that `straggler` returns,
by the upper median and the threshold, `ReapPass` the pass that `checkTimeouts` makes
every `ReapInterval`. `cfg` is the configuration after `withDefaults`. A handler takes
no time: it holds a mutex and makes a few assignments, timeouts are seconds. The clock
is in units of the reap interval; `Tick` stops when a pass is due, at most `MaxLate`
after the interval, which is what a sleeping goroutine on a running machine is. In
`TimedCoordinator` any worker may ask and report at any time; `TimedJob` replaces them
by workers that run one attempt after the other and may stop for any time at any step,
so fast, slow and hung workers are all included. `End` is stamped after the last rename,
as `finish` does.

### Trace and Measure

`Stats` are the order statistics. A sample is a function from any finite set (tasks,
trials, positions), since nothing that is printed of one depends on an order of its
members. `Sorted` says what each place of the sorted slice holds and not how a sort
gets there; `StableOrder` is `sort.SliceStable`, by the number of items a stable sort
puts no later.

`Trace` says what is made of a finished trace: sorted bars and lanes of a replay
(`trace/export.go`), phases, utilization and shares (`bench/report.go`,
`bench/scaling.go`). `TraceType` and `SoundTrace` are what all of it takes for granted.
`Measure` is the programs around it: a plan of points (worker counts or scenarios),
trials of a point, the first failure ends the program, one report. A trial is one step
that returns any of `Results`, or fails. `MeasureAssumption` says that the traces are
typed and sound; `timed_job` checks the latter of the job itself and `TraceIsAsAssumed`
proves both, so nothing is assumed that the job does not keep. Ratios are in
thousandths, the precision written. The commands' flags, JSON and the environment block
are left out.

## Runs

| run | question | bounds |
|---|---|---|
| `coord_open` | is the bookkeeping consistent, is the reported phase true, and does the coordinator implement `Clearance`, for arbitrary callers? | 2 maps, 1 reduce, 3 workers, 3 attempts per task, speculation from the first sample: third attempts follow reaped ones, backups meet a third worker |
| `timed_job` | are timeouts and backups on time, do log, status, trace, report and replay agree with what happened? | 3 maps and 1 reduce, 2 workers, timeout and interval of one unit, backups from the first sample at the median, clock up to 3: an attempt times out and its task is retried, a straggler meets two finished tasks, a late report is refused |
| `reports` | are reports complete, their medians and percentiles right, and bad trials visible? | up to 4 trials of a point, 6 in all, four different jobs and four outcomes of a trial, plans of 1 to 3 points with repeated, unsorted and bad counts |
| `mr_faults` | is a finished task's output in place with slow workers, crashes and lost calls, and is `Job` implemented? | 2 workers, 1 map of 2 files, 2 reduces, one fault, crash and stall each. One fault is fewer than a report has dials, so a report that is never answered at all (`worker.go:197`) is left to the theorems, which bound no faults |
| `mr_timely` | without stalls, does finished output come from the confirmed attempt, and stay; does the job finish and every worker stop? | as above, `MaxStalls = 0`, with fairness and without symmetry |
| `chaos_matrix` | does every trial end with the job completed, is the pool kept up, and does the log tell what a kill cost? | the fault matrix with pools of 1 or 2, replacements, at most 2 kills, 2 maps and 2 reduces, and a scenario that kills its only worker. With two tasks a phase every progress from 20 to 50 % is the same one task, so one value is enough, and both phases are killed in while a task of theirs is left. One local error, lost call or failed replacement; local errors where at most one worker is killed and none replaced |
| `splits` | is every byte of a file read exactly once? | all files of up to 5 bytes, all split sizes from -1 to 6: lines shorter than, equal to and longer than a split, splits without a line start, files without a last newline |
| `job_data` | is the output that of the sequential run? | every text of three words over two, every cut into two splits of one or two documents, two reducers, hashes 0 to 2 |
| `late_overwrite`, `second_backup`, `refused_event`, `phantom_recovery` | four statements of the documentation that the code does not keep | the smallest instances that show them |

Two files per map task make a half-published task possible; two reduce tasks make
a phase with a finished sample and a straggler; two workers make a loser, a late
committer and a rescuer (the late committer's rescuer runs both later attempts).
Each property has a mutated definition in its module (the operators marked *Bug
for*) under which TLC finds it violated.

Deadlock is checked for the open coordinator. A job really stops: all workers
crashed, or all stopped after the end.

### Fairness (`mr_timely`, `chaos_matrix`)

Weak fairness on each worker's fault-free steps: a live process keeps running.
Weak fairness on a reaper pass over attempts no live worker is busy with: the
reaper is a loop with a sleep, and such an attempt only gets older. Weak
fairness on the coordinator's exit: `main` polls `Done`. No fairness on faults,
crashes, stalls, late requests, or on a request told to wait. Fewer lost calls
than `RpcAttempts` and fewer crashes than workers are needed: a worker whose dials of
one request all fail leaves the job although the coordinator is up (`worker.go:138`),
and with every worker gone nothing moves. `chaos_matrix` adds weak fairness on the
harness's own steps, which are loops with a sleep; a local error, or a replacement
that cannot be started, is never forced. A phase that is over before the harness looks is missed, as
in the code. Liveness is checked without stalls.

## What the violations show

* `late_overwrite`: the clearance is not checked again at the rename. A committer
  that sleeps past TaskTimeout is reaped, another attempt completes the task,
  and the sleeper then renames its own files over the finished ones. With
  deterministic functions the bytes are the same; `docs/speculation.md` promises
  more than that.
* `second_backup`: after the first attempt is reaped, its backup is the only live
  attempt and may be backed up again. Never more than two attempts run
  (`AtMostTwoRunning`, proved).
* `refused_event`: refusals are logged with `backup = false` always.
* `phantom_recovery`: `recoveryTimes` takes any uncommitted attempt of the victim for
  interrupted, also one that was reaped and abandoned before the kill, and measures
  its task's next assignment from the kill.
  It happens without stalls too: a worker fails an attempt, reports nothing, is idle
  when it is killed, and the attempt counts as interrupted by the kill (TLC shows this
  with `MaxStalls = 0`, `MaxFaults = 1` and `Erring <- OneKill` in the same cfg). What
  does hold without stalls is `RecoveriesAreAccounted` (`chaos_matrix`, proved): a
  recovery is of an attempt the victim was on or had itself given up after a local
  error, and a trial that completes misses none that the kill cut short.

## Proofs

`CoordinatorProofs` proves, for any numbers of tasks and workers, any callers and
any timing, using only the named assumptions of `Coordinator` on its constants:

1. `TypeCorrect`.
2. `AttemptInv`: `TypeOK`, `LiveMatchesState`, `CandidatesAreFresh` and
   `AtMostTwoRunning` are inductive together. That a third attempt cannot start
   needs ids to be fresh (no id exceeds `nextAttempt`), that a clearance is never
   given twice needs rivals to be dropped with a reaped committer, and both need
   state and live list to agree.
3. `PhaseInv` adds `CompletedCount`, `Started` and `Barrier`. A counter is full
   only if every task of its phase is finished (`FullCounter`, by cardinality of
   finite sets), so the phase test of `RequestTask` is a barrier:
   `ReduceAfterMapsHolds`. `PhaseMarksHolds` follows with the observation that a
   request told to wait in the reduce phase finds reduce task 0 handed out.
4. `Implements`: every step of the coordinator is a `Grant`, a `Revoke`, a
   `Close` or a stutter of `Clearance`; `Grant` needs `CandidatesAreFresh`.
5. `LogAgreesHolds`, from `LogInv`. That a task is committed once needs the event to
   name the last committer (`OneCommit`); that a reaped attempt stays out needs it to
   be an old id, not live, and not the one that won (`ReapedAreOut`); that the backup
   counter is the number of logged backups needs their ids to be old, so that a new
   one is one more element. Assumed of the log: it records `assigned` and `committed`
   events. The code records every kind; `LoggedKinds` only keeps instances small.

`MapReduceProofs` is about the whole job, for any numbers of workers and tasks and any
bounds on faults, crashes and stalls. Every step is one of eight kinds (`JobCases`):
five of a worker, the handling of a late request, a pass, or nothing that matters. Each
kind is a step of the coordinator, so the invariants above carry over.

1. `WorkerInv`: a worker at work holds an attempt that was handed out, no two hold the
   same, and a late report or commit names one that was handed out. `JobTypeCorrect`.
2. `FilesInv`: a publisher has moved the files before its place, a committer, also one
   whose commit is still on its way, all of them. As files are never removed, a
   confirmed task has its output: `FilesInPlaceHolds`, and `ImplementsJobHolds`.
3. `GrantedInv`: a publisher was cleared. `OnlyClearedPublishHolds`.
4. `TimelyInv`: while no live worker has been timed out, a publisher holds the
   clearance and its task's files so far are its own; after it has confirmed nobody
   else publishes (`ConfirmedOnce` keeps a second, late commit out).
   `OutputIsCommittersHolds` says so of behaviours up to the first stall, and
   `FinishedOutputIsFinalHolds` of those without any (`MaxStalls = 0`: a timeout longer
   than a live worker needs). `late_overwrite` shows that the condition is needed.
5. `BackupsInv`: backups won, and those somebody is still on, are together no more than
   were launched. `WonWereLaunchedHolds`.

`ChaosProofs` is about a trial of any scenario, pool and number of kills, assuming of
the constants only that there are numbers for all processes (`PoolAssumption`; the
worker ids of the harness are numbered as they are started).

1. `ChaosInv`: `PoolOK` counts starts, rounds and kills against each other,
   `GoneWereKilled` says that a process that is gone while there is work was killed, and
   `LogOK` that an attempt is assigned once and what a kill found committed is never
   assigned again. From it `ChaosTypeCorrect`, `OutcomeIsOutputHolds` and
   `CommittedWorkIsKept`, without further assumptions, and `PoolStrengthHolds` with
   `MaxFaults < RpcAttempts`: else a worker may leave a running job (`worker.go:138`).
2. `CalmInv`, where no calls are lost, backups are off and timeouts are long
   (`~Speculation`, as the harness leaves it, and `MaxStalls = 0`): a task has one
   attempt, held by the worker it was given to (`Uncontested`); an attempt that came to
   nothing without a local error is what its worker is on or was on when killed, one for
   each (`LossesOK`). One case is easily missed: a worker killed while it asks may be handed
   a task afterwards, by the request already sent; that is its one loss
   (`LateOfKilled`). `CostOfKillsHolds`.
3. `RecoveriesAreAccountedHolds`, where moreover scenarios that lose calls kill nobody,
   as in `scenario.go:75`. What a recovery is of follows from `CalmInv`. That none is
   missed needs `DealtInv`: what a worker is on, or was on when killed, is in the log and
   was there before the kill, and a task's attempts were handed out one after the other;
   so a task of a kill that is committed after all was handed out again after it.
   `phantom_recovery` shows what happens with stalls.

`SplitProofs` proves the four properties of `Split` for files of any size and
contents and any split size. `ReadInv` says that a split has taken exactly the
lines that start in its range before its reader's place. A byte lies on one line
(`OneLine`, `SomeLine`: the closest start before it, by well-foundedness) and a line
starts in one range (`RangesDisjoint`, `RangesCover`), so it is read once.

`JobDataProofs` proves `SameAsSequential` and `KeyInOneOutput` for any text, plan,
hash and task counts. `DataInv` says what each file holds when it exists. The group
of a key in its reducer's partitions is its group among all records (`SameGroup`),
and groups of splits and of whole files reduce to the same line (`SameLine`).

`DataTypeCorrect` adds the types: groups are finite because the text is
(`ImageFinite`), so their counts are numbers.

`TimedProofs` proves `NoOverstay` and `OnlyOverdueDropped` for any settings, lateness,
callers and clock. Each timed action is a step of `Coordinator`, so `AttemptInv` holds.
`TimedInv` adds that at the last pass nothing now running was overdue, nor any
clearance now held: a pass drops what is, and later starts are later than the pass. With
the clock at most an interval (and the lateness) past the last pass, nothing is older
than the timeout plus that. For drops, the clearance was given after its attempt and, as
no attempt starts while a task is being published, after its rivals started too; so when
the clearance is overdue they are.

A step of `TimedJob` is to the coordinator and its clock a handler, a pass or a tick
(`RunCases`), so the same holds of the job that runs (`RunNoOverstayHolds`,
`RunOnlyOverdueDroppedHolds`), and so does `LogAgrees`. `RunInv` adds what ties a
worker's stamps to the phase stamps: phases are stamped in order; a worker on a reduce
task started after the reduce phase did; there is one metric per finished task, ended
before its phase did; and what a worker finished ended before it started what it is on
(`LanesOK`, without which two bars of a lane could overlap). At the end this is
`TraceIsSoundHolds`.

Four more results about the job that runs:

1. `BackupsAreForLaggardsHolds`: the straggler is past the cutoff, the cutoff is at least
   the upper median, and more than half of a sample is not above its upper median
   (`SortedAt`). With a threshold below one the code promises nothing of the kind, hence
   the condition in the property.
2. `ReplayIsFaithfulHolds`: whoever runs, works, is named in the log or finished
   something was handed an attempt (`OnlyServed`, inductive over `RunInv`), so the lanes
   are the workers served. A stable order is a permutation (`OrderAt`, `OrderHas`), so no
   bar is lost; bars of a lane do not overlap (`LanesOK`), so their order by start is
   the one they were run in. Bars that start together are those of an attempt that took
   no time and its successor, and there the stability of the sort is needed. Assumed:
   the log records assignments.
3. `ReportAddsUpHolds`: intervals of one worker that do not overlap fit into the job.
   The proof counts units of time: an attempt is the set of pairs of its worker and the
   units it took, these sets are disjoint, and all of them lie in workers times units
   (`TimeFits`). The tasks by worker are a partition of the tasks (`SumOfParts`).
4. `TraceIsAsAssumed`: the trace is of the type, and as sound, as `Measure` assumes.

The status endpoint has its proofs in `TimedProofs` too, from invariants of the
coordinator. `PhaseIsTrueHolds` and `PhaseNeverGoesBackHolds` follow from `PhaseInv`: a
full counter stays full, since a confirm needs an unfinished task.
`WorkersAddUpHolds` needs that a task is confirmed once and by a worker (`CountInv`);
then the events by worker are a partition of the finished tasks, and the attempts by
worker one of those that run. Assumed: the log records commits.

`StatsProofs` holds what these rest on, for samples and sums of any size. The community
modules define sums as folds over a CHOOSE, whose value would need induction over
sets; the provers cannot instantiate the library's induction theorem, but they can use
that `<` on numbers is well-founded, which has a set as its parameter: a smallest
set for which the recursion is not what it should be is nonempty, and what is left
after taking out an element is smaller (`SumsExist`, `SumsAgree`, `SumUnrolls`,
`SumIs`). In the same way a finite sample has a greatest and a least value, and a value
for every rank (`Greatest`, `NthExists`); that it is one value is `UpToBelow`. So
`Sorted` is what it is meant to be (`SortedAt`, `SortedAscends`), `StableOrder` is a
bijection that ascends (`OrderAt`, `OrderHas`, `OrderAscends`), and the two ways in
which the code takes a median agree (`OrderIsSorted`). Percentiles, medians, extremes
and rounded ratios follow (`PercentileIs`, `MiddleIs`, `MedianIs`, `LowestHighest`,
`RatioBounds`).

`MeasureProofs` is about any plan, any trials and any number of them. `MeasureInv`:
every point but the last begun has all its trials, and a report is written when the last
has them, as the program's last step. `WrittenIsWholeHolds` and `VerdictHoldsAlways`
follow. `ReportInv` adds that the counts of a sweep ascend and that what is written is
the report of what was measured, with arguments that were accepted. From it:

1. `SummariesHoldHolds`: the pooled tasks are a finite sample, whatever the trials, and
   the trial picked by a stable sort of the indices has the value that sorting the wall
   clocks puts in that place.
2. `SpeedupsAreRelativeHolds`: the first count is the smallest and positive, so the
   ideal is at least one, and rounding keeps a ratio on its side of a whole number
   (`RatioBounds`). The order of the plan is needed here: in `ParseCountsUnsorted` it is
   lost, and TLC finds the property violated.

The type invariants `TimedTypeOK`, `SplitTypeOK` and `DataTypeOK` and the auxiliary
`CandidatesAreFresh` are proved for every instance and are not run again.

Every safety and action property and both refinements that the runs check are proved
for every instance, under the hypotheses named above. Only model-checked are

* liveness, `JobFinishes`, `WorkersStop` and `TrialCompletes` (`mr_timely`,
  `chaos_matrix`): fairness and ENABLED are out of this prover's reach;
* the four statements that the code does not keep: a counterexample is a finite
  behaviour, and TLC shows one.

## Not modelled

Left out, because they hold no state of the protocol: the remaining shares of a scaling
point (dispatch, I/O, processor, handler; one ratio each of times that no other part
reads), throughput, byte and record counts, RPC call counters, JSON and flags, the
slow factor (any worker of `TimedJob` may be slow), logging set-up, the hash function
itself, the site, and the applications other than the two measured workloads. Opening
and closing of sockets and listeners (`server`, `Shutdown`) is in `MapReduce` only as
the coordinator being up or not.
