------------------------------ MODULE Measure ------------------------------
(***************************************************************************)
(* The programs that measure jobs: the benchmark and its sweep over worker *)
(* counts (src/bench/main.go) and the fault matrix (src/chaos/main.go).    *)
(* Each takes its plan point by point - a worker count or a scenario -     *)
(* runs every trial of a point, stops at the first trial that fails, and   *)
(* writes one report.  What a trial returns is any of Results or Outcomes; *)
(* that the traces of jobs are what is assumed of them here is checked of  *)
(* the job itself in TimedJob, and proved.                                 *)
(***************************************************************************)
EXTENDS Trace

CONSTANTS
    Results,      \* what runJob may return: [trace, hash]
    Outcomes,     \* what a run of a scenario may return, see Analyse
    CountLists,   \* worker counts asked for on the command line
    Plans,        \* sequences of scenarios
    MaxTrials,    \* bound of -trials
    MaxRuns       \* bound of all trials of one program together

ASSUME MeasureAssumption ==
    /\ MaxTrials \in Nat /\ MaxRuns \in Nat
    /\ CountLists \subseteq Seq(Int)
    /\ \A p \in Plans : p \in Seq(Range(p))
    /\ \A r \in Results : TraceType(r.trace) /\ SoundTrace(r.trace)
    /\ \A o \in Outcomes : {o.wall, o.kills, o.committedAtFail} \subseteq Nat
                           /\ o.tasks \in Nat \ {0}

VARIABLES
    program,      \* "bench", "sweep" or "chaos"
    trials,       \* -trials
    plan,         \* the points in the order they are measured
    clean,        \* the outcome of the clean run, once there is one
    measured,     \* the trials of each point begun
    report,       \* the report written
    status        \* "running", "ok" or "failed"

measureVars == <<program, trials, plan, clean, measured, report, status>>

None == <<>>

-----------------------------------------------------------------------------
(* Across the trials of one point.                                         *)

(* aggregate: the median, doubled, and the spread of one measurement. *)
Aggregate(values) ==
    [median2 |-> TwiceMedian(values), min |-> Lowest(values), max |-> Highest(values)]

Walls(rs) == [i \in DOMAIN rs |-> Phases(rs[i].trace).wall]

(* Bug for MedianTrial: the upper one of two middle trials. *)
MedianTrialUpper(rs) == StableOrder(Walls(rs))[Len(rs) \div 2 + 1]

(* The trial with the median wall clock, the earlier and faster of two. *)
MedianTrial(rs) == StableOrder(Walls(rs))[(Len(rs) - 1) \div 2 + 1]

(* The durations of the tasks of phase k of every trial. *)
Pooled(rs, k) ==
    [p \in UNION {{i} \X TasksIn(rs[i].trace, k) : i \in DOMAIN rs} |->
        Duration(rs[p[1]].trace.tasks[p[2]])]

(* buildSummary. *)
BuildSummary(rs) ==
    LET phase(p) == [i \in DOMAIN rs |-> Phases(rs[i].trace)[p]]
    IN [wall |-> Aggregate(phase("wall")), map |-> Aggregate(phase("map")),
        stall |-> Aggregate(phase("stall")), reduce |-> Aggregate(phase("reduce")),
        mapTasks |-> Describe(Pooled(rs, "map")),
        reduceTasks |-> Describe(Pooled(rs, "reduce")),
        hash |-> rs[1].hash,
        hashStable |-> \A i \in DOMAIN rs : rs[i].hash = rs[1].hash,
        workers |-> Utilization(rs[MedianTrial(rs)].trace)]

(* The report of the benchmark: its summary and the median trial's timeline. *)
BenchReport(rs) ==
    [summary |-> BuildSummary(rs), timeline |-> Bars(rs[MedianTrial(rs)].trace)]

-----------------------------------------------------------------------------
(* The sweep.                                                              *)

(* buildScalingPoint, before the speedups are filled in. *)
ScalingPoint(workers, rs) ==
    LET phase(p) == [i \in DOMAIN rs |-> Phases(rs[i].trace)[p]]
        tr == rs[MedianTrial(rs)].trace
    IN [workers |-> workers,
        wall |-> Aggregate(phase("wall")), map |-> Aggregate(phase("map")),
        reduce |-> Aggregate(phase("reduce")),
        busyShare |-> MeanBusyShare(tr),
        mapTasks |-> Describe(Lengths(tr, TasksIn(tr, "map"))),
        reduceTasks |-> Describe(Lengths(tr, TasksIn(tr, "reduce"))),
        hash |-> rs[MedianTrial(rs)].hash]

(* fillSpeedups: a point against the first one, as speedup, the speedup its  *)
(* workers would give, and the ratio of the two.                             *)
Against(base, point) ==
    LET speedup == Share(base.wall.median2, point.wall.median2)
        ideal == Thousandths(point.workers, base.workers)
    IN [point |-> point, speedup |-> speedup, ideal |-> ideal,
        efficiency |-> Share(speedup, ideal)]

FillSpeedups(points) == [i \in DOMAIN points |-> Against(points[1], points[i])]

-----------------------------------------------------------------------------
(* The fault matrix.                                                       *)

MedianFloat(values) == IF DOMAIN values = {} THEN 0 ELSE UpperMedian(values)

(* The share of its tasks a trial had committed when its first kill came. *)
PreservedShare(o) ==
    IF o.kills = 0 THEN 1000 ELSE Thousandths(o.committedAtFail, o.tasks)

(* Bug for Analyse: the last trial decides. *)
AnalyseLast(os, hash) ==
    [completed |-> os = <<>> \/ Last(os).completed,
     correct |-> os = <<>> \/ Last(os).hash = hash,
     kills |-> 0, reassigned |-> 0, recovery |-> None, wall |-> 0, preserved |-> 0]

(* analyse: what the trials of a scenario add up to; no trial, no fault. *)
Analyse(os, hash) ==
    LET sum(f(_)) == SumUp([i \in DOMAIN os |-> f(os[i])])
        killed(o) == o.kills
        found == FlattenSeq([i \in DOMAIN os |-> os[i].recoveries])
    IN [completed |-> \A i \in DOMAIN os : os[i].completed,
        correct |-> \A i \in DOMAIN os : os[i].hash = hash,
        kills |-> sum(killed),
        reassigned |-> Len(found),
        recovery |-> IF found = <<>> THEN None
                     ELSE <<Lowest(found), UpperMedian(found), Highest(found)>>,
        wall |-> MedianFloat([i \in DOMAIN os |-> os[i].wall]),
        preserved |-> MedianFloat([i \in DOMAIN os |-> PreservedShare(os[i])])]

-----------------------------------------------------------------------------
(* The programs.                                                           *)

(* Bug for ParseCounts: the counts are taken in the order they were given. *)
ParseCountsUnsorted(counts) == counts

ParseCounts(counts) == Sorted(counts)

MeasureInit ==
    /\ program \in {"bench", "sweep", "chaos"}
    /\ trials \in 0 .. MaxTrials
    /\ CASE program = "bench" -> plan \in {<<n>> : n \in UNION {Range(c) : c \in CountLists}}
         [] program = "sweep" -> plan \in {ParseCounts(c) : c \in CountLists}
         [] OTHER -> plan \in Plans
    /\ trials * Len(plan) <= MaxRuns
    /\ clean = None
    /\ measured = None
    /\ report = None
    /\ status = "running"

Fail == status' = "failed" /\ UNCHANGED <<program, trials, plan, clean, measured, report>>

(* The benchmark refuses to measure nothing and to sweep over counts below  *)
(* one; the fault matrix looks at neither.                                  *)
BadArguments ==
    \/ program # "chaos" /\ trials < 1
    \/ program = "sweep" /\ \E i \in DOMAIN plan : plan[i] < 1

(* The clean run comes first, and has to finish. *)
MustRunClean == program = "chaos" /\ clean = None

CleanRun(o) ==
    /\ MustRunClean
    /\ IF o.completed
       THEN clean' = <<o>> /\ UNCHANGED <<program, trials, plan, measured, report, status>>
       ELSE Fail

(* Trials of the point begun last are still to be run. *)
AtPoint == measured # None /\ Len(Last(measured)) < trials
AllMeasured == Len(measured) = Len(plan) /\ ~AtPoint

NextPoint ==
    /\ ~MustRunClean /\ ~AtPoint /\ ~AllMeasured
    /\ measured' = Append(measured, <<>>)
    /\ UNCHANGED <<program, trials, plan, clean, report, status>>

Returns == IF program = "chaos" THEN Outcomes ELSE Results

(* A job of the benchmark without workers ends unfinished: see TrialFails. *)
RunTrial(r) ==
    /\ ~MustRunClean /\ AtPoint
    /\ program # "chaos" => plan[Len(measured)] > 0
    /\ measured' = Front(measured) \o <<Append(Last(measured), r)>>
    /\ UNCHANGED <<program, trials, plan, clean, report, status>>

(* Bug for TrialFails: what has been measured so far is reported. *)
TrialFailsReported ==
    /\ AtPoint
    /\ report' = <<measured>>
    /\ status' = "failed"
    /\ UNCHANGED <<program, trials, plan, clean, measured>>

(* runJob or run returned an error, as it does when workers leave early; or *)
(* the fault matrix could not write the replay of the trial just run.       *)
TrialFails ==
    /\ \/ MustRunClean \/ AtPoint
       \/ program = "chaos" /\ measured # None
    /\ Fail

TheReport ==
    CASE program = "bench" -> BenchReport(measured[1])
      [] program = "sweep" -> FillSpeedups([i \in DOMAIN plan |->
                                              ScalingPoint(plan[i], measured[i])])
      [] OTHER -> [i \in DOMAIN plan |-> Analyse(measured[i], clean[1].hash)]

BadScenario ==
    /\ program = "chaos"
    /\ \E i \in DOMAIN plan : ~TheReport[i].completed \/ ~TheReport[i].correct

(* The fault matrix writes its report first and then fails on a bad scenario; *)
(* clearing the work directory, in between, may fail as well.                 *)
WriteReport ==
    /\ ~MustRunClean /\ AllMeasured
    /\ report' = <<TheReport>>
    /\ status' \in {"failed", IF BadScenario THEN "failed" ELSE "ok"}
    /\ UNCHANGED <<program, trials, plan, clean, measured>>

WriteFails == ~MustRunClean /\ AllMeasured /\ Fail

MeasureNext ==
    /\ status = "running"
    /\ IF BadArguments THEN Fail
       ELSE \/ \E o \in Outcomes : CleanRun(o)
            \/ NextPoint
            \/ \E r \in Returns : RunTrial(r)
            \/ TrialFails
            \/ WriteReport
            \/ WriteFails

MeasureSpec == MeasureInit /\ [][MeasureNext]_measureVars

-----------------------------------------------------------------------------
(* Properties.                                                             *)

Written == report # None

(* The trials are those of the plan, and no more than were asked for. *)
MeasureTypeOK ==
    /\ status \in {"running", "ok", "failed"}
    /\ clean \in {None} \cup {<<o>> : o \in Outcomes}
    /\ Len(measured) <= Len(plan)
    /\ \A i \in DOMAIN measured :
          /\ Len(measured[i]) <= trials
          /\ Range(measured[i]) \subseteq Returns
    /\ Len(report) <= 1

(* A report is about complete measurements only: one bad trial leaves no       *)
(* report behind, and no point of it has fewer trials than the others.         *)
WrittenIsWhole ==
    /\ MeasureTypeOK
    /\ Written =>
          /\ Len(measured) = Len(plan)
          /\ \A i \in DOMAIN measured : Len(measured[i]) = trials

(* x is the p-th percentile of s: the least value with p percent of s below    *)
(* or at it.                                                                   *)
IsPercentile(x, s, p) ==
    LET covers(y) == 100 * Cardinality({i \in DOMAIN s : s[i] <= y}) >= p * Count(s)
    IN /\ x \in Range(s) /\ covers(x)
       /\ \A y \in Range(s) : covers(y) => x <= y

(* The task percentiles of a benchmark are percentiles of the tasks of all its *)
(* trials together, whatever the number of tasks and trials.                   *)
PercentilesHold ==
    Written /\ program = "bench" =>
        LET s == Pooled(measured[1], "map")  d == report[1].summary.mapTasks
        IN DOMAIN s # {} => /\ IsPercentile(d.p50, s, 50) /\ IsPercentile(d.p95, s, 95)
                            /\ IsPercentile(d.p99, s, 99)
                            /\ d.min <= d.p50 /\ d.p99 <= d.max

(* No more than half of s is below x, and no more than half above. *)
IsMiddle(x, s) ==
    /\ 2 * Cardinality({i \in DOMAIN s : s[i] < x}) <= Count(s)
    /\ 2 * Cardinality({i \in DOMAIN s : s[i] > x}) <= Count(s)

(* The trial whose timeline is published is a median one, and no slower than   *)
(* the median wall clock printed next to it: it has exactly that wall clock    *)
(* when the number of trials is odd.  The fault matrix reports middle values   *)
(* as well.                                                                    *)
MediansHold ==
    /\ Written /\ program # "chaos" => \A i \in DOMAIN plan :
          LET rs == measured[i]  w == Walls(rs)  k == MedianTrial(rs)
              median2 == IF program = "bench" THEN report[1].summary.wall.median2
                         ELSE report[1][i].point.wall.median2
          IN /\ IsMiddle(w[k], w)
             /\ 2 * w[k] <= median2
             /\ trials % 2 = 1 => 2 * w[k] = median2
    /\ Written /\ program = "chaos" /\ trials > 0 => \A i \in DOMAIN plan :
          LET os == measured[i]  r == report[1][i]
          IN /\ IsMiddle(r.wall, [j \in DOMAIN os |-> os[j].wall])
             /\ IsMiddle(r.preserved, [j \in DOMAIN os |-> PreservedShare(os[j])])

(* The summaries of a report are what their names say. *)
SummariesHold == PercentilesHold /\ MediansHold

(* Speedups of a sweep are "relative to the smallest worker count", however    *)
(* the counts were given: no point is expected to be slower than the first,    *)
(* only those that took less time show a gain, and efficiency divides it by    *)
(* the workers added.                                                          *)
SpeedupsAreRelative ==
    Written /\ program = "sweep" =>
        LET r == report[1]
        IN \A i \in DOMAIN r :
              /\ r[i].ideal >= 1000
              /\ r[i].efficiency <= r[i].speedup
              /\ r[i].speedup > 1000
                    => \E j \in DOMAIN r : /\ r[j].point.workers <= r[i].point.workers
                                           /\ r[i].point.wall.median2 < r[j].point.wall.median2

(* "One bad run cannot hide behind a median" (src/chaos/analysis.go): when the *)
(* fault matrix succeeds every trial of every scenario finished with the clean *)
(* output, and a benchmark calls its output stable only if no two trials       *)
(* differ.                                                                     *)
VerdictHolds ==
    /\ program = "chaos" /\ status = "ok" =>
          \A i \in DOMAIN plan : \A j \in 1 .. trials :
              measured[i][j].completed /\ measured[i][j].hash = clean[1].hash
    /\ Written /\ program = "bench" =>
          (report[1].summary.hashStable
              <=> \A i, j \in 1 .. trials : measured[1][i].hash = measured[1][j].hash)
=============================================================================
