--------------------------- MODULE MeasureProofs ---------------------------
(***************************************************************************)
(* Proofs about module Measure: a report is written of complete            *)
(* measurements only, its summaries and speedups are what they are called, *)
(* and a bad trial is not hidden by the good ones, for any trials, plans   *)
(* and number of trials.                                                   *)
(***************************************************************************)
EXTENDS Measure, StatsProofs

-----------------------------------------------------------------------------
(* The invariant.                                                          *)

(* Every point but the last begun has all its trials, the last no more. *)
MeasuredOK ==
    /\ measured \in Seq(Seq(Returns))
    /\ Len(measured) <= Len(plan)
    /\ \A i \in 1 .. Len(measured) :
          /\ Len(measured[i]) <= trials
          /\ i < Len(measured) => Len(measured[i]) = trials

(* A program that has written its report had measured everything, and ended. *)
WrittenLast ==
    report # None => /\ Len(report) = 1 /\ status # "running"
                     /\ Len(measured) = Len(plan) /\ ~AtPoint

MeasureInv ==
    /\ status \in {"running", "ok", "failed"} /\ (status = "ok" => report # None)
    /\ program \in {"bench", "sweep", "chaos"} /\ trials \in Nat
    /\ plan \in Seq(Range(plan)) /\ (program = "bench" => Len(plan) = 1)
    /\ clean \in {None} \cup {<<o>> : o \in Outcomes}
    /\ MeasuredOK
    /\ WrittenLast

(* A list of numbers is a sample, and its positions count it. *)
LEMMA ListIsSample ==
    ASSUME NEW s \in Seq(Int)
    PROVE  Sample(s) /\ Count(s) = Len(s) /\ DOMAIN s = 1 .. Len(s)
<1> PICK n \in Nat : n = Len(s)
  OBVIOUS
<1>1. DOMAIN s = 1 .. n /\ \A i \in 1 .. n : s[i] \in Int
  OBVIOUS
<1>2. IsFiniteSet(1 .. n) /\ Cardinality(1 .. n) = n
  BY Numbered
<1>3. Count(s) = n
  BY <1>1, <1>2, Zenon DEF Count
<1>4. IsFiniteSet(DOMAIN s)
  BY <1>1, <1>2, Zenon
<1> QED
  BY <1>1, <1>3, <1>4 DEF Sample

LEMMA SortedIsSeq ==
    ASSUME NEW s \in Seq(Int)
    PROVE  Sorted(s) \in Seq(Int) /\ Len(Sorted(s)) = Len(s)
<1> PICK n \in Nat : n = Len(s)
  OBVIOUS
<1> PICK t : t = Sorted(s)
  OBVIOUS
<1>1. Count(s) = n /\ Sample(s)
  BY ListIsSample
<1>2. \A k \in 1 .. n : t[k] \in Int
  BY <1>1, SortedAt
<1> DEFINE nth(k) == CHOOSE x \in Range(s) : /\ Cardinality(Below(s, x)) < k
                                             /\ k <= Cardinality(UpTo(s, x))
<1>3. t = [k \in 1 .. n |-> nth(k)]
  BY <1>1, Zenon DEF Sorted
<1> HIDE DEF nth
<1>4. t = [k \in 1 .. n |-> t[k]]
  BY <1>3
<1> QED
  BY <1>2, <1>4

LEMMA MeasureInvInit == MeasureInit => MeasureInv
<1> SUFFICES ASSUME MeasureInit PROVE MeasureInv
  OBVIOUS
<1>1. program = "bench" => plan \in Seq(Range(plan)) /\ Len(plan) = 1
  BY DEF MeasureInit, Range
<1>2. program = "sweep" => plan \in Seq(Range(plan))
  BY MeasureAssumption, SortedIsSeq DEF MeasureInit, ParseCounts, Range
<1>3. program = "chaos" => plan \in Seq(Range(plan))
  BY MeasureAssumption DEF MeasureInit
<1>4. plan \in Seq(Range(plan))
  BY <1>1, <1>2, <1>3 DEF MeasureInit
<1>5. measured = <<>> /\ report = None /\ status = "running" /\ clean = None
      /\ trials \in Nat /\ program \in {"bench", "sweep", "chaos"}
  BY MeasureAssumption DEF MeasureInit, None
<1>6. MeasuredOK
  BY <1>4, <1>5 DEF MeasuredOK
<1> QED
  BY <1>1, <1>4, <1>5, <1>6 DEF MeasureInv, WrittenLast

-----------------------------------------------------------------------------
(* What a step does.                                                       *)

LEMMA NextPointOK ==
    ASSUME MeasureInv, status = "running", NextPoint
    PROVE  MeasuredOK'
<1> PICK n \in Nat : n = Len(measured)
  BY DEF MeasureInv, MeasuredOK
<1> PICK k \in Nat : k = Len(plan)
  BY DEF MeasureInv
<1>1. /\ measured \in Seq(Seq(Returns)) /\ n <= k /\ n # k
      /\ \A i \in 1 .. n : /\ Len(measured[i]) <= trials
                           /\ i < n => Len(measured[i]) = trials
      /\ measured' = Append(measured, <<>>)
      /\ UNCHANGED <<program, trials, plan>> /\ trials \in Nat
  BY DEF MeasureInv, MeasuredOK, NextPoint, AllMeasured
<1>2. n > 0 => Len(measured[n]) = trials
  <2>1. n > 0 => Len(measured[n]) \in Nat /\ measured # <<>>
    BY <1>1
  <2>2. measured # <<>> => ~(Len(measured[n]) < trials)
    BY DEF NextPoint, AtPoint, None, Last
  <2> QED
    BY <1>1, <2>1, <2>2
<1>3. /\ measured' \in Seq(Seq(Returns)) /\ Len(measured') = n + 1
      /\ measured'[n + 1] = <<>> /\ \A i \in 1 .. n : measured'[i] = measured[i]
  BY <1>1
<1>4. Returns' = Returns
  BY <1>1 DEF Returns
<1>5. ASSUME NEW i \in 1 .. n + 1
      PROVE  /\ Len(measured'[i]) <= trials
             /\ i < n + 1 => Len(measured'[i]) = trials
  BY <1>1, <1>2, <1>3
<1> QED
  BY <1>1, <1>3, <1>4, <1>5 DEF MeasuredOK

LEMMA RunTrialOK ==
    ASSUME MeasureInv, status = "running", NEW r \in Returns, RunTrial(r)
    PROVE  MeasuredOK'
<1> PICK n \in Nat : n = Len(measured)
  BY DEF MeasureInv, MeasuredOK
<1> DEFINE last == Append(measured[n], r)
<1>1. /\ measured \in Seq(Seq(Returns)) /\ n <= Len(plan) /\ Len(plan) \in Nat
      /\ \A i \in 1 .. n : /\ Len(measured[i]) <= trials
                           /\ i < n => Len(measured[i]) = trials
      /\ measured' = SubSeq(measured, 1, n - 1) \o <<last>>
      /\ UNCHANGED <<program, trials, plan>> /\ trials \in Nat
      /\ measured # <<>> /\ Len(measured[n]) < trials
  BY DEF MeasureInv, MeasuredOK, RunTrial, AtPoint, None, Last, Front
<1>2. n > 0 /\ measured[n] \in Seq(Returns)
  BY <1>1
<1>3. last \in Seq(Returns) /\ Len(last) = Len(measured[n]) + 1 /\ Len(measured[n]) \in Nat
  BY <1>2
<1> HIDE DEF last
<1>4. /\ SubSeq(measured, 1, n - 1) \in Seq(Seq(Returns))
      /\ Len(SubSeq(measured, 1, n - 1)) = n - 1
      /\ \A i \in 1 .. n - 1 : SubSeq(measured, 1, n - 1)[i] = measured[i]
  BY <1>1, <1>2
<1>5. /\ measured' \in Seq(Seq(Returns)) /\ Len(measured') = n
      /\ measured'[n] = last /\ \A i \in 1 .. n - 1 : measured'[i] = measured[i]
  BY <1>1, <1>2, <1>3, <1>4
<1>6. Returns' = Returns
  BY <1>1 DEF Returns
<1>7. ASSUME NEW i \in 1 .. n
      PROVE  /\ Len(measured'[i]) <= trials
             /\ i < n => Len(measured'[i]) = trials
  <2>1. CASE i = n
    BY <1>1, <1>3, <1>5, <2>1
  <2>2. CASE i # n
    BY <1>1, <1>5, <2>2
  <2> QED
    BY <2>1, <2>2
<1> QED
  BY <1>1, <1>5, <1>6, <1>7 DEF MeasuredOK

LEMMA MeasureInvStep ==
    ASSUME MeasureInv, [MeasureNext]_measureVars
    PROVE  MeasureInv'
<1>1. CASE UNCHANGED measureVars
  BY <1>1 DEF measureVars, MeasureInv, MeasuredOK, WrittenLast, Returns, AtPoint
<1>2. CASE MeasureNext
  <2>1. status = "running" /\ report = None
    BY <1>2 DEF MeasureNext, MeasureInv, WrittenLast
  <2>2. CASE Fail
    BY <2>1, <2>2 DEF Fail, MeasureInv, MeasuredOK, WrittenLast, Returns, AtPoint
  <2>3. ASSUME NEW o \in Outcomes, CleanRun(o), ~Fail PROVE MeasureInv'
    BY <2>1, <2>3 DEF CleanRun, MeasureInv, MeasuredOK, WrittenLast, Returns, AtPoint
  <2>4. CASE NextPoint
    BY <2>1, <2>4, NextPointOK DEF NextPoint, MeasureInv, WrittenLast
  <2>5. ASSUME NEW r \in Returns, RunTrial(r) PROVE MeasureInv'
    BY <2>1, <2>5, RunTrialOK DEF RunTrial, MeasureInv, WrittenLast
  <2>6. CASE WriteReport
    <3>1. /\ Len(report') = 1 /\ report' # None /\ status' \in {"ok", "failed"}
          /\ Len(measured) = Len(plan) /\ ~AtPoint
      BY <2>6 DEF WriteReport, None, AllMeasured
    <3>2. UNCHANGED <<program, trials, plan, clean, measured>>
      BY <2>6 DEF WriteReport
    <3>3. MeasuredOK' /\ WrittenLast'
      BY <3>1, <3>2 DEF MeasureInv, MeasuredOK, WrittenLast, Returns, AtPoint
    <3> QED
      BY <3>1, <3>2, <3>3 DEF MeasureInv
  <2> QED
    BY <1>2, <2>2, <2>3, <2>4, <2>5, <2>6
       DEF MeasureNext, TrialFails, WriteFails, CleanRun
<1> QED
  BY <1>1, <1>2

LEMMA MeasureInvHolds == MeasureSpec => []MeasureInv
BY MeasureInvInit, MeasureInvStep, PTL DEF MeasureSpec

-----------------------------------------------------------------------------
(* What is written.                                                        *)

(* The counts of a sweep ascend. *)
PlanOK ==
    program = "sweep" =>
        /\ \A i \in 1 .. Len(plan) : plan[i] \in Int
        /\ \A i \in 1 .. Len(plan) : \A j \in i .. Len(plan) : plan[i] <= plan[j]

(* What is written is the report of what was measured, and was worth it. *)
ReportIs == report # None => report = <<TheReport>> /\ ~BadArguments

LEMMA PlanOKInit == MeasureInit => PlanOK
<1> SUFFICES ASSUME MeasureInit, program = "sweep"
             PROVE  /\ \A i \in 1 .. Len(plan) : plan[i] \in Int
                    /\ \A i \in 1 .. Len(plan) : \A j \in i .. Len(plan) : plan[i] <= plan[j]
  BY DEF PlanOK
<1>1. PICK c \in CountLists : plan = Sorted(c)
  BY DEF MeasureInit, ParseCounts
<1>2. c \in Seq(Int)
  BY MeasureAssumption
<1> PICK n \in Nat : n = Len(c)
  BY <1>2
<1>3. Sample(c) /\ Count(c) = n /\ Sorted(c) \in Seq(Int) /\ Len(Sorted(c)) = n
  BY <1>2, ListIsSample, SortedIsSeq
<1>4. \A i \in 1 .. n : \A j \in i .. n : Sorted(c)[i] <= Sorted(c)[j]
  BY <1>3, SortedAscends
<1> QED
  BY <1>1, <1>3, <1>4

LEMMA SameReport ==
    ASSUME UNCHANGED <<program, trials, plan, clean, measured>>
    PROVE  TheReport' = TheReport /\ BadArguments' = BadArguments
BY DEF TheReport, BadArguments

LEMMA ReportIsStep ==
    ASSUME MeasureInv, PlanOK, ReportIs, [MeasureNext]_measureVars
    PROVE  PlanOK' /\ ReportIs'
<1>1. UNCHANGED <<program, trials, plan>>
  BY DEF measureVars, MeasureNext, Fail, CleanRun, NextPoint, RunTrial, TrialFails,
         WriteReport, WriteFails
<1>2. PlanOK'
  BY <1>1 DEF PlanOK
<1>3. CASE UNCHANGED measureVars
  <2>1. UNCHANGED <<program, trials, plan, clean, measured>> /\ report' = report
    BY <1>3 DEF measureVars
  <2>2. TheReport' = TheReport /\ BadArguments' = BadArguments
    BY <2>1, SameReport
  <2>3. report # None => report = <<TheReport>> /\ ~BadArguments
    BY DEF ReportIs
  <2>4. report' # None => report' = <<TheReport'>> /\ ~BadArguments'
    BY <2>1, <2>2, <2>3 DEF None
  <2> QED
    BY <1>2, <2>4 DEF ReportIs, None
<1>4. CASE MeasureNext /\ WriteReport /\ ~BadArguments
  <2>1. UNCHANGED <<program, trials, plan, clean, measured>> /\ report' = <<TheReport>>
    BY <1>4 DEF WriteReport
  <2>2. TheReport' = TheReport /\ BadArguments' = BadArguments
    BY <2>1, SameReport
  <2> QED
    BY <1>2, <1>4, <2>1, <2>2 DEF ReportIs
<1>5. CASE MeasureNext /\ ~(WriteReport /\ ~BadArguments)
  <2>1. report = None
    BY <1>5 DEF MeasureNext, MeasureInv, WrittenLast
  <2>2. report' = report
    BY <1>5 DEF MeasureNext, Fail, CleanRun, NextPoint, RunTrial, TrialFails, WriteFails
  <2>3. report' = None
    BY <2>1, <2>2 DEF None
  <2> QED
    BY <1>2, <2>3 DEF ReportIs, None
<1> QED
  BY <1>2, <1>3, <1>4, <1>5

ReportInv == MeasureInv /\ PlanOK /\ ReportIs

LEMMA ReportInvHolds == MeasureSpec => []ReportInv
<1>1. MeasureInit => PlanOK /\ ReportIs
  BY PlanOKInit DEF MeasureInit, ReportIs
<1>2. MeasureInv /\ PlanOK /\ ReportIs /\ [MeasureNext]_measureVars => PlanOK' /\ ReportIs'
  BY ReportIsStep
<1> QED
  BY <1>1, <1>2, MeasureInvHolds, PTL DEF MeasureSpec, ReportInv

(* Once all is measured, every point has all its trials. *)
LEMMA AllTrialsRun ==
    ASSUME MeasureInv, Len(measured) = Len(plan), ~AtPoint, NEW i \in DOMAIN plan
    PROVE  /\ measured[i] \in Seq(Returns) /\ Len(measured[i]) = trials
           /\ DOMAIN measured[i] = 1 .. trials
<1> PICK n \in Nat : n = Len(measured)
  BY DEF MeasureInv, MeasuredOK
<1>1. measured \in Seq(Seq(Returns)) /\ i \in 1 .. n /\ measured # <<>> /\ trials \in Nat
  BY DEF MeasureInv, MeasuredOK
<1>2. /\ measured[i] \in Seq(Returns) /\ Len(measured[i]) \in Nat
      /\ Len(measured[i]) <= trials /\ (i < n => Len(measured[i]) = trials)
  BY <1>1 DEF MeasureInv, MeasuredOK
<1>3. i = n => ~(Len(measured[i]) < trials)
  BY <1>1 DEF AtPoint, None, Last
<1>4. Len(measured[i]) = trials
  BY <1>1, <1>2, <1>3
<1> QED
  BY <1>1, <1>2, <1>4

-----------------------------------------------------------------------------
(* The trials of one point.                                                *)

(* The wall clocks of n trials, and their median. *)
LEMMA WallsAre ==
    ASSUME NEW rs \in Seq(Results), NEW n \in Nat, n = Len(rs), n > 0
    PROVE  /\ Keys(Walls(rs), n) /\ Sample(Walls(rs)) /\ Count(Walls(rs)) = n
           /\ \A i \in 1 .. n : Walls(rs)[i] \in Nat
<1>1. DOMAIN Walls(rs) = 1 .. n
  BY DEF Walls
<1>2. ASSUME NEW i \in 1 .. n PROVE Walls(rs)[i] \in Nat
  <2>1. rs[i] \in Results /\ i \in DOMAIN rs
    OBVIOUS
  <2>2. rs[i].trace.end \in Nat
    BY <2>1, MeasureAssumption DEF TraceType
  <2> QED
    BY <2>1, <2>2 DEF Walls, Phases
<1>3. IsFiniteSet(1 .. n) /\ Cardinality(1 .. n) = n
  BY Numbered
<1>4. Count(Walls(rs)) = n
  BY <1>1, <1>3, Zenon DEF Count
<1>5. IsFiniteSet(DOMAIN Walls(rs))
  BY <1>1, <1>3, Zenon
<1> QED
  BY <1>1, <1>2, <1>4, <1>5 DEF Keys, Sample

LEMMA MedianIsNat ==
    ASSUME NEW s, Sample(s), NEW n \in Nat, n = Count(s), n > 0, Range(s) \subseteq Nat
    PROVE  TwiceMedian(s) \in Nat
<1> DEFINE k == (n - 1) \div 2 + 1
<1>1. k \in 1 .. n
  OBVIOUS
<1>2. Sorted(s)[k] \in Nat
  BY <1>1, SortedAt DEF IsNth
<1>3. TwiceMedian(s) \in Int /\ 2 * Sorted(s)[k] <= TwiceMedian(s)
  BY MedianIs
<1> QED
  BY <1>2, <1>3

(* What a phase of the trials of one point adds up to. *)
LEMMA WallMedian ==
    ASSUME NEW rs \in Seq(Results), NEW n \in Nat, n = Len(rs), n > 0, NEW workers
    PROVE  /\ BenchReport(rs).summary.wall.median2 = TwiceMedian(Walls(rs))
           /\ ScalingPoint(workers, rs).wall.median2 = TwiceMedian(Walls(rs))
           /\ ScalingPoint(workers, rs).workers = workers
           /\ TwiceMedian(Walls(rs)) \in Nat
<1>1. Walls(rs) = [i \in DOMAIN rs |-> Phases(rs[i].trace)["wall"]]
  BY DEF Walls
<1>2. TwiceMedian(Walls(rs)) \in Nat
  <2>1. Range(Walls(rs)) \subseteq Nat
    BY WallsAre DEF Range, Keys
  <2> QED
    BY <2>1, WallsAre, MedianIsNat
<1>3. BenchReport(rs).summary.wall.median2 = TwiceMedian(Walls(rs))
  BY <1>1 DEF BenchReport, BuildSummary, Aggregate
<1>4. /\ ScalingPoint(workers, rs).wall.median2 = TwiceMedian(Walls(rs))
      /\ ScalingPoint(workers, rs).workers = workers
  BY <1>1 DEF ScalingPoint, Aggregate
<1> QED
  BY <1>2, <1>3, <1>4

-----------------------------------------------------------------------------
(* Speedups.                                                               *)

LEMMA AgainstIs ==
    ASSUME NEW base, NEW point, base.wall.median2 \in Nat, point.wall.median2 \in Nat,
           base.workers \in Nat, point.workers \in Nat,
           base.workers > 0, base.workers <= point.workers
    PROVE  /\ Against(base, point).point = point /\ Against(base, point).ideal >= 1000
           /\ Against(base, point).efficiency <= Against(base, point).speedup
           /\ Against(base, point).speedup > 1000
                 => point.wall.median2 < base.wall.median2
<1> PICK r : r = Against(base, point)
  OBVIOUS
<1> PICK b \in Nat : b = base.wall.median2
  OBVIOUS
<1> PICK a \in Nat : a = point.wall.median2
  OBVIOUS
<1> PICK p \in Nat : p = base.workers /\ p > 0
  OBVIOUS
<1> PICK q \in Nat : q = point.workers /\ p <= q
  OBVIOUS
<1> DEFINE speedup == Share(b, a)  ideal == Thousandths(q, p)
<1>1. r = [point |-> point, speedup |-> speedup, ideal |-> ideal,
           efficiency |-> Share(speedup, ideal)]
  BY DEF Against
<1>2. ideal >= 1000 /\ ideal \in Nat
  BY ShareExceeds, RatioBounds
<1>3. speedup \in Nat /\ (speedup > 1000 => a < b)
  <2>1. CASE a = 0
    BY <2>1 DEF Share
  <2>2. CASE a > 0
    <3>1. speedup = Thousandths(b, a) /\ speedup \in Nat
      BY <2>2, RatioBounds DEF Share
    <3>2. b <= a => speedup <= 1000
      BY <2>2, <3>1, ShareFits
    <3> QED
      BY <3>1, <3>2
  <2> QED
    BY <2>1, <2>2
<1> HIDE DEF speedup, ideal
<1>4. Share(speedup, ideal) <= speedup
  BY <1>2, <1>3, RatioShrinks DEF Share
<1> QED
  BY <1>1, <1>2, <1>3, <1>4

-----------------------------------------------------------------------------
(* Summaries.                                                              *)

LEMMA PooledIsSample ==
    ASSUME NEW rs \in Seq(Results), NEW k
    PROVE  Sample(Pooled(rs, k))
<1> PICK n \in Nat : n = Len(rs)
  OBVIOUS
<1> DEFINE part == [i \in 1 .. n |-> {i} \X TasksIn(rs[i].trace, k)]
           F == {part[i] : i \in 1 .. n}
<1>1. ASSUME NEW i \in 1 .. n
      PROVE  /\ IsFiniteSet(part[i])
             /\ \A j \in TasksIn(rs[i].trace, k) : Duration(rs[i].trace.tasks[j]) \in Int
  <2> PICK tasks : tasks = rs[i].trace.tasks
    OBVIOUS
  <2>1. /\ tasks \in Seq(Range(tasks))
        /\ \A j \in DOMAIN tasks : tasks[j].start \in Nat /\ tasks[j].end \in Nat
    BY MeasureAssumption DEF TraceType
  <2> PICK m \in Nat : m = Len(tasks) /\ DOMAIN tasks = 1 .. m
    BY <2>1
  <2>2. TasksIn(rs[i].trace, k) \in SUBSET (1 .. m)
    BY DEF TasksIn
  <2>3. IsFiniteSet(TasksIn(rs[i].trace, k))
    BY <2>2, Numbered, FS_Subset
  <2>4. IsFiniteSet({i} \X TasksIn(rs[i].trace, k))
    BY <2>3, FS_Singleton, FS_Product
  <2> QED
    BY <2>1, <2>2, <2>4 DEF Duration
<1>2. IsFiniteSet(UNION F)
  <2>1. IsFiniteSet(F)
    <3>1. IsFiniteSet(1 .. n)
      BY Numbered
    <3> HIDE DEF part
    <3> QED
      BY <3>1, Images
  <2>2. \A T \in F : IsFiniteSet(T)
    BY <1>1
  <2> HIDE DEF F
  <2> QED
    BY <2>1, <2>2, FS_UNION
<1>3. UNION F = UNION {{i} \X TasksIn(rs[i].trace, k) : i \in DOMAIN rs}
  <2>1. DOMAIN rs = 1 .. n
    OBVIOUS
  <2> QED
    BY <2>1
<1>4. DOMAIN Pooled(rs, k) = UNION F
  BY <1>3, Zenon DEF Pooled
<1>5. ASSUME NEW p \in DOMAIN Pooled(rs, k) PROVE Pooled(rs, k)[p] \in Int
  <2>1. Pooled(rs, k)[p] = Duration(rs[p[1]].trace.tasks[p[2]])
    BY <1>3, <1>4, <1>5, Zenon DEF Pooled
  <2>2. PICK i \in 1 .. n : p \in {i} \X TasksIn(rs[i].trace, k)
    BY <1>4, <1>5
  <2>3. p[1] = i /\ p[2] \in TasksIn(rs[i].trace, k)
    BY <2>2
  <2>4. Duration(rs[i].trace.tasks[p[2]]) \in Int
    BY <1>1, <2>3
  <2> QED
    BY <2>1, <2>3, <2>4
<1> QED
  BY <1>2, <1>4, <1>5 DEF Sample

LEMMA PercentilesAre ==
    ASSUME NEW s, Sample(s), DOMAIN s # {}, NEW p \in 1 .. 100
    PROVE  /\ IsPercentile(Percentile(s, p), s, p)
           /\ Lowest(s) <= Percentile(s, p) /\ Percentile(s, p) <= Highest(s)
<1> PICK x : x = Percentile(s, p)
  OBVIOUS
<1>1. /\ x \in Range(s) /\ 100 * Cardinality(UpTo(s, x)) >= p * Count(s)
      /\ \A y \in Range(s) : 100 * Cardinality(UpTo(s, y)) >= p * Count(s) => x <= y
  BY PercentileIs
<1>2. IsPercentile(x, s, p)
  BY <1>1, Zenon DEF IsPercentile, UpTo
<1> QED
  BY <1>1, <1>2, LowestHighest

LEMMA MiddleHolds ==
    ASSUME NEW s, Sample(s), NEW n \in Nat, n = Count(s),
           NEW k \in 1 .. n, 2 * (k - 1) <= n, 2 * (n - k) <= n
    PROVE  IsMiddle(Sorted(s)[k], s)
BY MiddleIs DEF IsMiddle

LEMMA MedianTrialIs ==
    ASSUME NEW rs \in Seq(Results), NEW n \in Nat, n = Len(rs), n > 0,
           NEW w, w = Walls(rs), NEW k, k = MedianTrial(rs)
    PROVE  /\ IsMiddle(w[k], w) /\ 2 * w[k] <= TwiceMedian(w)
           /\ n % 2 = 1 => 2 * w[k] = TwiceMedian(w)
<1> PICK j : j = (n - 1) \div 2 + 1
  OBVIOUS
<1>1. j \in 1 .. n /\ 2 * (j - 1) <= n /\ 2 * (n - j) <= n
  OBVIOUS
<1>2. Keys(w, n) /\ Sample(w) /\ Count(w) = n
  BY WallsAre
<1>3. k = StableOrder(w)[j]
  BY DEF MedianTrial
<1>4. Sorted(w)[j] = w[k]
  BY <1>1, <1>2, <1>3, OrderIsSorted
<1>5. IsMiddle(w[k], w)
  BY <1>1, <1>2, <1>4, MiddleHolds
<1>6. 2 * w[k] <= TwiceMedian(w) /\ (n % 2 = 1 => 2 * w[k] = TwiceMedian(w))
  BY <1>2, <1>4, MedianIs
<1> QED
  BY <1>5, <1>6

(* A figure of each of the trials of a scenario, and its median. *)
LEMMA FiguresAre ==
    ASSUME NEW n \in Nat, n > 0, NEW v, DOMAIN v = 1 .. n, \A j \in 1 .. n : v[j] \in Int
    PROVE  IsMiddle(MedianFloat(v), v)
<1> PICK k : k = n \div 2 + 1
  OBVIOUS
<1>1. k \in 1 .. n /\ 2 * (k - 1) <= n /\ 2 * (n - k) <= n
  OBVIOUS
<1>2. Sample(v) /\ Count(v) = n
  BY Numbered DEF Sample, Count
<1>3. MedianFloat(v) = Sorted(v)[k]
  <2>1. DOMAIN v # {}
    OBVIOUS
  <2> QED
    BY <1>2, <2>1 DEF MedianFloat, UpperMedian
<1> QED
  BY <1>1, <1>2, <1>3, MiddleHolds

LEMMA PreservedIs ==
    ASSUME NEW o \in Outcomes
    PROVE  PreservedShare(o) \in Int
<1>1. o.committedAtFail \in Nat /\ o.tasks \in Nat /\ o.tasks > 0
  BY MeasureAssumption
<1>2. Thousandths(o.committedAtFail, o.tasks) \in Nat
  BY <1>1, RatioBounds
<1> QED
  BY <1>2 DEF PreservedShare

-----------------------------------------------------------------------------
(* Verdicts.                                                               *)

(* What a scenario, and a benchmark, are said to have done. *)
LEMMA ScenarioVerdict ==
    ASSUME NEW os, NEW hash
    PROVE  Analyse(os, hash).completed /\ Analyse(os, hash).correct
              <=> \A k \in DOMAIN os : os[k].completed /\ os[k].hash = hash
<1>1. Analyse(os, hash).completed = \A i \in DOMAIN os : os[i].completed
  BY DEF Analyse
<1>2. Analyse(os, hash).correct = \A i \in DOMAIN os : os[i].hash = hash
  BY DEF Analyse
<1> QED
  BY <1>1, <1>2, Zenon

LEMMA BenchVerdict ==
    ASSUME NEW rs
    PROVE  BenchReport(rs).summary.hashStable
              <=> \A i \in DOMAIN rs : rs[i].hash = rs[1].hash
BY DEF BenchReport, BuildSummary

LEMMA VerdictHoldsInit == MeasureInit => VerdictHolds
BY DEF MeasureInit, VerdictHolds, Written

LEMMA ReportVerdict ==
    ASSUME MeasureInv, WriteReport
    PROVE  VerdictHolds'
<1>1. /\ UNCHANGED <<program, trials, plan, clean, measured>>
      /\ report' = <<TheReport>> /\ trials \in Nat
      /\ measured \in Seq(Seq(Returns)) /\ plan \in Seq(Range(plan))
      /\ Len(measured) = Len(plan) /\ ~AtPoint
      /\ program = "bench" => Len(plan) = 1
  BY DEF WriteReport, AllMeasured, MeasureInv, MeasuredOK
<1>2. ASSUME NEW i \in DOMAIN plan
      PROVE  measured[i] \in Seq(Returns) /\ DOMAIN measured[i] = 1 .. trials
  BY <1>1, AllTrialsRun
<1>3. ASSUME program = "chaos", status' = "ok", NEW i \in DOMAIN plan, NEW j \in 1 .. trials
      PROVE  measured[i][j].completed /\ measured[i][j].hash = clean[1].hash
  <2>1. TheReport[i].completed /\ TheReport[i].correct
    <3>1. ~BadScenario
      BY <1>3 DEF WriteReport
    <3> QED
      BY <1>3, <3>1 DEF BadScenario
  <2>2. TheReport[i] = Analyse(measured[i], clean[1].hash)
    <3>1. program # "bench" /\ program # "sweep"
      BY <1>3
    <3>2. TheReport = [k \in DOMAIN plan |-> Analyse(measured[k], clean[1].hash)]
      BY <3>1, Zenon DEF TheReport
    <3> QED
      BY <3>2
  <2>3. j \in DOMAIN measured[i]
    BY <1>2
  <2>4. /\ Analyse(measured[i], clean[1].hash).completed
        /\ Analyse(measured[i], clean[1].hash).correct
    BY <2>1, <2>2, Zenon
  <2>5. \A k \in DOMAIN measured[i] :
           measured[i][k].completed /\ measured[i][k].hash = clean[1].hash
    BY <2>4, ScenarioVerdict, Zenon
  <2> QED
    BY <2>3, <2>5, Zenon
<1>4. ASSUME program = "bench"
      PROVE  report'[1].summary.hashStable
                <=> \A i, j \in 1 .. trials : measured[1][i].hash = measured[1][j].hash
  <2>1. TheReport = BenchReport(measured[1])
    BY <1>4, Zenon DEF TheReport
  <2>2. DOMAIN measured[1] = 1 .. trials
    BY <1>1, <1>2, <1>4
  <2>3. BenchReport(measured[1]).summary.hashStable
           <=> \A i \in 1 .. trials : measured[1][i].hash = measured[1][1].hash
    BY <2>2, BenchVerdict
  <2>4. (\A i \in 1 .. trials : measured[1][i].hash = measured[1][1].hash)
           <=> \A i, j \in 1 .. trials : measured[1][i].hash = measured[1][j].hash
    BY <1>1
  <2>5. report'[1] = BenchReport(measured[1])
    BY <1>1, <2>1
  <2> QED
    BY <2>3, <2>4, <2>5
<1> QED
  BY <1>1, <1>3, <1>4 DEF VerdictHolds

LEMMA VerdictHoldsStep ==
    ASSUME MeasureInv, VerdictHolds, [MeasureNext]_measureVars
    PROVE  VerdictHolds'
<1>1. CASE UNCHANGED measureVars
  BY <1>1 DEF measureVars, VerdictHolds, Written
<1>2. CASE WriteReport
  BY <1>2, ReportVerdict
<1>3. ASSUME MeasureNext, ~WriteReport
      PROVE  report' = None /\ status' # "ok"
  <2>1. status = "running" /\ report = None
    BY <1>3 DEF MeasureNext, MeasureInv, WrittenLast
  <2> QED
    BY <1>3, <2>1 DEF MeasureNext, Fail, CleanRun, NextPoint, RunTrial, TrialFails, WriteFails
<1> QED
  BY <1>1, <1>2, <1>3 DEF VerdictHolds, Written

-----------------------------------------------------------------------------
(* The theorems.                                                           *)

(* Whatever the plan and the trials return, a report is about complete     *)
(* measurements only: it is written after the last trial of the last point, *)
(* and no failure leaves one behind (main of src/bench and src/chaos).       *)
THEOREM WrittenIsWholeHolds == MeasureSpec => []WrittenIsWhole
<1>1. MeasureInv => WrittenIsWhole
  <2> SUFFICES ASSUME MeasureInv PROVE WrittenIsWhole
    OBVIOUS
  <2>1. ASSUME NEW i \in DOMAIN measured
        PROVE  /\ i \in 1 .. Len(measured) /\ measured[i] \in Seq(Returns)
               /\ Len(measured[i]) <= trials /\ Range(measured[i]) \subseteq Returns
    BY <2>1 DEF MeasureInv, MeasuredOK, Range
  <2>2. Len(report) <= 1
    <3>1. CASE report = None
      BY <3>1 DEF None
    <3>2. CASE report # None
      <4>1. Len(report) = 1
        BY <3>2 DEF MeasureInv, WrittenLast
      <4> QED
        BY <4>1
    <3> QED
      BY <3>1, <3>2
  <2>3. MeasureTypeOK
    BY <2>1, <2>2 DEF MeasureInv, MeasuredOK, MeasureTypeOK
  <2>4. ASSUME report # None, NEW i \in DOMAIN measured
        PROVE  Len(measured[i]) = trials
    <3>1. Len(measured) = Len(plan) /\ ~AtPoint
      BY <2>4 DEF MeasureInv, WrittenLast
    <3>2. i \in DOMAIN plan
      BY <2>1, <3>1 DEF MeasureInv
    <3> QED
      BY <3>1, <3>2, AllTrialsRun
  <2> QED
    BY <2>3, <2>4 DEF WrittenIsWhole, Written, MeasureInv, WrittenLast
<1> QED
  BY <1>1, MeasureInvHolds, PTL

(* A bad trial does not hide among good ones: a fault matrix that succeeds    *)
(* had the clean output from every trial of every scenario, and a benchmark    *)
(* calls its output stable exactly when all trials agree (analyse, main of     *)
(* src/chaos, buildSummary).                                                   *)
THEOREM VerdictHoldsAlways == MeasureSpec => []VerdictHolds
<1>1. VerdictHolds /\ MeasureInv /\ [MeasureNext]_measureVars => VerdictHolds'
  BY VerdictHoldsStep
<1> QED
  BY <1>1, VerdictHoldsInit, MeasureInvHolds, PTL DEF MeasureSpec

(* Speedups are relative to the smallest worker count, whatever counts were   *)
(* asked for and however they were ordered: only what took less time than     *)
(* fewer workers shows a gain (parseCounts, fillSpeedups).                     *)
THEOREM SpeedupsAreRelativeHolds == MeasureSpec => []SpeedupsAreRelative
<1>1. ReportInv => SpeedupsAreRelative
  <2> SUFFICES ASSUME ReportInv, report # None, program = "sweep"
               PROVE  SpeedupsAreRelative
    BY DEF SpeedupsAreRelative, Written
  <2> PICK n \in Nat : n = Len(plan)
    BY DEF ReportInv, MeasureInv
  <2> PICK r : r = report[1]
    OBVIOUS
  <2> DEFINE point(i) == ScalingPoint(plan[i], measured[i])
  <2>1. /\ DOMAIN plan = 1 .. n /\ trials \in Nat /\ trials > 0
        /\ Len(measured) = Len(plan) /\ ~AtPoint /\ MeasureInv
        /\ \A i \in 1 .. n : plan[i] \in Nat /\ plan[i] > 0
        /\ \A i \in 1 .. n : plan[1] <= plan[i]
    <3>1. /\ plan \in Seq(Range(plan)) /\ trials \in Nat /\ MeasureInv
          /\ Len(measured) = Len(plan) /\ ~AtPoint
      BY DEF ReportInv, MeasureInv, WrittenLast
    <3>2. ~(trials < 1) /\ \A i \in DOMAIN plan : ~(plan[i] < 1)
      BY DEF ReportInv, ReportIs, BadArguments
    <3>3. /\ \A i \in 1 .. n : plan[i] \in Int
          /\ \A i \in 1 .. n : \A j \in i .. n : plan[i] <= plan[j]
      BY DEF ReportInv, PlanOK
    <3>4. \A i \in 1 .. n : 1 \in 1 .. n /\ i \in 1 .. n /\ 1 <= i
      OBVIOUS
    <3> QED
      BY <3>1, <3>2, <3>3, <3>4
  <2>2. r = FillSpeedups([i \in DOMAIN plan |-> point(i)])
    <3>1. TheReport = FillSpeedups([i \in DOMAIN plan |-> point(i)])
      BY Zenon DEF TheReport
    <3>2. report = <<TheReport>>
      BY DEF ReportInv, ReportIs
    <3> QED
      BY <3>1, <3>2
  <2>3. ASSUME NEW i \in 1 .. n
        PROVE  measured[i] \in Seq(Results) /\ Len(measured[i]) = trials
    BY <2>1, AllTrialsRun DEF Returns
  <2>4. ASSUME NEW i \in 1 .. n
        PROVE  point(i).wall.median2 \in Nat /\ point(i).workers = plan[i]
    BY <2>1, <2>3, WallMedian
  <2> HIDE DEF point
  <2>5. DOMAIN r = 1 .. n /\ \A i \in 1 .. n : r[i] = Against(point(1), point(i))
    BY <2>1, <2>2 DEF FillSpeedups
  <2>6. ASSUME NEW i \in 1 .. n
        PROVE  /\ r[i].point = point(i) /\ r[i].ideal >= 1000
               /\ r[i].efficiency <= r[i].speedup
               /\ r[i].speedup > 1000
                     => point(i).wall.median2 < point(1).wall.median2
    <3>1. 1 \in 1 .. n
      OBVIOUS
    <3>2. /\ point(1).wall.median2 \in Nat /\ point(i).wall.median2 \in Nat
          /\ point(1).workers \in Nat /\ point(i).workers \in Nat
          /\ point(1).workers > 0 /\ point(1).workers <= point(i).workers
      BY <2>1, <2>4, <3>1
    <3> DEFINE against == Against(point(1), point(i))
    <3>3. /\ against.point = point(i) /\ against.ideal >= 1000
          /\ against.efficiency <= against.speedup
          /\ against.speedup > 1000 => point(i).wall.median2 < point(1).wall.median2
      BY <3>2, AgainstIs
    <3> QED
      BY <2>5, <3>3
  <2>7. ASSUME NEW i \in 1 .. n, r[i].speedup > 1000
        PROVE  \E j \in 1 .. n : /\ r[j].point.workers <= r[i].point.workers
                                 /\ r[i].point.wall.median2 < r[j].point.wall.median2
    <3>1. 1 \in 1 .. n
      OBVIOUS
    <3>2. r[1].point = point(1) /\ r[i].point = point(i)
      BY <2>6, <3>1
    <3> WITNESS 1 \in 1 .. n
    <3> QED
      BY <2>1, <2>4, <2>6, <2>7, <3>1, <3>2
  <2> QED
    BY <2>5, <2>6, <2>7 DEF SpeedupsAreRelative
<1> QED
  BY <1>1, ReportInvHolds, PTL

(* Reports hold the middle and the extremes they say they hold, for any       *)
(* plan, number of trials and whatever the trials return: percentiles of the  *)
(* pooled tasks are percentiles, the trial whose timeline is shown is a       *)
(* median one and as fast as the median printed, and the fault matrix prints  *)
(* medians (percentile, medianOf, medianTrial, medianFloat).                   *)
THEOREM SummariesHoldHolds == MeasureSpec => []SummariesHold
<1>1. ReportInv => SummariesHold
  <2> SUFFICES ASSUME ReportInv, report # None
               PROVE  SummariesHold
    BY DEF SummariesHold, PercentilesHold, MediansHold, Written
  <2> PICK n \in Nat : n = Len(plan)
    BY DEF ReportInv, MeasureInv
  <2> PICK r : r = report[1]
    OBVIOUS
  <2>1. /\ DOMAIN plan = 1 .. n /\ trials \in Nat /\ (program = "bench" => n = 1)
        /\ \A i \in DOMAIN plan : /\ measured[i] \in Seq(Returns) /\ Len(measured[i]) = trials
                                  /\ DOMAIN measured[i] = 1 .. trials
    <3>1. /\ plan \in Seq(Range(plan)) /\ trials \in Nat /\ MeasureInv
          /\ Len(measured) = Len(plan) /\ ~AtPoint /\ (program = "bench" => n = 1)
      BY DEF ReportInv, MeasureInv, WrittenLast
    <3> QED
      BY <3>1, AllTrialsRun
  <2>2. r = TheReport /\ (program # "chaos" => trials > 0)
    <3>1. report = <<TheReport>> /\ ~BadArguments
      BY DEF ReportInv, ReportIs
    <3>2. program # "chaos" => ~(trials < 1)
      BY <3>1 DEF BadArguments
    <3> QED
      BY <2>1, <3>1, <3>2
  <2>3. PercentilesHold
    <3> SUFFICES ASSUME program = "bench" PROVE PercentilesHold
      BY DEF PercentilesHold
    <3> DEFINE rs == measured[1]  s == Pooled(rs, "map")
    <3>1. rs \in Seq(Results)
      BY <2>1 DEF Returns
    <3>2. r.summary.mapTasks = Describe(s)
      <4>1. r = BenchReport(rs)
        BY <2>2, Zenon DEF TheReport
      <4> QED
        BY <4>1 DEF BenchReport, BuildSummary
    <3>3. Sample(s)
      BY <3>1, PooledIsSample
    <3>4. /\ r.summary.mapTasks.p50 = Percentile(s, 50)
          /\ r.summary.mapTasks.p95 = Percentile(s, 95)
          /\ r.summary.mapTasks.p99 = Percentile(s, 99)
          /\ r.summary.mapTasks.min = Lowest(s) /\ r.summary.mapTasks.max = Highest(s)
      BY <3>2 DEF Describe
    <3>5. s = Pooled(measured[1], "map")
      OBVIOUS
    <3> HIDE DEF s
    <3>6. ASSUME DOMAIN s # {}, NEW p \in 1 .. 100
          PROVE  /\ IsPercentile(Percentile(s, p), s, p)
                 /\ Lowest(s) <= Percentile(s, p) /\ Percentile(s, p) <= Highest(s)
      BY <3>3, <3>6, PercentilesAre
    <3>7. 50 \in 1 .. 100 /\ 95 \in 1 .. 100 /\ 99 \in 1 .. 100
      OBVIOUS
    <3> QED
      BY <3>4, <3>5, <3>6, <3>7 DEF PercentilesHold
  <2>4. ASSUME program # "chaos", NEW i \in DOMAIN plan,
               NEW w, w = Walls(measured[i]), NEW k, k = MedianTrial(measured[i]),
               NEW m, m = IF program = "bench" THEN r.summary.wall.median2
                          ELSE r[i].point.wall.median2
        PROVE  /\ IsMiddle(w[k], w) /\ 2 * w[k] <= m
               /\ trials % 2 = 1 => 2 * w[k] = m
    <3> DEFINE point(j) == ScalingPoint(plan[j], measured[j])
    <3>1. measured[i] \in Seq(Results) /\ Len(measured[i]) = trials /\ trials > 0
      BY <2>1, <2>2, <2>4 DEF Returns
    <3>2. CASE program = "bench"
      <4>1. i = 1
        BY <2>1, <3>2
      <4>2. r = BenchReport(measured[i])
        BY <2>2, <3>2, <4>1, Zenon DEF TheReport
      <4>3. m = TwiceMedian(w)
        BY <2>1, <2>4, <3>1, <3>2, <4>2, WallMedian
      <4> QED
        BY <2>1, <2>4, <3>1, <4>3, MedianTrialIs
    <3>3. CASE program # "bench"
      <4>1. program = "sweep"
        BY <2>4, <3>3 DEF ReportInv, MeasureInv
      <4>2. r = FillSpeedups([j \in DOMAIN plan |-> point(j)])
        BY <2>2, <4>1, Zenon DEF TheReport
      <4> HIDE DEF point
      <4>3. r[i] = Against(point(1), point(i))
        BY <2>1, <4>2 DEF FillSpeedups
      <4>4. r[i].point = point(i)
        BY <4>3 DEF Against
      <4>5. point(i).wall.median2 = TwiceMedian(w)
        BY <2>1, <2>4, <3>1, WallMedian DEF point
      <4>6. m = TwiceMedian(w)
        BY <2>4, <3>3, <4>4, <4>5
      <4> QED
        BY <2>1, <2>4, <3>1, <4>6, MedianTrialIs
    <3> QED
      BY <3>2, <3>3
  <2>5. ASSUME program = "chaos", trials > 0, NEW i \in DOMAIN plan
        PROVE  LET os == measured[i] IN
               /\ IsMiddle(r[i].wall, [j \in DOMAIN os |-> os[j].wall])
               /\ IsMiddle(r[i].preserved, [j \in DOMAIN os |-> PreservedShare(os[j])])
    <3> DEFINE os == measured[i]
               walls == [j \in DOMAIN os |-> os[j].wall]
               shares == [j \in DOMAIN os |-> PreservedShare(os[j])]
    <3>1. os \in Seq(Outcomes) /\ DOMAIN os = 1 .. trials /\ Len(os) = trials
      BY <2>1, <2>5 DEF Returns
    <3>2. r[i] = Analyse(os, clean[1].hash)
      <4>1. r = [j \in DOMAIN plan |-> Analyse(measured[j], clean[1].hash)]
        BY <2>2, <2>5, Zenon DEF TheReport
      <4> QED
        BY <4>1
    <3>3. r[i].wall = MedianFloat(walls) /\ r[i].preserved = MedianFloat(shares)
      BY <3>2 DEF Analyse
    <3>4. ASSUME NEW j \in 1 .. trials
          PROVE  walls[j] \in Int /\ shares[j] \in Int
      <4>1. os[j] \in Outcomes /\ j \in DOMAIN os
        BY <3>1
      <4>2. os[j].wall \in Int
        BY <4>1, MeasureAssumption
      <4>3. PreservedShare(os[j]) \in Int
        BY <4>1, PreservedIs
      <4> QED
        BY <4>1, <4>2, <4>3
    <3>5. DOMAIN walls = 1 .. trials /\ DOMAIN shares = 1 .. trials
      BY <3>1
    <3>6. IsMiddle(MedianFloat(walls), walls) /\ IsMiddle(MedianFloat(shares), shares)
      <4> HIDE DEF walls, shares
      <4> QED
        BY <2>1, <2>5, <3>4, <3>5, FiguresAre
    <3> QED
      BY <3>3, <3>6
  <2>6. MediansHold
    <3>1. ASSUME program # "chaos", NEW i \in DOMAIN plan
          PROVE  LET w == Walls(measured[i])  k == MedianTrial(measured[i])
                     median2 == IF program = "bench" THEN report[1].summary.wall.median2
                                ELSE report[1][i].point.wall.median2
                 IN /\ IsMiddle(w[k], w) /\ 2 * w[k] <= median2
                    /\ trials % 2 = 1 => 2 * w[k] = median2
      BY <2>4, <3>1
    <3>2. ASSUME program = "chaos", trials > 0, NEW i \in DOMAIN plan
          PROVE  LET os == measured[i] IN
                 /\ IsMiddle(report[1][i].wall, [j \in DOMAIN os |-> os[j].wall])
                 /\ IsMiddle(report[1][i].preserved, [j \in DOMAIN os |-> PreservedShare(os[j])])
      BY <2>5, <3>2
    <3> QED
      BY <3>1, <3>2, Zenon DEF MediansHold
  <2> QED
    BY <2>3, <2>6 DEF SummariesHold
<1> QED
  BY <1>1, ReportInvHolds, PTL
=============================================================================
