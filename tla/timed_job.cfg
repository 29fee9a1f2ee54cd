\* A slow or hung worker, timeouts, and backups by the median.
CONSTANTS
    w1 = w1
    w2 = w2
    Worker = {w1, w2}
    NoWorker = NoWorker
    NMap = 3
    NReduce = 1
    Speculation = TRUE
    MinSamples = 1
    MaxAttempts = 0
    LoggedKinds = {"assigned", "reaped", "committed"}
    Given <- Fields
    Default <- Defaults
    MaxLate = 0
    MaxTime = 3
SYMMETRY Workers
SPECIFICATION RunSpec
INVARIANTS NoOverstay TraceIsSound ReportAddsUp ReplayIsFaithful
           LogAgrees WorkersAddUp
PROPERTIES OnlyOverdueDropped BackupsAreForLaggards
CHECK_DEADLOCK FALSE
