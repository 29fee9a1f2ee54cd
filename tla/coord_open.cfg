\* Any caller, any interleaving, three tasks, three workers, speculation on.
CONSTANTS
    w1 = w1
    w2 = w2
    w3 = w3
    Worker = {w1, w2, w3}
    NoWorker = NoWorker
    NMap = 2
    NReduce = 1
    Speculation = TRUE
    MinSamples = 1
    MaxAttempts = 3
    LoggedKinds = {}
SYMMETRY Workers
SPECIFICATION Spec
INVARIANTS TypeOK LiveMatchesState AtMostTwoRunning CompletedCount
           ReduceAfterMaps PhaseMarks PhaseIsTrue
PROPERTIES RightToPublish PhaseNeverGoesBack
