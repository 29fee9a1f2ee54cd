\* Safety with a slow worker, a crash and a failed call in one run.
CONSTANTS
    w1 = w1
    w2 = w2
    Worker = {w1, w2}
    NoWorker = NoWorker
    NMap = 1
    NReduce = 2
    Speculation = TRUE
    MinSamples = 1
    MaxAttempts = 0
    LoggedKinds = {}
    RpcAttempts = 2
    MaxFaults = 1
    MaxCrashes = 1
    MaxStalls = 1
SYMMETRY Workers
SPECIFICATION JobSpec
INVARIANTS FilesInPlace OnlyClearedPublish WonWereLaunched
PROPERTY ImplementsJob
\* With every worker crashed or gone the system stops.
CHECK_DEADLOCK FALSE
