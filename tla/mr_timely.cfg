\* The same job when no live worker is ever timed out: its output, and its end.
CONSTANTS
    w1 = w1
    w2 = w2
    Worker = {w1, w2}
    NoWorker = NoWorker
    NMap = 1
    NReduce = 2
    Speculation = TRUE
    MinSamples = 1
    MaxAttempts = 0
    LoggedKinds = {}
    RpcAttempts = 2
    MaxFaults = 1
    MaxCrashes = 1
    MaxStalls = 0
SPECIFICATION FairSpec
INVARIANTS OutputIsCommitters
PROPERTIES FinishedOutputIsFinal JobFinishes WorkersStop
\* With every worker crashed or gone the system stops.
CHECK_DEADLOCK FALSE
