\* A losing backup is refused.
CONSTANTS
    w1 = w1
    w2 = w2
    Worker = {w1, w2}
    NoWorker = NoWorker
    NMap = 1
    NReduce = 2
    Speculation = TRUE
    MinSamples = 1
    MaxAttempts = 0
    LoggedKinds = {"assigned", "refused"}
    RpcAttempts = 4
    MaxFaults = 0
    MaxCrashes = 0
    MaxStalls = 0
SPECIFICATION JobSpec
INVARIANT EventsNameTheAttempt
CHECK_DEADLOCK FALSE
