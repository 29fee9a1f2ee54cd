\* A committer that was slow, not dead, wakes up after its task was finished.
CONSTANTS
    w1 = w1
    w2 = w2
    Worker = {w1, w2}
    NoWorker = NoWorker
    NMap = 1
    NReduce = 1
    Speculation = FALSE
    MinSamples = 1
    MaxAttempts = 0
    LoggedKinds = {}
    RpcAttempts = 4
    MaxFaults = 0
    MaxCrashes = 0
    MaxStalls = 1
SPECIFICATION JobSpec
PROPERTY FinishedOutputIsFinal
CHECK_DEADLOCK FALSE
