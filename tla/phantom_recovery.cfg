\* A recovery of an attempt that had been taken back before the kill.
CONSTANTS
    Worker = {0, 1}
    NoWorker = NoWorker
    NMap = 2
    NReduce = 1
    Speculation = FALSE
    MinSamples = 1
    MaxAttempts = 0
    LoggedKinds = {"assigned", "committed"}
    RpcAttempts = 2
    MaxFaults = 0
    MaxCrashes = 2
    MaxStalls = 1
    Scenarios <- OneKill
    Erring = {}
    Progresses = {20}
    Patient = TRUE
SPECIFICATION ChaosSpec
INVARIANT RecoveriesAreReal
\* The trial is over.
CHECK_DEADLOCK FALSE
