\* Every scenario of the fault matrix, with workers faster than the timeout.
CONSTANTS
    Worker = {0, 1, 2}
    NoWorker = NoWorker
    NMap = 2
    NReduce = 2
    Speculation = FALSE
    MinSamples = 1
    MaxAttempts = 0
    LoggedKinds = {"assigned", "committed"}
    RpcAttempts = 2
    MaxFaults = 1
    MaxCrashes = 2
    MaxStalls = 0
    Scenarios <- Matrix
    Erring <- KillsAtMostOne
    Progresses = {20}
    Patient = TRUE
SPECIFICATION FairChaosSpec
INVARIANTS ChaosTypeOK PoolStrength OutcomeIsOutput CostOfKills RecoveriesAreAccounted
PROPERTY TrialCompletes
\* The trial is over.
CHECK_DEADLOCK FALSE
