\* The first attempt is reaped while its backup runs, and a third worker asks.
CONSTANTS
    w1 = w1
    w2 = w2
    w3 = w3
    Worker = {w1, w2, w3}
    NoWorker = NoWorker
    NMap = 2
    NReduce = 1
    Speculation = TRUE
    MinSamples = 1
    MaxAttempts = 3
    LoggedKinds = {}
SPECIFICATION Spec
INVARIANT AtMostOneBackup
