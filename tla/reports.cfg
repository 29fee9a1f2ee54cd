\* Every sequence of a few different trials, for each of the three programs.
CONSTANTS
    Results <- RunResults
    Outcomes <- TrialOutcomes
    CountLists <- Counts
    Plans <- Scenarios
    MaxTrials = 4
    MaxRuns = 6
SPECIFICATION MeasureSpec
INVARIANTS WrittenIsWhole SummariesHold SpeedupsAreRelative VerdictHolds
\* The program has ended.
CHECK_DEADLOCK FALSE
