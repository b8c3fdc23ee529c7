CONSTANTS
    Workers = {w1, w2}
    NoWorker = NoWorker
    MaxRounds = 1
    MaxFaults = 1
    MaxVersion = 2
    Snapshots = TRUE
    TimeLimited = FALSE
SPECIFICATION FairSpec
CHECK_DEADLOCK FALSE
INVARIANTS OneAnswer CompletedIsWhole
PROPERTIES LateWriteIsLast WorkflowEnds UnknownIsReported
