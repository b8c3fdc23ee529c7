CONSTANTS
    Workers = {w1, w2}
    NoWorker = NoWorker
    MaxRounds = 2
    MaxFaults = 1
    MaxVersion = 2
    Snapshots = TRUE
    TimeLimited = TRUE
SPECIFICATION Spec
SYMMETRY WorkerSymmetry
CHECK_DEADLOCK FALSE
INVARIANTS AtMostOnce CheckpointHonest
