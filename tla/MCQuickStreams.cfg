CONSTANTS
    Workers = {w1, w2}
    NoWorker = NoWorker
    MaxRounds = 1
    MaxDeltas = 1
    MaxFaults = 2
    ToolLoop = FALSE
    PageSize = 1
SPECIFICATION StreamsSpec
CHECK_DEADLOCK FALSE
SYMMETRY Symmetry
INVARIANTS FinalResponseKept NoEndIsMissed
PROPERTY EveryEventShown
