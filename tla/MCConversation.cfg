CONSTANTS
    Clients = {c1, c2}
    Keys = {k1, k2}
    NoKey = NoKey
    Bodies = {b1, b2}
    NoBody = NoBody
    MaxRuns = 2
    MaxMessages = 3
    MaxAsks = 4
    Snapshots = TRUE
SPECIFICATION Spec
CHECK_DEADLOCK FALSE
SYMMETRY Symmetry
INVARIANTS SequenceDense OneUnfinishedTurn AcceptedIsWhole AnswersHold
PROPERTY EndStands
