CONSTANTS
    Clients = {c1}
    Keys = {k1}
    NoKey = NoKey
    Bodies = {b1}
    NoBody = NoBody
    MaxRuns = 1
    MaxMessages = 1
    MaxAsks = 3
    Snapshots = TRUE
SPECIFICATION Spec
CHECK_DEADLOCK FALSE
INVARIANT OneExecutor
