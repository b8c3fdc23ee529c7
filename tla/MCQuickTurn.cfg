CONSTANTS
    w1 = w1  w2 = w2
    Workers = {w1, w2}
    NoWorker = NoWorker
    MaxRounds = 2
    MaxDeltas = 1
    MaxFaults = 1
    ToolLoop = TRUE
SPECIFICATION FairSpec
CHECK_DEADLOCK FALSE
INVARIANTS AtMostOnce Agreement LogInOrder AnswerReachesTool
PROPERTIES PromiseKept Fenced SavedStands TurnEnds QuestionsSettle
