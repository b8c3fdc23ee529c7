SPECIFICATION Spec
CONSTANTS
  a = a
  b = b
  Tasks = {a, b}
  NoTask = NoTask
  Reviewer = Reviewer
  Plans <- AllPlans
  ReviewPolicy = "always"
  Rounds = 2
  Parallel = 2
  MaxCalls = 7
  MaxNodes = 18
  CallCost = 1
  Overrun = 0
  Costs = {0}
  BudgetLimit = 2
  MaxAsks = 1
  MaxFaults = 1
CHECK_DEADLOCK FALSE
INVARIANTS AnswerAffordable ReservedMatches SiblingsKept AnswerIsWhole
PROPERTY NoCallAfterEnd
