SPECIFICATION Spec
CONSTANTS
  a = a
  b = b
  Tasks = {a, b}
  NoTask = NoTask
  Reviewer = Reviewer
  Plans <- OnePlan
  ReviewPolicy = "on_verification_failure"
  Rounds = 1
  Parallel = 2
  MaxCalls = 0
  MaxNodes = 13
  CallCost = 1
  Overrun = 1
  Costs = {2}
  BudgetLimit = 7
  MaxAsks = 1
  MaxFaults = 1
INVARIANT WithinBudget
PROPERTY PlannedEnds
CHECK_DEADLOCK FALSE
