CONSTANTS
  Callers = {c1, c2, c3}
  MaxCommands = 3
  MaxStarts = 3
SPECIFICATION Spec
INVARIANTS LifecycleSettled TeardownBalances
PROPERTIES AnswersAreTrue UnavailableNeverRuns LifecycleReturns
CHECK_DEADLOCK FALSE
