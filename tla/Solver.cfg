\* Five subtasks, twenty steps and three retries as in the code.
CONSTANTS
  Subtasks = 5
  StepLimit = 20
  RetryLimits = {2, 3}
  Registered = {"error", "empty"}
  SettingsRetries = 2
  Asked <- MCAsked
  BufferSize = 1
  MaxQueries = 2
  MaxRuns = 2
SPECIFICATION FairSpec
CHECK_DEADLOCK FALSE
INVARIANTS SolverIsSound
PROPERTIES SolveReturns
