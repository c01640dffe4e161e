\* A result that does not fit the pipe, with time enough to compute it.
SPECIFICATION ToolSpec
CONSTANTS
  Prompt = TRUE
  LargeResults = TRUE
  MaxKills = 0
  RunTimes = {0, 2}
  Nil = Nil
INVARIANTS TimeoutMeansHung
\* A call ends.
CHECK_DEADLOCK FALSE
