\* The worker: two requests, two workers, two interrupted calls.  The tools:
\* every tool, answer and size of result; the child may be killed.
SPECIFICATION AllSpec
CONSTANTS
  MaxRequests = 2
  MaxWorkers = 2
  MaxInterrupts = 2
  None = None
  Prompt = FALSE
  LargeResults = TRUE
  MaxKills = 1
  RunTimes = {0, 2}
  Nil = Nil
INVARIANTS CodeIsHonest NothingLeftRunning
PROPERTIES CallsReturn ImplementsAtomicCompare
\* The bounds stop the calls, not the code; a tool call ends.
CHECK_DEADLOCK FALSE
