\* A swallowed CPU limit.
SPECIFICATION Spec
CONSTANTS
  MaxRequests = 1
  MaxWorkers = 1
  MaxInterrupts = 0
  None = None
INVARIANTS LimitIsTimeout
\* The bounds stop the calls, not the code.
CHECK_DEADLOCK FALSE
