\* Four steps, so that an anchor leaves room for a branch with its own calls.
CONSTANTS
  MaxSteps = 4
  MaxToolCalls = 2
  MaxPythonSeconds = 3
  Python = "python"
  ToolNames = {"python"}
  Registered = {"python"}
  Answers = {"a"}
  TokenCounts = {1}
  RunTimes = {1, 2}
  Delays = {0, 1}
  None = None
  Arms = {"F", "P", "M"}
  MinRemainingSteps = 2
  MinRemainingToolCalls = 1
  MinRemainingPythonSeconds = 1
SPECIFICATION BranchSpec
INVARIANTS SeamInvisible
