\* Three steps, two calls, two Python seconds: each limit can be reached first.
CONSTANTS
  MaxSteps = 3
  MaxToolCalls = 2
  MaxPythonSeconds = 2
  Python = "python"
  ToolNames = {"python", "sympy", "shell"}
  Registered = {"python", "sympy"}
  Answers = {"a"}
  TokenCounts = {1}
  RunTimes = {0, 1, 3}
  Delays = {0, 1}
  None = None
SPECIFICATION FairSpec
INVARIANTS Accounting EndingExplained TraceFaithful ReplayAccepts
PROPERTIES ImplementsBoundedEpisode EpisodeEnds
