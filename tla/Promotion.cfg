\* One handle that crashes anywhere and whose writes may fail.  Five
\* paired tasks: three or more that agree are significant against none, and four
\* against one.
CONSTANTS
  s1 = s1
  s2 = s2
  s3 = s3
  v1 = v1
  v2 = v2
  h1 = h1
  Handles = {h1}
  Specs = {s1, s2, s3}
  Versions = {v1, v2}
  VersionOf <- MCVersionOf
  Decisions = {"pass", "fail"}
  Passing = {"pass"}
  MaxMutations = 7
  MaxFailures = 1
  None = None
  Rows = 5
  Draws <- MCDraws
  Lower = 1
  MaxRegression = 70
  CiLowerBound <- MCBound
  Alpha = 38
  MaxDelta = 1
  Metrics = {0, 2}
SYMMETRY SpecSymmetry
SPECIFICATION AllSpec
INVARIANTS LedgerIsTrue ImprovementIsOneWay
PROPERTIES BetterNeverFails ImplementsEventLedger
\* The bounds stop the registry; the best candidate cannot get better.
CHECK_DEADLOCK FALSE
