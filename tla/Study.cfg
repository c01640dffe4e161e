\* Two tasks, two rollouts each, in stages A and B; two anchors, three arms in
\* stage C; each stage is started up to three times.  Audits of up to nine branches.
CONSTANTS
  t1 = t1
  t2 = t2
  None = None
  Tasks <- TwoTasks
  SamplesPerTask = 2
  Trajectories <- MCTrajectories
  OrderKey <- MCOrderKey
  MaxSteps = 4
  MaxToolCalls = 4
  MaxPythonSeconds = 6
  MinRemainingSteps = 2
  MinRemainingToolCalls = 1
  MinRemainingPythonSeconds = 2
  MinExecuted = 2
  MaxStarts = 3
  Snapshots <- MCSnapshots
  ArmOrder <- MCArmOrder
  Solved <- MCSolved
  Continuations = 1
  AuditBranches = 6
  RareShare = 3
  MaxPerArm = 3
  BranchCounts <- MCCounts
  NextCodes <- MCCodes
SPECIFICATION Spec
\* The invocations run out.
CHECK_DEADLOCK FALSE
INVARIANTS LogsAreWhole AnchorsAreFirstChoices EffectsArePaired AuditIsFair
PROPERTIES ResumeRunsTheRest
