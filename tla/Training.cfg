\* Rollouts: two or three rows, four steps, two calls, two Python seconds that a
\* call may overrun.  Builds: two of up to three tasks, killed anywhere.  Task
\* sets: seven tasks.  Demonstrations: three rows, every batch size.  SymPy
\* calls: three records, interrupted anywhere.  SFT: three freezes and four
\* training runs of two configurations, killed anywhere.  The first version's
\* trainer: three items, epochs of two batches.
SPECIFICATION Spec
CONSTANTS
  Batches <- MCBatches
  MaxSteps = 4
  MaxToolCalls = 2
  MaxPythonSeconds = 2
  RunTimes = {0, 3}
  Config <- R4
  None = None
  PoolTasks = {1, 2, 3}
  PoolTexts = {1, 2, 3}
  TrainShare = 60
  DevShare = 20
  FrozenCount = 1
  TaskLists <- MCTaskLists
  MaxBuilds = 2
  FrozenPool = {1, 2, 3, 4, 5, 6, 7}
  SpentFirst = {1}
  Difficulty <- MCDifficulty
  Layers <- MCLayers
  FormalPer = 1
  PilotPer = 1
  Strata = 2
  APer = 1
  BPer = 1
  SourceTasks = {1, 2}
  NoTask = 0
  Solutions <- MCSolutions
  TirSolutions <- MCTirSolutions
  SourceRows = 3
  BatchSizes = {1, 2, 3}
  Problems <- MCProblems
  PoolSize = 3
  GateSamples = {2, 5}
  Limits = {1, 2}
  SftConfigs = {1, 2}
  SftRecords <- MCRecords
  MaxLength = 4
  MaxFreezes = 3
  MaxTrainings = 4
  Trajectories <- MCTrajectories
  DatasetSizes = {0, 3}
  MiniBatch = 2
  SaveSteps = 1
  EpochCounts = {1, 2}
  MaxMetrics = 4
INVARIANTS
  EachRowJudgedOnce RewardOrder PoolIsSound StudyIsFresh
  BatchesLoseNothing GateSettlesOnce AdapterSurvives
  EpochTrainsAll SuccessPaysMost
PROPERTIES StudySetsSettled
\* A rollout and a materialization end; the bounds stop the others.
CHECK_DEADLOCK FALSE
