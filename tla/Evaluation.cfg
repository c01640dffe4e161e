\* The journal: three tasks in batches of two, two manifests, kills anywhere.
\* The arm: four tasks in two shards of up to two processes each.
\* The measurement: two groups of two, of three tasks and three rewards.
CONSTANTS
  Tasks = {1, 2, 3}
  ArmSeqs <- PairedOrNot
  BatchSize = 2
  Manifests = {"m", "n"}
  MaxRuns = 4
  MaxKills = 2
  None = None
  Frozen <- Four
  Lists <- SomeLists
  Channel <- SomeChannels
  ShardCount = 2
  Configs <- OneConfig
  Procs = {1, 2}
  MaxLaunches = 4
  MaxDeaths = 1
  Nothing = Nothing
  DataRows = {11, 12, 13}
  TaskCount = 2
  GroupSize = 2
  HealthRewards = {0, 1, 2}
  Full = 2
  MaxAttempts = 2
  Absent = Absent
SPECIFICATION AllSpec
CHECK_DEADLOCK FALSE
INVARIANTS OncePerTask OneExperiment MetricsCoverFrozen HealthIsWhole
PROPERTIES EventuallyMeasured
