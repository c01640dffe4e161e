----------------------------- MODULE RlTraining -----------------------------
(***************************************************************************)
(* The first version's reinforcement learning (src/rl): the composite      *)
(* reward of a trajectory (reward_function.py) and the trainer's epochs,   *)
(* batches, metrics and checkpoints (grpo_trainer.py) under the training   *)
(* script (autodl_train.py).  The losses it makes up, and the model it     *)
(* does not have, are left out.                                            *)
(***************************************************************************)
EXTENDS Integers, Sequences, FiniteSets, SequencesExt

CONSTANTS
  Trajectories, \* items of a dataset, as the reward functions read them
  DatasetSizes,
  MiniBatch,    \* batch_size of the configuration
  SaveSteps,    \* save_steps: epochs between checkpoints
  EpochCounts,  \* values of num_episodes
  MaxMetrics    \* bound on the metrics of a trainer

\* What the reward functions read of a trajectory.
Trajectory ==
  [success : BOOLEAN, calculated : BOOLEAN, proved : BOOLEAN, medium : BOOLEAN,
   steps : Nat, tools : Nat, errors : Nat, revisits : BOOLEAN, matched : 0..4]

ASSUME RlAssumption ==
  /\ Trajectories \subseteq Trajectory
  /\ DatasetSizes \subseteq Nat /\ MiniBatch \in Nat \ {0}
  /\ SaveSteps \in Nat \ {0} /\ EpochCounts \subseteq Nat \ {0}

VARIABLES
  dataset,      \* the caller's list, shuffled in place
  epochs,       \* num_episodes of the running train()
  epoch,        \* its loop variable
  batchStart,   \* items of this epoch already trained
  episode,      \* the trainer's counter: of batches, whatever its name
  metricsHistory,
  checkpoints,  \* checkpoint_<n>.json by n, gsm8k_final.json by 0
  trainer,      \* "idle", "epoch", "batches" or "raised"
  overlaid      \* history: a checkpoint was loaded over metrics

rlVars == <<dataset, epochs, epoch, batchStart, episode, metricsHistory,
            checkpoints, trainer, overlaid>>
-----------------------------------------------------------------------------
(* The reward, in two-hundredths.  `matched` is the quarters of the query's *)
(* words that the answer repeats.                                          *)

When(condition, points) == IF condition THEN points ELSE 0

AccuracyReward(t) ==
  (IF t.success THEN 200 ELSE -100)
    + When(t.calculated, 40) + When(t.proved, 40) + When(t.medium, 20)

\* Mutant: nothing stops the efficiency of a long run from turning negative.
EfficiencyRewardOpen(t) ==
  (CASE t.steps = 0 -> 0
     [] t.steps \in 1..5 -> 50
     [] t.steps > 5 -> 50 - 5 * (t.steps - 5))
  + (IF t.tools <= 2 THEN 50 ELSE 50 - 10 * (t.tools - 2))

\* Half of the mean of two shares, each full up to the optimal number and zero
\* from ten steps or five calls past it.
EfficiencyReward(t) ==
  (CASE t.steps = 0 -> 0
     [] t.steps \in 1..5 -> 50
     [] t.steps > 5 -> Max({0, 50 - 5 * (t.steps - 5)}))
  + (IF t.tools <= 2 THEN 50 ELSE Max({0, 50 - 10 * (t.tools - 2)}))

SafetyReward(t) ==
  6 * Max({0, 10 - 2 * t.errors - When(t.revisits, 1)})

ConsistencyReward(t) == 10 * t.matched

\* create_default_reward_function.
CompositeReward(t) ==
  AccuracyReward(t) + EfficiencyReward(t) + SafetyReward(t) + ConsistencyReward(t)
-----------------------------------------------------------------------------
(* The trainer.                                                            *)

NoCheckpoints == << >>

rlInit ==
  /\ dataset \in UNION {[1..n -> Trajectories] : n \in DatasetSizes}
  /\ epochs = 0 /\ epoch = 0 /\ batchStart = 0
  /\ episode = 0 /\ metricsHistory = << >>
  /\ checkpoints = NoCheckpoints
  /\ trainer = "idle" /\ overlaid = FALSE

\* Mutant: the last, smaller batch is not counted.
NumBatchesWhole == Len(dataset) \div MiniBatch

NumBatches == (Len(dataset) + MiniBatch - 1) \div MiniBatch

StartTrain(n) ==
  /\ trainer = "idle"
  /\ Len(metricsHistory) + n * NumBatches <= MaxMetrics
  /\ epochs' = n /\ epoch' = 0
  /\ trainer' = "epoch"
  /\ UNCHANGED <<dataset, batchStart, episode, metricsHistory, checkpoints, overlaid>>

\* The head of the epoch loop, and random.shuffle on the caller's own list.
Shuffle ==
  /\ trainer = "epoch" /\ epoch < epochs
  /\ \E order \in Bijection(DOMAIN dataset, DOMAIN dataset) :
       dataset' = [i \in DOMAIN dataset |-> dataset[order[i]]]
  /\ batchStart' = 0
  /\ trainer' = "batches"
  /\ UNCHANGED <<epochs, epoch, episode, metricsHistory, checkpoints, overlaid>>

SumOf(items, Value(_)) == SumFunction([i \in DOMAIN items |-> Value(items[i])])

\* collect_experience and train_step: the advantage is the reward, the metrics
\* are means over the batch (kept as sums, with its size).
Metrics(items) ==
  [episode |-> episode, size |-> Len(items),
   reward |-> SumOf(items, CompositeReward),
   successes |-> SumOf(items, LAMBDA t : When(t.success, 1))]

TrainBatch ==
  /\ trainer = "batches" /\ batchStart < NumBatches
  /\ LET items == SubSeq(dataset, batchStart * MiniBatch + 1,
                         Min({(batchStart + 1) * MiniBatch, Len(dataset)}))
     IN  metricsHistory' = Append(metricsHistory, Metrics(items))
  /\ episode' = episode + 1
  /\ batchStart' = batchStart + 1
  /\ UNCHANGED <<dataset, epochs, epoch, checkpoints, trainer, overlaid>>

\* save_checkpoint (`overlaid` is history's).
WithCheckpoint(n, count) ==
  [k \in DOMAIN checkpoints \cup {n} |->
     IF k = n THEN [episode |-> count, metrics |-> metricsHistory, overlaid |-> overlaid]
     ELSE checkpoints[k]]

\* The epoch's means, which an empty dataset has none of, and its checkpoint.
EndEpoch ==
  /\ trainer = "batches" /\ batchStart = NumBatches
  /\ IF NumBatches = 0
     THEN trainer' = "raised" /\ UNCHANGED <<epoch, checkpoints>>
     ELSE /\ checkpoints' = (IF (epoch + 1) % SaveSteps = 0
                             THEN WithCheckpoint(epoch + 1, episode) ELSE checkpoints)
          /\ epoch' = epoch + 1
          /\ trainer' = "epoch"
  /\ UNCHANGED <<dataset, epochs, batchStart, episode, metricsHistory, overlaid>>

TrainReturns ==
  /\ trainer = "epoch" /\ epoch = epochs
  /\ trainer' = "idle" /\ epochs' = 0 /\ epoch' = 0 /\ batchStart' = 0
  /\ UNCHANGED <<dataset, episode, metricsHistory, checkpoints, overlaid>>

\* save_results: a second trainer is given the history, its counter is set to
\* the history's length, and it saves.  The summary then reads the metrics as
\* dicts, which they are not, and raises.
SaveResults ==
  /\ trainer = "idle" /\ metricsHistory # << >>
  /\ checkpoints' = WithCheckpoint(0, Len(metricsHistory))
  /\ trainer' = "raised"
  /\ UNCHANGED <<dataset, epochs, epoch, batchStart, episode, metricsHistory, overlaid>>

\* The process ends, wherever it is, and another builds a trainer.
NewTrainer ==
  /\ trainer # "idle" \/ metricsHistory # << >>
  /\ episode' = 0 /\ metricsHistory' = << >> /\ overlaid' = FALSE
  /\ trainer' = "idle" /\ epochs' = 0 /\ epoch' = 0 /\ batchStart' = 0
  /\ UNCHANGED <<dataset, checkpoints>>

\* Mutant: the counter is not restored.
RestoredEpisodeOwn(saved) == episode

RestoredEpisode(saved) == saved.episode

\* load_checkpoint: the counter is replaced, the metrics are appended.
LoadCheckpoint(n) ==
  /\ trainer = "idle" /\ n \in DOMAIN checkpoints
  /\ Len(metricsHistory) + Len(checkpoints[n].metrics) <= MaxMetrics
  /\ episode' = RestoredEpisode(checkpoints[n])
  /\ metricsHistory' = metricsHistory \o checkpoints[n].metrics
  /\ overlaid' = (overlaid \/ metricsHistory # << >> \/ checkpoints[n].overlaid)
  /\ UNCHANGED <<dataset, epochs, epoch, batchStart, checkpoints, trainer>>

rlNext ==
  \/ \E n \in EpochCounts : StartTrain(n)
  \/ Shuffle \/ TrainBatch \/ EndEpoch \/ TrainReturns \/ SaveResults \/ NewTrainer
  \/ \E n \in DOMAIN checkpoints : LoadCheckpoint(n)

rlSpec == rlInit /\ [][rlNext]_rlVars
-----------------------------------------------------------------------------
(* Properties.                                                             *)

\* An epoch trains each item of the dataset once, the smaller last batch too,
\* whatever the shuffles have made of the list: its metrics add up to the
\* dataset's.  And across restarts the counter counts the metrics, unless a
\* checkpoint was loaded over a history (train, load_checkpoint).
EpochTrainsAll ==
  /\ trainer = "batches" /\ batchStart = NumBatches =>
       LET own == SubSeq(metricsHistory, Len(metricsHistory) - NumBatches + 1,
                         Len(metricsHistory))
       IN  /\ SumOf(own, LAMBDA m : m.size) = Len(dataset)
           /\ SumOf(own, LAMBDA m : m.reward) = SumOf(dataset, CompositeReward)
  /\ ~overlaid => /\ episode = Len(metricsHistory)
                  /\ \A i \in DOMAIN metricsHistory : metricsHistory[i].episode = i - 1

\* No failed trajectory of a dataset is paid more than a successful one: what
\* length, tools, errors and wording can take from the one and give the other
\* is just what success is worth (the weights of
\* create_default_reward_function).
SuccessPaysMost ==
  \A i, j \in DOMAIN dataset :
    dataset[i].success /\ ~dataset[j].success =>
      CompositeReward(dataset[i]) >= CompositeReward(dataset[j])
=============================================================================
