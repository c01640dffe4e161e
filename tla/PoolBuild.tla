----------------------------- MODULE PoolBuild -------------------------------
(***************************************************************************)
(* The dataset build (scripts/data/build_dataset.py over data/canonicalize,*)
(* data/deduplicate and data/split), its audit (audit_dataset.py) and the  *)
(* preparation of the frozen task list (scripts/mvp/prepare_data.py).      *)
(*                                                                         *)
(* A build reads the sources, drops exact and near duplicates one task at  *)
(* a time, cuts the splits and writes one file for each, the manifest last.*)
(* It can be killed between two writes and started again on other records, *)
(* and the audit and the preparation look at whatever is on the disk.      *)
(***************************************************************************)
EXTENDS Integers, Sequences, FiniteSets, SequencesExt, FiniteSetsExt

CONSTANTS
  PoolTasks,    \* task ids 1..n, in the order of their ids
  PoolTexts,    \* canonical problem texts, in the order of their hashes
  TrainShare,   \* train_ratio and sft_dev_ratio, in hundredths
  DevShare,
  FrozenCount,  \* FROZEN_TASK_COUNT of prepare_data
  TaskLists,    \* <<EXPECTED_TASK_IDS_SHA256's list, the list file at first>>
  MaxBuilds     \* bound: builds of a behaviour

ASSUME PoolAssumption ==
  /\ IsFiniteSet(PoolTasks) /\ PoolTasks = 1..Cardinality(PoolTasks)
  /\ PoolTexts \subseteq Nat /\ PoolTexts # {}
  /\ TrainShare \in 1..99 /\ DevShare \in 0..(100 - TrainShare)
  /\ FrozenCount \in Nat \ {0} /\ MaxBuilds \in Nat \ {0}

VARIABLES
  text,         \* the canonical text of each task's problem
  evalTasks,    \* tasks of a source with intended_use "eval"
  near,         \* pairs of texts LSH reports as near, in either order
  unusable,     \* records canonicalize_source quarantines
  loaded,       \* records of the running build (--sample-per-source)
  exactKept,    \* winners of the exact groups, in the order of the loop
  cursor,       \* the loop's position in exactKept
  removedIds,   \* removed_ids
  nearKept,     \* near_kept
  cut,          \* the splits of the running build
  splitFiles,   \* the parquet files on the disk: their task ids in order
  manifestFile, \* the manifest on the disk: the ids each split should hold
  pinned,       \* the list every released arm was scored on
  taskList,     \* the task list prepare_data writes
  verdict,      \* the green light of the last audit or preparation, if any
  builds,       \* builds begun
  building      \* "idle", "dedup", "split", or the file to write next

buildInputs == <<text, evalTasks, near, unusable, pinned>>
disk == <<splitFiles, manifestFile>>
loop == <<loaded, exactKept, cursor, removedIds, nearKept>>
poolVars == <<buildInputs, disk, loop, cut, taskList, verdict, builds, building>>

SplitNames == {"train", "sft_dev", "rl_dev", "frozen_eval"}
NoSplits == [name \in SplitNames |-> << >>]
Absent == <<0>>  \* no file: 0 is no task's id
NoFiles == [name \in SplitNames |-> Absent]

\* The tasks in the order of their keys, which differ.
SortedBy(tasks, key) ==
  [i \in 1..Cardinality(tasks) |->
     CHOOSE t \in tasks : Cardinality({u \in tasks : key[u] < key[t]}) = i - 1]
-----------------------------------------------------------------------------
(* Deduplication.                                                          *)

\* Mutant: the smaller id wins, whatever its source.
WinnerById(members) == Min(members)

\* _winner: evaluation first, then the smaller id.
Winner(members) ==
  Min(IF members \cap evalTasks # {} THEN members \cap evalTasks ELSE members)

SameText(t) == {u \in loaded' : text[u] = text[t]}

\* The exact groups in the order of their hashes.
ExactWinners ==
  SortedBy({Winner(SameText(t)) : t \in loaded'}, text)

\* lsh.query, without the task itself and what was removed.
Candidates(t) ==
  {c \in Range(exactKept) :
     c # t /\ {text[c], text[t]} \in near /\ c \notin removedIds}
-----------------------------------------------------------------------------
(* Splits.                                                                 *)

\* round(n * share / 100), halves to even.
Share(n, share) ==
  LET whole == (n * share) \div 100
      rest == (n * share) % 100
  IN  IF rest > 50 \/ (rest = 50 /\ whole % 2 = 1) THEN whole + 1 ELSE whole

InOrder(tasks) == SortedBy(tasks, [t \in tasks |-> t])

Slice(items, a, b) == InOrder({items[i] : i \in (a + 1)..Min({b, Len(items)})})

\* assign_splits: `shuffled` is the training tasks in the seed's order.
Splits(kept, shuffled) ==
  LET train == Share(Len(shuffled), TrainShare)
      dev == train + Share(Len(shuffled), DevShare)
  IN  [train |-> Slice(shuffled, 0, train), sft_dev |-> Slice(shuffled, train, dev),
       rl_dev |-> Slice(shuffled, dev, Len(shuffled)),
       frozen_eval |-> InOrder(kept \cap evalTasks)]
-----------------------------------------------------------------------------
(* The build.                                                              *)

poolInit ==
  /\ text \in [PoolTasks -> PoolTexts]
  /\ evalTasks \in SUBSET PoolTasks
  /\ near \in SUBSET kSubset(2, PoolTexts)
  /\ unusable \in {{}, {Max(PoolTasks)}}
  /\ loaded = {} /\ exactKept = << >> /\ cursor = 1
  /\ removedIds = {} /\ nearKept = {}
  /\ cut = NoSplits
  /\ splitFiles = NoFiles
  /\ manifestFile = NoFiles
  /\ \E lists \in TaskLists : pinned = lists[1] /\ taskList = lists[2]
  /\ verdict = "none" /\ builds = 0 /\ building = "idle"

\* What the process held is gone with it.
ProcessEnds ==
  /\ loaded' = {} /\ exactKept' = << >> /\ cursor' = 1
  /\ removedIds' = {} /\ nearKept' = {} /\ cut' = NoSplits
  /\ building' = "idle"

\* canonicalize_source keeps what it does not quarantine.
Canonicalized(sample) == sample \ unusable

\* Every source is loaded, its sample cut, and canonicalized.
LoadSources ==
  /\ building = "idle"
  /\ builds < MaxBuilds
  /\ \E sample \in {PoolTasks, PoolTasks \ {1}} : loaded' = Canonicalized(sample)
  /\ exactKept' = ExactWinners
  /\ cursor' = 1 /\ removedIds' = {} /\ nearKept' = {}
  /\ builds' = builds + 1
  /\ building' = "dedup"
  /\ UNCHANGED <<buildInputs, disk, cut, taskList, verdict>>

\* One round of the near loop.
NearRound ==
  /\ building = "dedup"
  /\ cursor <= Len(exactKept)
  /\ LET task == exactKept[cursor]
         cluster == {task} \cup Candidates(task)
     IN  IF task \in removedIds
         THEN UNCHANGED <<removedIds, nearKept>>
         ELSE /\ removedIds' = removedIds \cup (cluster \ {Winner(cluster)})
              /\ nearKept' = IF Winner(cluster) = task
                             THEN nearKept \cup {task} ELSE nearKept
  /\ cursor' = cursor + 1
  /\ UNCHANGED <<buildInputs, disk, loaded, exactKept, cut, taskList, verdict,
                 builds, building>>

\* The order of the writes: the splits, then the manifest.
AfterFile ==
  [train |-> "sft_dev", sft_dev |-> "rl_dev", rl_dev |-> "frozen_eval",
   frozen_eval |-> "manifest"]

AssignSplits ==
  /\ building = "dedup"
  /\ cursor > Len(exactKept)
  /\ \E shuffled \in SetToSeqs(nearKept \ evalTasks) :
       cut' = Splits(nearKept, shuffled)
  /\ building' = "train"
  /\ UNCHANGED <<buildInputs, disk, loop, taskList, verdict, builds>>

WriteSplit ==
  /\ building \in SplitNames
  /\ splitFiles' = [splitFiles EXCEPT ![building] = cut[building]]
  /\ building' = AfterFile[building]
  /\ verdict' = "none"
  /\ UNCHANGED <<buildInputs, loop, cut, manifestFile, taskList, builds>>

WriteManifest ==
  /\ building = "manifest"
  /\ manifestFile' = cut
  /\ verdict' = "none"
  /\ ProcessEnds
  /\ UNCHANGED <<buildInputs, splitFiles, taskList, builds>>

\* A dry run stops before the first write, a kill between any two.
BuildStops ==
  /\ building \in SplitNames \cup {"manifest"}
  /\ ProcessEnds
  /\ UNCHANGED <<buildInputs, disk, taskList, verdict, builds>>
-----------------------------------------------------------------------------
(* The audit and the preparation.                                          *)

\* Mutant: the audit reads the ids and leaves the file's hash alone.
HashesAgreeCount ==
  \A name \in SplitNames :
    splitFiles[name] # Absent /\ Len(splitFiles[name]) = Len(manifestFile[name])

\* file_hash, count and task_ids_hash of every split.
HashesAgree == \A name \in SplitNames : splitFiles[name] = manifestFile[name]

TrainingIds ==
  UNION {Range(splitFiles[name]) : name \in SplitNames \ {"frozen_eval"}}

\* audit: no error in its list.
AuditClean ==
  /\ HashesAgree
  /\ \A m, n \in SplitNames :
       m # n => Range(splitFiles[m]) \cap Range(splitFiles[n]) = {}
  /\ Range(splitFiles["frozen_eval"]) \cap TrainingIds = {}

Audit ==
  /\ building = "idle"
  /\ manifestFile # NoFiles
  /\ verdict' = IF AuditClean THEN "audited" ELSE "none"
  /\ UNCHANGED <<buildInputs, disk, loop, cut, taskList, builds, building>>

\* Mutant: the file is compared with the pin alone.
PoolCheckedPin(ids) == Len(ids) >= FrozenCount

\* check_frozen_pool: the file is the one the manifest records.
PoolChecked(ids) ==
  /\ ids = manifestFile["frozen_eval"]
  /\ Len(ids) >= FrozenCount

\* check_task_list: the first ids are the pinned list.
TaskListChecked(frozen) == frozen = pinned

\* write_task_list: another list on the disk is replaced with --force alone.
TaskListWritable(frozen, force) == force \/ taskList \in {Absent, frozen}

Prepare ==
  /\ building = "idle"
  /\ manifestFile # NoFiles
  /\ \E force \in BOOLEAN :
       LET ids == splitFiles["frozen_eval"]
           frozen == SubSeq(ids, 1, FrozenCount)
       IN  IF PoolChecked(ids) /\ TaskListChecked(frozen)
              /\ TaskListWritable(frozen, force)
           THEN taskList' = frozen /\ verdict' = "prepared"
           ELSE verdict' = "none" /\ UNCHANGED taskList
  /\ UNCHANGED <<buildInputs, disk, loop, cut, builds, building>>

poolNext ==
  \/ LoadSources \/ NearRound \/ AssignSplits \/ WriteSplit \/ WriteManifest
  \/ BuildStops \/ Audit \/ Prepare

poolSpec == poolInit /\ [][poolNext]_poolVars
-----------------------------------------------------------------------------
(* Properties.                                                             *)

\* What a green light on the disk stands for, whichever builds were killed
\* over it: the files are those of one build, no two of its tasks have equal
\* or near texts, so no training task repeats an evaluation task, and the
\* prepared list is the released one (deduplicate, audit, prepare_data).
GreenMeansOneBuild ==
  /\ verdict = "audited" =>
       /\ splitFiles = manifestFile
       /\ LET kept == UNION {Range(splitFiles[name]) : name \in SplitNames}
          IN  \A t, u \in kept :
                t # u => text[t] # text[u] /\ {text[t], text[u]} \notin near
  /\ verdict = "prepared" =>
       /\ splitFiles["frozen_eval"] = manifestFile["frozen_eval"]
       /\ taskList = pinned

Represented(t) ==
  \E kept \in nearKept \cap evalTasks : kept <= t

\* No evaluation task gives way to a training task: what the loop drops of
\* the evaluation sources, it drops for an evaluation task of a smaller id
\* (_winner, deduplicate).
EvaluationSurvives ==
  building \in SplitNames \cup {"manifest"} =>
    \A t \in loaded \cap evalTasks : Represented(t)

\* The pool that is trained on and evaluated on is sound.
PoolIsSound == GreenMeansOneBuild /\ EvaluationSurvives
=============================================================================
