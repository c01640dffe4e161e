------------------------------- MODULE SftRun --------------------------------
(***************************************************************************)
(* From a materialized parquet to an adapter: the freeze                   *)
(* (scripts/data/freeze_sft_dataset.py), the check of its pin              *)
(* (prepare_data.check_sft_data), the training run (scripts/train/         *)
(* run_sft.py over training/tokenization and training/collator) and the    *)
(* merge of the finished adapter (scripts/mvp/train_sft.py).               *)
(*                                                                         *)
(* Each of them can be killed between two changes of the disk, and the     *)
(* next run meets what was left.  A run may override what its file says    *)
(* with --set; the merge reads the file again, without the overrides.      *)
(***************************************************************************)
EXTENDS Integers

CONSTANTS
  SftConfigs,   \* configurations that share an output directory
  SftRecords,   \* [tokens, rewritten]: what the chat template makes of each
  MaxLength,    \* max_length
  MaxFreezes,   \* bounds: freezes and training runs of a behaviour
  MaxTrainings

ASSUME SftAssumption ==
  /\ SftConfigs \subseteq Nat /\ 0 \notin SftConfigs
  /\ \A r \in SftRecords : r.tokens \in Nat /\ r.rewritten \in BOOLEAN
  /\ MaxLength \in Nat \ {0}
  /\ MaxFreezes \in Nat /\ MaxTrainings \in Nat

VARIABLES
  trainFile,    \* which freeze wrote train.parquet; 0: none did
  splitManifest,\* the freeze the split manifest describes
  freezing,     \* "idle", or the file the freeze writes next
  freezes,
  sftPin,       \* the freeze whose manifest the configurations pin
  sftPrepared,  \* a preparation found the data in order, and none froze since
  adapterTmp,   \* adapter.tmp, adapter and adapter.old on the disk
  adapterDir,
  adapterOld,
  merged,       \* the merged model's directory: the run whose adapter is in the
                \* weights, whether all their files are written, and the run
                \* that wrote the tokenizer; no mark says that it is whole
  training,     \* where the training process is
  trainConfig,  \* its configuration
  overrides,    \* which of the pin and the output directory --set replaced
  trainData,    \* the freeze it trains on
  trainings,
  everComplete  \* some run has put an adapter in place

dataVars == <<trainFile, splitManifest, freezing, freezes, sftPin, sftPrepared>>
adapterVars == <<adapterTmp, adapterDir, adapterOld>>
processVars == <<training, trainConfig, overrides, trainData, trainings>>
sftVars == <<dataVars, adapterVars, merged, processVars, everComplete>>

NoAdapter == [run |-> 0, config |-> 0, complete |-> FALSE]
Exists(dir) == dir # NoAdapter
NoModel == [run |-> 0, weights |-> FALSE, tokenizer |-> 0]
-----------------------------------------------------------------------------
(* Tokenization.                                                           *)

\* tokenize_trajectory: a template that rewrites an earlier message, or a
\* conversation beyond the limit, is an error, never a truncation.
Tokenizes(r) == ~r.rewritten /\ r.tokens <= MaxLength

Tokenized == {r \in SftRecords : Tokenizes(r)}

-----------------------------------------------------------------------------
sftInit ==
  /\ trainFile = 0 /\ splitManifest = 0 /\ freezing = "idle" /\ freezes = 0
  /\ sftPin \in 1..MaxFreezes
  /\ sftPrepared = FALSE
  /\ adapterTmp = NoAdapter /\ adapterDir = NoAdapter /\ adapterOld = NoAdapter
  /\ merged = NoModel
  /\ training = "idle" /\ trainConfig = 0 /\ overrides = {} /\ trainData = 0 /\ trainings = 0
  /\ everComplete = FALSE

\* The freeze writes its parquets, then the manifest with their hashes.
FreezeBegins ==
  /\ freezing = "idle" /\ freezes < MaxFreezes
  /\ freezes' = freezes + 1
  /\ trainFile' = freezes + 1
  /\ freezing' = "manifest"
  /\ sftPrepared' = FALSE
  /\ UNCHANGED <<splitManifest, sftPin, adapterVars, merged, processVars,
                 everComplete>>

FreezeEnds ==
  /\ freezing = "manifest"
  /\ splitManifest' = trainFile
  /\ freezing' = "idle"
  /\ UNCHANGED <<trainFile, freezes, sftPin, sftPrepared, adapterVars, merged,
                 processVars, everComplete>>

FreezeKilled ==
  /\ freezing = "manifest"
  /\ freezing' = "idle"
  /\ UNCHANGED <<trainFile, splitManifest, freezes, sftPin, sftPrepared,
                 adapterVars, merged, processVars, everComplete>>

\* Mutant: only the manifest's own hash is compared.
SftDataCheckedManifest == splitManifest = sftPin

\* check_sft_data: the manifest is the pinned one, each parquet is the one
\* the manifest records.
SftDataChecked == splitManifest = sftPin /\ trainFile = splitManifest

PrepareSft ==
  /\ freezing = "idle" /\ SftDataChecked /\ ~sftPrepared
  /\ sftPrepared' = TRUE
  /\ UNCHANGED <<trainFile, splitManifest, freezing, freezes, sftPin,
                 adapterVars, merged, processVars, everComplete>>
-----------------------------------------------------------------------------
(* run_sft.                                                                *)

At(step) == training = step
Goes(step) == training' = step /\ UNCHANGED <<trainConfig, overrides, trainings>>

\* apply_overrides: the pin of the manifest at hand, another output directory.
Redirected == "output_dir" \in overrides

\* main up to the headers: only the manifest is held against the pin, the
\* file's or the one given in its place.
StartTraining(c, given) ==
  /\ At("idle") /\ trainings < MaxTrainings
  /\ splitManifest # 0
  /\ "pin" \in given \/ splitManifest = sftPin
  /\ training' = "loading" /\ trainConfig' = c /\ trainings' = trainings + 1
  /\ overrides' = given
  /\ trainData' = 0
  /\ UNCHANGED <<dataVars, adapterVars, merged, everComplete>>

\* run_training reads the parquet, tokenizes and trains; without a single
\* tokenized record it ends there.
Train ==
  /\ At("loading") /\ trainFile # 0
  /\ trainData' = trainFile
  /\ Goes(IF Tokenized = {} THEN "idle" ELSE "saving")
  /\ UNCHANGED <<dataVars, adapterVars, merged, everComplete>>

\* A redirected run makes its adapter in a directory of its own, by the same
\* steps, and leaves this one alone.
SaveElsewhere ==
  /\ At("saving") /\ Redirected
  /\ Goes("trained")
  /\ UNCHANGED <<dataVars, adapterVars, merged, trainData, everComplete>>

\* adapter.tmp is emptied and filled, COMPLETE written last.
SaveBegins ==
  /\ At("saving") /\ ~Redirected
  /\ adapterTmp' = [run |-> trainings, config |-> trainConfig, complete |-> FALSE]
  /\ Goes("completing")
  /\ UNCHANGED <<dataVars, adapterDir, adapterOld, merged, trainData, everComplete>>

SaveEnds ==
  /\ At("completing")
  /\ adapterTmp' = [adapterTmp EXCEPT !.complete = TRUE]
  /\ Goes("replacing")
  /\ UNCHANGED <<dataVars, adapterDir, adapterOld, merged, trainData, everComplete>>

\* Mutant: the old directory is cleared first, whether or not there is a new.
ClearsOldAlways == Exists(adapterOld)

\* atomic_replace_dir looks at adapter.old only when there is an adapter.
ClearsOld == Exists(adapterDir) /\ Exists(adapterOld)

ClearOld ==
  /\ At("replacing") /\ ClearsOld
  /\ adapterOld' = NoAdapter
  /\ UNCHANGED <<dataVars, adapterTmp, adapterDir, merged, processVars,
                 everComplete>>

MoveAside ==
  /\ At("replacing") /\ ~ClearsOld /\ Exists(adapterDir)
  /\ adapterOld' = adapterDir /\ adapterDir' = NoAdapter
  /\ UNCHANGED <<dataVars, adapterTmp, merged, processVars, everComplete>>

PutInPlace ==
  /\ At("replacing") /\ ~ClearsOld /\ ~Exists(adapterDir)
  /\ adapterDir' = adapterTmp /\ adapterTmp' = NoAdapter
  /\ everComplete' = TRUE
  /\ Goes("clearing")
  /\ UNCHANGED <<dataVars, adapterOld, merged, trainData>>

\* The backup of this replacement is removed; one an earlier kill left is not
\* this run's to remove, unless it took its place.
ClearBackup ==
  /\ At("clearing")
  /\ adapterOld' \in {NoAdapter, adapterOld}
  /\ Goes("trained")
  /\ UNCHANGED <<dataVars, adapterTmp, adapterDir, merged, trainData, everComplete>>

\* train_sft.main, after a training that returned 0: merge_adapter reads the
\* file's configuration again and wants the COMPLETE marker of the adapter in
\* the output directory that the file names, whoever put it there.  The
\* weights are written over those of an earlier merge, file by file.
MergeBegins ==
  /\ At("trained")
  /\ adapterDir.complete
  /\ merged' = [merged EXCEPT !.run = adapterDir.run, !.weights = FALSE]
  /\ Goes("merging")
  /\ UNCHANGED <<dataVars, adapterVars, trainData, everComplete>>

MergeWeights ==
  /\ At("merging")
  /\ merged' = [merged EXCEPT !.weights = TRUE]
  /\ Goes("merged")
  /\ UNCHANGED <<dataVars, adapterVars, trainData, everComplete>>

\* The tokenizer's files come after the weights, and end the process.
MergeTokenizer ==
  /\ At("merged")
  /\ merged' = [merged EXCEPT !.tokenizer = trainings]
  /\ Goes("idle")
  /\ UNCHANGED <<dataVars, adapterVars, trainData, everComplete>>

\* A kill, or an exception out of training.
TrainingEnds ==
  /\ ~At("idle")
  /\ Goes("idle")
  /\ UNCHANGED <<dataVars, adapterVars, merged, trainData, everComplete>>

sftNext ==
  \/ FreezeBegins \/ FreezeEnds \/ FreezeKilled \/ PrepareSft
  \/ \E c \in SftConfigs, given \in SUBSET {"pin", "output_dir"} : StartTraining(c, given)
  \/ Train \/ SaveElsewhere \/ SaveBegins \/ SaveEnds
  \/ ClearOld \/ MoveAside \/ PutInPlace \/ ClearBackup
  \/ MergeBegins \/ MergeWeights \/ MergeTokenizer \/ TrainingEnds

sftSpec == sftInit /\ [][sftNext]_sftVars
-----------------------------------------------------------------------------
(* Properties.                                                             *)

\* A finished adapter is never lost: however the replacement is cut off, a
\* whole one is in `adapter` or in `adapter.old`, and what stands in
\* `adapter` is whole (atomic_replace_dir).  The weights of the merged model
\* are written out of an adapter in its place, the run's own unless its output
\* directory was overridden; of the model's directory nothing is claimed once
\* the run is gone (merge_adapter).  And a run that follows a green
\* preparation trains on the data its configuration pins unless the pin was
\* overridden, though the run itself compares the manifest alone
\* (check_data_manifest, check_sft_data).
AdapterSurvives ==
  /\ everComplete => adapterDir.complete \/ adapterOld.complete
  /\ Exists(adapterDir) => adapterDir.complete
  /\ training \in {"merging", "merged"} =>
       /\ merged.run = adapterDir.run /\ adapterDir.complete
       /\ Redirected \/ merged.run = trainings
  /\ sftPrepared /\ training = "saving" /\ "pin" \notin overrides => trainData = sftPin
=============================================================================
