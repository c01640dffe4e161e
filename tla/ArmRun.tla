------------------------------- MODULE ArmRun -------------------------------
(***************************************************************************)
(* One evaluation arm on the frozen tasks, sharded: its identity emitted   *)
(* (scripts/eval/emit_arm_identity.py) or its task set aligned, its shards *)
(* rolled out each in a process and a directory of its own                 *)
(* (rule_baseline.py, run_arm_with_adapter.py), restarted from nothing     *)
(* when one dies (the campaign queues), merged (merge_rule_shards.py) and  *)
(* measured (arm_metrics.py, scripts/mvp/evaluate.py).  A shard's          *)
(* directory is checked to be empty long before anything is written to it, *)
(* so two processes may come to write to one directory.                    *)
(***************************************************************************)
EXTENDS Integers, Sequences, FiniteSets, Functions

CONSTANTS
  Frozen,       \* the frozen task list
  Lists,        \* the lists a checkout may hold
  Channel,      \* route(task): "direct" or a tool's channel, for each task
  ShardCount,
  Configs,      \* records of an adapter and a decoding
  Procs,        \* processes of one shard
  MaxLaunches,  \* bound on the launches and dry runs
  MaxDeaths,    \* bound on the processes and merges that die
  Nothing

Shards == 0..(ShardCount - 1)
Ids(l) == {l[i] : i \in DOMAIN l}
AllTasks == UNION {Ids(l) : l \in Lists}
Decodings == {c.decoding : c \in Configs}
Summaries == [tasks : Nat, rolled : Nat, reused : Nat]

\* A shard's directory, as its files are written.
Directory ==
  [manifest : Decodings \cup {Nothing}, rows : [AllTasks -> Nat],
   summary : Summaries \cup {Nothing}, complete : BOOLEAN,
   identity : {Nothing} \cup [of : Configs \cup {Nothing}, by : Configs]]

ASSUME ArmAssumption ==
  /\ Frozen \in Lists
  /\ \A l \in Lists : l \in Seq(Ids(l))
  /\ IsFiniteSet(AllTasks)
  /\ ShardCount \in Nat \ {0}
  /\ MaxLaunches \in Nat /\ MaxDeaths \in Nat
  /\ Nothing \notin Configs /\ Nothing \notin Decodings
  /\ Nothing \notin Directory

VARIABLES
  mode,      \* --mode: "all-tools" or "rule"
  list,      \* the task list in the checkout
  shardDir,  \* each shard's directory, or Nothing
  sidecar,   \* each shard's .identity.json, or Nothing
  proc,      \* the processes of each shard
  merging,   \* the shards whose rows a merge has written, or Nothing
  merged,    \* the arm's directory
  table,     \* what the metrics were computed on, or Nothing
  launches, deaths

aVars == <<mode, list, shardDir, sidecar, proc, merging, merged, table,
           launches, deaths>>
-----------------------------------------------------------------------------
\* Rows are kept as the number of rows of each task.
NoTaskRows == [t \in AllTasks |-> 0]
RowCount(r) == SumFunction(r)
NoArm == [rows |-> NoTaskRows, reused |-> {}, summary |-> Nothing]
EmptyDir == [manifest |-> Nothing, rows |-> NoTaskRows, summary |-> Nothing,
             complete |-> FALSE, identity |-> Nothing]
NoProc == [at |-> "none", config |-> Nothing, next |-> 0, rolled |-> 0]

\* The two gates before a GPU is used: check_frozen for an arm with an
\* identity, verify_eval_alignment.sh for the campaign's own arms.
Distinct(l) == \A i, j \in DOMAIN l : l[i] = l[j] => i = j

\* Mutant: the list's hash is not compared.
CheckLength(l) == Len(l) = Len(Frozen) /\ Distinct(l)

CheckFrozen(l) == Len(l) = Len(Frozen) /\ Distinct(l) /\ l = Frozen
Aligned(l) == Distinct(l) /\ Ids(l) = Ids(Frozen)

\* Mutants: the number of tasks is not compared with the summary's; partial
\* directories stay.
ChecksButTasks(a) ==
  /\ RowCount(a.rows) = a.summary.rolled
  /\ Cardinality(a.reused) = a.summary.reused
AsideNever(s) == FALSE /\ UNCHANGED aVars

Admitted == IF mode = "rule" THEN Aligned(list) ELSE CheckFrozen(list)

\* The tasks of a shard, by index; those the rule answers directly are reused.
Owns(s, i) == (i - 1) % ShardCount = s
IsDirect(t) == mode = "rule" /\ Channel[t] = "direct"
Rollable(s, i) == i \in DOMAIN list /\ Owns(s, i) /\ ~IsDirect(list[i])
DirectOf(s) == {i \in DOMAIN list : Owns(s, i) /\ IsDirect(list[i])}

aInit ==
  /\ mode \in {"all-tools", "rule"}
  /\ list \in Lists
  /\ shardDir = [s \in Shards |-> Nothing]
  /\ sidecar = [s \in Shards |-> Nothing]
  /\ proc = [s \in Shards |-> [p \in Procs |-> NoProc]]
  /\ merging = Nothing
  /\ merged = NoArm
  /\ table = Nothing
  /\ launches = 0
  /\ deaths = 0

At(s, p) == proc[s][p].at
Moved(s, p, at) == proc' = [proc EXCEPT ![s][p].at = at]
Ended(s, p) == proc' = [proc EXCEPT ![s][p] = NoProc]
Busy(s) == \E p \in Procs : At(s, p) # "none"
Complete(s) == shardDir[s] # Nothing /\ shardDir[s].complete
IsEmpty(s) == IF shardDir[s] = Nothing THEN TRUE
              ELSE shardDir[s].manifest = Nothing

\* --dry-run of the wrapper: the identity is emitted to the sidecar, no more.
DryRun(s) ==
  /\ launches < MaxLaunches
  /\ mode = "all-tools"
  /\ Admitted
  /\ \E c \in Configs : sidecar' = [sidecar EXCEPT ![s] = c]
  /\ launches' = launches + 1
  /\ UNCHANGED <<mode, list, shardDir, proc, merging, merged, table, deaths>>

\* A process is launched for a shard that is not complete: identity to the
\* sidecar, then the runtime's dependencies, which may be missing.
Launch(s, p) ==
  /\ launches < MaxLaunches
  /\ At(s, p) = "none"
  /\ ~Complete(s)
  /\ Admitted
  /\ launches' = launches + 1
  /\ \E c \in Configs :
       /\ sidecar' = IF mode = "rule" THEN sidecar
                     ELSE [sidecar EXCEPT ![s] = c]
       /\ proc' = [proc EXCEPT ![s][p].at = "launched", ![s][p].config = c]
  /\ UNCHANGED <<mode, list, shardDir, merging, merged, table, deaths>>

\* rule_baseline.run: a directory with anything in it is refused; then the
\* tasks are read and the model is loaded.
Enter(s, p) ==
  /\ At(s, p) = "launched"
  /\ IF IsEmpty(s)
       THEN /\ shardDir' = [shardDir EXCEPT ![s] = EmptyDir]
            /\ Moved(s, p, "loading")
       ELSE Ended(s, p) /\ UNCHANGED shardDir
  /\ UNCHANGED <<mode, list, sidecar, merging, merged, table, launches, deaths>>

\* manifest.json (no adapter in it) and routing.jsonl.
WriteRunManifest(s, p) ==
  /\ At(s, p) = "loading"
  /\ shardDir' =
       [shardDir EXCEPT ![s].manifest = proc[s][p].config.decoding]
  /\ proc' = [proc EXCEPT ![s][p].at = "rolling", ![s][p].next = 1]
  /\ UNCHANGED <<mode, list, sidecar, merging, merged, table, launches, deaths>>

\* The next task: another shard's or a direct one is passed over, its own is
\* rolled out and its row appended.
Roll(s, p) ==
  LET i == proc[s][p].next IN
  /\ At(s, p) = "rolling"
  /\ i <= Len(list)
  /\ IF Rollable(s, i)
       THEN /\ shardDir' = [shardDir EXCEPT ![s].rows[list[i]] = @ + 1]
            /\ proc' = [proc EXCEPT ![s][p].next = i + 1,
                                    ![s][p].rolled = @ + 1]
       ELSE /\ proc' = [proc EXCEPT ![s][p].next = i + 1]
            /\ UNCHANGED shardDir
  /\ UNCHANGED <<mode, list, sidecar, merging, merged, table, launches, deaths>>

Summarise(s, p) ==
  /\ At(s, p) = "rolling"
  /\ proc[s][p].next > Len(list)
  /\ shardDir' = [shardDir EXCEPT ![s].summary =
                    [tasks |-> Len(list), rolled |-> proc[s][p].rolled,
                     reused |-> Cardinality(DirectOf(s))]]
  /\ Moved(s, p, "summed")
  /\ UNCHANGED <<mode, list, sidecar, merging, merged, table, launches, deaths>>

MarkComplete(s, p) ==
  /\ At(s, p) = "summed"
  /\ shardDir' = [shardDir EXCEPT ![s].complete = TRUE]
  /\ IF mode = "rule" THEN Ended(s, p) ELSE Moved(s, p, "finished")
  /\ UNCHANGED <<mode, list, sidecar, merging, merged, table, launches, deaths>>

\* shutil.copyfile(sidecar, output_dir / "identity.json")
CopyIdentity(s, p) ==
  /\ At(s, p) = "finished"
  /\ shardDir' = [shardDir EXCEPT ![s].identity =
                    [of |-> sidecar[s], by |-> proc[s][p].config]]
  /\ Ended(s, p)
  /\ UNCHANGED <<mode, list, sidecar, merging, merged, table, launches, deaths>>

\* A process is killed, or fails on its dependencies, its model or a rollout.
Die(s, p) ==
  /\ deaths < MaxDeaths
  /\ At(s, p) # "none"
  /\ Ended(s, p)
  /\ deaths' = deaths + 1
  /\ UNCHANGED <<mode, list, shardDir, sidecar, merging, merged, table,
                 launches>>

\* The queue, its children dead, moves a directory out of the way: a partial
\* one, and with it, while the arm has no COMPLETE, a complete one too.
MoveAside(s) ==
  /\ ~Busy(s)
  /\ ~IsEmpty(s)
  /\ Complete(s) => merging = Nothing /\ merged.summary = Nothing
  /\ shardDir' = [shardDir EXCEPT ![s] = Nothing]
  /\ UNCHANGED <<mode, list, sidecar, proc, merging, merged, table, launches,
                 deaths>>

\* merge_rule_shards.main on some of the shards, all complete and with rows,
\* into a fresh directory: the rows and the routing are written, then the sums
\* of the summaries.
MergeRows(S) ==
  /\ merging = Nothing
  /\ merged = NoArm
  /\ S # {}
  /\ \A s \in S : Complete(s) /\ RowCount(shardDir[s].rows) > 0
  /\ merging' = S
  /\ merged' = [merged EXCEPT
       !.rows = [t \in AllTasks |->
                   SumFunction([s \in S |-> shardDir[s].rows[t]])],
       !.reused = {t \in Ids(list) : IsDirect(t)}]
  /\ UNCHANGED <<mode, list, shardDir, sidecar, proc, table, launches, deaths>>

MergeSummaries ==
  /\ merging # Nothing
  /\ merged' = [merged EXCEPT !.summary =
       [tasks |-> Len(list),
        rolled |-> SumFunction([s \in merging |-> shardDir[s].summary.rolled]),
        reused |-> SumFunction([s \in merging |-> shardDir[s].summary.reused])]]
  /\ merging' = Nothing
  /\ UNCHANGED <<mode, list, shardDir, sidecar, proc, table, launches, deaths>>

MergeDies ==
  /\ merging # Nothing
  /\ deaths < MaxDeaths
  /\ deaths' = deaths + 1
  /\ merging' = Nothing
  /\ UNCHANGED <<mode, list, shardDir, sidecar, proc, merged, table, launches>>

\* The queue moves an arm's directory that a merge left without its summary.
MoveArmAside ==
  /\ merging = Nothing
  /\ merged # NoArm /\ merged.summary = Nothing
  /\ merged' = NoArm
  /\ UNCHANGED <<mode, list, shardDir, sidecar, proc, merging, table, launches,
                 deaths>>

\* compute_arm counts the rows, with the direct rows the routing names, and
\* refuses a count that the arm's own summary contradicts.
Counts(a) ==
  /\ RowCount(a.rows) + Cardinality(a.reused) = a.summary.tasks
  /\ RowCount(a.rows) = a.summary.rolled
  /\ Cardinality(a.reused) = a.summary.reused

Measure ==
  /\ merging = Nothing
  /\ merged.summary # Nothing
  /\ Counts(merged)
  /\ table # merged
  /\ table' = merged
  /\ UNCHANGED <<mode, list, shardDir, sidecar, proc, merging, merged, launches,
                 deaths>>

Step(s, p) ==
  \/ Enter(s, p) \/ WriteRunManifest(s, p) \/ Roll(s, p) \/ Summarise(s, p)
  \/ MarkComplete(s, p) \/ CopyIdentity(s, p)

aNext ==
  \/ \E s \in Shards :
       \/ DryRun(s)
       \/ MoveAside(s)
       \/ \E p \in Procs : Launch(s, p) \/ Step(s, p) \/ Die(s, p)
  \/ \E S \in SUBSET Shards : MergeRows(S)
  \/ MergeSummaries
  \/ MergeDies
  \/ MoveArmAside
  \/ Measure

\* The queue: partial directories are moved, then a shard without a process is
\* launched again, a process runs on, an arm not yet merged is merged whole.
ArmFairness ==
  /\ \A s \in Shards :
       /\ WF_aVars(~Busy(s) /\ IsEmpty(s) /\ \E p \in Procs : Launch(s, p))
       /\ WF_aVars(\E p \in Procs : Step(s, p))
       /\ WF_aVars(~Complete(s) /\ MoveAside(s))
  /\ WF_aVars(MergeRows(Shards))
  /\ WF_aVars((MergeSummaries \/ MoveArmAside \/ Measure))

ArmSpec == aInit /\ [][aNext]_aVars
FairArmSpec == ArmSpec /\ ArmFairness
-----------------------------------------------------------------------------
\* The metrics of an arm are over the frozen tasks, each exactly once: whatever
\* died and was started again, and even when two processes came to write to
\* one directory (rule_baseline.py looks whether it is empty minutes before it
\* writes), or a merge took only some shards or stopped half way.  No single
\* check in the code says so: the gate, COMPLETE and the counts of compute_arm
\* do together.
MetricsCoverFrozen ==
  table # Nothing =>
    \A t \in AllTasks :
      table.rows[t] + (IF t \in table.reused THEN 1 ELSE 0)
        = (IF t \in Ids(Frozen) THEN 1 ELSE 0)

\* An admitted arm gets its table, though a process or a merge dies and what it
\* left is in the way: as long as the operator starts no second process on a
\* shard, does not stop before the shards are complete, and merges them all
\* (the queues' "move partial aside", then launch, merge, measure).
ArmEventuallyMeasured ==
  (/\ Admitted
   /\ [](/\ launches < MaxLaunches \/ \A s \in Shards : Complete(s)
         /\ \A s \in Shards : Cardinality({p \in Procs : At(s, p) # "none"}) <= 1
         /\ merging \in {Nothing, Shards}))
    => <>(table # Nothing)
=============================================================================
