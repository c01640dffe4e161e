---------------------------- MODULE RolloutHealth ---------------------------
(***************************************************************************)
(* The rollout-health measurement (scripts/eval/run_rollout_health.py,     *)
(* training/rollout_health.py): groups of rollouts of sampled tasks, their *)
(* rewards written to files as they are made and summed up in memory.  The *)
(* process may fail inside, which it records, or be killed, which it does  *)
(* not.                                                                    *)
(***************************************************************************)
EXTENDS Integers, Sequences, FiniteSets

CONSTANTS
  DataRows,      \* the rows of the parquet file
  TaskCount,     \* --task-count
  GroupSize,     \* --group-size, a power of two: sums of equal rewards exact
  HealthRewards, \* rewards a rollout may get, 0 and Full among them
  Full,          \* the reward 1.0
  MaxAttempts,   \* bound on the processes
  Absent

ASSUME HealthAssumption ==
  /\ TaskCount \in Nat \ {0} /\ GroupSize \in Nat \ {0}
  /\ {0, Full} \subseteq HealthRewards /\ HealthRewards \subseteq Int /\ Full # 0
  /\ MaxAttempts \in Nat

VARIABLES
  hDir,      \* the output directory, or Absent
  hAt,       \* where the process is, "none" without one
  plan,      \* the selected tasks
  members,   \* rewards of the group under way
  groups,    \* reward_groups
  attempts

hVars == <<hDir, hAt, plan, members, groups, attempts>>
hMemory == <<plan, members, groups>>
-----------------------------------------------------------------------------
\* group_advantages: a group of equal rewards carries no signal.
Effective(g) == \E i, j \in DOMAIN g : g[i] # g[j]

\* summarize_group_rewards.
CountGroups(gs, P(_)) == Cardinality({i \in DOMAIN gs : P(gs[i])})
AllAre(g, r) == \A i \in DOMAIN g : g[i] = r
SummaryOf(gs) ==
  LET zero(g) == AllAre(g, 0)
      one(g) == AllAre(g, Full)
      mixed(g) == ~zero(g) /\ ~one(g)
  IN  [groups |-> Len(gs), zero |-> CountGroups(gs, zero),
       one |-> CountGroups(gs, one), mixed |-> CountGroups(gs, mixed),
       effective |-> CountGroups(gs, Effective)]

\* select_task_rows: Random(seed).sample, in any order.
Samples == {s \in [1..TaskCount -> DataRows] :
              \A i, j \in DOMAIN s : s[i] = s[j] => i = j}

hInit ==
  /\ hDir = Absent
  /\ hAt = "none"
  /\ plan = << >>
  /\ members = << >>
  /\ groups = << >>
  /\ attempts = 0

Leaves == /\ hAt' = "none" /\ plan' = << >> /\ members' = << >> /\ groups' = << >>

\* prepare_output_dir refuses a directory with anything in it.
Prepare ==
  /\ hAt = "none"
  /\ attempts < MaxAttempts
  /\ attempts' = attempts + 1
  /\ IF hDir = Absent
       THEN /\ hDir' = [status |-> "running", trajectories |-> << >>,
                        groups |-> << >>, summary |-> Absent, complete |-> FALSE]
            /\ hAt' = "prepared"
       ELSE UNCHANGED <<hDir, hAt>>
  /\ UNCHANGED hMemory

\* except Exception: the manifest says so and the process ends.
Fails == hDir' = [hDir EXCEPT !.status = "failed"] /\ Leaves

SelectTasks ==
  /\ hAt = "prepared"
  /\ IF TaskCount > Cardinality(DataRows) THEN Fails
     ELSE /\ plan' \in Samples
          /\ hAt' = "rolling"
          /\ UNCHANGED <<hDir, members, groups>>
  /\ UNCHANGED attempts

\* One rollout: any reward, 0 without a verdict; its line is written at once.
RollSample ==
  /\ hAt = "rolling"
  /\ Len(groups) < Len(plan)
  /\ Len(members) < GroupSize
  /\ \E r \in HealthRewards :
       /\ members' = Append(members, r)
       /\ hDir' = [hDir EXCEPT !.trajectories = Append(@,
                     [index |-> Len(groups), task |-> plan[Len(groups) + 1],
                      sample |-> Len(members), reward |-> r])]
  /\ UNCHANGED <<hAt, plan, groups, attempts>>

\* Mutant: the rewards are begun anew before the group's line is written.
CloseGroupCleared ==
  /\ hAt = "rolling"
  /\ Len(members) = GroupSize
  /\ groups' = Append(groups, members)
  /\ members' = << >>
  /\ hDir' = [hDir EXCEPT !.groups = Append(@,
                [task |-> plan[Len(groups) + 1], rewards |-> members',
                 effective |-> Effective(members')])]
  /\ UNCHANGED <<hAt, plan, attempts>>

CloseGroup ==
  /\ hAt = "rolling"
  /\ Len(members) = GroupSize
  /\ groups' = Append(groups, members)
  /\ members' = << >>
  /\ hDir' = [hDir EXCEPT !.groups = Append(@,
                [task |-> plan[Len(groups) + 1], rewards |-> members,
                 effective |-> Effective(members)])]
  /\ UNCHANGED <<hAt, plan, attempts>>

\* The count is checked, then summary.json, the manifest and COMPLETE.
WriteSummary ==
  /\ hAt = "rolling"
  /\ Len(groups) = Len(plan)
  /\ IF Len(hDir.trajectories) = TaskCount * GroupSize
       THEN /\ hDir' = [hDir EXCEPT !.summary = SummaryOf(groups)]
            /\ hAt' = "summed"
            /\ UNCHANGED hMemory
       ELSE Fails
  /\ UNCHANGED attempts

WriteStatus ==
  /\ hAt = "summed"
  /\ hDir' = [hDir EXCEPT !.status = "complete"]
  /\ hAt' = "closing"
  /\ UNCHANGED <<hMemory, attempts>>

WriteComplete ==
  /\ hAt = "closing"
  /\ hDir' = [hDir EXCEPT !.complete = TRUE]
  /\ hAt' = "reporting"
  /\ UNCHANGED <<hMemory, attempts>>

\* The summary is printed, still inside the try, and the process returns.
Report ==
  /\ hAt = "reporting"
  /\ Leaves
  /\ UNCHANGED <<hDir, attempts>>

\* An exception anywhere in the try, a broken pipe under the report included.
Raise == hAt # "none" /\ Fails /\ UNCHANGED attempts

\* A kill, which may fall into a write of the manifest.
KillHealth ==
  /\ hAt # "none"
  /\ hDir' \in {hDir, [hDir EXCEPT !.status = "torn"]}
  /\ Leaves
  /\ UNCHANGED attempts

hNext ==
  \/ Prepare \/ SelectTasks \/ RollSample \/ CloseGroup \/ WriteSummary
  \/ WriteStatus \/ WriteComplete \/ Report \/ Raise \/ KillHealth

hSpec == hInit /\ [][hNext]_hVars
-----------------------------------------------------------------------------
\* The three files of a directory agree: each group has the rewards of its own
\* trajectories in their order, and the summary counts what the groups file
\* shows, every effective group among the mixed ones.
Agree(d) ==
  /\ Len(d.groups) = TaskCount
  /\ Len(d.trajectories) = TaskCount * GroupSize
  /\ \A i \in 1..TaskCount :
       LET g == d.groups[i]
       IN  /\ Len(g.rewards) = GroupSize
           /\ \A k \in 1..GroupSize :
                d.trajectories[GroupSize * (i - 1) + k] =
                  [index |-> i - 1, task |-> g.task, sample |-> k - 1,
                   reward |-> g.rewards[k]]
  /\ d.summary.effective = Cardinality({i \in DOMAIN d.groups : d.groups[i].effective})
  /\ d.summary.zero + d.summary.one + d.summary.mixed = d.summary.groups
  /\ d.summary.effective <= d.summary.mixed

\* A directory that says it is complete, by the mark or by its manifest, is
\* whole and its files agree, whatever attempts failed or were killed before
\* and after; under a mark the manifest is never the one of a run under way.
\* The manifest of a marked directory may say "failed" or be cut short, when
\* the report after the mark raised or a kill fell into that error's write
\* (run, the try and its except).
HealthIsWhole ==
  hDir # Absent /\ (hDir.complete \/ hDir.status = "complete") =>
    /\ Agree(hDir)
    /\ hDir.complete => hDir.status # "running"
=============================================================================
