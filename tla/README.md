# EvoMath-Harness in TLA+

This directory holds a TLA+ model of EvoMath-Harness: a mathematics agent that
answers problems with the help of a Python sandbox and a SymPy tool, the
verifier that judges its answers, the environment that trains it, the registry
of the harnesses it runs under, the experiments that measure it, and the
pipelines that make its data. Paths are relative to the parent directory:
`src/` is the repository, so the current package is `src/src/adaptive_math`
(written `am/` below), the scripts are in `src/scripts` and the first version of
the system in `src/src/{graph,router,rl}`.

The modules model control: state changes, guards, early returns, error paths
and their order. Data is cut down to what the properties tell apart: a problem,
a turn or a program is one of a few values, a hash is a tuple of what goes into
it, and algebra is a free choice of what a comparison may find.

To check everything, inside this directory:

    for run in AgentEpisode PrefixResume Answers Evaluation Promotion Solver \
               Study Training
    do tlc -workers 2 -config $run.cfg MC$run; done
    tlc -workers 2 -config Processes.cfg Processes
    tlc -config SymbolicWorkerLimit.cfg SymbolicWorker     # violated
    tlc -config ToolCallLarge.cfg       ToolCall           # violated
    tlc -config Relations.cfg           MCAnswers          # violated
    for proofs in FoldTheorems.tla *_proofs.tla; do tlapm $proofs; done

## 1. The system

### Components, their state and their operations

| Component | State it keeps | Operations | What makes it correct |
|---|---|---|---|
| Agent loop and environment (`am/agent`: loop, environment, state, prompts) | the immutable `AgentState` (usage, events, reason, answer), the messages, the conversation journal, the clock offset | one turn: generate, parse, then answer, refuse or call a tool; abort; cancel | counters are what the trace accounts for; no budget is overdrawn; every episode ends, and for the reason it gives |
| Offline replay (`am/agent/replay.py`) | none | recompute usage and answer from a stored trace | accepts every trace the live loop stores |
| Parser, extractor and the analyses that read turns again (`am/agent/parser.py`, `am/verifier/extractor.py`, `scripts/analysis`, `campaign-20260924`) | none; a run's rows | parse, extract, forecast a tolerance rule, re-score | all readers tell the same story of a turn |
| Prefix resume (`am/recovery`: anchors, resume, arms, seeds) | the anchor, the arm | choose an anchor, edit its last observation, run the loop on | a branch owns nothing but its suffix; each of its turns is seeded |
| Tools (`am/tools`) | a child process and a pipe per SymPy call; none for the sandbox | `ToolRegistry.execute` | a code claims no more than happened; calls return; no child is left |
| Verifier service and comparisons (`am/verifier`: service, numeric, symbolic, normalizer) | none | `verify_answer` over a reference and its acceptable forms | correct means equal to a form, and equal means correct |
| Symbolic worker (`am/verifier/worker.py`) | a worker process, three pipes, request ids, a CPU timer | `compare`, `close`, restarts | every call returns its own verdict; a failure is never "correct"; no process is orphaned |
| Training environment (`am/training/verl_environment.py`, `reward_bridge.py`, `am/reward`) | a batch of environments, conversations, terminal infos | `reset`, `step` with concurrent rows, `success_evaluator` | a row is paid once for its own verdict; rewards keep their order |
| Harness registry (`am/harness/registry.py`) | a ledger in memory per handle, a JSON file | register, record_gate, promote, rollback | champion justified by a passing decision; nothing that returned is lost |
| Promotion gate (`am/harness/gate.py`) | none | `evaluate_gate` | monotone in the candidate, one-way |
| Paired evaluation (`am/evaluation/model_eval.py`, `scripts/eval/run_model_eval.py`) | a journal directory beside the output | start, resume, append, publish | each task once per arm, one experiment, whatever was killed |
| Sharded arms (`campaign-20260926`, `-27`, `scripts/eval/*identity*`, `arm_metrics.py`, `scripts/mvp/evaluate.py`) | a directory and an identity sidecar per shard, the merged directory | launch, restart, merge, measure | the metrics are over the frozen tasks, each once |
| Rollout health (`am/training/rollout_health.py`, `scripts/eval/run_rollout_health.py`) | an output directory | measure groups, summarise, mark complete | a marked directory is whole |
| Feedback-recovery study (`scripts/eval/run_feedback_recovery.py`, `scripts/analysis/analyze_feedback_recovery.py`) | a log and a manifest per stage, snapshots | stages A, B, C; contrasts; audit sample | the logs keep the protocol's rules; contrasts compare like with like |
| Dataset pipeline (`am/data`, `scripts/data`, `scripts/mvp/prepare_data.py`) | parquet files, a manifest, task lists | canonicalise, deduplicate, split, audit, draw task sets | one problem never on two sides of a split; fresh tasks for the study |
| SFT data (`am/training/sft_*`, `solution_traces.py`, `sympy_compiler.py`, `scripts/data`) | demonstrations, a gate's done-file | materialise, compile, gate, freeze | no demonstration lost, repeated or wrong |
| SFT runs (`scripts/train/run_sft.py`, `scripts/mvp/train_sft.py`) | adapter directories, a pin | prepare, train, replace the adapter, merge | a finished adapter survives; runs train on pinned data |
| Version 1 (`src/src/graph`, `router`, `rl`, `main.py`, `src/autodl_train.py`) | a workflow state with a step counter, statistics, a trajectory buffer, a trainer's history | plan, execute, criticise, route; collect; train | answers are reviewed; runs return; an epoch trains every item |

`PROJECT.json` lists every component with its sources and its status.

### How they interact

* The loop (`loop.py:98-140`) is one asyncio task that awaits the model and the
  tools; it calls the environment, which calls the registry of tools, which
  runs the sandbox request or the SymPy child. The state it shares with the
  tools is nothing but the call and its result.
* A finished trajectory goes to the verifier, which sends symbolic pairs to the
  worker process over pipes. Training turns the verdict into a reward.
* Training drives many environments from one coroutine group per step
  (`verl_environment.py:188`); every one of them may be awaiting a tool.
* The recovery study runs an episode, keeps its journal in memory, chooses an
  anchor in it and runs the loop again from there under three arms. Its stages
  pass files to one another, and so do the builds, the SFT runs and the arms:
  what one leaves when it is killed is what the next one meets.
* The gate reads paired outcomes of two harnesses; its decision enters the
  registry, whose file tells which harness serves.

### Where it is hard

Awaits that can be cancelled or raise between a local change and its storing;
rows of a batch that finish in any order; a parent and a worker that die at any
time and leave messages in pipes; deadlines that race answers; an exception
raised by a timer inside code with handlers of its own; files written in several
steps by processes that may be killed between them, and directories that two
processes believe to be theirs; resumed runs under another configuration;
several readers of one text that must agree; budgets of which two can be used up
by one step. `PROJECT.json` lists each of these at its line under `hazards`,
with the properties that watch over it.

## 2. The modules

| Module | Stands for | Composes |
|---|---|---|
| `BoundedEpisode` | what an episode promises to whoever runs it | |
| `AgentEpisode` | the loop, the environment and the calls it makes | refines `BoundedEpisode` by `INSTANCE ... WITH` |
| `TraceReplay` | `replay` as a fold over the trace of the live episode | extends `AgentEpisode` |
| `PrefixResume` | re-entering an episode at its first execution error | extends `TraceReplay`: the branch is the same loop |
| `ToolCall` | one call of the registry, the SymPy parent and its child | |
| `AtomicCompare` | what `compare` promises its caller: one call, one answer | |
| `SymbolicWorker` | parent, worker, pipes, timer, phases of a comparison | refines `AtomicCompare` |
| `AnswerForms` | the typed verifiers and `compare_expressions`, as operators over trees | |
| `VerifyAnswer` | the loop of `verify_answer` over the forms | extends `AnswerForms` |
| `TurnReaders` | parser, extractor, forecast, funnel and re-scoring of one turn | |
| `EventLedger` | what the registry promises of its file: an append-only log of lawful events | |
| `HarnessRegistry` | handles, their ledgers and the file | refines `EventLedger`, with one handle |
| `Gate` | `evaluate_gate` as a function, a step makes the candidate better | |
| `EvalJournal` | the interruptible paired evaluation | |
| `ArmRun` | a sharded arm: processes, directories, merge, metrics | |
| `RolloutHealth` | the measurement of reward groups | |
| `StageAB`, `StageC` | the three stages of the study | `StageC` extends `StageAB`: it reads the snapshots of a stage B |
| `AuditSample` | the branches of stage C a person is to read | extends `StageC` |
| `PoolBuild` | the dataset build, its audit, the frozen task list | |
| `TaskPools` | the task sets of the two diagnostics | |
| `SourceSft` | demonstrations out of a source's solutions | |
| `SympyDemos` | SymPy calls compiled from problems, census and gate | |
| `SftRun` | freeze, preparation, training run, adapter, merge | |
| `VerlRollout` | a whole batch rollout, the reward and the collector as used | |
| `RlTraining` | the first version's reward and trainer | |
| `WorkflowGraph`, `Solver` | the first version's workflow, router and entry point | `Solver` extends `WorkflowGraph` |
| `Study` | a run directory of the study: one of its stages, or the audit | composes `StageAB`, `StageC` and `AuditSample` |
| `Processes` | the calls into other processes: a worker's or a tool's | composes `SymbolicWorker` and `ToolCall`; checked as it is |
| `MCStudy` | the instance of `Study` | |
| `MCEvaluation`, `MCAnswers`, `MCPromotion`, `MCTraining` | instances for TLC that put the modules of one subject side by side: a behaviour is about one of them, the others keep their initial state | |
| `MCAgentEpisode`, `MCPrefixResume`, `MCSolver` | instances of one module | |
| `Episode_proofs` | theorems on episodes, traces, replay and branches, see section 4 | extends `AgentEpisode`, `PrefixResume` and `FoldTheorems` |
| `Processes_proofs`, `Promotion_proofs`, `Evaluation_proofs`, `Study_proofs`, `Training_proofs`, `Answers_proofs` | theorems on the modules of one subject | each extends its modules |
| `FoldTheorems` | lemmas on finite sets, orders, sums and folds | extended by the proofs that need them |

Definitions with `Mutant:` in their comment are plausible bugs of the definition
after them. Nothing uses them; they are there to be put in its place, and each
property of a passing run is violated by one of them (`mutants` in
`PROJECT.json`).

### AgentEpisode, TraceReplay, PrefixResume

`usage`, `events`, `termination_reason` and `final_answer` are the fields of
`AgentState`; `messages` and `journal` are `run`'s conversation and its
`ConversationJournal`; `offset` and `elapsed` are the two parts of the clock;
`cancelled` is the cancellation event. `pc` says at which await the task is.
`pending` is the call whose await is open: while it is, `step` has already
appended the TOOL_CALL event and its charge to a *local* state
(`environment.py:147-159`) that is stored only after the tool answered, and
that an exception throws away. `requested` is a history variable: how often the
registry was entered.

An action is the code between two awaits. `StopCancelled` and `Generate` are the
head of the loop; `ModelFails`, `SubmitFinal`, `RefuseAction` and `CallTool` are
what a returning generation may lead to; `ToolReturns` is the code after the
tool's await, including the budget's test; `Abandon` is an exception that leaves
`run` at either await (the registry maps some exceptions to results, not all of
them, and a task can be cancelled by its owner); `Cancel` is the caller setting
the event. `Store` is `_store`, the observation and the journal entry, which
always happen together.

`PrefixResume` adds the anchor and the arm. `Resume` is `run_continuation` up to
the loop; from there on the branch takes `AgentEpisode`'s own actions, so that
everything said of an episode is said of a branch too.

### ToolCall, SymbolicWorker

The sandbox's part is one step (`Post`): it shares nothing, and every fault,
status and exit code is enumerated. The SymPy part is two processes: the parent
joins the child with a deadline, then reads the queue; the child computes,
raises or hangs, and at its end its feeder thread must get its result through a
pipe of limited size. The system may kill the child at any point.

The worker's parent follows `compare` and `_ensure_worker` line by line, with a
step of its own between a poll and the liveness check after it, so that a worker
may die or answer in between. The worker's `stage` is the phase of
`compare_expressions` it is in; which phases have handlers of their own decides
where the timer's exception goes. `asked[id]` says whether all evidence would
agree that the pair is equal: this is what a false accept is measured against.
Only the last worker's pipes exist, because a restart replaces them.

### AnswerForms, VerifyAnswer, TurnReaders

A text of an answer is a tree: integers, grouped integers, decimals, fractions,
tuples, sets, relations, equations and values with a domain and symbols, or
unreadable. `AnswerForms` translates the bounded parsers with their limits and
the comparators. A value is a function with the floats it gives at some sample
points. What may differ between two comparisons of one pair is a record of
`Efforts`: whether the CPU limit or an error fell into a parse, whether `simplify`
settles the difference and finds the singularities, and which points are drawn.
Where the difference is not settled, the floats decide with the code's absolute
and relative tolerance (`_numeric_cross_check`). `VerifyAnswer` compares form by
form; its property measures the verdict against a second, mathematical meaning of
equality that uses none of the parsers.

A turn is a sequence of protocol tags and pieces, closed or not. `TurnReaders`
has the runtime's parser with and without its two tolerance rules, the
extractor, the funnel's classes and repair levels, the offline forecast of each
rule, and the three rungs of a re-scoring, each translated from its own file.
JSON that is no object keeps its literal: the parser writes it anew (`Dumped`,
`parser.py:90`), its forecast does not. An object may name its own kind
("wrapped"), which in a final block takes the place of the tag's
(`parser.py:97`); the nested call then makes a tool call of it.

### HarnessRegistry, Gate

A mutation changes memory, `WriteTmp` writes the temporary file, `Replace` puts
it in place and lets the call return; `SaveFails` is an `OSError` from either
write, after which the handle lives on with the mutation in memory (`unsaved`);
`Crash` can come between any two, and a cut write leaves `Torn`. `acked` is a
history variable: the events of calls that returned.

`Gate` has inputs as state. Its steps make one outcome or the guarded metric
better, so that monotonicity is an action property. `Draws` is the fixed list of
resamples the seeded generator makes for a number of rows.

### EvalJournal, ArmRun, RolloutHealth

Files survive, memory does not. In `EvalJournal` each write of the journal's
creation is its own step, a row and its count are two steps, a kill may cut a
row, and every invocation comes with a manifest and a list of arms; `ranUnder`
remembers under which manifest each invocation ran. In `ArmRun` a process looks
whether its directory is empty, loads a model, and writes only then, so two of
them may come to write to one directory; `MergeRows` takes any subset of the
shards, `MergeDies` cuts a merge, `DryRun` rewrites a sidecar, and `Measure` is
`compute_arm` with its counts. A retry moves every directory aside, complete ones too,
while the arm has no COMPLETE. `RolloutHealth` may raise, which it records, or
be killed, which it does not. `Report` is the printing after COMPLETE, still
inside the `try`: an error there marks the manifest failed.

### StageAB, StageC, AuditSample

A line of a log is one step (it is written and flushed by one call) that a kill
or a raised exception may cut. Stage B writes candidates, snapshots, selection
and summary one after another. Stage C starts from any snapshots file a stage B
may have left, a cut one included; `had` is a history variable, the length of
the log when the invocation began. `Kept`, `CompleteAnchors` and `Difference` are
the analysis' `_dedupe_attempts`, `_complete_anchors` and the difference of a
contrast. `AuditSample` has the rounds of `_select_audit_sample`.

### PoolBuild, TaskPools, SourceSft, SympyDemos, SftRun

`PoolBuild` takes the near-duplicate rounds one task at a time, in the order of
the loop, then a file at a time; a build may be killed between two files and
started again on other records, over the files of the first. `TaskPools` has two
builders that learn what is spent from files that experiments leave when they
run. `SourceSft` reads rows batch by batch; a solution has two examinations, one
by the classifier and one when its trace is made, and nothing relates their
verdicts. `SympyDemos` lets a gate be killed
between candidates and run again with another sample or limit. `SftRun` is the
directory dance of `atomic_replace_dir`, where each rename and removal is a step,
and the merge, whose weights and tokenizer are written one after another. A run
may override its pin or its output directory (`overrides`); the merge reads the
configuration again without them.

### VerlRollout, RlTraining, WorkflowGraph, Solver

The collector is not in `src/`; it is modelled from how the environment is used:
one action for every row on every step, up to the configured number of steps.
`gather` starts rows in order and each runs to its tool call, so `Turn` orders
the starts and `ToolAnswers` does not order the ends. Rewards are integers in
units of 1/(100 * calls * seconds), in which every cost is whole.

`WorkflowGraph` is the loop of `_run_simple` with its step limit of twenty, five
subtasks and the retry counter; `Solver` adds the router's score (in twentieths,
with the nine sums that the code's floats take below 0.4, `ShortSums`) and decision,
the statistics, the streamed run and the collector's bounded buffer.

## 3. Runs

| Run | Module | Question |
|---|---|---|
| `episode` | `MCAgentEpisode` | do the books balance, is the trace faithful, does the offline replay agree, does the episode end, does it implement `BoundedEpisode` |
| `prefix_resume` | `MCPrefixResume` | does the seam of a resumed episode show |
| `worker` | `Processes` | the two systems of processes: does `compare` implement `AtomicCompare`, are codes honest, nothing left running, every call returns |
| `answers` | `MCAnswers` | does a verdict mean equality, do the readers of a turn agree, does the coercion of a re-scoring count only what was not read |
| `registry` | `MCPromotion` | is the ledger what happened, does the file implement `EventLedger`; is the gate monotone and one-way |
| `evaluation` | `MCEvaluation` | what is published or measured is of one experiment, whole and once per task, and it is published in the end |
| `study` | `MCStudy` | do logs, anchors, contrasts and the audit keep the protocol, however the stages were interrupted |
| `training` | `MCTraining` | rows, payments, data sets, demonstrations, adapters and epochs |
| `solver` | `MCSolver` | is an answer of the first version reviewed, do its runs return |
| `worker_limit` | `SymbolicWorker` | violation: does a CPU limit end in a timeout |
| `tool_large` | `ToolCall` | violation: is a timeout a hung calculation |
| `relations` | `MCAnswers` | violation: are two relations that are found equal proved to be |

A run whose module sets several systems side by side starts in any of them; the
others stand still. The properties of each are about its own variables, so
nothing is hidden by this: it is several small state spaces in one run.

### What the properties say

*Episode.* `Accounting` relates where the task may be, counters and events, the
budget, and entries into the registry: an exception at the tool's await must not
leave a charge without its event, nor an entry beyond the budget.
`EndingExplained` ties the reason to the counters and the answer to the last
event; a zero Python budget never ends an episode. `TraceFaithful` is the grammar
of turns, time, the conversation turn for turn, and snapshots that stay true.
`ReplayAccepts` compares the two accountants. `ImplementsBoundedEpisode` is the
refinement and `EpisodeEnds` the liveness. `SeamInvisible` asks for accounting, time and
replay across a resumption, where usage, clock, trace and conversation start with
the anchor's, and that the schedule of seeds is long enough for the longest
branch.

*Processes.* `ImplementsAtomicCompare`: to its caller `compare` is one atomic
call, answered once, by a verdict on the caller's own pair that is never "equal" of
a pair the evidence would not call so, or by a failure, or left by an exception;
what the workers do in between and afterwards is not seen. `CodeIsHonest`: ok only
for what finished, E_EXEC for all that is known to have raised, no error class
for what was never run because of its arguments. `NothingLeftRunning`: a worker
that was replaced or given up was told to die, a SymPy child has ended when its
call returned. `CallsReturn` holds but for one state: a child killed with half a
result in the pipe, on which the parent's `get` waits for ever
(`sympy_tool.py:61-65`); the property names that state. It assumes nothing of
the worker.

*Answers.* `VerdictMeansEqual` has both directions: correct means equal to a
form, or, for an expression whose difference was not settled, within the
tolerance of one at the points sampled (`Near`); equal to a form means correct
unless a comparison was not made, because it failed or was cut short. Of two
spellings of a function this is said where they have the same domain and symbols
and floats that agree (`Confirmed`). It speaks of
groups of numbers; nested groups are parsed, and nothing is said of them. `ReadersAgree`:
what the strict parser takes, the extractor takes as the same answer and the
tolerant parser leaves alone; a rule rescues what its forecast rescued, to the
same action, but for a scalar that is spelled anew or that the forecast does not
see (`Respelt`); what runs is within the funnel's ceiling, but for a final block
that names itself a tool call (`Overridden`). `CoercionFillsGaps`: of a turn that
the run had read an answer of, by extractor or parser and under any rules, the
coercion of a re-scoring never counts one that was not counted strictly.

*Registry and gate.* `LedgerIsTrue`: in memory and in every file, records and
champion are what the events tell, and the champion was promoted on a passing
decision. `ImplementsEventLedger`: the file is the append-only log its module
speaks of (`registry.py:1-9`). It only grows, in the order of the calls; each
event may follow those before it (one registration for a version, no promotion
without a gate, no rollback to what was never promoted or serves already); a save
brings the event of the call that returns, and of earlier calls only those that
failed; what serves is what the last move says.
`BetterNeverFails`: one outcome or the guarded metric made better never turns a
pass into a refusal. `ImprovementIsOneWay`: two harnesses cannot replace one
another on the same outcomes.

*Evaluations.* `OncePerTask`: no task twice in an arm, counts true of the rows,
and what is published is what the journal has. `OneExperiment`: all published
rows are of one manifest. `MetricsCoverFrozen`: the metrics of an arm are over
the frozen tasks, each once, though no single check of the code says so.
`HealthIsWhole`: a directory that says it is complete, by its mark or its
manifest, has whole and agreeing files, and under a mark the manifest is not that
of a run under way; after the mark it may be made "failed" or be cut short. `EventuallyMeasured`: the paired evaluation is published, if it
is issued again with one manifest and no kill cut its creation or a row; and an
admitted arm is measured, if no shard ever has two processes at a time, a launch
is left until the shards are complete, and they are merged all together.

*Study.* `LogsAreWhole`: a summary is about the whole plan, each sample once, and
Stage C's log keeps the rules of attempts that its own integrity check states,
and its manifest says complete only over the whole plan. `AnchorsAreFirstChoices`:
a snapshots file, cut or whole, is a beginning of the right anchors in the order of
their keys: each task's first eligible one, which is a rollout's first error.
`EffectsArePaired`: an anchor enters a contrast exactly if all its planned
branches can. `AuditIsFair`: no arm is ahead by more than one pick and its rare
branches. `ResumeRunsTheRest`: a sample in the log is not run again.

*Training.* `EachRowJudgedOnce` (a batch repeats a task id for a group, and a
terminated row stays in the batch), `RewardOrder` (running out never beats
answering wrongly; the bonus for a tool that worked is paid whole, in spite of
the clip), `PoolIsSound` (a green light stands for one build without near
repetitions, and an evaluation task never gives way to a training task),
`StudyIsFresh` and `StudySetsSettled` (the study's tasks are unspent and do not
change), `BatchesLoseNothing` (neither batch size nor row order chooses which
tasks are demonstrated: a task is, once, if one of its rows is fit by the verdict
its own trace was made under, whatever the classifier was told of it),
`GateSettlesOnce` (an interrupted gate settles each index once, and rightly),
`AdapterSurvives` (a finished adapter is never lost, and the merge takes its
weights from a whole one, the run's own unless its directory was overridden), and
of the first version
`EpochTrainsAll` and `SuccessPaysMost`.

*Solver.* `SolverIsSound`: answers stand on reviewed results, twenty steps are
enough, the collector has the latest runs in order, and what is added to a query,
text at its end or rounds of history, sends it to no weaker a model, unless it
makes a reasoning question of an analysis. `SolveReturns` is its liveness.

### Bounds, and why they are enough

* `episode`: 3 steps, 2 calls, 2 Python seconds, 3 tools of which one is unknown.
  Each of the three limits can be reached first, and two by one step; run times
  of 0, 1 and 3 seconds stay below, meet and overrun the Python budget. A fourth
  step adds no new kind of turn; `prefix_resume` has it, and a third second,
  because an anchor needs steps before it and two after it.
* `answers`: a prediction and up to two forms of every type, which is one form
  before or after the one that decides. Turns have up to three pieces: a tag, its
  content, and what comes after. Expressions have floats at two points, in a unit
  of their own, with an absolute tolerance of one and a relative one of a
  hundredth: values agree at both points, at one or at none, exactly or within
  the tolerance, or have no float there, and any of the points may be drawn. One scalar is
  written anew as another.
* `worker`: two requests and two workers are one interrupted call followed by
  another, on the same worker or its replacement; an id can only be mixed up
  between two. One kill of a SymPy child at any point of every call.
* `registry`: seven mutations are the registration, gating and promotion of two
  specs and a rollback, the longest way to a new champion; one write fails. Two
  of the three specs share a version, so that the version check has one to
  refuse; they are exchangeable, hence the symmetry. Of five
  paired rows, three that agree are significant at the chosen level against none
  and four against one, so that both counts enter the test; the interval is
  taken over four resamples.
* `evaluation`: three tasks in batches of two leave a short last batch; two
  manifests; four invocations with two kills are one kill in the creation, one in
  a row, and two more tries. Four tasks in two shards with up to two processes
  each, four launches and one death are every race for a directory with one
  restart. Health: two groups of two rollouts, three rewards, two attempts, so
  that mixed, even and failed groups occur.
* `study`: two tasks of two rollouts in stages A and B; two anchors, three arms
  and one continuation in stage C, whose plan can be cut to one anchor; three
  starts are a cut one, a resumed one and one more. Audits of up to nine branches
  with a cap of six.
* `training`: batches t t, t u and t t t hold a repeated id twice; two calls and
  two seconds are used up before four steps are; the weights are those of R4. Two
  builds of up to three tasks, so that one leaves files for the other. Seven
  tasks over the task sets' strata. Three source rows with all batch sizes, three
  SymPy records. Three freezes and four trainings under two configurations. The
  trainer has three items in batches of two, for one or two epochs.
* `solver`: the code's own five subtasks and twenty steps, two or three retries,
  a buffer of one run, two queries, two runs.

Deadlock is checked for the episodes, whose end is an explicit step. The other
systems stop when their calls have returned or a bound is used up, and their
configurations say so.

### Fairness

* `AgentEpisode!FairSpec`: weak fairness of the task's own steps. The event loop
  runs a ready task, and both awaits end: the client and the sandbox have
  deadlines, the SymPy join has one. Nobody is obliged to cancel.
* `SymbolicWorker!FairSpec`: weak fairness of the parent, and strong fairness of
  the two deadlines, because each round of a waiting loop takes time off a finite
  deadline and its head tests it. Workers may stop anywhere.
* `ToolCall!FairSpec`: weak fairness of the parent's thread, whose `join` has a
  time limit, and of a child that can move.
* `EvalJournal`: weak fairness of the process and of the operator, who issues the
  command again (`docs/runbooks/base-sft-evaluation.md:42-44`).
* `ArmRun`: weak fairness of each shard's process, of the queue that launches a
  shard whose directory is empty or moves a broken one aside, and of merging and
  measuring, which are the next lines of the queue's script.
* `Solver`: weak fairness of a step of the loop and of its return: the loop is
  synchronous code in one thread.

Kills and deaths are bounded and never required.

## 4. Proofs

TLAPS proves the following for every value of the constants that satisfies the
named assumptions. Each is as weak as the code allows:

* `BudgetAssumption`, `InputAssumption`: budgets are naturals with at least one
  step, `None` is none of the inputs.
* `RegistryAssumption`, `EventAssumption`: versions are a function of specs,
  `Passing` is a set of decisions, no event is `None` or `Torn`.
* `WorkerAssumption`, `ToolAssumption`, `SftAssumption`: sizes and bounds are
  naturals.
* `JournalAssumption`, `ArmAssumption`, `HealthAssumption`: tasks, shards and
  groups are finite and at least one; rewards are integers with zero and the full
  one among them. `OrderAssumption`: every nonempty set of tasks has a first one
  in the order of ids.
* `StudyAssumption`, `StageAssumption`, `AuditAssumption`: tasks are distinct, a
  rollout has no more turns than an episode has steps, the seeded order of anchors
  and arms is an order, a snapshots file names no anchor twice.
* `GateAssumption`: a resample draws as many rows as there are, and the policy's
  numbers and the quantile's rank are within their range.
* `PoolAssumption`, `TaskPoolAssumption`: tasks are numbered, the shares of a split
  do not exceed the whole, the difficulty bands follow one another.
* `RolloutAssumption`, `RlAssumption`, `SourceAssumption`: batches are not empty,
  budgets, run times and weights are naturals, a row without a task is told from
  every task. `DemoAssumption`: samples and limits are not empty, and a problem's
  bodies are what the compiler tells apart of them.
* `ReaderAssumption`: texts are finite sequences, and no answer is told from the
  names of the actions.
* `TextAssumption`: a number is a ratio of integers, over a power of ten if it is a
  decimal; tolerances are naturals and ratios; all numbers are multiples of one unit, as finitely many always are;
  what stands in a group is a text of the set. `FormsAssumption`: two operands of one
  canonical string are one function, that is, `str` of a SymPy expression loses
  nothing of its value, and two integers that are written out differ by a rational.
* `WorkflowAssumption`, `SolverAssumption`: a plan has subtasks, limits are
  positive, a registered tool may say what the critic can tell apart.

Two theorems have a hypothesis more. `RewardCorrect` has `BonusHasRoom`: tools cost
nothing and the clip is wider than what a reward can be. It is what the comment at
`reward/functions.py:78-80` says of R4, and true of its numbers (81-93).
`SolverCorrect` has `LimitHasRoom`: a plan whose every subtask fails but for its
last try fits into the step limit with a step each for planner, critic and
executor. With the code's numbers, five subtasks, three retries and twenty steps,
that is 18 of 20.

### Episodes (`Episode_proofs`)

* `TypeCorrect`: `TypeOK` is inductive by itself.
* `AccountingCorrect`, with `UsageCorrect`, `BudgetCorrect` and
  `RequestsCorrect` as its parts. None of the parts is inductive alone: that no
  call overdraws the budget follows from the guard under which the task came to
  its await, which only `StagesConsistent` remembers; that entries into the
  registry equal charges needs the open call. `Accounting` together with `TypeOK`
  is inductive. The lemma behind it, `CountAppend`, says how the number of events
  of a kind grows with an append.
* `AnswerCorrect`, on top of it: an answer is there exactly after a FINAL event.
* `EndCorrect`: strengthened by `EndInv`, that charged Python seconds imply a
  Python result in the trace. `EndingCorrect` puts the two together.
* `EpisodeImplementsBounded`: initial states map to initial states, and each
  action to a `Charge`, a `Submit`, a `Stop` or a stutter of `BoundedEpisode`.
* `TraceCorrect`. `TraceFaithful` speaks of a trace at any time and does not say
  where in a turn the task is, so it is not inductive. `TraceInv` says how far
  trace, conversation and journal may be apart: the conversation is one message
  ahead while a generated turn is unanswered and two when it was answered; an open
  call's time is not before the last event's; only the last snapshot may be
  terminated. That snapshots' counters are true rests on `Accounting`.
* `ReplayCorrect`: replay is a fold over the events, and `ReplayInv` says what it
  makes of the events so far (`Charged`): the usage of the episode, an answer if
  there is one, and a step that is open exactly while the turn is. The fold is
  taken apart by `ReplayRuns`, that its value is the last of a run with one entry
  for each event, and `RunsAgree`, that a longer trace's run begins with the
  shorter one's; so each action only has to say what its own events do.
* `SeamCorrect`, for a branch: `SnapshotsWhole` carries to every snapshot what is
  true of the episode when it is taken, in particular that one which is not
  terminated has budget left; with it all that was proved of an episode starts
  anew at the seam. `BranchInv` then says what a branch has added to its anchor,
  one journal entry for each step, which bounds the seeds it asks for.

### Processes (`Processes_proofs`)

* `VerdictCorrect` and `OrphanCorrect`. `WorkerInv` says that the ids in the pipes
  were requested, that wherever a verdict "correct" is, with the worker, in the
  pipe or returned, the evidence agreed on the pair of its own request, and that a
  worker the parent is about to let go was signalled.
* `CompareImplementsAtomic`, from the same invariant: a call, its one answer, its
  abandonment, and everything else a stutter. The status a caller gets must be one
  a comparison reached, so `WorkerInv` carries this from the worker's verdict
  through the pipe.
* `CodeCorrect` and `ChildCorrect`. `Stages` says which places of parent and child
  go together, `ResultIsTold` that what is in the pipe is what the child made of
  the program: only the two together justify what the parent says of a result it
  found, or did not find, after the join.
* `NothingLeftCorrect` is about both in one system, whose every step is one's.

### Registry (`Promotion_proofs`)

For any number of handles, crashes and failed writes:

* `RegistryTypeCorrect`.
* `ChampionCorrect` and `VersionsCorrect`, from `AllSound`: every ledger there
  is, in memory, in the temporary file or on the path, has a promoted champion,
  promotions with a passing gate only, and one spec per version. The property of
  a champion alone is not inductive, since a rollback chooses any promoted record.
  Although handles overwrite one another's files, each file is some handle's
  whole ledger, and that is why it stays sound.
* `LedgerCorrect`: the records and the champion of every ledger are told by its
  own events. An event log is folded by a recursive function; the proof needs only
  what one more event does to it.
* `LedgerTrue`, both together.
* `ReturnedCorrect`, for one handle (`Handles = {h}` is its hypothesis): the file's
  events are in memory, memory's are in the file, unsaved, or the one being
  saved, and what was acknowledged is in the file or was already unsaved
  (`Backed`). With two handles it is false of the code (section 5).
* `RegistryImplementsLedger`, for one handle: the file implements `EventLedger`.
  `AllLegal`, which holds for any number of handles (`LawfulCorrect`), says that
  the events of every ledger are lawful and dated in order, and that a passing
  decision in a record comes from an event (`TellsLegal`: what an operation's guards ask of records is
  asked of events, because the records are what the events tell). `Ahead` says
  that the file's events are the first of the handle's, and that after them come
  only failed ones and, last, the one being saved. A replacement then is a
  `Save`; that its event is new follows from the order.
* `BetterCorrect`, an action property of the gate, and `OneWayCorrect`, for any
  number of rows and resamples. To the test, outcomes are two counts, of the tasks
  one harness alone solved (`Counts`). Its tail counts subsets: `Pascal` and
  `AllSubsets` say how many there are, and `TailSteps` what becomes of the tail's
  share of all subsets when one differing task goes or comes; hence `TellingGrows`,
  a significant difference stays so when it grows, and is as significant the
  other way round. The second is `OneWayCorrect`. The interval's lower end is the
  resample sum of a given rank; if every sum is at least what it was, so is the one
  of that rank (`LowerEnd`), and `GateFollows` puts the two together.

### Evaluations (`Evaluation_proofs`)

* `OnceCorrect` and `ExperimentCorrect`. `JournalInv` ties the files to the process
  that goes on with them: a process is bound to the journal's manifest before it
  reads or writes a row, so every row is of the manifest that the file names; what
  a process remembers of an arm is what the journal holds, and the batch it
  generated is in neither; a count is exact once the process has counted a row of
  its own, and never more than the rows.
* `MetricsCorrect`. No check of the code compares the tasks of a merge with the
  frozen ones; the property holds by a count. `ArmInv` says that a complete shard,
  or a process at the end of its loop, has written a row at least for each of its
  tasks and has them all in its summary's number; rows may be there more than
  once, since two processes may share a directory. A merge therefore has at least
  a row for each task of its shards, and if the numbers that `compute_arm`
  compares agree there is room for no second row and no missing shard. The lemmas
  on sums (`SumMore`, `SumSizes`, `SumOver`) are what makes the counts comparable.
* `HealthCorrect`. An error may come at any step, after the mark too; the files
  under it stay what they were. `HealthInv` says that the files follow the memory line by line
  (`FilesFollow`): trajectory number `GroupSize * (i - 1) + k` is sample k of task
  i. `SummaryCounts` is that the summary's numbers are those of the groups.

### Study (`Study_proofs`)

* `LogsCorrect`, of its parts `SummaryCorrect` and `LogCorrect`. `StageCInv`
  says what a running invocation knows of the log: `done` is what was logged when
  it began, what was logged since is the plan up to the position, and an attempt
  that is being repeated is the last line. `LogsInv` places a rollout's line in
  the plan of stages A and B.
* `ResumeCorrect`, an action property, from `StageCInv`: what the process read
  before its loops is still right at every line it adds.
* `EffectsCorrect`: from the attempt rules, `_dedupe_attempts` leaves one record of
  each logged sample, an answer wherever one was logged (`KeptSpeaks`); the rest is
  about the sums of an arm's mean.
* `AuditCorrect`: `AuditInv` says that what was picked is the rare branches and all
  of the finished rounds, and a part of a round only when the cap was reached.
* `AnchorsCorrect`: `select_one_per_task` is a fold over a sorted sequence of what
  a fold over the log offered. `CandidatesRun` and `SelectionRun` give both folds
  their runs, `OneMoreOffer` and `OneMoreChoice` say what one more rollout, or one
  more candidate, adds, and `SelectionIs` that the result is, in the order of
  keys, `FirstChoices` of the log, which the property defines without either. The
  rest is that nothing changes the log under an opened snapshots file
  (`AnchorsInv`): a stage that finds a log fails, and it cannot find none when the
  plan has a rollout.

### Training (`Training_proofs`)

* `PoolCorrect`: `WinnersDiffer` (exact groups leave one task per text),
  `LoopKeeps` (the near loop, in the middle: what it kept is like nothing that is
  left, and an evaluation task falls only to an earlier one), `FilesApart` (the
  splits, those on disk and the manifest's) and `GreenIsTrue`. `Ranks` and
  `InItsOrder` are about sorting by an injective key.
* `FreshCorrect` and `SettledCorrect`: `StudyDrawn` says that the sets are a draw
  from what was not spent at the time. A draw is by rank, so that taking away tasks
  that were not drawn changes nothing; this is all that `SettledCorrect` needs.
* `AdapterCorrect`: `PlacesAreWhole` says what stands in which place at each step
  of the replacement, the temporary one included, and that what stands in place
  once a run that was not redirected is done is its own, whence the merge's claim; `FreezesGrow` says how the
  freezes a run pinned, loaded and could load are ordered; the property itself says
  only that one of two places is whole, whose weights are merged, and that the data
  was the pinned one.
* `JudgedCorrect`: `RolloutInv` relates, row by row, the environment, the place of
  the row's coroutine, its transition and what the collector has seen. In a step
  the rows that returned are one step ahead of the others; a reward is paid in the
  one step in which the environment terminates. `EnvIdsGiven` is that the suffixes
  make the ids of a batch distinct.
* `RewardCorrect` and `UnansweredCorrect`: rewards are compared by monotonicity of
  the clip and of costs that round, over the same `RolloutInv`.
* `EpochCorrect`: `RlInv` says that the last k metrics are those of the first k
  batches and that the counter counts them in every checkpoint; that the sums over
  batches telescope to the sum over the dataset is `Telescope`.
* `SuccessCorrect` is arithmetic over all trajectories.
* `BatchesCorrect`: `SourceInv` says that the rows read so far have made what the
  whole source makes in the end, selection, diagnostics and rejections alike.
  `BatchRun` and `BatchMakes` are what the fold over a batch makes; `RelabelIs` and
  `AllRewritten` that joining a batch rewrites no line of an earlier one;
  `SelectionCounts` that the retained rows and the rejected ones add up.
* `GateCorrect`: `DemoInv` says that all records before the place in the sample are
  done, that the one at hand is not, and that its candidates so far did not verify
  unless one was late. The rest is about the compiler: `DistinctIs` (dropping
  repeated calls keeps the first of each), `RankedIs` and `CallsInOrder` (no call
  comes before one that scores better), and so `Outranked`: a call that is none of
  the candidates has as many above it as the limit.

### Verdicts, readers and the solver (`Answers_proofs`)

* `VerificationCorrect`. The parsers and the meaning have nothing in common: one
  divides by a denominator of either sign and compares results, the other
  multiplies across. `NumberIs` says that a parsed number is its ratio in units,
  `SameNumberIs` and `CloseNumberIs` that equal and tolerated mean the same on both
  sides (by `CrossMultiply` and `ScaledTolerance`, which multiply with a positive
  denominator and cancel it). `parse_value` recurses over nested groups down to a
  depth; `LevelsAre` says that the recursion has a value at each of its levels, and
  `GroupIs` what that is for a group of numbers, whence `AmongIs` and `SameItemsIs`.
  One lemma for each type then says that the verifier returns correct or incorrect
  and which (`ExactDecided` to `IntervalDecided`, `WordJudged`, `ValueJudged`; of two values `ValuesCompared` goes
  through what simplify may settle, and `AgreeIsClose` ties the code's test of the
  samples, a maximum error against a maximum size, to `SampledClose`); that a
  well-formed form never makes a reference invalid is needed, since the loop would
  end with it. `VerdictInv` is the loop: a status that ends it is the result, and
  everything tried is what comparing that form returns.

* `ReadersCorrect` needs no invariant but that the turn is one of the texts. A text
  is any finite sequence of tokens, so the proof is about shapes. `StrictIs` and
  `ShapeRead` say that the strict parser reads a text if and only if it has
  `StrictShape`: a thought that ends (`EndsThink`), then three tokens, with no
  other action tag in the text. `EnvelopeRead` says what a tolerant reading may
  hold besides. A rescued text is the text with one token put in or replaced
  (`SpliceIs`), and so is its forecast, whose shape is then strict
  (`ForecastThink`, `ForecastScalar`; in the second the code's first match is the
  only one, `OneBarePair`). For the extractor `SpanRun` unfolds the search for final
  blocks, a `FoldLeft`, into a run over the text, `SpanKeeps` is its invariant with
  a single opening tag, and `OneSpan` its end; `BodyIs` says what the funnel and the
  coercion take of the same block.
* `CoercionCorrect`. `RowInv` says that a row holds what the extractor or the parser
  read of the turn, `ScoreInv` that a score is the rungs of it. A numeric answer is
  the only content of the only final block. `ParserCoercion` says that a turn of which
  the parser reads an answer, under any rules, has something else there: closing the
  thought puts a token in front of the block and leaves it alone (`ClosedText`,
  `NoNumber`). `ExtractorCoercion` says it of the extractor.
* `AnswersCorrect` and `SolverCorrect`. `RunInv` says which fields go with which
  status, and counts: while nothing was reported wrong, the results are those of
  the finished subtasks, each of which took at most as many steps as there are
  retries. A plan is made anew only after a result was rejected, which stays
  among the results. `Tries` is the arithmetic of that count, `StepsSuffice` its
  end.
* `CollectedInv` is that the buffer is the end of the history of returned runs
  (`EndGrows`, `EndDrops`: what an append and a dropped head make of an end).
* `RoutesMonotone` needs no invariant. `Weaker` compares a query with one that
  extends it: its type is looked for no later (`TypesOrdered`: no other such pair of
  types than analysis and reasoning loses score) and it is no shorter
  (`TokensOrdered`), so its score does not fall, and a sum of eight twentieths that
  falls short of 0.4 as a float is not reached from one that does not.

`FoldTheorems` has what these share. An induction theorem that takes a predicate
cannot be used with the provers at hand, so inductions here are about the set of
those numbers, or those finite sets, for which the claim holds (`NatSet`,
`FiniteSetSet`); with them `MapThenFoldSet` and `FoldLeft` get values at all
(`FoldExists`, `LeftFoldExists`), sums get their laws, and finite sets of naturals
their ranks.

### Only model-checked

Every safety and action property of a passing run has a theorem. What is left to TLC
is everything under fairness (`EpisodeEnds`, `CallsReturn`, `EventuallyMeasured`,
`SolveReturns`) and `ENABLED`, both out of the prover's reach.


## 5. Where code and documents differ

Three disagreements are runs of their own.

* `worker_limit`: the module promises that a CPU limit interrupts a runaway
  comparison and returns a timeout (`worker.py:7-8`). The limit is an exception,
  and two `except Exception` in the comparison take it for something else
  (`symbolic.py:131`, `280`): a malformed expression, or nothing at all, after
  which the comparison goes on without a limit.
* `tool_large`: the deadline is said to bound only hung calculations
  (`sympy_tool.py:21-22`). A result that does not fit the pipe keeps the child
  from exiting until it is read, which happens only after the join.
* `relations`: a relation is said to be equal only where this is proved, but
  `_relation_signature` (`symbolic.py:199`) loses the direction of an inequality:
  x < 2 and x > 2 are found equal.

The others were met while modelling. The properties are stated so as to hold
around them, and each is named here so that nobody takes it for covered.

*Episodes, tools, verifier*

* An answer that is no envelope counts as an execution error of a program that
  perhaps never ran (`sandboxfusion.py:104-118`, `taxonomy.py:47-68`).
* `verify_answer` is said never to raise for bad predictions (`service.py:4-5`),
  but a send to a worker that has just died raises `BrokenPipeError`
  (`worker.py:157`); the model's calls may end as "raised".
* One broken acceptable form makes the whole reference invalid though a later one
  is equal (`service.py:81`, against 66-67). The symbolic comparator takes a
  tuple for a set: (1, 2) equals (2, 1). `normalize_surface` is not idempotent
  for a trailing `\degree`.
* Two expressions whose difference SymPy does not settle are correct if they differ
  by at most 1e-6, absolute and relative to the largest reference value, at the
  points drawn (`symbolic.py:310-373`): \sqrt{2} and 1.41421356 are, and sqrt(x^2) and
  x are when all points drawn are positive. `VerdictMeansEqual` says "within the
  tolerance" for this reason (`Near`).
* Where the CPU limit's exception is swallowed, a readable prediction is called
  invalid, a readable reference too, or a difference goes unsettled to the samples.
* `ToolCall` has no SymPy child that cannot be started; the registry would make a
  tool error of the exception.

*Analyses of turns*

* `tolerance_rescore` tries the lenient rung whenever the other two are not
  correct, though it says only where both found nothing (37-38). For the coercion
  the words hold all the same (`CoercionFillsGaps`); the lenient rung may credit a
  turn of which a wrong answer was read. The coercion's
  "single well-formed pair" also handles a missing close.
* `bare_final_scalar` reads and writes a scalar (`parser.py:84-90`): 0.10 becomes
  0.1, and an integer of more than 64 bits a float, while the offline forecast keeps the
  literal (`eval_parser_rescue.py:63-70`), and does not see one with a "<" or a brace in
  it. `ReadersAgree` leaves such a turn out of the comparison with the forecast.
* A payload of a final block that names a `kind` overrides the tag's
  (`parser.py:97`): with a nested call the turn runs a tool, outside the ceiling
  that the funnel counts for the tag ("executed is a subset of it",
  `protocol_gap.py:157-168`).
* `eval_parser_rescue`'s counterfactual reward has no tool calls and no Python
  seconds whatever the trajectory had, and counts only the parse errors before
  the rescue.
* A payload that contains a closing tag makes parser, extractor and funnel
  disagree; the instances have none.
* `protocol_gap`'s self-check compares totals though it is said to go by
  trajectory, and its `attempt` is never reset.

*Registry*

* Gating a candidate again replaces the earlier decision in its record
  (`registry.py:95-98`), though decisions are said never to be edited (8). After
  a failed save the handle goes on with the mutation in memory (176), and an
  idempotent `register` answers from it (78-80); `EventLedger` allows exactly
  this (`Repeat`, and the events of failed calls in a `Save`). Two handles overwrite one another: the file is read
  only when a handle is made (57-63, 177). `registry` runs with one handle for
  this reason; of the theorems only `ReturnedCorrect` and
  `RegistryImplementsLedger` depend on it.

*Evaluations*

* A kill between the creation of the journal's directory and its manifest or its
  progress file leaves a journal no invocation accepts (`model_eval.py:60-67`,
  94-99), and a kill within a row leaves one that does not parse. The journal's
  manifest omits `limit` and `arms`, and the adapter is hashed before it is
  loaded. The verifier's hash covers service, extractor and prompts only.
* A shard's identity is copied at the end from a file beside its directory, which
  a dry run for the same directory rewrites while the arm runs
  (`run_arm_with_adapter.py:206`, `emit_arm_identity.py:273-274`). A finished
  directory may therefore name weights it did not load: the one hazard in
  `PROJECT.json` without a property.
* The merge does not look whether its shards are distinct, all there or of one
  count, and drops the identity from the merged manifest; merging again over a
  merge that was killed could pass the counts, and children of a queue that was
  killed alone may append to a shard. The models exclude the last two.
  `rule_baseline`'s manifest stays "running".
* The identity gate reads HEAD and not a changed tree, hashes the router's file
  in the working tree though it says "as committed", takes the mere existence of
  a justification for one, and lets the task counts differ. `thesis_e0_queue.sh`
  runs the alignment gate before the code that makes its missing id file.
* Group advantages compare a standard deviation with zero exactly; a health
  measurement that is killed leaves "running". One whose printing fails after
  COMPLETE was written (a closed pipe) is marked "failed" beside it
  (`run_rollout_health.py:526-551`), and a kill in that write leaves a torn manifest.

*Study*

* A resumed Stage C takes a failed first attempt for a finished sample
  (`run_feedback_recovery.py:706`), so the retry the protocol asks for is lost,
  and the integrity check calls the stage complete with samples for which no
  attempt was usable (882). A refused start overwrites the manifest of the run it
  refused to touch (870, then 887). With no anchors there is no log, and reading
  it for the check fails the stage.
* Stage B killed while it writes snapshots leaves a prefix that Stage C accepts;
  `candidates.jsonl` is appended to.
* `tasks_with_any_exec_error` counts all tasks; a tool's output limit is a call's
  form in `_branch_metrics` and an execution error in the taxonomy; the mean over
  complete anchors fails if there is none; the two scenarios for missing branches
  do not bracket a contrast. The audit's loop does not end if there are fewer
  branches than it is to pick.

*Training environment and data*

* `gather` has no `return_exceptions` (`verl_environment.py:188`): after a row
  raised, the other rows have been stepped and the batch cannot go on. The token
  cost of R3 is always zero in training, where the environment is told of no
  generated tokens (134).
* A source solution is verified twice, by the classifier
  (`solution_traces.py:293-321`) and when its trace is made (78-100), and a
  symbolic comparison may time out or be cut in one of them only. A timeout of the
  second loses a row that the diagnostics accept; one of the first puts a refusal
  beside a demonstration, or lets a later duplicate rewrite its line.
  `BatchesLoseNothing` counts fitness by the second, and speaks of the diagnostics
  only where the two agree.
* `merge_adapter` writes weights, file by file, and then the tokenizer, and no mark
  (`train_sft.py:105-109`): after a kill the directory may hold half a model, or the
  weights of one run and the tokenizer of another. It loads the
  configuration again without the `--set` overrides of the run before it (83,
  134-142), so after a run with another `output_dir` it merges whatever finished
  adapter stands in the directory of the file.
* `python_tir` raises a `TypeError` that only `except ValueError` would catch, and
  the whole materialisation dies with it; one trace with an unparseable turn ends
  the whole build of records; a call the budget refused loses its observation
  from the demonstration; a solution beyond 24576 characters gets the diagnostic
  of an accepted one and is rejected. An audit compares ids and misses a
  repetition within a split.
* `run_sft` compares the manifest's hash and never the parquet's; `merge_adapter`
  does not compare the configuration's hash in COMPLETE; after a kill
  `resolved_config` may describe another run than the adapter, and `adapter.old`
  may stay. `train_grpo` exports the newest global step, be it an earlier run's.
* The round-1 set leaves out only the 200 tasks; the study leaves out round 1
  only once its pool file exists.
* `sympy_pool_gate` says it can be resumed (16-18), but after a resume the file of
  accepted calls and the rate hold the last run's rows only, and an old
  `rejects.jsonl` may stay. `sympy_compiler` says that the tool's safety boundary
  never rejects a compiled call (19-22), but powers above 10000 and nesting above
  64 are rejected; `\int` is taken for an unsupported `\in`; a decimal point is
  always refused.

*Version 1*

* A rejection never runs the tools again: the planner is skipped while there is a
  plan and no error (`workflow.py`, against its 13-24). The "failed" branch and
  the safety check are unreachable, and `_check_consistency` is always true where
  it is reached. `solve_with_stream` routes and counts twice and ignores the
  number of retries; `_force_route` with an unknown level returns a tuple.
* The analyzer adds up floats: of the sums that are 0.4, nine come out below it and
  make a query simple (`ShortSums`). And the router is not monotone: "why" in an
  analysis makes it a reasoning question (0.25 for 0.3), so one in the class above
  half the threshold, with three keywords and five rounds of history, falls from 0.7
  and the large model to 0.65 and the small one (`complexity_analyzer.py:182-212`,
  225-265).
* `load_from_file` adds steps and rewards to those already there; a run without
  an answer makes `AccuracyReward` take the length of None. Success and the best
  failure can be paid exactly the same.
* The trainer's `episode` counts batches; a checkpoint loaded over a history is
  appended to it; an empty dataset divides by zero; the buffer's size is added
  after the checkpoint was written. `autodl_train` subscripts dataclasses in its
  summary, which always fails, and saves its final file in the default directory;
  it imports a module that does not exist (`autodl_train.py:23`), so that the parts
  of `RlTraining` that stand for it never run.

## 6. What is left out, and why

* Text: prompts, formatting, LaTeX, the labels that a wording gives a failure
  (`failure taxonomy`, the labels of `recovery taxonomy`). Readers of turns and
  answers are modelled down to the pieces by which they differ, no further.
* SymPy's own arithmetic: what `simplify`, `singularities` and evaluation find is
  taken for true where they find something. Sample points are members of a small
  set, drawn freely; the code draws them with a seed made of the pair.
* Numbers: tensors, sampling, the tokenizer's masks, bootstrap intervals and
  tables over complete files. The gate's test and interval are in, because they
  decide.
* What is not in the repository: the trainer, the sandbox, the models. The trainer
  is modelled only as far as the environment shows how it is called, the sandbox
  by its faults. `verl-agent adapter` patches a checkout of the trainer by text.
* Validators of records and configurations, except where their refusal changes
  what is written.
* Two writers of the registry's temporary file at the same instant; the pipes of
  workers that were replaced, since a restart makes new ones.

`PROJECT.json` says for each component what is missing of it.

## 7. Plan

The modules were written in this order, each checked before the next:

1. the episode with its replay and resumption, and its proofs;
2. what judges and serves: registry, gate, worker, tools;
3. rollouts and the paired evaluation; then the study, stage by stage;
4. the readers of answers and turns, and the data pipeline;
5. sharded arms and health, the first version, and the proofs for the registry,
   the processes, the journal and the adapter;
6. the proofs for replay and branches, the study, arms and health, the dataset and
   task sets, rollouts and the first trainer;
7. the proofs for the gate and the anchors of a cut log, the demonstrations, the
   first version's solver, the readers of a turn, and the verdicts on answers;
8. the comparison as one atomic call, the registry's file as an event log.

What would add most next:

* `VerifyAnswer` over `AtomicCompare`: its comparisons are operators that may
  fail now, which is what `AtomicCompare` allows, but the two are not composed.
* Two registries on one file, once their lost updates are decided to be a fault
  or documented; an identity that is copied when the weights are loaded, and then
  the property that a directory names the weights it ran.
