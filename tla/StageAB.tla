------------------------------- MODULE StageAB ------------------------------
(***************************************************************************)
(* Stages A and B of the feedback-recovery study (scripts/eval/            *)
(* run_feedback_recovery.py, run_stage_ab): every task is rolled out       *)
(* several times and each rollout is logged.  Stage A decides whether the  *)
(* interaction is valid enough to go on; stage B looks for executed        *)
(* errors, one anchor per task, and writes the snapshots stage C re-enters *)
(* (recovery/anchors.py).  A stage refuses a log that is already there.    *)
(***************************************************************************)
EXTENDS Integers, Sequences, FiniteSets, SequencesExt

CONSTANTS
  Tasks,          \* the pool, in file order
  SamplesPerTask, \* --group-size, or the stage's default
  Trajectories,   \* what a rollout may be
  OrderKey,       \* stable_order_key of a candidate's identity
  MaxSteps, MaxToolCalls, MaxPythonSeconds,   \* the budget of an episode
  MinRemainingSteps, MinRemainingToolCalls, MinRemainingPythonSeconds,
  MinExecuted,    \* trajectories with a call that Stage A's gate asks for
  MaxStarts,      \* bound on the invocations of the script
  None

ToolCodes == {"ok", "execution_error", "output_limit", "timeout",
              "unavailable", "invalid_arguments", "unknown_tool"}

\* A generated turn: the code of the result it led to, or what else became of
\* it; cut says that the generation ended for its length.
Turns == [code : ToolCodes \cup {"final", "parse_error", "refused"},
          cut : BOOLEAN, seconds : Nat]

\* The termination reasons the stages tell apart.
Endings == {"final", "max_steps", "infrastructure_error", "model_error"}

\* step is the index of the snapshot in the journal, which identifies an
\* anchor together with its task and sample.
AnchorIds == [task : {Tasks[i] : i \in DOMAIN Tasks},
              sample : 1..SamplesPerTask, step : 1..MaxSteps]

ASSUME StudyAssumption ==
  /\ Tasks \in Seq(ToSet(Tasks))
  /\ \A i, j \in DOMAIN Tasks : Tasks[i] = Tasks[j] => i = j
  /\ {SamplesPerTask, MaxSteps} \subseteq Nat \ {0}
  /\ Trajectories \subseteq [turns : Seq(Turns), end : Endings, correct : BOOLEAN]
  /\ \A t \in Trajectories : Len(t.turns) <= MaxSteps
  /\ OrderKey \in [AnchorIds -> Nat]
  /\ \A a, b \in AnchorIds : OrderKey[a] = OrderKey[b] => a = b

VARIABLES
  stage,         \* --stage: "a", "b", "c", or "audit" for the analysis
  trajectories,  \* trajectories.jsonl
  candidates,    \* anchors/candidates.jsonl
  anchors,       \* anchors/snapshots.jsonl, None before it is opened
  selected,      \* anchors/selected.jsonl, None before it is opened
  summary,       \* summary.json of the stage, None before
  status,        \* the status in the stage's manifest, None before
  stagePc,       \* where the process is, "down" when there is none
  starts         \* invocations of the script so far

stageFiles == <<trajectories, candidates, anchors, selected, summary>>
stageVars == <<stage, stageFiles, status, stagePc>>
-----------------------------------------------------------------------------
(* What is read from one trajectory.                                        *)

Torn == [torn |-> TRUE]  \* a line that was cut

\* classify_tool_result: call-form errors and turns without a result are None.
Classify(code) ==
  CASE code = "timeout" -> "E_TIMEOUT"
    [] code = "unavailable" -> "E_INFRA"
    [] code \in {"execution_error", "output_limit"} -> "E_EXEC"
    [] OTHER -> None

CallForm(code) == code \in {"invalid_arguments", "unknown_tool"}

\* The steps of a trajectory up to k whose turn satisfies a predicate are
\* counted with Cardinality over their indices.
CallsUpTo(t, k) ==
  Cardinality({i \in 1..k : t.turns[i].code \in ToolCodes})
SecondsUpTo(t, k) ==
  FoldLeft(LAMBDA sum, turn : sum + turn.seconds, 0, SubSeq(t.turns, 1, k))

\* _classify_trajectory: how many results of the trajectory have the class.
ErrorCount(t, class) ==
  Cardinality({i \in DOMAIN t.turns : Classify(t.turns[i].code) = class})

InfraTrajectory(t) ==
  t.end \in {"infrastructure_error", "model_error"} \/ ErrorCount(t, "E_INFRA") > 0

\* first_exec_error_snapshot: each step has a snapshot, whose last event is
\* the result of its call.
ExecErrors(t) == {k \in DOMAIN t.turns : Classify(t.turns[k].code) = "E_EXEC"}
FirstExecError(t) ==
  {k \in ExecErrors(t) : \A j \in ExecErrors(t) : k <= j}

Remaining(limit, used) == IF limit > used THEN limit - used ELSE 0

\* build_candidate's exclusion rules.  An episode that ended in its last step
\* ended with that step, unless the next generation failed.
ExclusionReason(t, k) ==
  IF k = Len(t.turns) /\ t.end # "model_error" THEN "terminated_at_anchor"
  ELSE IF Remaining(MaxSteps, k) < MinRemainingSteps
    THEN "insufficient_remaining_steps"
  ELSE IF Remaining(MaxToolCalls, CallsUpTo(t, k)) < MinRemainingToolCalls
    THEN "insufficient_remaining_tool_calls"
  ELSE IF Remaining(MaxPythonSeconds, SecondsUpTo(t, k))
            < MinRemainingPythonSeconds
    THEN "insufficient_remaining_python_seconds"
  ELSE None

Candidate(t, k) ==
  [id |-> [task |-> t.task, sample |-> t.sample, step |-> k],
   exclusion_reason |-> ExclusionReason(t, k)]

\* The candidates of a log, in its order: a rollout has one if it has an error.
AddCandidate(cs, t) ==
  IF FirstExecError(t) = {} THEN cs
  ELSE Append(cs, Candidate(t, CHOOSE k \in FirstExecError(t) : TRUE))
Candidates(log) == FoldLeft(AddCandidate, << >>, log)

\* Mutant: an anchor need not have room left for a branch.
AnyCandidate(cs) == {cs[i].id : i \in DOMAIN cs}

Eligible(cs) ==
  {cs[i].id : i \in {j \in DOMAIN cs : cs[j].exclusion_reason = None}}

\* Sorted by their keys, which are distinct.
InKeyOrder(ids) ==
  [n \in 1..Cardinality(ids) |->
     CHOOSE a \in ids : Cardinality({b \in ids : OrderKey[b] < OrderKey[a]}) = n - 1]

\* select_one_per_task: the eligible candidates in the order of their keys,
\* each task's first.
FirstOfTask(chosen, a) ==
  IF \E i \in DOMAIN chosen : chosen[i].task = a.task THEN chosen
  ELSE Append(chosen, a)
SelectOnePerTask(cs) == FoldLeft(FirstOfTask, << >>, InKeyOrder(Eligible(cs)))

\* pool_verdict with its two thresholds.
PoolVerdict(n) ==
  IF n >= 20 THEN "C"
  ELSE IF n >= 8 THEN "C_SMALL_SAMPLE"
  ELSE "INSUFFICIENT_ERROR_STATES"
-----------------------------------------------------------------------------
(* Stage A's gate, over the rollouts of the stage.                          *)

Steps(log) ==
  UNION {{<<i, k>> : k \in DOMAIN log[i].turns} : i \in DOMAIN log}
TurnAt(log, s) == log[s[1]].turns[s[2]]

\* Turns that parse to no action, cut ones and others.
Unparsed(log, cut) ==
  {s \in Steps(log) :
     TurnAt(log, s).code = "parse_error" /\ TurnAt(log, s).cut = cut}

\* At most a tenth of the generations.
AtMostTenth(bad, log) ==
  10 * Cardinality(bad)
    <= IF Steps(log) = {} THEN 1 ELSE Cardinality(Steps(log))

\* Mutant: only an episode that ended of it failed for the infrastructure.
InfraEndings(log) == {i \in DOMAIN log : log[i].end \in {"infrastructure_error", "model_error"}}

InfraFailures(log) == {i \in DOMAIN log : InfraTrajectory(log[i])}
Executed(log) == {i \in DOMAIN log : CallsUpTo(log[i], Len(log[i].turns)) > 0}
Successful(log) ==
  {i \in Executed(log) : \E k \in DOMAIN log[i].turns :
     LET code == log[i].turns[k].code
     IN  code \in ToolCodes /\ Classify(code) = None /\ ~CallForm(code)}

\* _stage_a_gate without the check for leaked labels, which is about text.
AutomatedPass(log) ==
  /\ Cardinality(Executed(log)) >= MinExecuted
  /\ InfraFailures(log) = {}
  /\ AtMostTenth(Unparsed(log, FALSE), log)
  /\ AtMostTenth(Unparsed(log, TRUE), log)

\* _stage_b_summary, as far as it is more than a rate of the above.
TasksWithRollout(log) == {log[i].task : i \in DOMAIN log}

StageSummary(log) ==
  IF stage = "a"
    THEN [trajectories |-> Len(log), pass |-> AutomatedPass(log),
          successful |-> Cardinality(Successful(log))]
    ELSE [trajectories |-> Len(log), candidates |-> Len(Candidates(log)),
          anchors |-> Len(SelectOnePerTask(Candidates(log))),
          verdict |-> PoolVerdict(Len(SelectOnePerTask(Candidates(log)))),
          tasks_with_any_exec_error |-> Cardinality(TasksWithRollout(log))]
-----------------------------------------------------------------------------
\* A run directory as the stage finds it, with the snapshots it is given.
StageInit(which, snapshots) ==
  /\ stage = which
  /\ trajectories = << >>
  /\ candidates = << >>
  /\ anchors = snapshots
  /\ selected = None
  /\ summary = None
  /\ status = None
  /\ stagePc = "down"
  /\ starts = 0

\* _main: the model is loaded, the sandbox answers, the manifest says running.
StartStage ==
  /\ stage \in {"a", "b"}
  /\ stagePc = "down"
  /\ starts < MaxStarts
  /\ starts' = starts + 1
  /\ status' = "running"
  /\ stagePc' = "starting"
  /\ UNCHANGED <<stage, stageFiles>>

\* The log is opened for every line, so it exists once it has one.
BeginStage ==
  /\ stagePc = "starting"
  /\ stagePc' = IF trajectories = << >> THEN "rolling" ELSE "failing"
  /\ UNCHANGED <<stage, stageFiles, status, starts>>

\* The next rollout of the loops over tasks and samples.
Position == Len(trajectories)
Planned == Len(Tasks) * SamplesPerTask

Roll ==
  /\ stagePc = "rolling"
  /\ Position < Planned
  /\ \E t \in Trajectories :
       trajectories' = Append(trajectories,
         [task |-> Tasks[(Position \div SamplesPerTask) + 1],
          sample |-> (Position % SamplesPerTask) + 1,
          turns |-> t.turns, end |-> t.end, correct |-> t.correct])
  /\ UNCHANGED <<stage, candidates, anchors, selected, summary, status,
                 stagePc, starts>>

\* The rollouts in memory are those of the log, which this process began.
Rolled ==
  /\ stagePc = "rolling"
  /\ Position >= Planned
  /\ stagePc' = IF stage = "a" THEN "summarising" ELSE "pooling"
  /\ UNCHANGED <<stage, stageFiles, status, starts>>

\* _stage_b_pool: three files, one after the other.
Pool ==
  /\ stagePc = "pooling"
  /\ candidates' = candidates \o Candidates(trajectories)
  /\ stagePc' = "snapshots"
  /\ UNCHANGED <<stage, trajectories, anchors, selected, summary, status,
                 starts>>
WriteSnapshots ==
  /\ stagePc = "snapshots"
  /\ anchors' = SelectOnePerTask(Candidates(trajectories))
  /\ stagePc' = "selected"
  /\ UNCHANGED <<stage, trajectories, candidates, selected, summary, status,
                 starts>>
WriteSelected ==
  /\ stagePc = "selected"
  /\ selected' = SelectOnePerTask(Candidates(trajectories))
  /\ stagePc' = "summarising"
  /\ UNCHANGED <<stage, trajectories, candidates, anchors, summary, status,
                 starts>>

\* summary.json, and the manifest once more.
FinishStage ==
  /\ stagePc = "summarising"
  /\ summary' = StageSummary(trajectories)
  /\ status' = "complete"
  /\ stagePc' = "down"
  /\ UNCHANGED <<stage, trajectories, candidates, anchors, selected, starts>>

FailStage ==
  /\ stagePc = "failing"
  /\ status' = "failed"
  /\ stagePc' = "down"
  /\ UNCHANGED <<stage, stageFiles, starts>>

Prefixes1(s) == {SubSeq(s, 1, n) : n \in 0 .. Len(s) - 1}

\* A kill, or an exception, while a rollout runs or a file is written: the
\* file keeps the lines before the cut, and a part of one more.
StopStage ==
  /\ stagePc # "down"
  /\ stagePc' = "down"
  /\ status' \in {status, "failed"}
  /\ \/ /\ stagePc = "rolling"
        /\ trajectories' \in {trajectories} \cup
             IF Position < Planned THEN {Append(trajectories, Torn)} ELSE {}
        /\ UNCHANGED <<candidates, anchors, selected>>
     \/ /\ stagePc = "pooling"
        /\ \E part \in Prefixes1(Candidates(trajectories)) :
             candidates' \in {candidates \o part,
                              candidates \o Append(part, Torn)}
        /\ UNCHANGED <<trajectories, anchors, selected>>
     \/ /\ stagePc = "snapshots"
        /\ \E part \in Prefixes1(SelectOnePerTask(Candidates(trajectories))) :
             anchors' \in {part, Append(part, Torn)}
        /\ UNCHANGED <<trajectories, candidates, selected>>
     \/ /\ stagePc = "selected"
        /\ \E part \in Prefixes1(SelectOnePerTask(Candidates(trajectories))) :
             selected' \in {part, Append(part, Torn)}
        /\ UNCHANGED <<trajectories, candidates, anchors>>
     \/ UNCHANGED <<trajectories, candidates, anchors, selected>>
  /\ UNCHANGED <<stage, summary, starts>>

StageNext ==
  \/ StartStage \/ BeginStage \/ Roll \/ Rolled \/ Pool \/ WriteSnapshots
  \/ WriteSelected \/ FinishStage \/ FailStage \/ StopStage
-----------------------------------------------------------------------------
\* Whatever was killed when: the snapshots stage C is given are whole lines but
\* for the last, and a beginning of the selection, which is, for every task with
\* an executed error that leaves room for a branch, the first such error of the
\* candidate with the smallest key, and no other anchor, in the order of keys.
EligibleIn(log, a) ==
  \E i \in DOMAIN log :
    /\ log[i] # Torn /\ log[i].task = a.task /\ log[i].sample = a.sample
    /\ a.step \in FirstExecError(log[i])
    /\ ExclusionReason(log[i], a.step) = None
FirstChoices(log) ==
  LET eligible == {a \in AnchorIds : EligibleIn(log, a)}
  IN  {a \in eligible :
         \A b \in eligible : b.task = a.task => OrderKey[a] <= OrderKey[b]}
AnchorsAreFirstChoices ==
  stage = "b" /\ anchors # None =>
    LET chosen == FirstChoices(trajectories)
        whole == {i \in DOMAIN anchors : anchors[i] # Torn}
    IN  /\ \A i \in DOMAIN anchors \ whole : i = Len(anchors)
        /\ \A i \in whole : anchors[i] \in chosen
        /\ \A i, j \in whole : i < j => OrderKey[anchors[i]] < OrderKey[anchors[j]]
        /\ \A i \in whole, a \in chosen :
             OrderKey[a] < OrderKey[anchors[i]] => \E j \in whole : anchors[j] = a
        /\ status = "complete" => ToSet(anchors) = chosen

\* A summary is about the whole plan, each task and sample once, however often
\* the stage was started, and its gate passes no infrastructure failure.
SummaryIsWhole ==
  summary # None =>
    /\ {<<trajectories[i].task, trajectories[i].sample>> :
          i \in DOMAIN trajectories} = ToSet(Tasks) \X (1..SamplesPerTask)
    /\ Len(trajectories) = Planned
    /\ stage = "a" /\ summary.pass =>
         \A i \in DOMAIN trajectories :
           \A k \in DOMAIN trajectories[i].turns :
             trajectories[i].turns[k].code # "unavailable"
=============================================================================
