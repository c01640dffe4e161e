-------------------------------- MODULE Solver ------------------------------
(***************************************************************************)
(* The first version's entry point (src/main.py) over its router           *)
(* (src/router), the workflow and the trajectory collector (src/rl).  A    *)
(* query is scored, sent to one of two models or into the workflow, and a  *)
(* workflow run is collected for training.                                 *)
(***************************************************************************)
EXTENDS WorkflowGraph

CONSTANTS
  SettingsRetries,  \* MAX_RETRIES of the settings
  BufferSize,       \* max_buffer_size of the collector
  Asked,            \* the queries asked in a behaviour
  MaxQueries,       \* bound on the queries counted
  MaxRuns           \* bound on the runs collected

\* A query, as far as the analyzer looks: its task type, the occurrences of
\* complex keywords and the rounds of history (more than three, five count as
\* that many), and its tokens against half, once and twice the threshold.
TaskTypes == {"proof", "multi_step", "code_generation", "analysis",
              "reasoning", "calculation", "simple_qa"}
TokenClasses == {"short", "half", "threshold", "long", "double"}
Queries == [type : TaskTypes, keywords : 0..3, history : 0..3,
            tokens : TokenClasses]

ASSUME SolverAssumption ==
  /\ SettingsRetries \in RetryLimits /\ 3 \in RetryLimits
  /\ BufferSize \in Nat
  /\ Asked \subseteq Queries

VARIABLES
  phase,        \* "idle", "solving" or "streaming"
  routed,       \* the router's statistics
  solved,       \* the solver's statistics
  trajectories, \* the collector's buffer
  returned      \* history: what the collected runs returned, in order

vars == <<wfVars, phase, routed, solved, trajectories, returned>>
-----------------------------------------------------------------------------
(* The analyzer, in twentieths of a point.                                 *)

\* Mutant: the cases are tested from the lowest, with no upper end.
TokenScoreWrapped(q) ==
  CASE q.tokens \in {"short", "double"} -> 0
    [] q.tokens \in {"half", "threshold"} -> 2
    [] q.tokens = "long" -> 4

TokenScore(q) ==
  CASE q.tokens = "short" -> 0
    [] q.tokens \in {"half", "threshold"} -> 2
    [] q.tokens = "long" -> 4
    [] q.tokens = "double" -> 6

TypeScore(q) ==
  CASE q.type = "multi_step" -> 7
    [] q.type \in {"proof", "code_generation"} -> 8
    [] q.type = "analysis" -> 6
    [] q.type = "reasoning" -> 5
    [] q.type = "calculation" -> 2
    [] q.type = "simple_qa" -> 0

\* _calculate_complexity_score.
Score(q) == TokenScore(q) + TypeScore(q) + q.history + q.keywords

\* The sums of eight twentieths that come out below 0.4 when the floats are
\* added in the order of the code: type, token score, history and keywords.
ShortSums ==
  {<<"multi_step", 0, 1, 0>>, <<"multi_step", 0, 0, 1>>, <<"analysis", 0, 1, 1>>,
   <<"reasoning", 2, 1, 0>>, <<"reasoning", 2, 0, 1>>, <<"reasoning", 0, 2, 1>>,
   <<"calculation", 2, 3, 1>>, <<"simple_qa", 6, 1, 1>>, <<"simple_qa", 4, 3, 1>>}
FallsShort(q) == <<q.type, TokenScore(q), q.history, q.keywords>> \in ShortSums

Level(q) ==
  IF Score(q) >= 14 THEN "complex"
  ELSE IF Score(q) >= 8 /\ ~FallsShort(q) THEN "medium"
  ELSE "simple"

WorkflowTypes == {"proof", "multi_step", "code_generation"}

\* _make_decision.  A simple question or calculation goes to turbo whatever
\* the confidence, by the first or by the last rule.
Decision(q) ==
  IF q.type \in WorkflowTypes THEN "workflow"
  ELSE IF \/ Level(q) = "complex"
          \/ Level(q) = "medium" /\ q.tokens \notin {"short", "half"}
    THEN "direct_max"
    ELSE "direct_turbo"
-----------------------------------------------------------------------------
Routes == {"direct_turbo", "direct_max", "workflow"}
NoStats == [r \in Routes |-> 0]
Count(stats, route) == [stats EXCEPT ![route] = @ + 1]
Total(stats) == stats["direct_turbo"] + stats["direct_max"] + stats["workflow"]

Init ==
  /\ WfInit
  /\ phase = "idle"
  /\ routed = NoStats
  /\ solved = NoStats
  /\ trajectories = << >>
  /\ returned = << >>

\* solve: counted by the router and by the solver; a workflow is started under
\* the retries of the settings, in the decorated run when there is a collector.
Solve(q) ==
  /\ phase = "idle"
  /\ Total(routed) < MaxQueries
  /\ Len(returned) < MaxRuns
  /\ routed' = Count(routed, Decision(q))
  /\ solved' = Count(solved, Decision(q))
  /\ IF Decision(q) = "workflow"
       THEN phase' = "solving" /\ Begin(SettingsRetries)
       ELSE UNCHANGED <<phase, wfVars>>
  /\ UNCHANGED <<trajectories, returned>>

\* solve_with_stream: a direct answer is routed a second time, by solve; the
\* workflow runs under run_stream's own retries and is not collected.
Stream(q) ==
  /\ phase = "idle"
  /\ Total(routed) < MaxQueries
  /\ IF Decision(q) = "workflow"
       THEN /\ routed' = Count(routed, Decision(q))
            /\ phase' = "streaming"
            /\ Begin(3)
            /\ UNCHANGED solved
       ELSE /\ routed' = Count(Count(routed, Decision(q)), Decision(q))
            /\ solved' = Count(solved, Decision(q))
            /\ UNCHANGED <<phase, wfVars>>
  /\ UNCHANGED <<trajectories, returned>>

Ask == \E q \in Asked : Solve(q) \/ Stream(q)

Step == phase # "idle" /\ WfNext /\ UNCHANGED <<phase, routed, solved,
                                                trajectories, returned>>

\* run's result, as the decorator collects it: no transition is ever added, and
\* there may be no answer.
Trajectory == [success |-> status = "completed", final_answer |-> answered]

\* Mutant: the buffer drops the trajectory it was just given.
CollectOldest(t) ==
  IF Len(trajectories) >= BufferSize THEN trajectories
  ELSE Append(trajectories, t)

\* end_trajectory: appended, and the oldest dropped when there are too many.
Collect(t) ==
  IF Len(trajectories) + 1 > BufferSize THEN Tail(Append(trajectories, t))
  ELSE Append(trajectories, t)

\* The state record of a run goes with it.
Discard ==
  /\ status' = "none"
  /\ planned' = FALSE
  /\ current' = 0
  /\ results' = << >>
  /\ errorCount' = 0
  /\ maxRetries' = 1
  /\ answered' = FALSE
  /\ steps' = 0

\* Mutant: the solver waits for an answer.
ReturnAnswer ==
  /\ phase = "solving"
  /\ status = "completed"
  /\ trajectories' = Collect(Trajectory)
  /\ returned' = Append(returned, Trajectory)
  /\ phase' = "idle"
  /\ Discard
  /\ UNCHANGED <<routed, solved>>

\* The run returns; solve gives the answer, or an apology with the status.
Return ==
  /\ phase = "solving"
  /\ Ended
  /\ trajectories' = Collect(Trajectory)
  /\ returned' = Append(returned, Trajectory)
  /\ phase' = "idle"
  /\ Discard
  /\ UNCHANGED <<routed, solved>>

\* The stream is used up, or its consumer drops it.
EndStream ==
  /\ phase = "streaming"
  /\ phase' = "idle"
  /\ Discard
  /\ UNCHANGED <<routed, solved, trajectories, returned>>

\* reset_stats, of the solver and its router.
ResetStats ==
  /\ phase = "idle"
  /\ Total(routed) > 0
  /\ routed' = NoStats
  /\ solved' = NoStats
  /\ UNCHANGED <<wfVars, phase, trajectories, returned>>

Next == Ask \/ Step \/ Return \/ EndStream \/ ResetStats

Spec == Init /\ [][Next]_vars
FairSpec == Spec /\ WF_vars(Step) /\ WF_vars(Return)
-----------------------------------------------------------------------------
Rank(q) == CASE Decision(q) = "direct_turbo" -> 0
             [] Decision(q) = "direct_max" -> 1
             [] Decision(q) = "workflow" -> 2

\* r is q with text after it or with earlier rounds: it is no shorter, has the
\* keywords of q, and of the types the first that is found in it is that of q
\* or one that is looked for before.
TypeOrder == [proof |-> 1, multi_step |-> 2, code_generation |-> 3, reasoning |-> 4,
              analysis |-> 5, calculation |-> 6, simple_qa |-> 7]
TokenOrder == [short |-> 1, half |-> 2, threshold |-> 3, long |-> 4, double |-> 5]
Extends(r, q) ==
  /\ TypeOrder[r.type] <= TypeOrder[q.type]
  /\ TokenOrder[q.tokens] <= TokenOrder[r.tokens]
  /\ q.keywords <= r.keywords
  /\ q.history <= r.history

\* What is added to a query, text at its end or rounds of history, sends it to
\* no weaker a model, unless it makes a reasoning question of an analysis.
RouteMonotone ==
  \A q, r \in Queries :
    Extends(r, q) => \/ Rank(q) <= Rank(r)
                     \/ q.type = "analysis" /\ r.type = "reasoning"

\* The buffer holds the latest runs that solve returned, in order, and only
\* the completed ones as successes with an answer to train on.
LatestCollected ==
  /\ LET n == Len(returned)
         kept == IF n < BufferSize THEN n ELSE BufferSize
     IN  trajectories = SubSeq(returned, n - kept + 1, n)
  /\ \A i \in DOMAIN trajectories :
       trajectories[i].success = trajectories[i].final_answer

\* A run that was started returns.
SolveReturns == phase = "solving" ~> phase = "idle"

\* What the solver gives its caller and leaves to train on: a run ends with an
\* answer over reviewed results or for a failure, the step limit decides
\* nothing, the collector has the latest runs, and a query that is added to is
\* sent to no weaker a model, but for an analysis that becomes reasoning.
SolverIsSound ==
  AnswerIsReviewed /\ StepLimitSuffices /\ LatestCollected /\ RouteMonotone
=============================================================================
