---------------------------- MODULE WorkflowGraph ---------------------------
(***************************************************************************)
(* The first version's workflow (src/graph): a planner, a tool caller, a   *)
(* critic and an executor take turns on one state record until it is       *)
(* completed or failed, or twenty steps are used up.  LangGraph is not a   *)
(* dependency of the project, so the loop of _run_simple and run_stream is *)
(* the workflow; the LangGraph wiring is left out.                         *)
(***************************************************************************)
EXTENDS Integers, Sequences

CONSTANTS
  Subtasks,     \* the steps of a plan: five in every template
  StepLimit,    \* max_steps of the loop
  RetryLimits,  \* max_retries a caller may ask for
  Registered    \* what the results of the registered tools may say

\* What the critic's patterns find in the text of a result.
ResultKinds == {"plain", "success", "error", "empty"}

ASSUME WorkflowAssumption ==
  /\ {Subtasks, StepLimit} \subseteq Nat \ {0}
  /\ RetryLimits \subseteq Nat \ {0}
  /\ Registered \subseteq ResultKinds

VARIABLES
  status,      \* state["status"], "none" before a run
  planned,     \* state["plan"] is there, with its subtasks
  current,     \* current_subtask_index
  results,     \* tool_results, as their kinds
  errorCount,  \* error_count
  maxRetries,  \* max_retries of the run
  answered,    \* state["answer"] is there
  steps        \* step_count of the loop

wfVars == <<status, planned, current, results, errorCount, maxRetries,
            answered, steps>>
-----------------------------------------------------------------------------
AllSubtasksCompleted == current >= IF planned THEN Subtasks ELSE 0
ShouldRetry == errorCount < maxRetries
Ended == status \in {"completed", "failed"} \/ steps >= StepLimit

ContainsError(rs) == \E i \in DOMAIN rs : rs[i] = "error"
ContainsSuccess(rs) == \E i \in DOMAIN rs : rs[i] = "success"

\* _check_completeness and _check_consistency.
Complete(rs) ==
  Len(rs) >= Subtasks /\ \A i \in DOMAIN rs : rs[i] # "empty"
Consistent(rs) == ~(ContainsSuccess(rs) /\ ContainsError(rs))

\* Mutant: the critic looks at the last result, as it does between subtasks.
ReviewLast(rs) ==
  CASE rs # << >> /\ rs[Len(rs)] = "error" -> "rejected"
    [] OTHER -> "approved"

\* _review_final_result.  Between subtasks the critic is never called.
Review(rs) ==
  IF ContainsError(rs) THEN "rejected"
  ELSE IF ~Complete(rs) \/ ~Consistent(rs) THEN "needs_improvement"
  ELSE "approved"
-----------------------------------------------------------------------------
WfInit ==
  /\ status = "none"
  /\ planned = FALSE
  /\ current = 0
  /\ results = << >>
  /\ errorCount = 0
  /\ maxRetries = 1
  /\ answered = FALSE
  /\ steps = 0

\* create_initial_state, at the beginning of a run.
Begin(retries) ==
  /\ status' = "planning"
  /\ planned' = FALSE
  /\ current' = 0
  /\ results' = << >>
  /\ errorCount' = 0
  /\ maxRetries' = retries
  /\ answered' = FALSE
  /\ steps' = 0

\* The planner keeps a plan unless errors are counted; the results of an
\* earlier plan stay.
Plan ==
  /\ ~Ended
  /\ status = "planning"
  /\ steps' = steps + 1
  /\ status' = "executing"
  /\ IF planned /\ errorCount = 0
       THEN UNCHANGED <<planned, current, errorCount>>
       ELSE planned' = TRUE /\ current' = 0 /\ errorCount' = 0
  /\ UNCHANGED <<results, maxRetries, answered>>

\* The calculator, the logic checker and the analyzer answer every subtask of
\* a plan with a text; a registered tool of the same name takes their place.
BuiltinResults == {"plain", "success"}

\* One tool call: its result is recorded and the next subtask is up.
CallTool ==
  /\ ~Ended
  /\ status = "executing"
  /\ ~AllSubtasksCompleted
  /\ \E r \in BuiltinResults \cup Registered : results' = Append(results, r)
  /\ current' = current + 1
  /\ errorCount' = 0
  /\ steps' = steps + 1
  /\ UNCHANGED <<status, planned, maxRetries, answered>>

\* Mutant: a tool may fail once more than its limit.
ToolRaisesPast ==
  /\ ~Ended
  /\ status = "executing"
  /\ ~AllSubtasksCompleted
  /\ errorCount' = errorCount + 1
  /\ status' = IF errorCount' > maxRetries THEN "failed" ELSE "executing"
  /\ steps' = steps + 1
  /\ UNCHANGED <<planned, current, results, maxRetries, answered>>

\* The tool raises: the subtask is tried again, max_retries times in all.
ToolRaises ==
  /\ ~Ended
  /\ status = "executing"
  /\ ~AllSubtasksCompleted
  /\ errorCount' = errorCount + 1
  /\ status' = IF errorCount' >= maxRetries THEN "failed" ELSE "executing"
  /\ steps' = steps + 1
  /\ UNCHANGED <<planned, current, results, maxRetries, answered>>

\* The critic; "rejected" goes back to the planner, which has a plan.
Criticise ==
  /\ ~Ended
  /\ status = "executing"
  /\ AllSubtasksCompleted
  /\ status' = CASE Review(results) = "approved" -> "reviewing"
                 [] Review(results) = "needs_improvement" -> "executing"
                 [] OTHER -> IF ShouldRetry THEN "planning" ELSE "failed"
  /\ steps' = steps + 1
  /\ UNCHANGED <<planned, current, results, errorCount, maxRetries, answered>>

\* The executor writes the answer.
Execute ==
  /\ ~Ended
  /\ status = "reviewing"
  /\ answered' = TRUE
  /\ status' = "completed"
  /\ steps' = steps + 1
  /\ UNCHANGED <<planned, current, results, errorCount, maxRetries>>

WfNext == Plan \/ CallTool \/ ToolRaises \/ Criticise \/ Execute
-----------------------------------------------------------------------------
\* An answer is given only over a full set of results, none of which is empty
\* or says that something went wrong, whatever the tools did before.
AnswerIsReviewed ==
  answered => /\ Len(results) >= Subtasks
              /\ \A i \in DOMAIN results : results[i] \notin {"error", "empty"}

\* The steps of the loop are enough: with tools whose results say something and
\* report no error, a run that is over has an answer, or gave up on a subtask
\* that failed as often as it may.
StepLimitSuffices ==
  Ended /\ (\A i \in DOMAIN results : results[i] \notin {"error", "empty"})
    => answered \/ errorCount = maxRetries
=============================================================================
