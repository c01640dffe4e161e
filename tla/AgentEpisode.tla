---------------------------- MODULE AgentEpisode ----------------------------
(***************************************************************************)
(* One episode of the single-policy agent: AgentLoop.run (agent/loop.py)   *)
(* driving a ProductMathEnv (agent/environment.py) whose immutable         *)
(* AgentState (agent/state.py) is replaced after every transition, with    *)
(* the tool calls that ToolRegistry.execute (tools/registry.py) answers.   *)
(*                                                                         *)
(* The loop is one asyncio task.  It gives up control at two awaits only,  *)
(* the model call and the tool call, so an action is the code between two  *)
(* awaits: everything it records, the step, the observation and the        *)
(* journal entry happen together or, if the await raises, not at all.      *)
(***************************************************************************)
EXTENDS Integers, Sequences, FiniteSets

CONSTANTS
  MaxSteps,          \* budget.max_steps
  MaxToolCalls,      \* budget.max_tool_calls
  MaxPythonSeconds,  \* budget.max_python_seconds, in whole seconds
  Python,            \* the tool name "python", the only one charged by time
  ToolNames,         \* names the model may call, registered or not
  Registered,        \* names the registry knows
  Answers,           \* texts of a final answer
  TokenCounts,       \* generated_tokens one turn may report
  RunTimes,          \* execution_time values the sandbox may report
  Delays,            \* milliseconds that may pass during one generation
  None               \* Python's None

ASSUME BudgetAssumption ==
  /\ MaxSteps \in Nat \ {0}
  /\ MaxToolCalls \in Nat
  /\ MaxPythonSeconds \in Nat

VARIABLES
  pc,                  \* where the task is: see Stages
  usage,               \* state.usage
  events,              \* state.events
  termination_reason,  \* state.termination_reason
  final_answer,        \* state.final_answer
  pending,             \* the call whose await is open; step's local `state`
  messages,            \* the conversation run() sends to the model
  journal,             \* ConversationJournal.snapshots
  offset,              \* clock_offset_ms
  elapsed,             \* milliseconds since `started`
  cancelled,           \* the cancellation event
  requested            \* history: calls that ever entered registry.execute

envVars == <<usage, events, termination_reason, final_answer>>
vars == <<pc, envVars, pending, messages, journal, offset, elapsed, cancelled,
          requested>>
-----------------------------------------------------------------------------
(* Data.                                                                   *)

Stages == {"turn",        \* at the head of the while loop
           "generating",  \* awaiting model.generate
           "executing",   \* awaiting registry.execute
           "done",        \* run() returned a Trajectory
           "abandoned"}   \* an exception left run()

TerminationReason == {"final", "max_steps", "python_time_budget",
                      "model_error", "cancelled"}
EventKind == {"MODEL_OUTPUT", "INVALID_ACTION", "TOOL_CALL", "TOOL_RESULT",
              "FINAL", "TERMINATION"}
StepErrorCode == {"action_parse_error", "tool_call_budget_exhausted",
                  "python_time_budget_exhausted"}
ToolErrorCode == {"unknown_tool", "invalid_arguments", "timeout",
                  "execution_error", "unavailable"}
ResultCode == ToolErrorCode \cup {"ok"}

ASSUME InputAssumption ==
  /\ Python \in ToolNames
  /\ Registered \subseteq ToolNames
  /\ TokenCounts \subseteq Nat
  /\ RunTimes \subseteq Nat
  /\ Delays \subseteq Nat
  /\ None \notin ToolNames \cup Answers \cup TerminationReason \cup
                StepErrorCode \cup ResultCode \cup Nat

Usage == [steps : Nat, tool_calls : Nat, python_seconds : Nat,
          generated_tokens : Nat, invalid_actions : Nat]
NoUsage == [steps |-> 0, tool_calls |-> 0, python_seconds |-> 0,
            generated_tokens |-> 0, invalid_actions |-> 0]

\* Mutant: a refused turn is free.
WithUsageFreeRefusal(u, steps, tool_calls, python_seconds, tokens, invalid) ==
  [steps |-> u.steps + steps - invalid,
   tool_calls |-> u.tool_calls + tool_calls,
   python_seconds |-> u.python_seconds + python_seconds,
   generated_tokens |-> u.generated_tokens + tokens,
   invalid_actions |-> u.invalid_actions + invalid]

\* AgentState.with_usage.
WithUsage(u, steps, tool_calls, python_seconds, tokens, invalid) ==
  [steps |-> u.steps + steps,
   tool_calls |-> u.tool_calls + tool_calls,
   python_seconds |-> u.python_seconds + python_seconds,
   generated_tokens |-> u.generated_tokens + tokens,
   invalid_actions |-> u.invalid_actions + invalid]

\* An event's sequence number is its index.  `subject` is the tool of a call
\* or a result and the answer of a FINAL; `code` the outcome of a result, the
\* error_code of an invalid action; `amount` the tokens of a model output and
\* the execution_time in the metadata of a result (None: no such key).
Event(kind, ms, subject, code, amount) ==
  [kind |-> kind, ms |-> ms, subject |-> subject, code |-> code,
   amount |-> amount]
Events == [kind : EventKind, ms : Nat,
           subject : ToolNames \cup Answers \cup {None},
           code : StepErrorCode \cup ResultCode \cup {None},
           amount : Nat \cup {None}]

\* What a message says: the prompt, a turn of the model, or an observation,
\* which is told apart by the outcome it reports, or by what an arm of the
\* study made of it (PrefixResume).
Content == {"instructions", "problem", "turn", "hinted", "marker"} \cup
           StepErrorCode \cup ResultCode
Message == [role : {"system", "user", "assistant", "tool"},
            content : Content]
Prompt == << [role |-> "system", content |-> "instructions"],
             [role |-> "user", content |-> "problem"] >>
Turn == [role |-> "assistant", content |-> "turn"]
Observation(kind) == [role |-> "tool", content |-> kind]

NoCall == [name |-> None, ms |-> 0]
Call == [name : ToolNames \cup {None}, ms : Nat]

Snapshot == [messages : Seq(Message), usage : Usage, events : Seq(Events),
             terminated : BOOLEAN]

\* What registry.execute may return for a call of tool n: a result code and
\* the execution_time of its metadata.  Only the sandbox answers with a time;
\* a transport fault, a malformed response or an unmapped name carries none.
ToolResults(n) ==
  IF n \notin Registered
  THEN {<<"unknown_tool", None>>}
  ELSE {<<"invalid_arguments", None>>} \cup
       ({"ok", "timeout", "execution_error"} \X
          (IF n = Python THEN RunTimes \cup {None} ELSE {None})) \cup
       {<<"unavailable", None>>}

\* Mutant: a result without a time is charged one second.
PythonSecondsGuessed(n, time) ==
  IF n = Python THEN IF time = None THEN 1 ELSE time ELSE 0

\* _python_seconds: only Python is charged, and only for a reported time.
PythonSeconds(n, time) == IF n = Python /\ time # None THEN time ELSE 0

\* Mutants: a budget is exhausted only when exceeded; the order of the two
\* tests is swapped.
BudgetReasonExceeded(u) ==
  IF u.steps > MaxSteps THEN "max_steps"
  ELSE IF u.python_seconds > 0 /\ u.python_seconds >= MaxPythonSeconds
  THEN "python_time_budget" ELSE None
BudgetReasonSwapped(u) ==
  IF u.python_seconds > 0 /\ u.python_seconds >= MaxPythonSeconds
  THEN "python_time_budget"
  ELSE IF u.steps >= MaxSteps THEN "max_steps" ELSE None

\* AgentState.budget_reason
BudgetReason(u) ==
  IF u.steps >= MaxSteps THEN "max_steps"
  ELSE IF u.python_seconds > 0 /\ u.python_seconds >= MaxPythonSeconds
  THEN "python_time_budget"
  ELSE None
-----------------------------------------------------------------------------
(* What every turn does when model.generate returns: record_model_output   *)
(* and the assistant message, before the action it carries is stepped.     *)

\* Mutants: time is counted from the turn, not the run; the output is not
\* recorded; the assistant message is not sent back.
NowInTurn(d) == d
RecordedNot(tokens, d) == events
SaidNot == messages

Now(d) == offset + elapsed + d
Recorded(tokens, d) ==
  Append(events, Event("MODEL_OUTPUT", Now(d), None, None, tokens))
Spent(tokens) == WithUsage(usage, 0, 0, 0, tokens, 0)
Said == Append(messages, Turn)

\* Mutant: `terminated` is read before the step.
StepSnapshotEarly(convo, evs, u, reason) ==
  [messages |-> convo, usage |-> u, events |-> evs,
   terminated |-> termination_reason # None]

\* What ConversationJournal records after a step.
StepSnapshot(convo, evs, u, reason) ==
  [messages |-> convo, usage |-> u, events |-> evs,
   terminated |-> reason # None]

\* The end of ProductMathEnv.step and of the loop body: _store, the
\* observation for the model unless the episode is over, the journal entry.
Store(convo, evs, u, reason, answer, observation) ==
  LET next == IF observation # None /\ reason = None
              THEN Append(convo, Observation(observation)) ELSE convo
  IN  /\ messages' = next
      /\ events' = evs
      /\ usage' = u
      /\ termination_reason' = reason
      /\ final_answer' = answer
      /\ journal' = Append(journal, StepSnapshot(next, evs, u, reason))
      /\ pc' = IF reason = None THEN "turn" ELSE "done"

\* ProductMathEnv.abort, and the loop's break.
Abort(reason) ==
  /\ termination_reason' = reason
  /\ pc' = "done"
  /\ UNCHANGED <<usage, final_answer, pending, messages, journal, offset,
                 cancelled, requested>>
-----------------------------------------------------------------------------
(* The head of the loop: the only place cancellation is looked at.         *)

\* Mutant: `continue` instead of `break`.
StopCancelledContinue ==
  /\ pc = "turn"
  /\ cancelled
  /\ UNCHANGED vars

StopCancelled ==
  /\ pc = "turn"
  /\ cancelled
  /\ Abort("cancelled")
  /\ UNCHANGED <<events, elapsed>>

Generate ==
  /\ pc = "turn"
  /\ ~cancelled
  /\ pc' = "generating"
  /\ UNCHANGED <<envVars, pending, messages, journal, offset, elapsed,
                 cancelled, requested>>

\* model.generate raised: record_model_error, then abort.
ModelFails(d) ==
  /\ pc = "generating"
  /\ events' = Append(events,
                      Event("TERMINATION", Now(d), None, None, None))
  /\ elapsed' = elapsed + d
  /\ Abort("model_error")

\* Mutant: the budget is tested before the submitted answer.
SubmitFinalBudgeted(tokens, d, answer) ==
  /\ pc = "generating"
  /\ LET u == WithUsage(usage, 1, 0, 0, tokens, 0)
     IN  Store(Said,
               Append(Recorded(tokens, d),
                      Event("FINAL", Now(d), answer, None, None)),
               u, IF BudgetReason(u) = None THEN "final" ELSE BudgetReason(u),
               answer, None)
  /\ elapsed' = elapsed + d
  /\ UNCHANGED <<pending, offset, cancelled, requested>>

\* The turn is a FinalAction: FINAL ends the episode whatever is left.
SubmitFinal(tokens, d, answer) ==
  /\ pc = "generating"
  /\ Store(Said,
           Append(Recorded(tokens, d),
                  Event("FINAL", Now(d), answer, None, None)),
           WithUsage(usage, 1, 0, 0, tokens, 0),
           "final", answer, None)
  /\ elapsed' = elapsed + d
  /\ UNCHANGED <<pending, offset, cancelled, requested>>

\* Why a turn that submits nothing is refused: it parsed to no action, or it
\* is a call the budget forbids.  The tool-call budget is tested first.
Refused(code) ==
  \/ code = "action_parse_error"
  \/ /\ code = "tool_call_budget_exhausted"
     /\ usage.tool_calls >= MaxToolCalls
  \/ /\ code = "python_time_budget_exhausted"
     /\ usage.tool_calls < MaxToolCalls
     /\ usage.python_seconds >= MaxPythonSeconds

\* ProductMathEnv._invalid: a refused turn costs a step and runs no tool.
RefuseAction(tokens, d, code) ==
  /\ pc = "generating"
  /\ Refused(code)
  /\ LET u == WithUsage(usage, 1, 0, 0, tokens, 1)
     IN  Store(Said,
               Append(Recorded(tokens, d),
                      Event("INVALID_ACTION", Now(d), None, code, None)),
               u, BudgetReason(u), None, code)
  /\ elapsed' = elapsed + d
  /\ UNCHANGED <<pending, offset, cancelled, requested>>

\* Mutant: one call more than the budget.
PermittedOneMore(name) ==
  /\ usage.tool_calls <= MaxToolCalls
  /\ name = Python => usage.python_seconds < MaxPythonSeconds

\* What ProductMathEnv.step lets through to the registry.
Permitted(name) ==
  /\ usage.tool_calls < MaxToolCalls
  /\ name = Python => usage.python_seconds < MaxPythonSeconds

\* A permitted call.  The environment keeps only the model output: the
\* TOOL_CALL event and its charges live in step's local copy of the state
\* until the tool answers.
CallTool(tokens, d, name) ==
  /\ pc = "generating"
  /\ Permitted(name)
  /\ events' = Recorded(tokens, d)
  /\ usage' = Spent(tokens)
  /\ messages' = Said
  /\ pending' = [name |-> name, ms |-> Now(d)]
  /\ requested' = requested + 1
  /\ elapsed' = elapsed + d
  /\ pc' = "executing"
  /\ UNCHANGED <<termination_reason, final_answer, journal, offset, cancelled>>

\* The registry answered: the call and its result enter the state at the
\* time of the model output, and an exhausted budget ends the episode.
ToolReturns(result) ==
  LET name == pending.name
      code == result[1]
      time == result[2]
      u == WithUsage(usage, 1, 1, PythonSeconds(name, time), 0, 0)
      call == Event("TOOL_CALL", pending.ms, name, None, None)
  IN  /\ pc = "executing"
      /\ result \in ToolResults(name)
      /\ Store(messages,
               Append(Append(events, call),
                      Event("TOOL_RESULT", pending.ms, name, code, time)),
               u, BudgetReason(u), None, code)
      /\ pending' = NoCall
      /\ UNCHANGED <<offset, elapsed, cancelled, requested>>

\* An exception nothing maps leaves run(): the task is cancelled at either
\* await, or the tool raises what the registry does not turn into a result.
\* step's local state is lost with it.
Abandon ==
  /\ pc \in {"generating", "executing"}
  /\ pc' = "abandoned"
  /\ UNCHANGED <<envVars, pending, messages, journal, offset, elapsed,
                 cancelled, requested>>

\* The caller sets the cancellation event; no await has to notice.
Cancel ==
  /\ pc \notin {"done", "abandoned"}
  /\ ~cancelled
  /\ cancelled' = TRUE
  /\ UNCHANGED <<pc, envVars, pending, messages, journal, offset, elapsed,
                 requested>>
-----------------------------------------------------------------------------
Init ==
  /\ pc = "turn"
  /\ usage = NoUsage
  /\ events = << >>
  /\ termination_reason = None
  /\ final_answer = None
  /\ pending = NoCall
  /\ messages = Prompt
  /\ journal = << >>
  /\ offset = 0
  /\ elapsed = 0
  /\ cancelled = FALSE
  /\ requested = 0

ModelReturns ==
  \E d \in Delays :
    \/ ModelFails(d)
    \/ \E tokens \in TokenCounts :
         \/ \E answer \in Answers : SubmitFinal(tokens, d, answer)
         \/ \E code \in StepErrorCode : RefuseAction(tokens, d, code)
         \/ \E name \in ToolNames : CallTool(tokens, d, name)

ToolAnswers == \E result \in ToolResults(pending.name) : ToolReturns(result)

Work == StopCancelled \/ Generate \/ ModelReturns \/ ToolAnswers \/ Abandon

\* run() has returned or raised; the task takes no further step.
Finished == pc \in {"done", "abandoned"} /\ UNCHANGED vars

Next == Work \/ Cancel \/ Finished

Spec == Init /\ [][Next]_vars

\* The event loop runs a ready task, and both awaits end: the model client
\* and the sandbox have deadlines and the SymPy process is joined with one.
\* Nobody is obliged to cancel.
FairSpec == Spec /\ WF_vars(Work)
-----------------------------------------------------------------------------
(* Invariants.                                                             *)

TypeOK ==
  /\ pc \in Stages
  /\ usage \in Usage
  /\ events \in Seq(Events)
  /\ termination_reason \in TerminationReason \cup {None}
  /\ final_answer \in Answers \cup {None}
  /\ pending \in Call
  /\ messages \in Seq(Message)
  /\ journal \in Seq(Snapshot)
  /\ offset \in Nat
  /\ elapsed \in Nat
  /\ cancelled \in BOOLEAN
  /\ requested \in Nat

\* Where the task may be, against the state it works on: a reason exactly when
\* run() returned, an open call only while it is awaited or after an exception
\* lost it.  The counters' invariants rest on this one.
StagesConsistent ==
  /\ termination_reason # None <=> pc = "done"
  /\ pending # NoCall => pc \in {"executing", "abandoned"}
  /\ pc = "executing" =>
       /\ pending.name \in ToolNames
       /\ usage.tool_calls < MaxToolCalls

Count(evs, kinds) == Cardinality({i \in DOMAIN evs : evs[i].kind \in kinds})

\* The counters charged to the policy are exactly what the stored events
\* account for, in every state, the ones an exception leaves behind included:
\* a step per call, refusal and final answer, a call per TOOL_CALL
\* (AgentState.with_usage and append_event are separate calls in step).
UsageMatchesEvents ==
  /\ usage.steps = Count(events, {"TOOL_CALL", "INVALID_ACTION", "FINAL"})
  /\ usage.tool_calls = Count(events, {"TOOL_CALL"})
  /\ usage.invalid_actions = Count(events, {"INVALID_ACTION"})

\* No episode spends more steps or calls than its budget, and one that still
\* runs has a step left and has not used up its Python time: every transition
\* that exhausts the budget ended it (_terminate_if_exhausted).
BudgetRespected ==
  /\ usage.steps <= MaxSteps
  /\ usage.tool_calls <= MaxToolCalls
  /\ termination_reason = None =>
       /\ usage.steps < MaxSteps
       /\ usage.python_seconds > 0 => usage.python_seconds < MaxPythonSeconds

\* Every call that entered the registry is charged once it has answered, the
\* open or lost one being the only exception, so the tools are entered at most
\* max_tool_calls times, whatever is lost or cancelled on the way.
RequestsCharged ==
  /\ requested = usage.tool_calls + (IF pending = NoCall THEN 0 ELSE 1)
  /\ requested <= MaxToolCalls

\* The books of an episode, in every state it can be left in: the counters are
\* what the trace accounts for, no budget is overdrawn and every entry into
\* the registry is paid for (the separate updates of ProductMathEnv.step).
Accounting ==
  StagesConsistent /\ UsageMatchesEvents /\ BudgetRespected /\ RequestsCharged

\* The answer exists exactly when the episode ended by submitting it, and it
\* is the one the last event shows.
AnswerFromFinal ==
  /\ final_answer # None <=> termination_reason = "final"
  /\ termination_reason = "final" =>
       /\ events # << >>
       /\ events[Len(events)].kind = "FINAL"
       /\ events[Len(events)].subject = final_answer
  /\ Count(events, {"FINAL"}) = IF termination_reason = "final" THEN 1 ELSE 0

\* The environment ends an episode for a budget only when that budget is used
\* up, and says which: steps before Python time, and a zero Python budget
\* disables the tool but never ends an episode (AgentState.budget_reason).
EndJustified ==
  /\ termination_reason = "max_steps" => usage.steps = MaxSteps
  /\ termination_reason = "python_time_budget" =>
       /\ usage.steps < MaxSteps
       /\ usage.python_seconds >= MaxPythonSeconds
       /\ \E i \in DOMAIN events :
            events[i].kind = "TOOL_RESULT" /\ events[i].subject = Python

\* How an episode ended is told by its trace: an answer by its last event, a
\* budget by the counters that reached it (environment.step, budget_reason).
EndingExplained == AnswerFromFinal /\ EndJustified

\* Recorded time never goes back and never runs ahead of the loop's clock, so
\* append_event's monotonicity check cannot raise.
TimeMonotone ==
  /\ \A i, j \in DOMAIN events : i <= j => events[i].ms <= events[j].ms
  /\ \A i \in DOMAIN events : events[i].ms <= offset + elapsed

\* What a turn may leave in the trace after its model output.
Follows(kind) ==
  CASE kind = "MODEL_OUTPUT" -> {"TOOL_CALL", "INVALID_ACTION", "FINAL"}
    [] kind = "TOOL_CALL" -> {"TOOL_RESULT"}
    [] kind \in {"TOOL_RESULT", "INVALID_ACTION"} ->
         {"MODEL_OUTPUT", "TERMINATION"}
    [] OTHER -> {}

\* The trace is a sequence of whole turns: a model output, then its one
\* transition, a call being followed by the result of the same tool.  Only an
\* open or lost call leaves a model output at the end.
TraceGrammar ==
  /\ events # << >> => events[1].kind \in {"MODEL_OUTPUT", "TERMINATION"}
  /\ \A i \in 1 .. Len(events) - 1 :
       /\ events[i + 1].kind \in Follows(events[i].kind)
       /\ events[i].kind = "TOOL_CALL" =>
            events[i + 1].subject = events[i].subject
  /\ pending # NoCall <=>
       events # << >> /\ events[Len(events)].kind = "MODEL_OUTPUT"

\* The model is never asked to continue its own turn: the conversation
\* alternates after the prompt, has one assistant message per recorded model
\* output, and ends on an observation (or the prompt) when a turn starts.
ConversationAlternates ==
  /\ \A i \in 3 .. Len(messages) :
       messages[i].role = IF i % 2 = 1 THEN "assistant" ELSE "tool"
  /\ Count(events, {"MODEL_OUTPUT"}) = (Len(messages) - 1) \div 2
  /\ pc \in {"turn", "generating"} => Len(messages) % 2 = 0

\* A snapshot can be resumed from: it is what the environment and the
\* conversation were right after its step, only the last one may be
\* terminated, and nothing in it is ever taken back.
JournalFaithful ==
  \A k \in DOMAIN journal :
    LET s == journal[k]
    IN  /\ s.events = SubSeq(events, 1, Len(s.events))
        /\ s.messages = SubSeq(messages, 1, Len(s.messages))
        /\ s.usage.steps = Count(s.events,
                                 {"TOOL_CALL", "INVALID_ACTION", "FINAL"})
        /\ s.terminated => k = Len(journal) /\ pc = "done"
        /\ ~s.terminated => s.messages[Len(s.messages)].role = "tool"

\* What a run leaves for others to read: a trace of whole turns in order of
\* time, the conversation the model saw turn for turn, and snapshots that were
\* true when taken (trace, messages and journal are extended by three pieces
\* of code: environment.py, loop.py and ConversationJournal).
TraceFaithful ==
  TraceGrammar /\ TimeMonotone /\ ConversationAlternates /\ JournalFaithful
-----------------------------------------------------------------------------
(* Refinement and liveness.                                                *)

\* The episode seen from outside: charged steps and calls, and one end.
Bounded == INSTANCE BoundedEpisode WITH
  phase <- IF termination_reason # None THEN "ended"
           ELSE IF pc = "abandoned" THEN "lost" ELSE "running",
  steps <- usage.steps,
  calls <- usage.tool_calls,
  answer <- final_answer

\* The loop and the environment implement the abstract bounded episode: each
\* of their steps is one charge, one submission, one stop or invisible.
ImplementsBoundedEpisode == Bounded!Spec

\* Every episode stops: with a reason, or by the exception that abandons it.
EpisodeEnds == <>(pc \in {"done", "abandoned"})
=============================================================================
