---------------------------- MODULE VerlRollout -----------------------------
(***************************************************************************)
(* The vectorised training environment: MathRolloutManager and the         *)
(* VerlMathEnvironmentManager over it (training/verl_environment.py), the  *)
(* reward of a finished trajectory (training/reward_bridge.py,             *)
(* reward/functions.py), and the upstream collector as the code uses it:   *)
(* it sends one action for every row on every step, up to the step limit   *)
(* of its configuration, and remembers which rows were active.             *)
(*                                                                         *)
(* The rows of one step are coroutines under asyncio.gather: each runs to  *)
(* its tool call in order of rows, and the tools answer in any order.      *)
(***************************************************************************)
EXTENDS Integers, Sequences, FiniteSets, SequencesExt

CONSTANTS
  Batches,           \* task ids of a batch, one per row: what reset may get
  MaxSteps,          \* budget.max_steps, and the collector's env.max_steps
  MaxToolCalls,      \* budget.max_tool_calls
  MaxPythonSeconds,  \* budget.max_python_seconds
  RunTimes,          \* execution_time values the sandbox may report
  Config,            \* RewardConfig, its weights in hundredths
  None

ASSUME RolloutAssumption ==
  /\ \A b \in Batches : b \in Seq(STRING) /\ b # << >>
  /\ MaxSteps \in Nat \ {0}
  /\ MaxToolCalls \in Nat /\ MaxPythonSeconds \in Nat
  /\ RunTimes \subseteq Nat
  /\ Config \in [tool_weight : Nat, python_weight : Nat, invalid_weight : Nat,
                 invalid_cap : Nat, tool_success_bonus : Nat,
                 clip_min : Int, clip_max : Int]
  /\ None \notin {"right", "wrong", "final", "max_steps", "python_time_budget"}

VARIABLES
  batch,         \* the tasks of the rows
  offered,       \* observations reset returned, one for each row
  environments,  \* env ids in the order of the dictionary
  env,           \* each environment's state
  conversations, \* the roles of each environment's messages after the prompt
  terminal,      \* _terminal_infos: the reported `won`, or None
  rows,          \* where each row's coroutine is in the current step
  transitions,   \* what the coroutines returned in the current step
  step_index,
  collected,     \* the collector's records of each row, one for each step
  phase          \* "reset", "between" steps, "stepping", "finished", "raised"

setup == <<batch, offered, environments>>
rolloutVars == <<setup, env, conversations, terminal, rows, transitions, step_index,
          collected, phase>>
-----------------------------------------------------------------------------
(* One environment, as its owner sees it.                                  *)

\* `final` is the verdict on a submitted answer: "right" when the verifier
\* says CORRECT, "wrong" for every other status.
NewEnv == [steps |-> 0, tool_calls |-> 0, python_seconds |-> 0,
           invalid_actions |-> 0, successes |-> 0, final |-> None,
           reason |-> None]
Terminated(e) == e.reason # None

\* AgentState.budget_reason, after every step that is not FINAL.
Exhausted(e) ==
  [e EXCEPT !.reason =
     IF e.steps >= MaxSteps THEN "max_steps"
     ELSE IF e.python_seconds > 0 /\ e.python_seconds >= MaxPythonSeconds
     THEN "python_time_budget" ELSE None]

Answer(e, verdict) ==
  [e EXCEPT !.steps = @ + 1, !.final = verdict, !.reason = "final"]

\* ProductMathEnv._invalid: no action, or a call the budget forbids.
Refuse(e) ==
  Exhausted([e EXCEPT !.steps = @ + 1, !.invalid_actions = @ + 1])

Permitted(e, tool) ==
  /\ e.tool_calls < MaxToolCalls
  /\ tool = "python" => e.python_seconds < MaxPythonSeconds

\* A call that ran, whether it succeeded and its charged time.
Called(e, ok, seconds) ==
  Exhausted([e EXCEPT !.steps = @ + 1, !.tool_calls = @ + 1,
                      !.python_seconds = @ + seconds,
                      !.successes = IF ok THEN @ + 1 ELSE @])
-----------------------------------------------------------------------------
(* compute_reward, in units of 1 / (100 * Unit), so that the quotients of  *)
(* the two costs are whole.                                                *)

AtLeastOne(n) == IF n = 0 THEN 1 ELSE n
Unit == AtLeastOne(MaxToolCalls) * AtLeastOne(MaxPythonSeconds)
Least(a, b) == IF a <= b THEN a ELSE b
Most(a, b) == IF a >= b THEN a ELSE b
Clip(total) == Least(Most(total, Config.clip_min * Unit), Config.clip_max * Unit)

\* _cost, of a correct trajectory.
Cost(used, limit, weight) ==
  IF limit = 0 THEN 0 ELSE weight * used * (Unit \div limit)

\* Mutant: the bonus is read off the usage counter.
SuccessBonusUsage(e) ==
  IF e.tool_calls > 0 THEN Config.tool_success_bonus * Unit ELSE 0

SuccessBonus(e) ==
  IF e.successes > 0 THEN Config.tool_success_bonus * Unit ELSE 0

Penalty(e) ==
  Config.invalid_weight * Least(e.invalid_actions, Config.invalid_cap) * Unit

Correct(e) == e.final = "right"

Reward(e) ==
  Clip((IF Correct(e)
        THEN 100 * Unit - Cost(e.tool_calls, MaxToolCalls, Config.tool_weight)
                        - Cost(e.python_seconds, MaxPythonSeconds,
                               Config.python_weight)
        ELSE 0)
       - Penalty(e) + SuccessBonus(e))

\* Mutant: a rollout without an answer has no verdict and skips the reward.
PayVerdictOnly(e) == IF Terminated(e) /\ e.final # None THEN Reward(e) ELSE 0

\* What the row's transition pays: evaluate() gives every terminated rollout
\* a verdict, an invalid prediction when it submitted no answer.
Pay(e) == IF Terminated(e) THEN Reward(e) ELSE 0
-----------------------------------------------------------------------------
(* reset.                                                                  *)

\* An env id: the task, the sample index 0 and, for a repeated row, a suffix.
\* Mutant: repeated rows share an id.
EnvIdsBare(b) ==
  FoldLeft(LAMBDA ids, task :
            IF <<task, 1>> \in Range(ids) THEN ids
            ELSE Append(ids, <<task, 1>>), << >>, b)

\* The while loop: the first suffix that makes the id new (1: no suffix).
NextId(ids, task) ==
  LET free(n) == <<task, n>> \notin Range(ids)
      suffix == CHOOSE n \in 1..(Len(ids) + 1) :
                  free(n) /\ \A m \in 1..(n - 1) : ~free(m)
  IN  Append(ids, <<task, suffix>>)

EnvIds(b) == FoldLeft(NextId, << >>, b)

rolloutInit ==
  /\ batch = << >>
  /\ offered = 0
  /\ environments = << >>
  /\ env = << >>
  /\ conversations = << >>
  /\ terminal = << >>
  /\ rows = << >>
  /\ transitions = << >>
  /\ step_index = 0
  /\ collected = << >>
  /\ phase = "reset"

Each(ids, value) == [i \in DOMAIN ids |-> value]

Reset(b) ==
  /\ phase = "reset"
  /\ batch' = b
  /\ offered' = Len(b)
  /\ environments' = EnvIds(b)
  /\ LET ids == EnvIds(b)
     IN  /\ env' = Each(ids, NewEnv)
         /\ conversations' = Each(ids, << >>)
         /\ terminal' = Each(ids, None)
         /\ rows' = Each(ids, "done")
         /\ transitions' = Each(ids, None)
         /\ collected' = Each(ids, << >>)
  /\ step_index' = 0
  /\ phase' = "between"
-----------------------------------------------------------------------------
(* step.                                                                   *)

Rows == DOMAIN environments

\* The collector goes on while a row is active and its own limit allows.
StepBegin ==
  /\ phase = "between"
  /\ step_index < MaxSteps
  /\ \E i \in Rows : ~Terminated(env[i])
  /\ offered = Len(environments)
  /\ step_index' = step_index + 1
  /\ rows' = Each(rows, "ready")
  /\ transitions' = Each(rows, None)
  /\ phase' = "stepping"
  /\ UNCHANGED <<setup, env, conversations, terminal, collected>>

\* gather starts the coroutines in the order of the rows.
Turn(i) ==
  /\ phase = "stepping"
  /\ i \in Rows
  /\ rows[i] = "ready"
  /\ \A j \in Rows : rows[j] = "ready" => i <= j

Transition(reward, done, won) == [reward |-> reward, done |-> done, won |-> won]

\* Mutant: a terminated row repeats its reward with its terminal info.
NoOpPaid(i) ==
  /\ Turn(i)
  /\ Terminated(env[i])
  /\ transitions' = [transitions EXCEPT ![i] =
                       Transition(Pay(env[i]), TRUE, terminal[i])]
  /\ rows' = [rows EXCEPT ![i] = "done"]
  /\ UNCHANGED <<setup, env, conversations, terminal, step_index, collected,
                 phase>>
\* A terminated row: nothing is recorded, nothing is paid.
NoOp(i) ==
  /\ Turn(i)
  /\ Terminated(env[i])
  /\ transitions' = [transitions EXCEPT ![i] =
                       Transition(0, TRUE, terminal[i])]
  /\ rows' = [rows EXCEPT ![i] = "done"]
  /\ UNCHANGED <<setup, env, conversations, terminal, step_index, collected,
                 phase>>

\* The end of `one`, with the environment's new state: an observation is
\* there for every step but FINAL, the terminating ones included.
EndRow(i, e, said) ==
  /\ env' = [env EXCEPT ![i] = e]
  /\ conversations' = [conversations EXCEPT ![i] =
                         @ \o said \o (IF e.reason = "final" THEN << >>
                                       ELSE <<"tool">>)]
  /\ terminal' = [terminal EXCEPT ![i] =
                    IF Terminated(e) THEN Correct(e) ELSE @]
  /\ transitions' = [transitions EXCEPT ![i] =
                       Transition(Pay(e), Terminated(e), Correct(e))]
  /\ rows' = [rows EXCEPT ![i] = "done"]
  /\ UNCHANGED <<setup, step_index, collected, phase>>

RowAnswers(i, verdict) ==
  /\ Turn(i)
  /\ ~Terminated(env[i])
  /\ EndRow(i, Answer(env[i], verdict), <<"assistant">>)

RowRefused(i) ==
  /\ Turn(i)
  /\ ~Terminated(env[i])
  /\ EndRow(i, Refuse(env[i]), <<"assistant">>)

\* The output is recorded, and the coroutine waits for the tool.
RowCalls(i, tool) ==
  /\ Turn(i)
  /\ ~Terminated(env[i])
  /\ Permitted(env[i], tool)
  /\ conversations' = [conversations EXCEPT ![i] = Append(@, "assistant")]
  /\ rows' = [rows EXCEPT ![i] = tool]
  /\ UNCHANGED <<setup, env, terminal, transitions, step_index, collected,
                 phase>>

\* A tool answers; the rows that wait are not before or after one another.
ToolAnswers(i, ok, seconds) ==
  /\ phase = "stepping"
  /\ i \in Rows
  /\ rows[i] \in {"python", "sympy"}
  /\ rows[i] = "python" \/ seconds = 0
  /\ EndRow(i, Called(env[i], ok, seconds), << >>)

\* The verifier or a tool raises: gather passes it on, and step returns
\* nothing, whatever the other rows did.
RowRaises(i) ==
  /\ phase = "stepping"
  /\ i \in Rows
  /\ rows[i] # "done" /\ ~Terminated(env[i])
  /\ rows[i] = "ready" => Turn(i)
  /\ phase' = "raised"
  /\ UNCHANGED <<setup, env, conversations, terminal, rows, transitions,
                 step_index, collected>>

WasDone(i) == \E k \in DOMAIN collected[i] : collected[i][k].done

\* All rows returned; the collector keeps the step.
StepEnd ==
  /\ phase = "stepping"
  /\ \A i \in Rows : rows[i] = "done"
  /\ collected' = [i \in Rows |->
                     Append(collected[i],
                            [active |-> ~WasDone(i),
                             done |-> transitions[i].done,
                             reward |-> transitions[i].reward,
                             won |-> transitions[i].won])]
  /\ phase' = "between"
  /\ UNCHANGED <<setup, env, conversations, terminal, rows, transitions,
                 step_index>>

Finish ==
  /\ phase = "between"
  /\ step_index = MaxSteps \/ \A i \in Rows : Terminated(env[i])
  /\ phase' = "finished"
  /\ UNCHANGED <<setup, env, conversations, terminal, rows, transitions,
                 step_index, collected>>

\* The steps of a row in which it was active.
ActiveSteps(i) == {k \in DOMAIN collected[i] : collected[i][k].active}

\* Mutant: the records are read forwards.
SuccessFirst(i) ==
  collected[i][CHOOSE k \in ActiveSteps(i) :
                 \A m \in ActiveSteps(i) : k <= m].won

\* success_evaluator: `won` of a row's last active step.
Success(i) ==
  collected[i][CHOOSE k \in ActiveSteps(i) :
                 \A m \in ActiveSteps(i) : m <= k].won

rolloutNext ==
  \/ \E b \in Batches : Reset(b)
  \/ StepBegin
  \/ \E i \in Rows :
       \/ NoOp(i) \/ RowRefused(i) \/ RowRaises(i)
       \/ \E v \in {"right", "wrong"} : RowAnswers(i, v)
       \/ \E t \in {"python", "sympy"} : RowCalls(i, t)
       \/ \E ok \in BOOLEAN, s \in RunTimes \cup {0} : ToolAnswers(i, ok, s)
  \/ StepEnd
  \/ Finish

rolloutSpec == rolloutInit /\ [][rolloutNext]_rolloutVars
-----------------------------------------------------------------------------
(* Properties.                                                             *)

Paid(i) == SumFunction([k \in DOMAIN collected[i] |-> collected[i][k].reward])

\* Each row of a batch is judged once: it has an environment of its own for
\* its task, however often the batch repeats it (reset, lines 97-113), so
\* that step's zip reaches every row; over the whole rollout it is paid its
\* trajectory's reward once, though it stays in the batch to the end (step);
\* and when the collector's steps are used up it has terminated, because both
\* limits are the same and every turn counts, and the success the trainer
\* logs for it is the verifier's (success_evaluator).
EachRowJudgedOnce ==
  /\ phase # "reset" =>
       /\ offered = Len(environments)
       /\ Cardinality(Range(environments)) = Len(environments)
       /\ \A i \in Rows : environments[i][1] = batch[i]
  /\ phase \in {"between", "finished"} =>
       \A i \in Rows :
         Paid(i) = IF Terminated(env[i]) THEN Reward(env[i]) ELSE 0
  /\ phase = "finished" =>
       \A i \in Rows : Terminated(env[i]) /\ (Success(i) <=> Correct(env[i]))

\* Running out of budget without an answer never pays more than a wrong
\* answer with no more invalid actions and no fewer tool successes
\* (OfflineMathEnv.evaluate, no_final_answer_verdict).
UnansweredPaysNoMore ==
  phase = "finished" =>
    \A i, j \in Rows :
      /\ env[i].final = None /\ env[j].final = "wrong"
      /\ env[i].invalid_actions >= env[j].invalid_actions
      /\ env[i].successes > 0 => env[j].successes > 0
      => Paid(i) <= Paid(j)

\* Of two rows judged alike and with as many invalid actions, the one whose
\* tool call succeeded is paid the whole bonus more, correct or not: the
\* clip does not eat it and a failed call does not earn it (R4).
ToolUsePays ==
  phase = "finished" =>
    \A i, j \in Rows :
      /\ env[i].final = env[j].final
      /\ env[i].invalid_actions = env[j].invalid_actions
      /\ env[i].successes > 0 /\ env[j].successes = 0
      => Paid(i) = Paid(j) + Config.tool_success_bonus * Unit

\* What training can learn from a pair of rollouts: answering beats running
\* out, and a tool call that worked is worth the whole bonus.
RewardOrder == UnansweredPaysNoMore /\ ToolUsePays
=============================================================================
