------------------------------ MODULE SourceSft ------------------------------
(***************************************************************************)
(* Demonstrations out of a source's own solutions                          *)
(* (training/solution_traces.py, driven by scripts/data/build_source_sft): *)
(* the DIRECT mode reads the rows batch by batch and joins the batches,    *)
(* the TIR mode replays each row's Python block through the environment.   *)
(*                                                                         *)
(* A row is a record with its task (NoTask for a record canonicalize_source*)
(* quarantines), and what the extractors and the verifier say of its       *)
(* solution; `sortOrder` is the order of the rows' JSON.                   *)
(*                                                                         *)
(* The verifier is asked twice, and a symbolic comparison may time out,    *)
(* fail or be cut short one time and not the other: nothing relates the    *)
(* two verdicts on a solution.                                             *)
(***************************************************************************)
EXTENDS Integers, Sequences, FiniteSets, SequencesExt

CONSTANTS
  SourceTasks,  \* canonical task ids, as numbers
  NoTask,
  Solutions,    \* [text, explained, traced] of a DIRECT solution: what the
                \* classifier finds, and what the trace's own check finds
  TirSolutions, \* [fences, strict, protocol, tool, evaluated]
  SourceRows,   \* rows of the source
  BatchSizes

\* One examination: the strict answer and the terminal one.  "timeout" is
\* every verdict that settles nothing, an internal error among them.
Examination ==
  [strict : {"correct", "incorrect", "invalid_prediction", "timeout", "missing",
             "ambiguous"},
   terminal : {"correct", "incorrect", "timeout", "missing"}]

ASSUME SourceAssumption ==
  /\ SourceTasks \subseteq Nat /\ NoTask \notin SourceTasks
  /\ Solutions \subseteq
       [text : {"plain", "too_long", "reserved", "empty", "not_a_string"},
        explained : Examination, traced : Examination]
  /\ TirSolutions \subseteq
       [fences : 0..2, strict : {"correct", "incorrect", "timeout", "missing"},
        protocol : BOOLEAN, tool : {"ok", "failed", "exhausted"},
        evaluated : {"correct", "incorrect", "timeout"}]
  /\ SourceRows \in Nat \ {0} /\ BatchSizes \subseteq Nat \ {0}

VARIABLES
  mode,         \* "direct" or "python_tir"
  sourceRows,   \* the raw records, in the order they were loaded
  sortOrder,    \* the rows' indices in the order of their JSON
  batchSize,
  start,        \* the first row of the next batch
  selected,     \* the rows retained, one for each task: selected
  diagnostics,  \* [row, task, outcome], in the order they were made
  rejected,     \* how many rows each counter of `rejected` has taken, summed
  materializing \* "running", "written", "no_records", "raised"

sourceVars == <<mode, sourceRows, sortOrder, batchSize, start, selected,
                diagnostics, rejected, materializing>>
-----------------------------------------------------------------------------
(* One solution.                                                           *)

\* Mutant: a wrong boxed answer still lets a terminal phrase speak.
ResolvesTerminal(e) == e.strict = "correct" \/ e.terminal = "correct"

\* _resolve_terminal_solution_answer: a strict answer that is read and is not
\* INVALID_PREDICTION settles it, a timeout too; nothing read, the terminal
\* phrase may.
Resolves(e) ==
  \/ e.strict = "correct"
  \/ e.strict \in {"invalid_prediction", "missing"} /\ e.terminal = "correct"

\* direct_trace_from_solution and build_sft_record without an error: the
\* production parser refuses reasoning beyond MAX_REASONING_CHARS.
MakesTrace(s) == s.text = "plain" /\ Resolves(s.traced)

\* _classify_direct_solution: the gate without the parser, before the trace is
\* made, with verdicts of its own.
Classified(s) ==
  IF s.text = "empty" THEN "source_solution_empty"
  ELSE IF s.text = "reserved" THEN "source_solution_reserved_protocol_tag"
  ELSE IF s.explained.strict = "correct" THEN "accepted_strict"
  ELSE IF s.explained.strict \in {"incorrect", "timeout", "ambiguous"}
  THEN "strict_refused"
  ELSE IF s.explained.terminal = "correct" THEN "accepted_terminal"
  ELSE "terminal_refused"

Accepted(outcome) == outcome \in {"accepted_strict", "accepted_terminal"}

\* python_tir_trace_from_solution: the answer is verified before the replay and
\* by the environment after it; "raised" is the TypeError, which the
\* materializer does not catch.
TirOutcome(s) ==
  IF s.fences # 1 \/ s.strict # "correct" THEN "refused"
  ELSE IF ~s.protocol THEN "raised"
  ELSE IF s.tool = "ok" /\ s.evaluated = "correct" THEN "accepted_strict"
  ELSE "refused"
-----------------------------------------------------------------------------
(* materialize_direct_records of the rows `batch`.                         *)

Solution(row) == sourceRows[row].solution
Task(row) == sourceRows[row].task

\* Mutant: a task is seen as soon as one of its rows is looked at.
DispositionEager(row, done) ==
  IF Task(row) = NoTask THEN "canonicalize"
  ELSE IF \E i \in DOMAIN done.made : done.made[i].task = Task(row)
  THEN "duplicate_task"
  ELSE IF Solution(row).text = "not_a_string" THEN "missing_solution"
  ELSE Classified(Solution(row))

\* What becomes of a row after `done`: seen_task_ids holds retained tasks.
Disposition(row, done) ==
  IF Task(row) = NoTask THEN "canonicalize"
  ELSE IF \E r \in done.retained : Task(r) = Task(row) THEN "duplicate_task"
  ELSE IF Solution(row).text = "not_a_string" THEN "missing_solution"
  ELSE Classified(Solution(row))

\* The classification explains; the trace, if it can be built, decides.
Retains(row, outcome) ==
  /\ outcome \notin {"canonicalize", "duplicate_task", "missing_solution"}
  /\ MakesTrace(Solution(row))

MaterializeRow(done, row) ==
  LET outcome == Disposition(row, done)
  IN  [retained |-> IF Retains(row, outcome)
                    THEN done.retained \cup {row} ELSE done.retained,
       made |-> Append(done.made, [row |-> row, task |-> Task(row),
                                   outcome |-> outcome])]

\* The rows of a batch one after another, in the order of their JSON.
Materialize(batch) ==
  FoldLeft(LAMBDA done, row :
             IF row \in batch THEN MaterializeRow(done, row) ELSE done,
           [retained |-> {}, made |-> << >>], sortOrder)

\* Mutant: the first accepted diagnostic of the task is rewritten.
RelabelFirst(made, task) ==
  LET of == {i \in DOMAIN made : made[i].task = task /\ Accepted(made[i].outcome)}
  IN  IF of = {} THEN made
      ELSE [made EXCEPT ![CHOOSE i \in of : \A j \in of : i <= j].outcome =
              "duplicate_task"]

\* A task retained by an earlier batch: its last accepted diagnostic becomes
\* a duplicate's.
Relabel(made, task) ==
  LET of == {i \in DOMAIN made : made[i].task = task /\ Accepted(made[i].outcome)}
  IN  IF of = {} THEN made
      ELSE [made EXCEPT ![CHOOSE i \in of : \A j \in of : j <= i].outcome =
              "duplicate_task"]

\* So for each row of a batch whose task is selected already.
RelabelAll(made, again) ==
  FoldSet(LAMBDA r, lines : Relabel(lines, Task(r)), made, again)

\* Of a quarantined record the solution is not looked at.
RowsOf(solutions) ==
  [task : SourceTasks, solution : solutions]
    \cup [task : {NoTask}, solution : {CHOOSE s \in solutions : TRUE}]

sourceInit ==
  /\ mode \in {"direct", "python_tir"}
  /\ sourceRows \in [1..SourceRows ->
       RowsOf(IF mode = "direct" THEN Solutions ELSE TirSolutions)]
  /\ sortOrder \in SetToSeqs(1..SourceRows)
  /\ batchSize \in (IF mode = "direct" THEN BatchSizes ELSE {SourceRows})
  /\ start = 1
  /\ selected = {} /\ diagnostics = << >> /\ rejected = 0
  /\ materializing = "running"

\* One batch of materialize_direct_records_batched, whose own rejections are
\* the rows it did not retain.
DirectBatch ==
  /\ mode = "direct" /\ materializing = "running"
  /\ start <= SourceRows
  /\ LET batch == {r \in 1..SourceRows : start <= r /\ r < start + batchSize}
         result == Materialize(batch)
         again == {r \in result.retained :
                     \E s \in selected : Task(s) = Task(r)}
     IN  /\ selected' = selected \cup (result.retained \ again)
         /\ diagnostics' = RelabelAll(diagnostics \o result.made, again)
         /\ rejected' = rejected + Cardinality(batch \ result.retained)
                                 + Cardinality(again)
  /\ start' = start + batchSize
  /\ UNCHANGED <<mode, sourceRows, sortOrder, batchSize, materializing>>

\* One row of materialize_python_tir_records, which keeps no diagnostics.
TirRow ==
  /\ mode = "python_tir" /\ materializing = "running"
  /\ start <= SourceRows
  /\ LET row == sortOrder[start]
         refused == \/ Task(row) = NoTask
                    \/ \E s \in selected : Task(s) = Task(row)
         outcome == IF refused THEN "refused" ELSE TirOutcome(Solution(row))
     IN  /\ selected' = (IF Accepted(outcome) THEN selected \cup {row} ELSE selected)
         /\ rejected' = (IF outcome = "refused" THEN rejected + 1 ELSE rejected)
         /\ materializing' = (IF outcome = "raised" THEN "raised" ELSE "running")
  /\ start' = start + 1
  /\ UNCHANGED <<mode, sourceRows, sortOrder, batchSize, diagnostics>>

\* main after the materialization: diagnostics, traces, records, manifest.
WriteSource ==
  /\ materializing = "running"
  /\ start > SourceRows
  /\ materializing' = (IF selected = {} THEN "no_records" ELSE "written")
  /\ UNCHANGED <<mode, sourceRows, sortOrder, batchSize, start, selected,
                 diagnostics, rejected>>

sourceNext == DirectBatch \/ TirRow \/ WriteSource
sourceSpec == sourceInit /\ [][sourceNext]_sourceVars
-----------------------------------------------------------------------------
(* Properties.                                                             *)

\* The rows that would make a demonstration, whatever their order: a row whose
\* check times out is not fit, however right its answer.
Fit(row) ==
  /\ Task(row) # NoTask
  /\ IF mode = "direct" THEN MakesTrace(Solution(row))
     ELSE Accepted(TirOutcome(Solution(row)))

\* The classifier found what the trace's check found, for each row of the task.
Explained(task) ==
  \A r \in 1..SourceRows :
    Task(r) = task => Solution(r).explained = Solution(r).traced

\* The batch size and the order of the rows do not choose the tasks: a task
\* is demonstrated, once, exactly when one of its rows is fit by the verdict
\* its own trace was made under, each other row is counted as rejected, and
\* no demonstration teaches an answer whose box was then read and refused or
\* left unsettled ("A semantically incorrect strict answer is terminal
\* evidence").  The diagnostics of a task say accepted of the demonstrated row
\* when the verifier, asked twice, said the same of each of its rows: a
\* timeout of the classifier alone puts a refusal beside the demonstration, or
\* lets a later duplicate rewrite its line
\* (materialize_direct_records_batched, "cross-batch deduplication").
BatchesLoseNothing ==
  /\ mode = "direct" =>
       \A r \in selected :
         Solution(r).traced.strict \notin {"incorrect", "timeout", "ambiguous"}
  /\ materializing \in {"written", "no_records"} =>
       /\ {Task(r) : r \in selected} =
            {Task(r) : r \in {s \in 1..SourceRows : Fit(s)}}
       /\ \A r, s \in selected : r # s => Task(r) # Task(s)
       /\ rejected + Cardinality(selected) = SourceRows
       /\ mode = "direct" =>
            /\ Len(diagnostics) = SourceRows
            /\ \A r \in selected : Explained(Task(r)) =>
                 \E i \in DOMAIN diagnostics :
                   diagnostics[i].row = r /\ Accepted(diagnostics[i].outcome)
=============================================================================
