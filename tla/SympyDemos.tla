----------------------------- MODULE SympyDemos ------------------------------
(***************************************************************************)
(* SymPy calls compiled from problem texts (training/sympy_compiler.py),   *)
(* the census of a pool (scripts/data/sympy_pool_census.py) and the        *)
(* resumable gate that runs and verifies the calls (sympy_pool_gate.py).   *)
(*                                                                         *)
(* A span stands for a mathematical body of the text by what the compiler  *)
(* tells apart; `call` names the expression it would be built into, so two *)
(* spans may make the same call.                                           *)
(***************************************************************************)
EXTENDS Integers, Sequences, FiniteSets, SequencesExt, FiniteSetsExt

CONSTANTS
  Problems,     \* [cues, evaluate, delimited, bare, usable] of a pool's record
  PoolSize,     \* records of the pool
  GateSamples,     \* values of --sample
  Limits        \* values of --candidates

\* What the compiler tells apart of a mathematical body.
Bodies ==
  [macros : SUBSET {"fixed", "braced", "other"}, digit : BOOLEAN,
   chars : {"grammar", "other"}, balanced : BOOLEAN, emptyOperand : BOOLEAN,
   equation : {"none", "half", "whole"}, symbols : Nat, operators : Nat,
   length : Nat, call : Nat]

ASSUME DemoAssumption ==
  /\ \A p \in Problems : p.delimited \in Seq(Bodies) /\ p.bare \in Seq(Bodies)
  /\ PoolSize \in Nat \ {0}
  /\ GateSamples \subseteq Nat \ {0} /\ Limits \subseteq Nat \ {0}

VARIABLES
  problems,     \* the pool
  verified,     \* calls whose output verifies against the hidden reference
  censusRows,   \* pool-census.rows.jsonl: indices with candidates, or NoRows
  gate,         \* "idle", "record", "candidate", "summary"
  sampled,      \* `selected` of the running gate
  position,     \* its place in `sampled`, and in the record's candidates
  attempt,
  candidateLimit,
  late,         \* history: a candidate of this record timed out
  doneFile,     \* pool-gate.done.jsonl, with the limit and `late` of its run
  summaryOf     \* history: what the last pool-gate.json was about

demoVars == <<problems, verified, censusRows, gate, sampled, position,
              attempt, candidateLimit, late, doneFile, summaryOf>>

NoRows == <<0>>
-----------------------------------------------------------------------------
(* The compiler.                                                           *)

CueOrder == <<"diff", "integrate", "factor", "expand", "simplify", "solve">>

\* _select_operation: the first cue of the order that the text holds.
Operation(p) ==
  LET found == SelectSeq(CueOrder, LAMBDA op : op \in p.cues)
  IN  IF found = << >> THEN "numeric" ELSE Head(found)

Distinct(seq) ==
  FoldLeft(LAMBDA seen, e : IF e \in Range(seen) THEN seen ELSE Append(seen, e),
           << >>, seq)

\* The delimited bodies, each once, or the bare runs of a problem that asks for
\* a value.
Spans(p) ==
  IF p.delimited # << >> THEN Distinct(p.delimited)
  ELSE IF p.evaluate THEN p.bare ELSE << >>

\* _to_sympy: fractions and roots in braces are expanded, macros of a fixed
\* meaning replaced, and what is left is an expression the tool can read: no
\* other macro, a digit, the grammar's characters (a decimal point is none of
\* them), balanced, and no operator without its operand.
Converts(s) ==
  /\ s.macros \subseteq {"fixed", "braced"}
  /\ s.digit /\ s.chars = "grammar"
  /\ s.balanced /\ ~s.emptyOperand

\* _solve_variable and _build: an equation is solved or nothing, a variable
\* is the only one, a number has none.
Builds(op, s) ==
  /\ s.equation # "none" => op = "solve"
  /\ op \in {"solve", "diff", "integrate"} => s.symbols = 1 /\ s.equation # "half"
  /\ op = "numeric" => s.symbols = 0

\* _span_score.
Score(s) ==
  (IF s.equation # "none" THEN 4 ELSE 0) + Min({s.operators, 4})
    + (IF s.symbols > 0 THEN 2 ELSE 0) + Min({s.length \div 8, 3})

\* The indices of the spans that make a call.
Built(p) ==
  {i \in DOMAIN Spans(p) : Converts(Spans(p)[i]) /\ Builds(Operation(p), Spans(p)[i])}

\* Best first, and of those that score alike the first in the text.
IsBetter(spans, i, j) ==
  \/ Score(spans[i]) > Score(spans[j])
  \/ Score(spans[i]) = Score(spans[j]) /\ i < j

Ranked(p) ==
  [k \in 1..Cardinality(Built(p)) |->
     CHOOSE i \in Built(p) :
       Cardinality({j \in Built(p) : IsBetter(Spans(p), j, i)}) = k - 1]

UpTo(seq, limit) == SubSeq(seq, 1, Min({Len(seq), limit}))

\* Mutant: the limit is applied before the repeated calls are dropped.
CandidatesOfCut(p, limit) ==
  LET spans == Spans(p)
      ranked == UpTo(Ranked(p), limit)
  IN  Distinct([k \in DOMAIN ranked |-> spans[ranked[k]].call])

\* compile_sympy_candidates: the distinct calls, the first `limit` of them.
CandidatesOf(p, limit) ==
  LET spans == Spans(p)
      ranked == Ranked(p)
  IN  UpTo(Distinct([k \in DOMAIN ranked |-> spans[ranked[k]].call]), limit)
-----------------------------------------------------------------------------
(* The census and the gate.                                                *)

demoInit ==
  /\ problems \in [1..PoolSize -> Problems]
  /\ verified \in SUBSET {1, 2, 3}
  /\ censusRows = NoRows
  /\ gate = "idle" /\ sampled = << >> /\ position = 0 /\ attempt = 0
  /\ candidateLimit = 0 /\ late = FALSE
  /\ doneFile = << >> /\ summaryOf = {}

\* The records in their order.
Ascending(indices) ==
  [k \in 1..Cardinality(indices) |->
     CHOOSE i \in indices : Cardinality({j \in indices : j < i}) = k - 1]

RunCensus ==
  /\ gate = "idle" /\ censusRows = NoRows
  /\ censusRows' = Ascending({i \in 1..PoolSize : CandidatesOf(problems[i], 1) # << >>})
  /\ UNCHANGED <<problems, verified, gate, sampled, position, attempt,
                 candidateLimit, late, doneFile, summaryOf>>

\* stratified: evenly spaced over the candidate-bearing indices.
Stratified(indices, sample) ==
  IF sample >= Len(indices) THEN indices
  ELSE [k \in 1..sample |-> indices[((k - 1) * Len(indices)) \div sample + 1]]

Done == {doneFile[k].index : k \in DOMAIN doneFile}

\* Mutant: the indices of earlier runs are not read.
ToJudgeAll(from) == from

\* The next index from `from` that is not done: Len(sampled) + 1 at the end.
ToJudge(from) ==
  Min({k \in from..Len(sampled) : sampled[k] \notin Done} \cup {Len(sampled) + 1})

StartGate(sample, limit) ==
  /\ gate = "idle" /\ censusRows # NoRows /\ censusRows # << >>
  /\ sampled' = Stratified(censusRows, sample)
  /\ position' = 1 /\ attempt' = 0 /\ candidateLimit' = limit /\ late' = FALSE
  /\ gate' = "record"
  /\ UNCHANGED <<problems, verified, censusRows, doneFile, summaryOf>>

Settle(index, outcome) ==
  /\ doneFile' = Append(doneFile, [index |-> index, outcome |-> outcome,
                                   limit |-> candidateLimit, late |-> late'])
  /\ gate' = "record" /\ position' = position + 1

\* The head of the loop: a done record is passed over, a quarantined one is
\* settled, the end of the sample is the summary's.
NextRecord ==
  /\ gate = "record"
  /\ LET k == ToJudge(position)
     IN  \/ /\ k > Len(sampled)
            /\ gate' = "summary" /\ position' = k
            /\ UNCHANGED <<doneFile, attempt, late>>
         \/ /\ k <= Len(sampled) /\ ~problems[sampled[k]].usable
            /\ doneFile' = Append(doneFile, [index |-> sampled[k], outcome |-> "quarantined",
                                             limit |-> candidateLimit, late |-> FALSE])
            /\ position' = k + 1
            /\ UNCHANGED <<gate, attempt, late>>
         \/ /\ k <= Len(sampled) /\ problems[sampled[k]].usable
            /\ gate' = "candidate" /\ position' = k /\ attempt' = 1 /\ late' = FALSE
            /\ UNCHANGED doneFile
  /\ UNCHANGED <<problems, verified, censusRows, sampled,
                 candidateLimit, summaryOf>>

\* The record is rejected when its last candidate has not verified.
GivesUp(calls) == attempt = Len(calls)

\* One candidate: it runs, fails, or runs out of time.
TryCandidate(inTime) ==
  /\ gate = "candidate"
  /\ late' = (late \/ ~inTime)
  /\ LET index == sampled[position]
         calls == CandidatesOf(problems[index], candidateLimit)
         call == calls[attempt]
     IN  IF inTime /\ call \in verified
         THEN Settle(index, "accepted") /\ UNCHANGED attempt
         ELSE IF GivesUp(calls)
         THEN Settle(index, "rejected") /\ UNCHANGED attempt
         ELSE attempt' = attempt + 1 /\ UNCHANGED <<gate, position, doneFile>>
  /\ UNCHANGED <<problems, verified, censusRows, sampled,
                 candidateLimit, summaryOf>>

\* What the process held is gone with it.
GateEnds ==
  /\ gate' = "idle" /\ sampled' = << >> /\ position' = 0 /\ attempt' = 0
  /\ candidateLimit' = 0 /\ late' = FALSE
  /\ UNCHANGED <<problems, verified, censusRows, doneFile>>

\* pool-gate.json and pool-gate.accepted.jsonl are written over, with what
\* this run alone has scanned and accepted.
FinishGate ==
  /\ gate = "summary"
  /\ summaryOf' = Range(sampled)
  /\ GateEnds

\* An interruption: what is not in done.jsonl is forgotten.
GateKilled ==
  /\ gate # "idle"
  /\ GateEnds
  /\ UNCHANGED summaryOf

demoNext ==
  \/ RunCensus
  \/ \E sample \in GateSamples, limit \in Limits : StartGate(sample, limit)
  \/ NextRecord \/ FinishGate \/ GateKilled
  \/ \E inTime \in BOOLEAN : TryCandidate(inTime)

demoSpec == demoInit /\ [][demoNext]_demoVars
-----------------------------------------------------------------------------
(* Properties.                                                             *)

\* The calls that a problem supports, each with the number of the others that
\* score as high.
Outranking ==
  [p \in Problems |->
     LET built == {s \in Range(Spans(p)) : Converts(s) /\ Builds(Operation(p), s)}
         best(call) == Max({Score(s) : s \in {t \in built : t.call = call}})
         calls == {s.call : s \in built}
     IN  [c \in calls |-> Cardinality({other \in calls \ {c} : best(other) >= best(c)})]]

\* However often it is interrupted and run again with another sample or more
\* candidates, the gate settles an index once, a summary's sample is settled
\* whole, a record is accepted only for a call that verifies, and one that is
\* rejected had no verifying call which fewer than the run's --candidates
\* other calls outrank, unless a call ran out of time (run, "Resumable").
GateSettlesOnce ==
  /\ \A j, k \in DOMAIN doneFile :
       j # k => doneFile[j].index # doneFile[k].index
  /\ summaryOf \subseteq Done
  /\ \A k \in DOMAIN doneFile :
       LET others == Outranking[problems[doneFile[k].index]]
           verifying == DOMAIN others \cap verified
       IN  /\ doneFile[k].outcome = "accepted" => verifying # {}
           /\ doneFile[k].outcome = "rejected" /\ ~doneFile[k].late =>
                \A c \in verifying : others[c] >= doneFile[k].limit
=============================================================================
