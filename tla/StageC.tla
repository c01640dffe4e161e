-------------------------------- MODULE StageC ------------------------------
(***************************************************************************)
(* Stage C of the feedback-recovery study (scripts/eval/                   *)
(* run_feedback_recovery.py, _main and run_stage_c): every anchor is       *)
(* continued under three arms, several times each, one JSON line per       *)
(* attempt.  An infrastructure failure is retried once under the same      *)
(* seeds.  The process may be killed anywhere and started again, with or   *)
(* without --append; it then reads which samples the log has and goes on   *)
(* with the rest.  The anchors are those of the snapshots file of a        *)
(* stage B; what its log is worth is said by scripts/analysis/             *)
(* analyze_feedback_recovery.py.                                           *)
(***************************************************************************)
EXTENDS StageAB

CONSTANTS
  Snapshots,      \* the snapshots files a stage B may have left
  ArmOrder,       \* _arm_order: the arms of each anchor in its run order
  Solved,         \* the samples whose branch, if it is answered, is correct
  Continuations   \* continuations per arm

Arms == {"F", "P", "M"}
Samples == [anchor : AnchorIds, arm : Arms, index : 1..Continuations]

ASSUME StageAssumption ==
  /\ \A file \in Snapshots \ {None} :
       /\ file \in Seq(AnchorIds \cup {Torn})
       /\ \A i, j \in DOMAIN file :
            file[i] = file[j] /\ file[i] # Torn => i = j
  /\ \A a \in AnchorIds :
       /\ ArmOrder[a] \in [1..3 -> Arms]
       /\ \A i, j \in 1..3 : ArmOrder[a][i] = ArmOrder[a][j] => i = j
  /\ Solved \subseteq Samples
  /\ Continuations \in Nat \ {0}
  /\ None \notin {"running", "complete", "correct", "wrong"}

VARIABLES
  log,       \* continuations.jsonl: attempt records and Torn lines
  exists,    \* the file is there
  manifest,  \* status in manifest.c.json, None before the first start
  pc,        \* "down", "starting", "running", "failing"
  append,    \* --append of this invocation
  last,      \* the last position of the plan (--limit-anchors)
  done,      \* the samples the log had when the stage began
  pos,       \* the position in the plan
  attempt,   \* 0 or 1
  had        \* history: the lines the log had when this invocation began

cVars == <<log, exists, manifest, pc, append, last, done, pos, attempt, had>>
-----------------------------------------------------------------------------
\* The seeds of a continuation: its identity and the turn, not the attempt.
\* The first turn's seed stands for the schedule.
GenerationSeed(s, tries) == <<"C", s, 0>>

\* The record of one attempt: infra_failure, whatever the answer, or whether
\* the answer is correct.
Outcomes(s) == {IF s \in Solved THEN "correct" ELSE "wrong", "infra"}
Record(s, tries, outcome) ==
  [sample |-> s, attempt |-> tries, outcome |-> outcome,
   seed |-> GenerationSeed(s, tries)]

PerAnchor == 3 * Continuations

\* _load_snapshots: what the file says, if it is there and every line parses.
Readable == anchors # None /\ Torn \notin ToSet(anchors)

\* The loops over anchors, arms and continuations, as one sequence.
Plan ==
  [p \in 1..(IF Readable THEN Len(anchors) * PerAnchor ELSE 0) |->
     LET a == anchors[((p - 1) \div PerAnchor) + 1]
         k == (p - 1) % PerAnchor
     IN  [anchor |-> a,
          arm |-> ArmOrder[a][(k \div Continuations) + 1],
          index |-> (k % Continuations) + 1]]

Parses(l) == \A i \in DOMAIN l : l[i] # Torn
Logged(l) == {l[i].sample : i \in {j \in DOMAIN l : l[j] # Torn}}
-----------------------------------------------------------------------------
CInit ==
  /\ log = << >>
  /\ exists = FALSE
  /\ manifest = None
  /\ pc = "down"
  /\ append = FALSE
  /\ last = 0
  /\ done = {}
  /\ pos = 1
  /\ attempt = 0
  /\ had = 0

\* The process is gone and with it its memory.
Gone ==
  /\ pc' = "down"
  /\ append' = FALSE
  /\ done' = {}
  /\ pos' = 1
  /\ attempt' = 0
  /\ had' = 0

\* _main: the model is loaded, the sandbox answers, the manifest says running.
Start ==
  /\ stage = "c"
  /\ pc = "down"
  /\ starts < MaxStarts
  /\ starts' = starts + 1
  /\ append' \in BOOLEAN
  /\ \E n \in 0..Len(Plan) \div PerAnchor : last' = n * PerAnchor
  /\ manifest' = "running"
  /\ had' = Len(log)
  /\ pc' = "starting"
  /\ UNCHANGED <<log, exists, done, pos, attempt, stageVars>>

\* Mutant: of the log only the usable records are read.
BeginUsable ==
  /\ pc = "starting"
  /\ pc' = IF Readable /\ (exists => append) /\ Parses(log) THEN "running" ELSE "failing"
  /\ done' = {log[i].sample : i \in {j \in DOMAIN log :
                                       log[j] # Torn /\ log[j].outcome # "infra"}}
  /\ pos' = 1
  /\ attempt' = 0
  /\ UNCHANGED <<log, exists, manifest, append, last, had, starts,
                 stageVars>>

\* The stage refuses a log without --append; a line that does not parse raises.
Begin ==
  /\ pc = "starting"
  /\ pc' = IF Readable /\ (exists => append) /\ Parses(log) THEN "running" ELSE "failing"
  /\ done' = Logged(log)
  /\ pos' = 1
  /\ attempt' = 0
  /\ UNCHANGED <<log, exists, manifest, append, last, had, starts,
                 stageVars>>

Skip ==
  /\ pc = "running"
  /\ pos <= last
  /\ Plan[pos] \in done
  /\ pos' = pos + 1
  /\ UNCHANGED <<log, exists, manifest, pc, append, last, done, attempt,
                 had, starts, stageVars>>

\* Mutant: an attempt that failed is not logged.
AttemptOnce ==
  /\ pc = "running"
  /\ pos <= last
  /\ Plan[pos] \notin done
  /\ \E outcome \in Outcomes(Plan[pos]) :
       log' = IF outcome = "infra" THEN log
              ELSE Append(log, Record(Plan[pos], attempt, outcome))
  /\ pos' = pos + 1
  /\ exists' = TRUE
  /\ UNCHANGED <<manifest, pc, append, last, done, attempt, had, starts,
                 stageVars>>

\* One attempt: the branch is run and its line written and flushed.
Continue ==
  /\ pc = "running"
  /\ pos <= last
  /\ Plan[pos] \notin done
  /\ \E outcome \in Outcomes(Plan[pos]) :
       /\ log' = Append(log, Record(Plan[pos], attempt, outcome))
       /\ IF outcome = "infra" /\ attempt = 0
            THEN attempt' = 1 /\ UNCHANGED pos
            ELSE attempt' = 0 /\ pos' = pos + 1
  /\ exists' = TRUE
  /\ UNCHANGED <<manifest, pc, append, last, done, had, starts, stageVars>>

\* The summary, the integrity report, which reads the log, and the manifest.
Finish ==
  /\ pc = "running"
  /\ pos > last
  /\ exists
  /\ manifest' = "complete"
  /\ Gone
  /\ UNCHANGED <<log, exists, last, starts, stageVars>>

\* What a write cut short may leave of the log.
Cut == {log} \cup IF pc = "running" THEN {Append(log, Torn)} ELSE {}

\* Anything raised in the stage, KeyboardInterrupt and a full disk included.
Raise ==
  /\ pc = "running"
  /\ pc' = "failing"
  /\ log' \in Cut
  /\ exists' = (exists \/ log' # log)
  /\ UNCHANGED <<manifest, append, last, done, pos, attempt, had, starts,
                 stageVars>>

Fail ==
  /\ pc = "failing"
  /\ manifest' = "failed"
  /\ Gone
  /\ UNCHANGED <<log, exists, last, starts, stageVars>>

\* The process is killed.
Crash ==
  /\ pc # "down"
  /\ Gone
  /\ log' \in Cut
  /\ exists' = (exists \/ log' # log)
  /\ UNCHANGED <<manifest, last, starts, stageVars>>

CNext ==
  \/ Start \/ Begin \/ Skip \/ Continue \/ Finish \/ Raise \/ Fail \/ Crash
-----------------------------------------------------------------------------
(* What _stage_c_integrity and the analysis read from the log.             *)

Lines(l, s) == {i \in DOMAIN l : l[i] # Torn /\ l[i].sample = s}
First(l, s) == CHOOSE i \in Lines(l, s) : \A j \in Lines(l, s) : i <= j

\* _stage_c_integrity's problems, as the samples that have one.
Problems(l) ==
  {s \in Logged(l) :
     \/ \E i, j, k \in Lines(l, s) : i < j /\ j < k
     \/ l[First(l, s)].outcome # "infra" /\ Cardinality(Lines(l, s)) > 1
     \/ \E i, j \in Lines(l, s) : l[i].seed # l[j].seed}

\* Mutant: the first attempt stands for its branch.
KeptFirst(l) == {l[First(l, s)] : s \in Logged(l)}

\* _dedupe_attempts: the record kept of a sample is its first usable one, or
\* the first.  No two kept records are equal, so they are a set.
Kept(l) ==
  {LET usable == {i \in Lines(l, s) : l[i].outcome # "infra"}
   IN  l[IF usable = {} THEN First(l, s) ELSE Min(usable)] : s \in Logged(l)}

\* _arm_means: how many branches count for an arm of an anchor and how many of
\* them as correct.  The scenario says what a missing branch counts as, None
\* that it does not count.
Counted(kept, a, arm, scenario) ==
  {r \in kept : /\ r.sample.anchor = a /\ r.sample.arm = arm
                /\ r.outcome = "infra" => scenario # None}
CorrectIn(kept, a, arm, scenario) ==
  {r \in Counted(kept, a, arm, scenario) :
     r.outcome = "correct" \/ (r.outcome = "infra" /\ scenario = "correct")}

\* _complete_anchors, and the anchors of a sensitivity scenario.
CompleteAnchors(kept, scenario) ==
  {a \in {r.sample.anchor : r \in kept} :
     \A arm \in Arms :
       Cardinality(Counted(kept, a, arm, scenario)) = Continuations}

\* The difference of a contrast on one anchor, in branches.
Difference(kept, a, contrast, scenario) ==
  Cardinality(CorrectIn(kept, a, contrast[1], scenario))
    - Cardinality(CorrectIn(kept, a, contrast[2], scenario))
-----------------------------------------------------------------------------
\* However often the stage was killed, resumed or cut to fewer anchors, the
\* log never has a third attempt of a sample, a retry of anything but an
\* infrastructure failure, or a retry under other seeds; and a stage that says
\* complete has a line for every sample it was asked for.
LogIntact ==
  /\ Problems(log) = {}
  /\ manifest = "complete" => \A p \in 1..last : Plan[p] \in Logged(log)

\* A resumed run continues where the log stops: it never runs a sample again
\* that the log had when it began.
ResumeRunsTheRest ==
  [][pc = "running" /\ log' # log /\ log'[Len(log')] # Torn =>
       log'[Len(log')].sample \notin Logged(SubSeq(log, 1, had))]_cVars

\* Whatever the log went through, the contrasts compare like with like: an
\* anchor is in the main analysis exactly if every planned branch of it, in
\* all three arms, has an answer somewhere in the log, in the sensitivity runs
\* exactly if every branch was attempted, and an anchor of the main analysis
\* shows the same difference whatever a missing branch counts as.
EffectsArePaired ==
  LET kept == Kept(log)
      lines(a) == {s \in Samples : s.anchor = a}
      answered == {log[i].sample : i \in {j \in DOMAIN log :
                     log[j] # Torn /\ log[j].outcome # "infra"}}
      main == CompleteAnchors(kept, None)
  IN  Parses(log) =>
        /\ main = {a \in AnchorIds : lines(a) \subseteq answered}
        /\ \A scenario \in {"correct", "wrong"} :
             /\ CompleteAnchors(kept, scenario)
                  = {a \in AnchorIds : lines(a) \subseteq Logged(log)}
             /\ \A a \in main, contrast \in {<<"F", "M">>, <<"P", "F">>} :
                  Difference(kept, a, contrast, scenario)
                    = Difference(kept, a, contrast, None)
=============================================================================
