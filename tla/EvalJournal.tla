----------------------------- MODULE EvalJournal ----------------------------
(***************************************************************************)
(* The interruptible Base versus SFT evaluation (evaluation/model_eval.py, *)
(* scripts/eval/run_model_eval.py): a journal beside the output directory  *)
(* takes every prediction as it is made; an invocation of the same command *)
(* reads it and generates only what is missing; the results are staged and *)
(* published by one rename, and the journal is removed.  The process may   *)
(* be killed between any two writes.                                       *)
(***************************************************************************)
EXTENDS Integers, Sequences, FiniteSets

CONSTANTS
  Tasks,           \* task ids, in the order the evaluation sorts them
  ArmSeqs,         \* <<"base", "sft">>, and <<"sft">> with --adapter-only
  BatchSize,       \* --batch-size
  Manifests,       \* what preflight may compute: the command's and others
  MaxRuns,         \* bound on the invocations
  MaxKills,        \* bound on the kills and generator faults
  None

ASSUME JournalAssumption ==
  /\ Tasks \subseteq Int /\ IsFiniteSet(Tasks) /\ Tasks # {}
  /\ ArmSeqs # {} /\ ArmSeqs \subseteq {<<"base", "sft">>, <<"sft">>}
  /\ BatchSize \in Nat \ {0}
  /\ MaxRuns \in Nat /\ MaxKills \in Nat
  /\ None \notin Manifests

\* A set of task ids has a first one in the order the evaluation sorts them.
ASSUME OrderAssumption ==
  \A S \in SUBSET Tasks : S # {} => \E t \in S : \A u \in S : t <= u

Arms == {"base", "sft"}

VARIABLES
  dir,       \* the journal's directory exists
  manifest,  \* run_manifest.json, or None
  progress,  \* the counts of progress.json, or None
  rows,      \* the journal's rows of each arm, Torn lines among them
  out,       \* the published rows of each arm, or None
  pc,        \* where the process is, "down" when there is none
  ended,     \* how the last invocation ended
  mine,      \* the manifest this invocation computed
  want,      \* the arms of this invocation, in order
  have,      \* rows_by_task_id of each arm
  batch,     \* generated tasks whose rows are not yet in the journal
  arm,       \* the arm being evaluated, an index of want
  run,       \* invocations so far
  ranUnder,  \* history: the manifest each invocation computed
  kills      \* kills and faults so far

vars == <<dir, manifest, progress, rows, out, pc, ended, mine, want, have,
          batch, arm, run, ranUnder, kills>>
files == <<dir, manifest, progress, rows, out>>
-----------------------------------------------------------------------------
Torn == [torn |-> TRUE]
Row == [task : Tasks, run : 1..MaxRuns]  \* a prediction and who generated it
NoRows == [a \in Arms |-> {}]

Parses(l) == \A i \in DOMAIN l : l[i] # Torn
TaskIds(rs) == {r.task : r \in rs}
Journaled(a) == {rows[a][i] : i \in {j \in DOMAIN rows[a] : rows[a][j] # Torn}}
TheArm == want[arm]
Wanted == {want[i] : i \in DOMAIN want}
Pending(a) == Tasks \ TaskIds(have[a])
FirstOf(S) == CHOOSE t \in S : \A u \in S : t <= u

Init ==
  /\ dir = FALSE
  /\ manifest = None
  /\ progress = None
  /\ rows = [a \in Arms |-> << >>]
  /\ out = None
  /\ pc = "down"
  /\ ended = "none"
  /\ mine = None
  /\ want = << >>
  /\ have = NoRows
  /\ batch = {}
  /\ arm = 1
  /\ run = 0
  /\ ranUnder = [i \in 1..MaxRuns |-> None]
  /\ kills = 0

\* The process is gone and with it its memory.
Gone(how) ==
  /\ pc' = "down"
  /\ ended' = how
  /\ mine' = None
  /\ want' = << >>
  /\ have' = NoRows
  /\ batch' = {}
  /\ arm' = 1

\* Mutants: a journal's directory is always made; it is reopened under any manifest; its rows are not used; progress
\* counts this run's rows only; the last arm is not waited for.
ReopenMakes ==
  /\ pc = "started"
  /\ out = None
  /\ dir
  /\ Gone("directory exists")
  /\ UNCHANGED <<files, run, ranUnder, kills>>
ReopenAny ==
  /\ pc = "started"
  /\ out = None
  /\ manifest # None
  /\ pc' = "open"
  /\ UNCHANGED <<files, ended, mine, want, have, batch, arm, run, ranUnder, kills>>
ReadNothing ==
  /\ pc = "open"
  /\ pc' = "evaluating"
  /\ UNCHANGED <<files, ended, mine, want, have, batch, arm, run, ranUnder, kills>>
CountMine ==
  /\ pc = "appended"
  /\ progress # None
  /\ progress' = [progress EXCEPT ![TheArm] =
                    Cardinality({r \in Journaled(TheArm) : r.run = run})]
  /\ pc' = "evaluating"
  /\ UNCHANGED <<dir, manifest, rows, out, ended, mine, want, have, batch, arm, run, ranUnder,
                 kills>>
PublishEarly ==
  /\ pc = "evaluating"
  /\ batch = {}
  /\ arm = Len(want)
  /\ out' = [a \in Wanted |-> have[a]]
  /\ pc' = "published"
  /\ UNCHANGED <<dir, manifest, progress, rows, ended, mine, want, have, batch, arm,
                 run, ranUnder, kills>>

\* main, up to the output's check; then EvaluationJournal.__init__.
Start ==
  /\ pc = "down"
  /\ run < MaxRuns
  /\ run' = run + 1
  /\ ended' = "none"
  /\ mine' \in Manifests
  /\ want' \in ArmSeqs
  /\ ranUnder' = [ranUnder EXCEPT ![run'] = mine']
  /\ pc' = "started"
  /\ UNCHANGED <<files, have, batch, arm, kills>>

Refuse ==
  /\ pc = "started"
  /\ \/ out # None /\ Gone("published")
     \/ out = None /\ manifest \notin {None, mine} /\ Gone("other manifest")
     \/ out = None /\ manifest = None /\ dir /\ Gone("directory exists")
  /\ UNCHANGED <<files, run, ranUnder, kills>>

Reopen ==
  /\ pc = "started"
  /\ out = None
  /\ manifest = mine
  /\ pc' = "open"
  /\ UNCHANGED <<files, ended, mine, want, have, batch, arm, run, ranUnder, kills>>

MakeDirectory ==
  /\ pc = "started"
  /\ out = None
  /\ manifest = None
  /\ ~dir
  /\ dir' = TRUE
  /\ pc' = "made"
  /\ UNCHANGED <<manifest, progress, rows, out, ended, mine, want, have, batch, arm,
                 run, ranUnder, kills>>

WriteManifest ==
  /\ pc = "made"
  /\ manifest' = mine
  /\ pc' = "bound"
  /\ UNCHANGED <<dir, progress, rows, out, ended, mine, want, have, batch, arm, run, ranUnder,
                 kills>>

WriteProgress ==
  /\ pc = "bound"
  /\ progress' = [a \in Arms |-> 0]
  /\ pc' = "open"
  /\ UNCHANGED <<dir, manifest, rows, out, ended, mine, want, have, batch, arm, run, ranUnder,
                 kills>>

\* rows of every arm asked for are read; evaluate_pair begins with them.
ReadRows ==
  /\ pc = "open"
  /\ IF \A a \in Wanted : Parses(rows[a])
       THEN /\ have' = [a \in Arms |-> IF a \in Wanted THEN Journaled(a) ELSE {}]
            /\ pc' = "evaluating"
            /\ UNCHANGED <<ended, mine, want, batch, arm>>
       ELSE Gone("torn row")
  /\ UNCHANGED <<files, run, ranUnder, kills>>

\* The next batch of an arm is generated, in memory only; or the arm is done.
Generate ==
  /\ pc = "evaluating"
  /\ batch = {}
  /\ arm <= Len(want)
  /\ IF Pending(TheArm) = {}
       THEN arm' = arm + 1 /\ UNCHANGED batch
       ELSE /\ batch' = {t \in Pending(TheArm) :
                           Cardinality({u \in Pending(TheArm) : u < t})
                             < BatchSize}
            /\ UNCHANGED arm
  /\ UNCHANGED <<files, pc, ended, mine, want, have, run, ranUnder, kills>>

\* journal.append: the row is written and synced.  It raises for a task the
\* journal has, which OncePerTask says never happens.
AppendRow ==
  /\ pc = "evaluating"
  /\ batch # {}
  /\ LET t == FirstOf(batch)
         row == [task |-> t, run |-> run]
     IN  IF t \in TaskIds(Journaled(TheArm))
           THEN Gone("duplicate row") /\ UNCHANGED rows
           ELSE /\ have' = [have EXCEPT ![TheArm] = @ \cup {row}]
                /\ rows' = [rows EXCEPT ![TheArm] = Append(@, row)]
                /\ batch' = batch \ {t}
                /\ pc' = "appended"
                /\ UNCHANGED <<ended, mine, want, arm>>
  /\ UNCHANGED <<dir, manifest, progress, out, run, ranUnder, kills>>

\* Then progress.json is read and replaced.
Count ==
  /\ pc = "appended"
  /\ IF progress = None
       THEN Gone("no progress file") /\ UNCHANGED progress
       ELSE /\ progress' = [progress EXCEPT ![TheArm] = Len(rows[TheArm])]
            /\ pc' = "evaluating"
            /\ UNCHANGED <<ended, mine, want, have, batch, arm>>
  /\ UNCHANGED <<dir, manifest, rows, out, run, ranUnder, kills>>

\* write_artifacts: everything is staged, then renamed to the output.
Publish ==
  /\ pc = "evaluating"
  /\ batch = {}
  /\ arm > Len(want)
  /\ out' = [a \in Wanted |-> have[a]]
  /\ pc' = "published"
  /\ UNCHANGED <<dir, manifest, progress, rows, ended, mine, want, have, batch, arm,
                 run, ranUnder, kills>>

\* shutil.rmtree of the journal; main returns.
RemoveJournal ==
  /\ pc = "published"
  /\ dir' = FALSE
  /\ manifest' = None
  /\ progress' = None
  /\ rows' = [a \in Arms |-> << >>]
  /\ Gone("returned")
  /\ UNCHANGED <<out, run, ranUnder, kills>>

\* A kill at any point, or an exception of the generator or of the staging.
Kill ==
  /\ pc # "down"
  /\ kills < MaxKills
  /\ kills' = kills + 1
  /\ Gone("killed")
  /\ \/ UNCHANGED files
     \/ /\ pc = "evaluating" /\ batch # {}
        /\ rows' = [rows EXCEPT ![TheArm] = Append(@, Torn)]
        /\ UNCHANGED <<dir, manifest, progress, out>>
  /\ UNCHANGED <<run, ranUnder>>

Work ==
  \/ Refuse \/ Reopen \/ MakeDirectory \/ WriteManifest \/ WriteProgress
  \/ ReadRows \/ Generate \/ AppendRow \/ Count \/ Publish
  \/ RemoveJournal

Next == Start \/ Work \/ Kill

Spec == Init /\ [][Next]_vars

\* The process runs while it can, and the operator issues the command again
\* when it ended ("can be resumed with the exact same command").
FairSpec == Spec /\ WF_vars(Work) /\ WF_vars(Start)
-----------------------------------------------------------------------------
\* However often the evaluation is killed and resumed, the journal has a task
\* once in each arm, so nothing that was journaled is generated again, and no
\* append is refused for it.
JournalOncePerTask ==
  /\ \A a \in Arms : \A i, j \in DOMAIN rows[a] :
       rows[a][i] # Torn /\ rows[a][j] # Torn
         /\ rows[a][i].task = rows[a][j].task => i = j
  /\ ended # "duplicate row"

\* progress.json never claims a row the journal does not have, and once an
\* invocation has counted a row of its own in an arm, it is exact there: the
\* rows that kills left uncounted are made up for.
ProgressHonest ==
  progress # None /\ (\A a \in Arms : Parses(rows[a])) =>
    \A a \in Arms :
      /\ progress[a] <= Len(rows[a])
      /\ pc = "evaluating" /\ (\E r \in Journaled(a) : r.run = run)
           => progress[a] = Len(rows[a])

\* What is published has exactly one row per task and arm, the journal's own
\* row wherever the journal is still there.
PublishedIsJournaled ==
  out # None =>
    \A a \in DOMAIN out :
      /\ TaskIds(out[a]) = Tasks
      /\ Cardinality(out[a]) = Cardinality(Tasks)
      /\ dir => out[a] = Journaled(a)

\* A prediction is made once and counted once, whatever was killed: the journal
\* has no task twice, progress.json is true of it, and the published result is
\* the journal's rows, one per task and arm (PredictionJournal).
OncePerTask == JournalOncePerTask /\ ProgressHonest /\ PublishedIsJournaled

\* What is published is one experiment: every row in it, of either arm and of
\* whichever invocation, was made under the manifest (model, adapter, decoding,
\* sources) of the invocation that published it, though commands with other
\* manifests and other arms were issued on the same journal in between.
OneExperiment ==
  out # None =>
    \E m \in Manifests :
      \A a \in DOMAIN out : \A r \in out[a] : ranUnder[r.run] = m

\* What a kill may leave that no invocation repairs: a directory without one
\* of its two first files, or part of a row.
HalfMade == pc = "down" /\ dir /\ None \in {manifest, progress}
HalfWritten == \E a \in Arms : ~Parses(rows[a])

\* However often it is killed, one command that is issued again publishes its
\* results, unless a kill fell into the journal's creation or into a row
\* ("can be resumed with the exact same command",
\* docs/runbooks/base-sft-evaluation.md:42-44).
EventuallyPublished ==
  (/\ <>(run > 0)
   /\ \E m \in Manifests : [](mine \in {m, None} /\ ~HalfMade /\ ~HalfWritten))
    => <>(out # None)
=============================================================================
