----------------------------- MODULE MCTraining -----------------------------
(* What is made before and during a training: a behaviour is one of the     *)
(* dataset build, the task sets, the demonstrations out of solutions, those *)
(* compiled for SymPy, the SFT runs, a batch of rollouts or the first        *)
(* version's trainer; the other parts are idle.                             *)
EXTENDS VerlRollout, PoolBuild, TaskPools, SourceSft, SympyDemos, SftRun, RlTraining

\* A group of two or three rows of one task, and two tasks.
MCBatches == {<<"t", "t">>, <<"t", "u">>, <<"t", "t", "t">>}
\* R4_DEFAULT of reward/functions.py.
R4 == [tool_weight |-> 0, python_weight |-> 0, invalid_weight |-> 10,
       invalid_cap |-> 3, tool_success_bonus |-> 10,
       clip_min |-> -100, clip_max |-> 120]

\* The released list, and an older one on the disk.
MCTaskLists == {<< <<2>>, <<1>> >>}

\* Four easy tasks, three hard ones, a layer of each.
MCDifficulty == [t \in 1..7 |-> IF t <= 4 THEN 1 ELSE 2]
MCLayers == <<{1}, {2}>>

Found(s, e) == [strict |-> s, terminal |-> e]
Direct(t, e) == [text |-> t, explained |-> e, traced |-> e]
Differently(e, f) == [text |-> "plain", explained |-> e, traced |-> f]
Right == Found("correct", "missing")
Slow == Found("timeout", "missing")
\* A wrong box, which the parse of one of the two comparisons gave up on.
Cut == Differently(Found("incorrect", "correct"), Found("invalid_prediction", "correct"))
MCSolutions ==
  {Direct("plain", Right), Direct("plain", Found("incorrect", "correct")),
   Direct("plain", Found("missing", "correct")), Direct("too_long", Right),
   Direct("reserved", Right), Direct("not_a_string", Found("missing", "missing")),
   Differently(Right, Slow), Differently(Slow, Right), Cut}
Tir(f, s, p, t, e) ==
  [fences |-> f, strict |-> s, protocol |-> p, tool |-> t, evaluated |-> e]
MCTirSolutions ==
  {Tir(1, "correct", TRUE, "ok", "correct"), Tir(1, "correct", TRUE, "failed", "correct"),
   Tir(1, "correct", FALSE, "ok", "correct"), Tir(2, "correct", TRUE, "ok", "correct"),
   Tir(1, "timeout", TRUE, "ok", "correct"), Tir(1, "correct", TRUE, "ok", "timeout")}

Span(chars, equation, symbols, operators, length, call) ==
  [macros |-> {"fixed", "braced"}, digit |-> TRUE, chars |-> chars, balanced |-> TRUE,
   emptyOperand |-> FALSE, equation |-> equation, symbols |-> symbols,
   operators |-> operators, length |-> length, call |-> call]
Problem(cues, delimited, bare, usable) ==
  [cues |-> cues, evaluate |-> bare # << >>, delimited |-> delimited, bare |-> bare,
   usable |-> usable]
Number == Span("grammar", "none", 0, 1, 3, 1)
\* A bare sum; an equation among other expressions, two of them one call; an
\* equation to differentiate; a record the canonicalizer quarantines.
MCProblems ==
  {Problem({}, << >>, <<Number>>, TRUE),
   Problem({"solve"},
           <<Span("grammar", "none", 1, 2, 9, 1), Span("grammar", "whole", 1, 3, 9, 1),
             Span("grammar", "none", 1, 1, 3, 2), Span("other", "none", 1, 1, 3, 3),
             Span("grammar", "none", 1, 0, 3, 3)>>, << >>, TRUE),
   Problem({"solve", "diff"}, <<Span("grammar", "whole", 1, 3, 9, 1)>>, <<Number>>, TRUE),
   Problem({"expand"},
           <<Span("grammar", "none", 2, 3, 9, 2), Span("grammar", "none", 0, 1, 9, 3)>>,
           << >>, FALSE)}

\* One record that fits, one that is too long, one the template rewrites.
MCRecords == {[tokens |-> 2, rewritten |-> FALSE], [tokens |-> 9, rewritten |-> FALSE],
              [tokens |-> 2, rewritten |-> TRUE]}

Ran(success, worded, steps, tools, errors, matched) ==
  [success |-> success, calculated |-> worded, proved |-> worded, medium |-> worded,
   steps |-> steps, tools |-> tools, errors |-> errors, revisits |-> errors > 0,
   matched |-> matched]
\* A failure with all that wording and economy pay, a success with nothing of
\* it, and one far past every limit.
MCTrajectories ==
  {Ran(FALSE, TRUE, 5, 2, 0, 4), Ran(TRUE, FALSE, 15, 7, 5, 0),
   Ran(TRUE, FALSE, 20, 9, 6, 0)}

VARIABLE part  \* which of them this behaviour is about

otherPools ==
  /\ text = << >> /\ evalTasks = {} /\ near = {} /\ unusable = {}
  /\ loaded = {} /\ exactKept = << >> /\ cursor = 1 /\ removedIds = {}
  /\ nearKept = {} /\ cut = NoSplits /\ splitFiles = NoFiles
  /\ manifestFile = NoFiles /\ pinned = << >> /\ taskList = << >>
  /\ verdict = "none" /\ builds = 0 /\ building = "idle"

otherSets ==
  /\ ranking = << >> /\ numeric = {} /\ formal = {} /\ pilot = {}
  /\ roundRan = FALSE /\ preflight = {} /\ aPool = {} /\ bPool = {}
  /\ roundFirst = FALSE

otherSources ==
  /\ mode = "direct" /\ sourceRows = << >> /\ sortOrder = << >>
  /\ batchSize = 1 /\ start = 1 /\ selected = {} /\ diagnostics = << >>
  /\ rejected = 0 /\ materializing = "running"

otherDemos ==
  /\ problems = << >> /\ verified = {} /\ censusRows = NoRows
  /\ gate = "idle" /\ sampled = << >> /\ position = 0 /\ attempt = 0
  /\ candidateLimit = 0 /\ late = FALSE /\ doneFile = << >> /\ summaryOf = {}

otherRuns ==
  /\ trainFile = 0 /\ splitManifest = 0 /\ freezing = "idle" /\ freezes = 0
  /\ sftPin = 1 /\ sftPrepared = FALSE
  /\ adapterTmp = NoAdapter /\ adapterDir = NoAdapter
  /\ adapterOld = NoAdapter /\ merged = NoModel
  /\ training = "idle" /\ trainConfig = 0 /\ overrides = {} /\ trainData = 0 /\ trainings = 0
  /\ everComplete = FALSE

otherTrainer ==
  /\ dataset = << >> /\ epochs = 0 /\ epoch = 0 /\ batchStart = 0
  /\ episode = 0 /\ metricsHistory = << >> /\ checkpoints = NoCheckpoints
  /\ trainer = "idle" /\ overlaid = FALSE

Init ==
  /\ part \in {"rollout", "pool", "sets", "sources", "demos", "sft", "rl"}
  /\ rolloutInit
  /\ IF part = "pool" THEN poolInit ELSE otherPools
  /\ IF part = "sets" THEN taskPoolInit ELSE otherSets
  /\ IF part = "sources" THEN sourceInit ELSE otherSources
  /\ IF part = "demos" THEN demoInit ELSE otherDemos
  /\ IF part = "sft" THEN sftInit ELSE otherRuns
  /\ IF part = "rl" THEN rlInit ELSE otherTrainer

Next ==
  /\ UNCHANGED part
  /\ \/ /\ part = "rollout" /\ rolloutNext
        /\ UNCHANGED <<poolVars, taskPoolVars, sourceVars, demoVars, sftVars, rlVars>>
     \/ /\ part = "pool" /\ poolNext
        /\ UNCHANGED <<rolloutVars, taskPoolVars, sourceVars, demoVars, sftVars, rlVars>>
     \/ /\ part = "sets" /\ taskPoolNext
        /\ UNCHANGED <<rolloutVars, poolVars, sourceVars, demoVars, sftVars, rlVars>>
     \/ /\ part = "sources" /\ sourceNext
        /\ UNCHANGED <<rolloutVars, poolVars, taskPoolVars, demoVars, sftVars, rlVars>>
     \/ /\ part = "demos" /\ demoNext
        /\ UNCHANGED <<rolloutVars, poolVars, taskPoolVars, sourceVars, sftVars, rlVars>>
     \/ /\ part = "sft" /\ sftNext
        /\ UNCHANGED <<rolloutVars, poolVars, taskPoolVars, sourceVars, demoVars, rlVars>>
     \/ /\ part = "rl" /\ rlNext
        /\ UNCHANGED <<rolloutVars, poolVars, taskPoolVars, sourceVars, demoVars, sftVars>>

Spec ==
  Init /\ [][Next]_<<part, rolloutVars, poolVars, taskPoolVars, sourceVars, demoVars,
                    sftVars, rlVars>>
=============================================================================
