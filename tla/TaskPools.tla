----------------------------- MODULE TaskPools -------------------------------
(***************************************************************************)
(* The task sets of the two diagnostics, drawn from one frozen pool:       *)
(* scripts/data/build_diagnostic_set.py (round 1) and                      *)
(* scripts/data/build_feedback_recovery_set.py (the study's A and B).      *)
(*                                                                         *)
(* What a set must leave out is what others have spent, and the builders   *)
(* learn it from files: the list of the 200, and the task_pool.jsonl an    *)
(* experiment leaves when it runs.  The experiments run when they please.  *)
(***************************************************************************)
EXTENDS Integers, Sequences, FiniteSets, SequencesExt, FiniteSetsExt

CONSTANTS
  FrozenPool,   \* task ids of frozen_eval.parquet, in the order of their ids
  SpentFirst,   \* the tasks of the 200, in task_ids.txt
  Difficulty,   \* each task's difficulty
  Layers,       \* the study's layers: sets of difficulties, easier first
  FormalPer, PilotPer,   \* tasks of a stratum: formal and pilot
  Strata,       \* round 1's strata
  APer, BPer    \* tasks of a layer for A and for B

ASSUME TaskPoolAssumption ==
  /\ FrozenPool \subseteq Nat /\ IsFiniteSet(FrozenPool)
  /\ Difficulty \in [FrozenPool -> Nat]
  /\ {FormalPer, PilotPer, APer, BPer} \subseteq Nat
  /\ PilotPer <= FormalPer /\ Strata \in Nat \ {0}
  /\ \A i, j \in DOMAIN Layers : i < j =>
       \A a \in Layers[i], b \in Layers[j] : a < b

VARIABLES
  ranking,      \* stable_order_key: the order of its hashes in each layer
  numeric,      \* tasks whose reference value is a plain number
  formal,       \* round 1's formal set, and its pilot
  pilot,
  roundRan,     \* round 1 left its task_pool.jsonl
  preflight,    \* tasks of the study's pre-flights
  aPool, bPool, \* the study's sets
  roundFirst    \* round 1 had run before the study's sets were first built

taskPoolVars == <<ranking, numeric, formal, pilot, roundRan, preflight, aPool,
                  bPool, roundFirst>>
-----------------------------------------------------------------------------
\* Mutant: the pattern of round 1's pools matches nothing.
UsedWithoutRound == SpentFirst \cup preflight

\* _used_ids over EXCLUSION_SOURCES: what the files on the disk prove.
Used ==
  SpentFirst \cup preflight \cup (IF roundRan THEN formal ELSE {})

Before(a, b) ==
  \/ Difficulty[a] < Difficulty[b]
  \/ Difficulty[a] = Difficulty[b] /\ a < b

\* np.array_split of the pool sorted by (difficulty, task_id).
ByDifficulty(tasks) ==
  [i \in 1..Cardinality(tasks) |->
     CHOOSE t \in tasks : Cardinality({u \in tasks : Before(u, t)}) = i - 1]

Stratum(ordered, k) ==
  LET n == Len(ordered)
      extra == n % Strata
      start == (k - 1) * (n \div Strata) + Min({k - 1, extra})
      size == (n \div Strata) + (IF k <= extra THEN 1 ELSE 0)
  IN  SubSeq(ordered, start + 1, start + size)

\* rng.sample of a stratum: any FormalPer of it in any order, of which the
\* first PilotPer are the pilot's.
Samples(chunk) ==
  {sets \in kSubset(FormalPer, Range(chunk)) \X kSubset(PilotPer, Range(chunk)) :
     sets[2] \subseteq sets[1]}

\* round 1: the pool without the 200.
BuildRound ==
  LET ordered == ByDifficulty(FrozenPool \ SpentFirst)
  IN  /\ formal = {}
      /\ \A k \in 1..Strata : Len(Stratum(ordered, k)) >= FormalPer
      /\ \E pick \in [1..Strata -> UNION {Samples(Stratum(ordered, k)) :
                                            k \in 1..Strata}] :
           /\ \A k \in 1..Strata : pick[k] \in Samples(Stratum(ordered, k))
           /\ formal' = UNION {pick[k][1] : k \in 1..Strata}
           /\ pilot' = UNION {pick[k][2] : k \in 1..Strata}
      /\ UNCHANGED <<ranking, numeric, roundRan, preflight, aPool, bPool, roundFirst>>

\* The round runs on its formal set and leaves its pool.
RunRound ==
  /\ formal # {} /\ ~roundRan
  /\ roundRan' = TRUE
  /\ UNCHANGED <<ranking, numeric, formal, pilot, preflight, aPool, bPool, roundFirst>>

\* The study's pre-flight takes a task outside its sets.
Preflight ==
  /\ preflight = {}
  /\ \E t \in FrozenPool \ (aPool \cup bPool) : preflight' = {t}
  /\ UNCHANGED <<ranking, numeric, formal, pilot, roundRan, aPool, bPool, roundFirst>>

\* A layer's positions whose tasks may be drawn, and the rank of each.
Eligible(k, used) == {i \in DOMAIN ranking[k] : ranking[k][i] \in numeric \ used}
Place(positions, i) == Cardinality({j \in positions : j <= i})

\* Mutant: the draw is a seeded sample by position in the eligible rows.
DrawByPosition(used, first, size) ==
  UNION {LET n == Cardinality(Eligible(k, used))
         IN  {ranking[k][i] : i \in {j \in Eligible(k, used) :
                \E m \in first..(first + size - 1) :
                  Place(Eligible(k, used), j) = (m % n) + 1}} : k \in DOMAIN Layers}

\* The ranks first..first + size - 1 of every layer.
Draw(used, first, size) ==
  UNION {{ranking[k][i] : i \in {j \in Eligible(k, used) :
            Place(Eligible(k, used), j) \in first..(first + size - 1)}} :
           k \in DOMAIN Layers}

\* The study's sets, first built or built again.  A layer with too few tasks
\* ends the script, and so does an overlap it looks for.
BuildStudy ==
  /\ \A k \in DOMAIN Layers : Cardinality(Eligible(k, Used)) >= APer + BPer
  /\ aPool' = Draw(Used, 1, APer)
  /\ bPool' = Draw(Used, APer + 1, BPer)
  /\ aPool' \cap bPool' = {}
  /\ (aPool' \cup bPool') \cap Used = {}
  /\ roundFirst' = (IF aPool = {} THEN roundRan ELSE roundFirst)
  /\ UNCHANGED <<ranking, numeric, formal, pilot, roundRan, preflight>>

LayerTasks(k) == {t \in FrozenPool : Difficulty[t] \in Layers[k]}

taskPoolInit ==
  /\ ranking \in [DOMAIN Layers -> UNION {SetToSeqs(LayerTasks(k)) : k \in DOMAIN Layers}]
  /\ \A k \in DOMAIN Layers : Range(ranking[k]) = LayerTasks(k)
  /\ numeric \in {FrozenPool, FrozenPool \ {Max(FrozenPool)}}
  /\ formal = {} /\ pilot = {} /\ roundRan = FALSE /\ preflight = {}
  /\ aPool = {} /\ bPool = {} /\  roundFirst = FALSE

taskPoolNext == BuildRound \/ RunRound \/ Preflight \/ BuildStudy

taskPoolSpec == taskPoolInit /\ [][taskPoolNext]_taskPoolVars
-----------------------------------------------------------------------------
(* Properties.                                                             *)

\* The study keeps its tasks: built again, its sets are the same ones unless
\* one of their tasks has been spent meanwhile, whatever other tasks the
\* round and the pre-flights took (main, the exclusion before the ranks).
StudySetsSettled ==
  [][aPool # {} /\ <<aPool, bPool>> # <<aPool', bPool'>>
       => (aPool \cup bPool) \cap Used # {}]_taskPoolVars

\* A round that ran before the study was drawn shares no task with it, and
\* the pilot is one task of every stratum of the formal set.
StudyIsFresh ==
  /\ roundFirst => (aPool \cup bPool) \cap formal = {}
  /\ aPool \cap bPool = {}
  /\ Cardinality(formal) \in {0, Strata * FormalPer}
  /\ pilot \subseteq formal /\ Cardinality(pilot) \in {0, Strata * PilotPer}
=============================================================================
