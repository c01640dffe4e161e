------------------------- MODULE Evaluation_proofs -------------------------
(***************************************************************************)
(* Proofs about the evaluation's journal, the sharded arms and the health  *)
(* measurement, for any tasks, shards, groups and rewards, and any number  *)
(* of invocations, processes and kills: a prediction is made and counted   *)
(* once and what is published is one experiment; an arm's metrics are over *)
(* the frozen tasks, each once; a measurement that says it is complete is  *)
(* a whole one.                                                            *)
(***************************************************************************)
EXTENDS EvalJournal, ArmRun, RolloutHealth, FoldTheorems


\* The rows of a journal that a kill did not cut, and a task in one place only.
Whole(s) == {s[i] : i \in {j \in DOMAIN s : s[j] # Torn}}
Unique(s) ==
  \A i, j \in DOMAIN s :
    s[i] # Torn /\ s[j] # Torn /\ s[i].task = s[j].task => i = j
Line == Row \cup {Torn}

\* What the proofs need of the types: an invocation has its arms and the
\* manifest it is remembered by.
JournalType ==
  /\ rows \in [Arms -> Seq(Line)]
  /\ have \in [Arms -> SUBSET Row]
  /\ batch \in SUBSET Tasks
  /\ arm \in Nat \ {0}
  /\ run \in Nat /\ run <= MaxRuns
  /\ ranUnder \in [1..MaxRuns -> Manifests \cup {None}]
  /\ pc # "down" => run >= 1 /\ want \in ArmSeqs /\ mine \in Manifests
                      /\ ranUnder[run] = mine
  /\ progress # None => progress \in [Arms -> Nat]

\* A task is journaled once, and every row was made under the journal's
\* manifest; those of the invocation itself come after it opened the journal.
JournalRows ==
  /\ \A a \in Arms : Unique(rows[a])
  /\ \A a \in Arms : \A r \in Whole(rows[a]) :
       r.run <= run /\ manifest # None /\ ranUnder[r.run] = manifest
  /\ pc \in {"started", "made", "bound", "open"} =>
       \A a \in Arms : \A r \in Whole(rows[a]) : r.run < run
  /\ ended # "duplicate row"

\* An invocation is bound to its manifest before it reads or writes a row.
JournalBound ==
  /\ pc = "made" => manifest = None
  /\ pc \in {"bound", "open", "evaluating", "appended", "published"} => manifest = mine
  /\ pc \in {"made", "bound", "open", "evaluating", "appended"} => out = None

\* What an invocation remembers is what the journal holds; what it generated is
\* in neither.
Memory ==
  /\ pc \notin {"evaluating", "appended", "published"} => arm = 1 /\ batch = {}
  /\ pc \in {"evaluating", "appended"} =>
       /\ \A i \in DOMAIN want :
            /\ Parses(rows[want[i]])
            /\ have[want[i]] = Whole(rows[want[i]])
            /\ i < arm => Tasks \subseteq TaskIds(have[want[i]])
       /\ batch # {} => arm <= Len(want) /\ batch \cap TaskIds(have[TheArm]) = {}
  /\ pc = "appended" => arm <= Len(want)

\* The counts: exact in an arm once this invocation has counted a row there.
Counted ==
  progress # None =>
    \A a \in Arms :
      /\ progress[a] <= Len(rows[a])
      /\ /\ pc = "evaluating" \/ (pc = "appended" /\ a # TheArm)
         /\ \E r \in Whole(rows[a]) : r.run = run
         => progress[a] = Len(rows[a])

\* What is published: a row per task, the journal's own, of one experiment.
Output ==
  out # None =>
    /\ \A a \in DOMAIN out :
         /\ a \in Arms /\ out[a] \subseteq Row
         /\ TaskIds(out[a]) = Tasks
         /\ \A r, q \in out[a] : r.task = q.task => r = q
         /\ dir => out[a] = Whole(rows[a])
    /\ \E m \in Manifests : \A a \in DOMAIN out : \A r \in out[a] :
         r.run <= run /\ ranUnder[r.run] = m

JournalInv ==
  JournalType /\ JournalRows /\ JournalBound /\ Memory /\ Counted /\ Output
-----------------------------------------------------------------------------
(* Rows and sets of rows.                                                  *)

LEMMA TornIsNoRow == Torn \notin Row
<1>1. SUFFICES ASSUME Torn \in Row PROVE FALSE
  OBVIOUS
<1>2. DOMAIN Torn = {"task", "run"}
  BY <1>1 DEF Row
<1>3. DOMAIN Torn = {"torn"}
  BY DEF Torn
<1> QED
  BY <1>2, <1>3

LEMMA AppendWhole ==
  ASSUME NEW s \in Seq(Line), NEW row \in Row, Unique(s), row.task \notin TaskIds(Whole(s))
  PROVE  /\ Whole(Append(s, row)) = Whole(s) \cup {row}
         /\ Unique(Append(s, row))
         /\ Parses(s) => Parses(Append(s, row))
         /\ Append(s, row) \in Seq(Line) /\ Len(Append(s, row)) = Len(s) + 1
<1> DEFINE t == Append(s, row)
<1>1. /\ Len(t) = Len(s) + 1 /\ t[Len(t)] = row /\ t \in Seq(Line)
      /\ \A i \in DOMAIN s : i \in DOMAIN t /\ t[i] = s[i]
      /\ \A i \in DOMAIN t : i \in DOMAIN s \/ i = Len(t)
      /\ Len(t) \in DOMAIN t
  BY DEF Line
<1>2. row # Torn
  BY TornIsNoRow
<1> HIDE DEF t
<1>3. \A i \in DOMAIN s : s[i] # Torn => s[i].task # row.task
  BY DEF Whole, TaskIds
<1>4. Unique(t)
  BY <1>1, <1>2, <1>3 DEF Unique
<1>5. Whole(t) = Whole(s) \cup {row}
  <2>1. ASSUME NEW r \in Whole(t) PROVE r \in Whole(s) \cup {row}
    BY <1>1, <2>1 DEF Whole
  <2>2. ASSUME NEW r \in Whole(s) PROVE r \in Whole(t)
    BY <1>1, <2>2 DEF Whole
  <2>3. row \in Whole(t)
    BY <1>1, <1>2 DEF Whole
  <2> QED
    BY <2>1, <2>2, <2>3
<1>6. Parses(s) => Parses(t)
  BY <1>1, <1>2 DEF Parses
<1> QED
  BY <1>1, <1>4, <1>5, <1>6 DEF t

LEMMA AppendTorn ==
  ASSUME NEW s \in Seq(Line), Unique(s)
  PROVE  /\ Whole(Append(s, Torn)) = Whole(s)
         /\ Unique(Append(s, Torn))
         /\ Append(s, Torn) \in Seq(Line) /\ Len(Append(s, Torn)) = Len(s) + 1
<1> DEFINE t == Append(s, Torn)
<1>1. /\ Len(t) = Len(s) + 1 /\ t[Len(t)] = Torn /\ t \in Seq(Line)
      /\ \A i \in DOMAIN s : i \in DOMAIN t /\ t[i] = s[i]
      /\ \A i \in DOMAIN t : i \in DOMAIN s \/ i = Len(t)
  BY DEF Line
<1> HIDE DEF t
<1>2. Unique(t)
  BY <1>1 DEF Unique
<1>3. Whole(t) = Whole(s)
  <2>1. ASSUME NEW r \in Whole(t) PROVE r \in Whole(s)
    BY <1>1, <2>1 DEF Whole
  <2>2. ASSUME NEW r \in Whole(s) PROVE r \in Whole(t)
    BY <1>1, <2>2 DEF Whole
  <2> QED
    BY <2>1, <2>2
<1> QED
  BY <1>1, <1>2, <1>3 DEF t

LEMMA WholeIsRows ==
  ASSUME NEW s \in Seq(Line), Unique(s)
  PROVE  /\ Whole(s) \subseteq Row
         /\ \A r, q \in Whole(s) : r.task = q.task => r = q
BY DEF Whole, Line, Unique

\* A row per task is as many rows as tasks.
LEMMA RowPerTask ==
  ASSUME NEW S, S \subseteq Row, TaskIds(S) = Tasks,
         \A r, q \in S : r.task = q.task => r = q
  PROVE  Cardinality(S) = Cardinality(Tasks)
<1> DEFINE f == [t \in Tasks |-> CHOOSE r \in S : r.task = t]
<1>1. \A t \in Tasks : f[t] \in S /\ f[t].task = t
  BY DEF TaskIds
<1>2. f \in [Tasks -> S]
  BY <1>1
<1>3. f \in Injection(Tasks, S)
  BY <1>1, <1>2 DEF Injection, IsInjective
<1>4. \A r \in S : r.task \in Tasks /\ f[r.task] = r
  BY <1>1 DEF TaskIds
<1>5. f \in Surjection(Tasks, S)
  BY <1>2, <1>4 DEF Surjection
<1>6. ExistsBijection(Tasks, S)
  BY <1>3, <1>5 DEF ExistsBijection, Bijection
<1> QED
  BY <1>6, FS_Bijection, JournalAssumption

LEMMA JournaledIsWhole ==
  /\ \A a : Journaled(a) = Whole(rows[a])
  /\ \A a : Journaled(a)' = Whole(rows'[a])
BY DEF Journaled, Whole

LEMMA ArmsInOrder ==
  ASSUME NEW w \in ArmSeqs
  PROVE  /\ Len(w) \in Nat /\ DOMAIN w = 1..Len(w) /\ Len(w) >= 1
         /\ \A i \in DOMAIN w : w[i] \in Arms
<1>1. w = <<"base", "sft">> \/ w = <<"sft">>
  BY JournalAssumption
<1>2. CASE w = <<"base", "sft">>
  BY <1>2 DEF Arms
<1>3. CASE w = <<"sft">>
  BY <1>3 DEF Arms
<1> QED
  BY <1>1, <1>2, <1>3
-----------------------------------------------------------------------------
(* The steps.                                                              *)

LEMMA FirstArm == 1 \in Nat \ {0}
OBVIOUS

\* A process that is gone has no memory; its files are what they were.
LEMMA ForgetStep ==
  ASSUME JournalInv, pc' = "down", have' = NoRows, batch' = {}, arm' = 1,
         ended' # "duplicate row",
         UNCHANGED <<dir, manifest, progress, rows, out, run, ranUnder>>
  PROVE  JournalInv'
<1> USE DEF JournalInv
<1>1. JournalType'
  <2>1. have' \in [Arms -> SUBSET Row] /\ batch' \in SUBSET Tasks
    BY DEF NoRows
  <2>2. arm' \in Nat \ {0}
    BY FirstArm, Zenon
  <2> QED
    BY <2>1, <2>2 DEF JournalType
<1>2. JournalRows'
  BY DEF JournalRows
<1>3. JournalBound' /\ Memory' /\ Counted' /\ Output'
  BY DEF JournalBound, Memory, Counted, Output
<1> QED
  BY <1>1, <1>2, <1>3

LEMMA GoneStep ==
  ASSUME JournalInv, NEW how, Gone(how), how # "duplicate row",
         UNCHANGED <<files, run, ranUnder>>
  PROVE  JournalInv'
BY ForgetStep DEF Gone, files

LEMMA StartStep == ASSUME JournalInv, Start PROVE JournalInv'
<1> USE DEF JournalInv, Start, files
<1>1. /\ run' = run + 1 /\ run \in Nat /\ run' \in 1..MaxRuns /\ run' >= 1
      /\ ranUnder' = [ranUnder EXCEPT ![run'] = mine'] /\ mine' \in Manifests
      /\ want' \in ArmSeqs /\ pc = "down" /\ pc' = "started"
  BY JournalAssumption DEF JournalType
<1>2. /\ ranUnder' \in [1..MaxRuns -> Manifests \cup {None}]
      /\ ranUnder'[run'] = mine'
      /\ \A i \in 1..MaxRuns : i <= run => ranUnder'[i] = ranUnder[i]
  BY <1>1 DEF JournalType
<1>3. JournalType'
  BY <1>1, <1>2 DEF JournalType
<1>4. \A a \in Arms : Whole(rows[a]) \subseteq Row
  BY WholeIsRows DEF JournalType, JournalRows
<1>5. JournalRows'
  <2>1. ASSUME NEW a \in Arms, NEW r \in Whole(rows[a])
        PROVE  r.run < run' /\ r.run <= run' /\ manifest # None /\ ranUnder'[r.run] = manifest
    <3>1. r.run \in 1..MaxRuns /\ r.run <= run /\ manifest # None /\ ranUnder[r.run] = manifest
      BY <1>4, <2>1 DEF JournalRows, Row
    <3> QED
      BY <1>1, <1>2, <3>1
  <2> QED
    BY <2>1 DEF JournalRows
<1>6. JournalBound' /\ Memory'
  BY DEF JournalBound, Memory
<1>7. Counted'
  BY DEF Counted
<1>8. Output'
  <2>1. SUFFICES ASSUME out # None PROVE Output'
    BY DEF Output
  <2>2. PICK m \in Manifests : \A a \in DOMAIN out : \A r \in out[a] :
           r.run <= run /\ ranUnder[r.run] = m
    BY <2>1 DEF Output
  <2>3. \A a \in DOMAIN out : \A r \in out[a] : r.run <= run' /\ ranUnder'[r.run] = m
    <3>1. ASSUME NEW a \in DOMAIN out, NEW r \in out[a]
          PROVE  r.run <= run' /\ ranUnder'[r.run] = m
      <4>1. r.run \in 1..MaxRuns /\ r.run <= run /\ ranUnder[r.run] = m
        BY <2>1, <2>2 DEF Output, Row
      <4> QED
        BY <1>1, <1>2, <4>1
    <3> QED
      BY <3>1
  <2> QED
    BY <2>1, <2>3 DEF Output
<1> QED
  BY <1>3, <1>5, <1>6, <1>7, <1>8

\* The journal's creation and its reopening: no row is touched.
LEMMA OpeningStep ==
  ASSUME JournalInv, Reopen \/ MakeDirectory \/ WriteManifest \/ WriteProgress
  PROVE  JournalInv'
<1> USE DEF JournalInv, files
<1>1. /\ UNCHANGED <<rows, out, ended, mine, want, have, batch, arm, run, ranUnder>>
      /\ pc # "down" /\ pc \in {"started", "made", "bound"}
      /\ pc' \in {"made", "bound", "open"}
  BY DEF Reopen, MakeDirectory, WriteManifest, WriteProgress
<1>2. progress' = progress \/ progress' = [a \in Arms |-> 0]
  BY DEF Reopen, MakeDirectory, WriteManifest, WriteProgress
<1>3. JournalType'
  BY <1>1, <1>2 DEF JournalType
<1>4. out = None
  BY DEF Reopen, MakeDirectory, WriteManifest, WriteProgress, JournalBound
<1>5. JournalBound'
  BY <1>1, <1>4 DEF Reopen, MakeDirectory, WriteManifest, WriteProgress, JournalBound
<1>6. JournalRows'
  <2>1. CASE manifest' = manifest
    BY <1>1, <2>1 DEF JournalRows
  <2>2. CASE WriteManifest
    <3>1. \A a \in Arms : Whole(rows[a]) = {}
      BY <2>2 DEF WriteManifest, JournalRows, JournalBound
    <3> QED
      BY <1>1, <3>1 DEF JournalRows
  <2> QED
    BY <2>1, <2>2 DEF Reopen, MakeDirectory, WriteProgress
<1>7. Memory'
  BY <1>1 DEF Memory
<1>8. Counted'
  <2>1. \A a \in Arms : Len(rows[a]) \in Nat
    BY DEF JournalType
  <2> QED
    BY <1>1, <1>2, <2>1 DEF Counted
<1>9. Output'
  BY <1>1, <1>4 DEF Output
<1> QED
  BY <1>3, <1>5, <1>6, <1>7, <1>8, <1>9

LEMMA ReadRowsStep == ASSUME JournalInv, ReadRows PROVE JournalInv'
<1>1. CASE ~ \A a \in Wanted : Parses(rows[a])
  BY <1>1, GoneStep DEF ReadRows
<1>2. CASE \A a \in Wanted : Parses(rows[a])
  <2> USE DEF JournalInv, files
  <2>1. /\ have' = [a \in Arms |-> IF a \in Wanted THEN Whole(rows[a]) ELSE {}]
        /\ pc = "open" /\ pc' = "evaluating"
        /\ UNCHANGED <<dir, manifest, progress, rows, out, ended, mine, want, batch,
                       arm, run, ranUnder>>
    BY <1>2, JournaledIsWhole DEF ReadRows
  <2>2. arm = 1 /\ batch = {} /\ want \in ArmSeqs
    BY <2>1 DEF Memory, JournalType
  <2>3. \A a \in Arms : Whole(rows[a]) \subseteq Row
    BY WholeIsRows DEF JournalType, JournalRows
  <2>4. have' \in [Arms -> SUBSET Row]
    BY <2>1, <2>3
  <2>5. JournalType' /\ JournalRows' /\ JournalBound'
    BY <2>1, <2>4 DEF JournalType, JournalRows, JournalBound
  <2>6. Memory'
    <3>1. \A i \in DOMAIN want : want[i] \in Wanted /\ want[i] \in Arms /\ i >= 1 /\ i \in Nat
      BY <2>2, ArmsInOrder DEF Wanted
    <3>2. \A i \in DOMAIN want : Parses(rows[want[i]]) /\ have'[want[i]] = Whole(rows[want[i]])
      BY <1>2, <2>1, <3>1
    <3> QED
      BY <2>1, <2>2, <3>1, <3>2 DEF Memory
  <2>7. Counted'
    <3>1. \A a \in Arms : \A r \in Whole(rows[a]) : r.run < run /\ r.run \in Nat
      <4>1. ASSUME NEW a \in Arms, NEW r \in Whole(rows[a])
            PROVE  r.run < run /\ r.run \in Nat
        <5>1. r \in Row
          BY <2>3, <4>1
        <5>2. r.run \in 1..MaxRuns
          BY <5>1 DEF Row
        <5>3. r.run < run
          BY <2>1, <4>1 DEF JournalRows
        <5>4. r.run \in Nat
          BY <5>2, JournalAssumption
        <5> QED
          BY <5>3, <5>4
      <4> QED
        BY <4>1
    <3>2. run \in Nat
      BY DEF JournalType
    <3>3. \A a \in Arms : \A r \in Whole(rows[a]) : r.run # run
      BY <3>1, <3>2
    <3> QED
      BY <2>1, <3>3 DEF Counted
  <2>8. Output'
    BY <2>1 DEF Output
  <2> QED
    BY <2>5, <2>6, <2>7, <2>8
<1> QED
  BY <1>1, <1>2

LEMMA GenerateStep == ASSUME JournalInv, Generate PROVE JournalInv'
<1> USE DEF JournalInv, files
<1>1. /\ pc = "evaluating" /\ batch = {} /\ arm <= Len(want)
      /\ UNCHANGED <<dir, manifest, progress, rows, out, pc, ended, mine, want, have,
                     run, ranUnder>>
      /\ \/ /\ Pending(TheArm) = {} /\ arm' = arm + 1 /\ UNCHANGED batch
         \/ /\ batch' \subseteq Pending(TheArm) /\ UNCHANGED arm
  BY DEF Generate
<1>2. want \in ArmSeqs /\ arm \in DOMAIN want /\ arm \in Nat /\ Len(want) \in Nat
  BY <1>1, ArmsInOrder DEF JournalType
<1>3. JournalType' /\ JournalRows' /\ JournalBound'
  <2>1. batch' \in SUBSET Tasks /\ arm' \in Nat \ {0}
    BY <1>1, <1>2 DEF JournalType, Pending
  <2> QED
    BY <1>1, <2>1 DEF JournalType, JournalRows, JournalBound
<1>4. Memory'
  <2>1. CASE Pending(TheArm) = {} /\ arm' = arm + 1 /\ UNCHANGED batch
    <3>1. Tasks \subseteq TaskIds(have[want[arm]])
      BY <2>1 DEF Pending, TheArm
    <3>2. \A i \in DOMAIN want : i < arm + 1 => i < arm \/ i = arm
      BY <1>2, ArmsInOrder
    <3> QED
      BY <1>1, <2>1, <3>1, <3>2 DEF Memory
  <2>2. CASE batch' \subseteq Pending(TheArm) /\ UNCHANGED arm
    BY <1>1, <2>2 DEF Memory, Pending, TheArm
  <2> QED
    BY <1>1, <2>1, <2>2
<1>5. Counted' /\ Output'
  BY <1>1 DEF Counted, Output
<1> QED
  BY <1>3, <1>4, <1>5

\* The row that is appended is of a task the journal does not have in this arm.
LEMMA AppendRowStep == ASSUME JournalInv, AppendRow PROVE JournalInv'
<1> USE DEF JournalInv, files
<1> DEFINE t == FirstOf(batch)
           row == [task |-> t, run |-> run]
           b == want[arm]
<1>1. pc = "evaluating" /\ batch # {} /\ batch \in SUBSET Tasks
  BY DEF AppendRow, JournalType
<1>2. t \in batch /\ t \in Tasks
  BY <1>1, OrderAssumption DEF FirstOf
<1>3. /\ want \in ArmSeqs /\ arm \in DOMAIN want /\ b \in Arms /\ run \in 1..MaxRuns
      /\ mine \in Manifests /\ ranUnder[run] = mine /\ manifest = mine /\ out = None
      /\ arm <= Len(want)
  BY <1>1, ArmsInOrder DEF JournalType, Memory, JournalBound
<1>4. row \in Row /\ row.task = t /\ row.run = run
  BY <1>2, <1>3 DEF Row
<1> HIDE DEF t
<1>5. have[b] = Whole(rows[b]) /\ t \notin TaskIds(Whole(rows[b]))
  BY <1>1, <1>2, <1>3 DEF Memory, TheArm
<1>6. /\ have' = [have EXCEPT ![b] = @ \cup {row}]
      /\ rows' = [rows EXCEPT ![b] = Append(@, row)]
      /\ batch' = batch \ {t} /\ pc' = "appended"
      /\ UNCHANGED <<dir, manifest, progress, out, ended, mine, want, arm, run, ranUnder>>
  BY <1>5, JournaledIsWhole DEF AppendRow, TheArm, t
<1> HIDE DEF row
<1>7. rows[b] \in Seq(Line) /\ Unique(rows[b])
  BY <1>3 DEF JournalType, JournalRows
<1>8. /\ Whole(Append(rows[b], row)) = Whole(rows[b]) \cup {row}
      /\ Unique(Append(rows[b], row))
      /\ Parses(rows[b]) => Parses(Append(rows[b], row))
      /\ Append(rows[b], row) \in Seq(Line)
      /\ Len(Append(rows[b], row)) = Len(rows[b]) + 1
  BY <1>4, <1>5, <1>7, AppendWhole
<1>9. /\ rows \in [Arms -> Seq(Line)] /\ have \in [Arms -> SUBSET Row]
      /\ rows'[b] = Append(rows[b], row) /\ have'[b] = have[b] \cup {row}
      /\ \A a \in Arms : a # b => rows'[a] = rows[a] /\ have'[a] = have[a]
  BY <1>3, <1>6 DEF JournalType
<1>10. JournalType'
  <2>1. rows' \in [Arms -> Seq(Line)]
    BY <1>3, <1>6, <1>8, <1>9
  <2>2. have' \in [Arms -> SUBSET Row]
    BY <1>3, <1>4, <1>6, <1>9
  <2> QED
    BY <1>1, <1>6, <2>1, <2>2 DEF JournalType
<1>11. JournalRows'
  <2>1. \A a \in Arms : Unique(rows'[a])
    BY <1>8, <1>9 DEF JournalRows
  <2>2. \A a \in Arms : \A r \in Whole(rows'[a]) :
          r.run <= run /\ manifest # None /\ ranUnder[r.run] = manifest
    <3>1. row.run <= run /\ manifest # None /\ ranUnder[row.run] = manifest
      BY <1>3, <1>4, JournalAssumption
    <3>2. ASSUME NEW a \in Arms, NEW r \in Whole(rows'[a])
          PROVE  r \in Whole(rows[a]) \/ r = row
      BY <1>8, <1>9, <3>2
    <3> QED
      BY <3>1, <3>2 DEF JournalRows
  <2> QED
    BY <1>6, <2>1, <2>2 DEF JournalRows
<1>12. JournalBound'
  BY <1>3, <1>6 DEF JournalBound
<1>13. Memory'
  <2>1. ASSUME NEW i \in DOMAIN want
        PROVE  /\ Parses(rows'[want[i]])
               /\ have'[want[i]] = Whole(rows'[want[i]])
               /\ i < arm => Tasks \subseteq TaskIds(have'[want[i]])
    <3>1. want[i] \in Arms
      BY <1>3, <2>1, ArmsInOrder
    <3>2. /\ Parses(rows[want[i]]) /\ have[want[i]] = Whole(rows[want[i]])
          /\ i < arm => Tasks \subseteq TaskIds(have[want[i]])
      BY <1>1, <2>1 DEF Memory
    <3>3. CASE want[i] = b
      <4>1. Parses(rows'[b]) /\ have'[b] = Whole(rows'[b])
        BY <1>5, <1>8, <1>9, <3>2, <3>3
      <4>2. TaskIds(have[b]) \subseteq TaskIds(have'[b])
        BY <1>9 DEF TaskIds
      <4> QED
        BY <3>2, <3>3, <4>1, <4>2
    <3>4. CASE want[i] # b
      BY <1>9, <3>1, <3>2, <3>4
    <3> QED
      BY <3>3, <3>4
  <2>2. batch' \cap TaskIds(have'[b]) = {}
    <3>1. TaskIds(have'[b]) = TaskIds(have[b]) \cup {t}
      BY <1>4, <1>9 DEF TaskIds
    <3>2. batch \cap TaskIds(have[b]) = {}
      BY <1>1 DEF Memory, TheArm
    <3> QED
      BY <1>6, <3>1, <3>2
  <2> QED
    BY <1>3, <1>6, <2>1, <2>2 DEF Memory, TheArm
<1>14. Counted'
  <2>1. SUFFICES ASSUME progress # None PROVE Counted'
    BY <1>6 DEF Counted
  <2>2. ASSUME NEW a \in Arms
        PROVE  /\ progress[a] <= Len(rows'[a])
               /\ a # b /\ (\E r \in Whole(rows'[a]) : r.run = run)
                    => progress[a] = Len(rows'[a])
    <3>1. /\ progress[a] <= Len(rows[a])
          /\ (\E r \in Whole(rows[a]) : r.run = run) => progress[a] = Len(rows[a])
      BY <1>1, <2>1 DEF Counted
    <3>2. progress[a] \in Nat /\ Len(rows[a]) \in Nat
      BY <1>9, <2>1 DEF JournalType
    <3>3. CASE a = b
      BY <1>8, <1>9, <3>1, <3>2, <3>3
    <3>4. CASE a # b
      BY <1>9, <3>1, <3>4
    <3> QED
      BY <3>3, <3>4
  <2> QED
    BY <1>6, <2>2 DEF Counted, TheArm
<1>15. Output'
  BY <1>3, <1>6 DEF Output
<1> QED
  BY <1>10, <1>11, <1>12, <1>13, <1>14, <1>15

\* The count becomes exact in the arm of the row just written.
LEMMA CountStep == ASSUME JournalInv, Count PROVE JournalInv'
<1>1. CASE progress = None
  BY <1>1, GoneStep DEF Count, files
<1>2. CASE progress # None
  <2> USE DEF JournalInv
  <2> DEFINE b == want[arm]
  <2>1. /\ pc = "appended" /\ pc' = "evaluating"
        /\ progress' = [progress EXCEPT ![b] = Len(rows[b])]
        /\ UNCHANGED <<dir, manifest, rows, out, ended, mine, want, have, batch, arm,
                       run, ranUnder>>
    BY <1>2 DEF Count, TheArm
  <2>2. /\ b \in Arms /\ progress \in [Arms -> Nat] /\ rows \in [Arms -> Seq(Line)]
    BY <1>2, <2>1, ArmsInOrder DEF JournalType, Memory
  <2>3. /\ progress' \in [Arms -> Nat] /\ progress'[b] = Len(rows[b])
        /\ \A a \in Arms : a # b => progress'[a] = progress[a]
        /\ Len(rows[b]) \in Nat
    BY <2>1, <2>2
  <2>4. JournalType' /\ JournalRows' /\ JournalBound' /\ Memory'
    BY <2>1, <2>3 DEF JournalType, JournalRows, JournalBound, Memory, TheArm
  <2>5. Counted'
    <3>1. ASSUME NEW a \in Arms
          PROVE  /\ progress'[a] <= Len(rows[a])
                 /\ (\E r \in Whole(rows[a]) : r.run = run) => progress'[a] = Len(rows[a])
      <4>1. CASE a = b
        BY <2>3, <4>1
      <4>2. CASE a # b
        BY <1>2, <2>1, <2>3, <4>2 DEF Counted, TheArm
      <4> QED
        BY <4>1, <4>2
    <3> QED
      BY <2>1, <3>1 DEF Counted
  <2>6. Output'
    BY <2>1 DEF Output
  <2> QED
    BY <2>4, <2>5, <2>6
<1> QED
  BY <1>1, <1>2

\* Every arm is done: what is published has all tasks, and only rows made
\* under this invocation's manifest.
LEMMA PublishStep == ASSUME JournalInv, Publish PROVE JournalInv'
<1> USE DEF JournalInv
<1>1. /\ pc = "evaluating" /\ batch = {} /\ arm > Len(want) /\ pc' = "published"
      /\ out' = [a \in Wanted |-> have[a]]
      /\ UNCHANGED <<dir, manifest, progress, rows, ended, mine, want, have, batch, arm,
                     run, ranUnder>>
  BY DEF Publish
<1>2. want \in ArmSeqs /\ mine \in Manifests /\ manifest = mine
  BY <1>1 DEF JournalType, JournalBound
<1>3. JournalType' /\ JournalRows' /\ JournalBound' /\ Memory' /\ Counted'
  BY <1>1 DEF JournalType, JournalRows, JournalBound, Memory, Counted
<1>4. ASSUME NEW a \in DOMAIN out'
      PROVE  /\ a \in Arms /\ out'[a] \subseteq Row
             /\ TaskIds(out'[a]) = Tasks
             /\ \A r, q \in out'[a] : r.task = q.task => r = q
             /\ out'[a] = Whole(rows[a])
             /\ \A r \in out'[a] : r.run <= run /\ ranUnder[r.run] = mine
  <2>1. PICK i \in DOMAIN want : a = want[i]
    BY <1>1, <1>4 DEF Wanted
  <2>2. /\ i \in Nat /\ arm \in Nat /\ i < arm /\ want[i] \in Arms
    BY <1>1, <1>2, <2>1, ArmsInOrder DEF JournalType
  <2>3. out'[a] = have[a]
    BY <1>1, <2>1 DEF Wanted
  <2>4. have[a] = Whole(rows[a]) /\ Tasks \subseteq TaskIds(have[a])
    BY <1>1, <2>1, <2>2 DEF Memory
  <2>5. /\ have[a] \subseteq Row
        /\ \A r, q \in have[a] : r.task = q.task => r = q
    <3>1. rows[a] \in Seq(Line) /\ Unique(rows[a])
      BY <2>1, <2>2 DEF JournalType, JournalRows
    <3> QED
      BY <2>4, <3>1, WholeIsRows
  <2>6. TaskIds(have[a]) \subseteq Tasks
    BY <2>5 DEF TaskIds, Row
  <2>7. \A r \in have[a] : r.run <= run /\ ranUnder[r.run] = mine
    BY <1>2, <2>1, <2>2, <2>4 DEF JournalRows
  <2> QED
    BY <2>1, <2>2, <2>3, <2>4, <2>5, <2>6, <2>7
<1>5. Output'
  BY <1>1, <1>2, <1>4 DEF Output
<1> QED
  BY <1>3, <1>5

LEMMA RemoveJournalStep == ASSUME JournalInv, RemoveJournal PROVE JournalInv'
<1> USE DEF JournalInv
<1>1. /\ dir' = FALSE /\ progress' = None /\ rows' = [a \in Arms |-> << >>]
      /\ pc' = "down" /\ ended' = "returned" /\ have' = NoRows /\ batch' = {} /\ arm' = 1
      /\ UNCHANGED <<out, run, ranUnder>>
  BY DEF RemoveJournal, Gone
<1>2. \A a \in Arms : rows'[a] = << >> /\ Whole(rows'[a]) = {} /\ Unique(rows'[a])
  <2>1. Whole(<< >>) = {} /\ Unique(<< >>)
    BY DEF Whole, Unique
  <2> QED
    BY <1>1, <2>1
<1>3. JournalType'
  <2>1. /\ have' \in [Arms -> SUBSET Row] /\ batch' \in SUBSET Tasks
        /\ arm' \in Nat \ {0}
    BY <1>1 DEF NoRows
  <2>2. rows' \in [Arms -> Seq(Line)]
    BY <1>1
  <2> QED
    BY <1>1, <2>1, <2>2 DEF JournalType
<1>4. JournalRows'
  BY <1>1, <1>2 DEF JournalRows
<1>5. JournalBound' /\ Memory' /\ Counted'
  BY <1>1 DEF JournalBound, Memory, Counted
<1>6. Output'
  BY <1>1 DEF Output
<1> QED
  BY <1>3, <1>4, <1>5, <1>6

\* A kill leaves the files as they are, or part of a row.
LEMMA KillStep == ASSUME JournalInv, Kill PROVE JournalInv'
<1>1. CASE UNCHANGED files
  BY <1>1, GoneStep DEF Kill
<1>2. CASE /\ pc = "evaluating" /\ batch # {}
           /\ rows' = [rows EXCEPT ![TheArm] = Append(@, Torn)]
           /\ UNCHANGED <<dir, manifest, progress, out>>
  <2> USE DEF JournalInv
  <2> DEFINE b == want[arm]
  <2>1. /\ pc' = "down" /\ ended' = "killed" /\ have' = NoRows /\ batch' = {} /\ arm' = 1
        /\ UNCHANGED <<run, ranUnder, dir, manifest, progress, out>>
        /\ out = None
    BY <1>2 DEF Kill, Gone, JournalBound
  <2>2. b \in Arms /\ rows \in [Arms -> Seq(Line)]
    BY <1>2, ArmsInOrder DEF JournalType, Memory
  <2>3. /\ rows'[b] = Append(rows[b], Torn) /\ rows' \in [Arms -> Seq(Line)]
        /\ Whole(rows'[b]) = Whole(rows[b]) /\ Unique(rows'[b])
        /\ Len(rows'[b]) = Len(rows[b]) + 1 /\ Len(rows[b]) \in Nat
        /\ \A a \in Arms : a # b => rows'[a] = rows[a]
    <3>1. rows[b] \in Seq(Line) /\ Unique(rows[b])
      BY <2>2 DEF JournalRows
    <3>2. /\ Append(rows[b], Torn) \in Seq(Line)
          /\ Whole(Append(rows[b], Torn)) = Whole(rows[b])
          /\ Unique(Append(rows[b], Torn))
          /\ Len(Append(rows[b], Torn)) = Len(rows[b]) + 1
      BY <3>1, AppendTorn
    <3>3. rows' = [rows EXCEPT ![b] = Append(rows[b], Torn)]
      BY <1>2 DEF TheArm
    <3> QED
      BY <2>2, <3>1, <3>2, <3>3
  <2>4. \A a \in Arms : Whole(rows'[a]) = Whole(rows[a])
    BY <2>3
  <2>5. JournalType'
    <3>1. /\ have' \in [Arms -> SUBSET Row] /\ batch' \in SUBSET Tasks
          /\ arm' \in Nat \ {0}
      BY <2>1 DEF NoRows
    <3> QED
      BY <2>1, <2>3, <3>1 DEF JournalType
  <2>6. JournalRows'
    BY <2>1, <2>3, <2>4 DEF JournalRows
  <2>7. JournalBound' /\ Memory' /\ Output'
    BY <2>1 DEF JournalBound, Memory, Output
  <2>8. Counted'
    <3>1. ASSUME progress # None, NEW a \in Arms PROVE progress[a] <= Len(rows'[a])
      <4>1. progress[a] \in Nat /\ progress[a] <= Len(rows[a])
        BY <3>1 DEF JournalType, Counted
      <4> QED
        BY <2>3, <4>1
    <3> QED
      BY <2>1, <3>1 DEF Counted
  <2> QED
    BY <2>5, <2>6, <2>7, <2>8
<1> QED
  BY <1>1, <1>2 DEF Kill
-----------------------------------------------------------------------------
(* The theorems.                                                           *)

LEMMA InitialJournal == Init => JournalInv
<1> SUFFICES ASSUME Init PROVE JournalInv
  OBVIOUS
<1> USE DEF Init
<1>1. \A a \in Arms : Whole(rows[a]) = {} /\ Unique(rows[a])
  BY DEF Whole, Unique
<1>2. JournalType
  <2>1. have \in [Arms -> SUBSET Row] /\ rows \in [Arms -> Seq(Line)]
    BY DEF NoRows
  <2>2. 0 <= MaxRuns /\ ranUnder \in [1..MaxRuns -> Manifests \cup {None}]
    BY JournalAssumption
  <2> QED
    BY <2>1, <2>2 DEF JournalType
<1>3. JournalRows
  BY <1>1 DEF JournalRows
<1>4. JournalBound /\ Memory /\ Counted /\ Output
  BY DEF JournalBound, Memory, Counted, Output
<1> QED
  BY <1>2, <1>3, <1>4 DEF JournalInv

LEMMA StepJournal == JournalInv /\ [Next]_vars => JournalInv'
<1> SUFFICES ASSUME JournalInv, [Next]_vars PROVE JournalInv'
  OBVIOUS
<1>1. CASE Refuse
  BY <1>1, GoneStep DEF Refuse
<1>2. CASE Reopen \/ MakeDirectory \/ WriteManifest \/ WriteProgress
  BY <1>2, OpeningStep
<1>3. CASE UNCHANGED vars
  <2> USE <1>3 DEF vars, JournalInv
  <2>1. JournalType' /\ JournalRows' /\ JournalBound'
    BY DEF JournalType, JournalRows, JournalBound
  <2>2. Memory' /\ Counted'
    BY DEF Memory, Counted, TheArm
  <2>3. Output'
    BY DEF Output
  <2> QED
    BY <2>1, <2>2, <2>3
<1> QED
  BY <1>1, <1>2, <1>3, StartStep, ReadRowsStep, GenerateStep, AppendRowStep, CountStep,
     PublishStep, RemoveJournalStep, KillStep DEF Next, Work

LEMMA AlwaysJournal == Spec => []JournalInv
BY InitialJournal, StepJournal, PTL DEF Spec

\* However often the evaluation is killed and resumed: no task is journaled
\* twice in an arm, the counts are true of the journal, and what is published
\* is the journal's rows, one per task and arm (OncePerTask).
THEOREM OnceCorrect == Spec => []OncePerTask
<1>1. JournalInv => OncePerTask
  <2> SUFFICES ASSUME JournalInv PROVE OncePerTask
    OBVIOUS
  <2> USE DEF JournalInv
  <2>1. JournalOncePerTask
    BY DEF JournalRows, Unique, JournalOncePerTask
  <2>2. ProgressHonest
    BY JournaledIsWhole DEF Counted, ProgressHonest
  <2>3. PublishedIsJournaled
    BY JournaledIsWhole, RowPerTask DEF Output, PublishedIsJournaled
  <2> QED
    BY <2>1, <2>2, <2>3 DEF OncePerTask
<1> QED
  BY <1>1, AlwaysJournal, PTL

\* Whatever commands were issued on one journal: what is published was made
\* under one manifest (OneExperiment).
THEOREM ExperimentCorrect == Spec => []OneExperiment
<1>1. JournalInv => OneExperiment
  BY DEF JournalInv, Output, OneExperiment
<1> QED
  BY <1>1, AlwaysJournal, PTL
-----------------------------------------------------------------------------
(* The sharded arm.                                                         *)

Processes ==
  [at : {"none", "launched", "loading", "rolling", "summed", "finished"},
   config : Configs \cup {Nothing}, next : Nat, rolled : Nat]
ArmDirectory ==
  [rows : [AllTasks -> Nat], reused : SUBSET AllTasks,
   summary : Summaries \cup {Nothing}]

ArmType ==
  /\ list \in Lists
  /\ shardDir \in [Shards -> Directory \cup {Nothing}]
  /\ sidecar \in [Shards -> Configs \cup {Nothing}]
  /\ proc \in [Shards -> [Procs -> Processes]]
  /\ merged \in ArmDirectory

\* The tasks of a shard by index, those a process has passed, and what the
\* shard's files say when it has passed them all.
Rolls(s) == {i \in DOMAIN list : Rollable(s, i)}
Before(s, n) == {i \in Rolls(s) : i < n}
HasRows(s, I) == \A i \in I : shardDir[s].rows[list[i]] >= 1
Summed(s, sum) ==
  /\ sum \in Summaries
  /\ sum.tasks = Len(list) /\ sum.rolled = Cardinality(Rolls(s))
Done(s) == HasRows(s, Rolls(s)) /\ Summed(s, shardDir[s].summary)

\* A process has written at least a row for each task it passed, into a
\* directory that nobody takes from it; so has whoever completed a directory.
ProcessOk(s, p) ==
  /\ At(s, p) # "none" => proc[s][p].config \in Configs
  /\ At(s, p) \in {"none", "launched", "loading"} => proc[s][p].rolled = 0
  /\ At(s, p) \in {"loading", "rolling", "summed", "finished"} =>
       shardDir[s] \in Directory
  /\ At(s, p) \in {"rolling", "summed", "finished"} => shardDir[s].manifest # Nothing
  /\ At(s, p) = "rolling" =>
       /\ proc[s][p].next \in 1..Len(list) + 1
       /\ HasRows(s, Before(s, proc[s][p].next))
       /\ proc[s][p].rolled = Cardinality(Before(s, proc[s][p].next))
  /\ At(s, p) \in {"summed", "finished"} => Done(s)
ShardOk(s) == Complete(s) => shardDir[s].manifest # Nothing /\ Done(s)

\* A merge of S took at least a row of each of their tasks, and has as many
\* rolled out in its summary as they have tasks.
MergedOf(S) ==
  /\ S \in SUBSET Shards
  /\ \A s \in S : \A i \in Rolls(s) : merged.rows[list[i]] >= 1
  /\ merged.reused = {t \in Ids(list) : IsDirect(t)}
RolledOf(S) == {i \in DOMAIN list : \E s \in S : i \in Rolls(s)}
MergeOk ==
  /\ merging # Nothing => MergedOf(merging) /\ \A s \in merging : Complete(s)
  /\ merged.summary # Nothing =>
       /\ merged.summary.tasks = Len(list)
       /\ \E S \in SUBSET Shards :
            MergedOf(S) /\ merged.summary.rolled = Cardinality(RolledOf(S))

\* Nothing is done before the gate has admitted the list.
Gated ==
  \/ Admitted
  \/ /\ \A s \in Shards : shardDir[s] = Nothing /\ \A p \in Procs : At(s, p) = "none"
     /\ merging = Nothing /\ merged.summary = Nothing

ArmInv ==
  /\ ArmType /\ Gated /\ MergeOk /\ MetricsCoverFrozen
  /\ \A s \in Shards : ShardOk(s) /\ \A p \in Procs : ProcessOk(s, p)

\* What a step may do to a shard's directory: no row is lost from one that a
\* process is writing to, nor from a complete one while it is merged.
Grown(s) ==
  \/ shardDir'[s] = shardDir[s]
  \/ /\ shardDir[s] \in Directory /\ shardDir'[s] \in Directory
     /\ shardDir'[s].manifest # Nothing
     /\ \A t \in AllTasks : shardDir'[s].rows[t] >= shardDir[s].rows[t]
     /\ Summed(s, shardDir[s].summary) => Summed(s, shardDir'[s].summary)
     /\ shardDir'[s].complete => Complete(s) \/ Done(s)'
     /\ shardDir[s].complete => shardDir'[s].complete
  \/ /\ shardDir'[s] \in Directory /\ ~shardDir'[s].complete /\ ~Complete(s)
     /\ \A q \in Procs : At(s, q) \in {"none", "launched", "loading"}
  \/ /\ shardDir'[s] = Nothing /\ (Complete(s) => merging = Nothing)
     /\ \A q \in Procs : At(s, q) = "none"

LEMMA ListType ==
  ASSUME list \in Lists
  PROVE  /\ list \in Seq(AllTasks) /\ Ids(list) \subseteq AllTasks
         /\ DOMAIN list = 1..Len(list) /\ Len(list) \in Nat
<1>1. list \in Seq(Ids(list)) /\ Ids(list) \subseteq AllTasks
  BY ArmAssumption DEF AllTasks
<1>2. DOMAIN list = 1..Len(list) /\ Len(list) \in Nat
  BY <1>1
<1> QED
  BY <1>1, <1>2 DEF Ids

\* The tasks and what is direct never change.
LEMMA SameTasks ==
  ASSUME UNCHANGED <<mode, list>>
  PROVE  /\ \A s : Rolls(s)' = Rolls(s)
         /\ \A s, n : Before(s, n)' = Before(s, n)
         /\ \A s, sum : Summed(s, sum)' = Summed(s, sum)
         /\ \A S : RolledOf(S)' = RolledOf(S)
         /\ \A t : IsDirect(t)' = IsDirect(t)
         /\ Admitted' = Admitted
BY DEF Rolls, Before, Summed, RolledOf, Rollable, IsDirect, Admitted, CheckFrozen, Aligned

\* The processes and the directories of a step that keeps what they have.
LEMMA KeepingStep ==
  ASSUME ArmInv, Admitted, UNCHANGED <<mode, list, merging, merged, table>>, ArmType',
         \A s \in Shards : Grown(s),
         \A s \in Shards : \A p \in Procs :
           proc'[s][p] = proc[s][p] \/ ProcessOk(s, p)'
  PROVE  ArmInv'
<1>1. /\ \A s : Rolls(s)' = Rolls(s)
      /\ \A s, n : Before(s, n)' = Before(s, n)
      /\ \A s, sum : Summed(s, sum)' = Summed(s, sum)
      /\ \A S : RolledOf(S)' = RolledOf(S)
      /\ \A t : IsDirect(t)' = IsDirect(t)
      /\ Admitted'
  BY SameTasks
<1>2. Nothing \notin Directory
  BY ArmAssumption
<1>3. list \in Seq(AllTasks) /\ DOMAIN list = 1..Len(list)
  BY ListType DEF ArmInv, ArmType
<1>4. \A s \in Shards : \A i \in Rolls(s) : list[i] \in AllTasks
  BY <1>3 DEF Rolls
<1>5. \A s \in Shards :
        /\ shardDir[s] \in Directory \cup {Nothing}
        /\ shardDir[s] \in Directory => shardDir[s].rows \in [AllTasks -> Nat]
        /\ shardDir'[s] \in Directory => shardDir'[s].rows \in [AllTasks -> Nat]
  BY DEF ArmInv, ArmType, Directory
<1>6. ASSUME NEW s \in Shards PROVE ShardOk(s)'
  <2>1. ShardOk(s)
    BY DEF ArmInv
  <2>2. CASE shardDir'[s] = shardDir[s]
    BY <1>1, <2>1, <2>2 DEF ShardOk, Complete, Done, HasRows
  <2>3. CASE /\ shardDir[s] \in Directory /\ shardDir'[s] \in Directory
             /\ shardDir'[s].manifest # Nothing
             /\ \A t \in AllTasks : shardDir'[s].rows[t] >= shardDir[s].rows[t]
             /\ Summed(s, shardDir[s].summary) => Summed(s, shardDir'[s].summary)
             /\ shardDir'[s].complete => Complete(s) \/ Done(s)'
    <3>1. Complete(s) => Done(s)'
      <4>1. Complete(s) => HasRows(s, Rolls(s)) /\ Summed(s, shardDir[s].summary)
        BY <2>1 DEF ShardOk, Done
      <4>2. HasRows(s, Rolls(s)) => \A i \in Rolls(s) : shardDir'[s].rows[list[i]] >= 1
        BY <1>4, <1>5, <2>3 DEF HasRows
      <4>3. (\A i \in Rolls(s) : shardDir'[s].rows[list[i]] >= 1) => HasRows(s, Rolls(s))'
        BY <1>1 DEF HasRows
      <4> QED
        BY <1>1, <2>3, <4>1, <4>2, <4>3 DEF Done
    <3> QED
      BY <2>3, <3>1 DEF ShardOk, Complete
  <2>4. CASE shardDir'[s] = Nothing \/ ~shardDir'[s].complete
    BY <2>4 DEF ShardOk, Complete
  <2> QED
    BY <2>2, <2>3, <2>4 DEF Grown
<1>7. ASSUME NEW s \in Shards, NEW p \in Procs, proc'[s][p] = proc[s][p]
      PROVE  ProcessOk(s, p)'
  <2>1. ProcessOk(s, p) /\ At(s, p)' = At(s, p)
    BY <1>7 DEF ArmInv, At
  <2>2. CASE shardDir'[s] = shardDir[s]
    BY <1>1, <1>7, <2>1, <2>2 DEF ProcessOk, Done, HasRows
  <2>3. CASE /\ shardDir[s] \in Directory /\ shardDir'[s] \in Directory
             /\ shardDir'[s].manifest # Nothing
             /\ \A t \in AllTasks : shardDir'[s].rows[t] >= shardDir[s].rows[t]
             /\ Summed(s, shardDir[s].summary) => Summed(s, shardDir'[s].summary)
    <3>1. \A I \in SUBSET Rolls(s) : HasRows(s, I) => HasRows(s, I)'
      BY <1>4, <1>5, <2>3 DEF HasRows
    <3>2. Done(s) => Done(s)'
      BY <1>1, <2>3, <3>1 DEF Done
    <3>3. Before(s, proc[s][p].next) \in SUBSET Rolls(s)
      BY DEF Before
    <3> DEFINE B == Before(s, proc[s][p].next)
    <3>4. B' = B
      BY <1>1, <1>7
    <3>5. HasRows(s, B) => HasRows(s, B)'
      BY <3>1, <3>3, <3>4
    <3> QED
      BY <1>1, <1>7, <2>1, <2>3, <3>2, <3>4, <3>5 DEF ProcessOk
  <2>4. CASE /\ shardDir'[s] \in Directory
             /\ At(s, p) \in {"none", "launched", "loading"}
    BY <1>7, <2>1, <2>4 DEF ProcessOk
  <2>5. CASE At(s, p) = "none"
    BY <1>7, <2>1, <2>5 DEF ProcessOk
  <2> QED
    BY <2>2, <2>3, <2>4, <2>5 DEF Grown
<1>8. MergeOk'
  <2>1. ASSUME merging # Nothing, NEW s \in merging PROVE Complete(s)'
    <3>1. s \in Shards /\ Complete(s)
      BY <2>1 DEF ArmInv, MergeOk, MergedOf
    <3>2. shardDir[s] # Nothing /\ shardDir[s].complete
      BY <3>1 DEF Complete
    <3> QED
      BY <1>2, <2>1, <3>1, <3>2 DEF Grown, Complete
  <2>2. \A S : MergedOf(S) => MergedOf(S)'
    BY <1>1 DEF MergedOf
  <2> QED
    BY <1>1, <2>1, <2>2 DEF ArmInv, MergeOk
<1>9. Gated' /\ MetricsCoverFrozen'
  BY <1>1 DEF Gated, ArmInv, MetricsCoverFrozen
<1> QED
  BY <1>6, <1>7, <1>8, <1>9 DEF ArmInv

\* A record of a process with another place, and what it keeps.
LEMMA MovedProcess ==
  ASSUME ArmType, NEW s \in Shards, NEW p \in Procs, NEW r \in Processes,
         proc' = [proc EXCEPT ![s][p] = r]
  PROVE  /\ proc' \in [Shards -> [Procs -> Processes]]
         /\ proc'[s][p] = r
         /\ \A u \in Shards : \A q \in Procs :
              <<u, q>> # <<s, p>> => proc'[u][q] = proc[u][q]
BY DEF ArmType

\* A step of one process on its shard's directory.
LEMMA ProcessStep ==
  ASSUME ArmInv, NEW s \in Shards, NEW p \in Procs,
         NEW r \in Processes, NEW d \in Directory \cup {Nothing},
         UNCHANGED <<mode, list, sidecar, merging, merged, table>>,
         Admitted,
         proc' = [proc EXCEPT ![s][p] = r], shardDir' = [shardDir EXCEPT ![s] = d],
         Grown(s), ProcessOk(s, p)'
  PROVE  ArmInv'
<1>1. ArmType
  BY DEF ArmInv
<1>2. /\ proc' \in [Shards -> [Procs -> Processes]]
      /\ \A u \in Shards : \A q \in Procs :
           <<u, q>> # <<s, p>> => proc'[u][q] = proc[u][q]
  BY <1>1, MovedProcess
<1>3. /\ shardDir' \in [Shards -> Directory \cup {Nothing}]
      /\ \A u \in Shards : u # s => shardDir'[u] = shardDir[u]
  BY <1>1 DEF ArmType
<1>4. ArmType'
  BY <1>1, <1>2, <1>3 DEF ArmType
<1>5. \A u \in Shards : Grown(u)
  BY <1>3 DEF Grown
<1>6. \A u \in Shards : \A q \in Procs :
        proc'[u][q] = proc[u][q] \/ ProcessOk(u, q)'
  BY <1>2
<1> QED
  BY <1>4, <1>5, <1>6, KeepingStep

\* The same without a change of the directory.
LEMMA MoveStep ==
  ASSUME ArmInv, NEW s \in Shards, NEW p \in Procs, NEW r \in Processes,
         UNCHANGED <<mode, list, shardDir, merging, merged, table>>,
         sidecar' \in [Shards -> Configs \cup {Nothing}],
         Admitted,
         proc' = [proc EXCEPT ![s][p] = r], ProcessOk(s, p)'
  PROVE  ArmInv'
<1>1. ArmType
  BY DEF ArmInv
<1>2. /\ proc' \in [Shards -> [Procs -> Processes]]
      /\ \A u \in Shards : \A q \in Procs :
           <<u, q>> # <<s, p>> => proc'[u][q] = proc[u][q]
  BY <1>1, MovedProcess
<1>3. ArmType'
  BY <1>1, <1>2 DEF ArmType
<1>4. \A u \in Shards : Grown(u)
  BY DEF Grown
<1>5. \A u \in Shards : \A q \in Procs :
        proc'[u][q] = proc[u][q] \/ ProcessOk(u, q)'
  BY <1>2
<1> QED
  BY <1>3, <1>4, <1>5, KeepingStep

LEMMA ArmInitial == aInit => ArmInv
<1> SUFFICES ASSUME aInit PROVE ArmInv
  OBVIOUS
<1>1. Nothing \notin Directory
  BY ArmAssumption
<1>2. NoArm \in ArmDirectory /\ NoProc \in Processes
  BY DEF NoArm, ArmDirectory, NoTaskRows, NoProc, Processes
<1>3. ArmType
  BY <1>2 DEF aInit, ArmType
<1>4. \A s \in Shards : shardDir[s] = Nothing /\ \A p \in Procs : proc[s][p] = NoProc
  BY DEF aInit
<1>5. NoProc.at = "none" /\ NoProc.rolled = 0 /\ NoArm.summary = Nothing
  BY DEF NoProc, NoArm
<1>6. Gated /\ MergeOk /\ MetricsCoverFrozen
  BY <1>4, <1>5 DEF aInit, Gated, MergeOk, MetricsCoverFrozen, At
<1>7. \A s \in Shards : ShardOk(s) /\ \A p \in Procs : ProcessOk(s, p)
  BY <1>4, <1>5 DEF ShardOk, ProcessOk, Complete, At
<1> QED
  BY <1>3, <1>6, <1>7 DEF ArmInv

LEMMA DryRunStep ==
  ASSUME ArmInv, NEW s \in Shards, DryRun(s)
  PROVE  ArmInv'
<1>1. UNCHANGED <<mode, list, shardDir, proc, merging, merged, table>>
      /\ sidecar' \in [Shards -> Configs \cup {Nothing}] /\ Admitted
  BY DEF DryRun, ArmInv, ArmType
<1>2. ArmType'
  BY <1>1 DEF ArmInv, ArmType
<1>3. \A u \in Shards : Grown(u)
  BY <1>1 DEF Grown
<1> QED
  BY <1>1, <1>2, <1>3, KeepingStep

LEMMA LaunchStep ==
  ASSUME ArmInv, NEW s \in Shards, NEW p \in Procs, Launch(s, p)
  PROVE  ArmInv'
<1>1. PICK c \in Configs :
        /\ sidecar' = IF mode = "rule" THEN sidecar ELSE [sidecar EXCEPT ![s] = c]
        /\ proc' = [proc EXCEPT ![s][p].at = "launched", ![s][p].config = c]
  BY DEF Launch
<1>2. proc \in [Shards -> [Procs -> Processes]] /\ sidecar \in [Shards -> Configs \cup {Nothing}]
  BY DEF ArmInv, ArmType
<1> DEFINE r == [proc[s][p] EXCEPT !.at = "launched", !.config = c]
<1>3. proc' = [proc EXCEPT ![s][p] = r]
  BY <1>1, <1>2
<1>4. /\ r \in Processes /\ r.at = "launched" /\ r.config = c
      /\ r.rolled = proc[s][p].rolled
  <2> DEFINE x == proc[s][p]
  <2>1. x \in Processes /\ r = [x EXCEPT !.at = "launched", !.config = c]
    BY <1>2
  <2> HIDE DEF x, r
  <2>2. r \in Processes /\ r.at = "launched" /\ r.config = c /\ r.rolled = x.rolled
    BY <2>1 DEF Processes
  <2> QED
    BY <2>2 DEF x
<1>5. proc'[s][p] = r
  BY <1>2, <1>3
<1>6. ProcessOk(s, p)'
  <2>1. proc[s][p].rolled = 0
    BY DEF ArmInv, ProcessOk, Launch
  <2> QED
    BY <1>4, <1>5, <2>1 DEF ProcessOk, At
<1>7. sidecar' \in [Shards -> Configs \cup {Nothing}]
  BY <1>1, <1>2
<1> HIDE DEF r
<1> QED
  BY <1>3, <1>4, <1>6, <1>7, MoveStep DEF Launch

\* A process ends, killed or by itself: what it wrote stays.
LEMMA EndedStep ==
  ASSUME ArmInv, NEW s \in Shards, NEW p \in Procs, Ended(s, p), Admitted,
         UNCHANGED <<mode, list, shardDir, sidecar, merging, merged, table>>
  PROVE  ArmInv'
<1>1. proc \in [Shards -> [Procs -> Processes]] /\ sidecar \in [Shards -> Configs \cup {Nothing}]
  BY DEF ArmInv, ArmType
<1>2. NoProc \in Processes /\ NoProc.at = "none" /\ NoProc.rolled = 0
  BY DEF NoProc, Processes
<1>3. proc'[s][p] = NoProc /\ proc' = [proc EXCEPT ![s][p] = NoProc]
  BY <1>1 DEF Ended
<1>4. ProcessOk(s, p)'
  BY <1>2, <1>3 DEF ProcessOk, At
<1> QED
  BY <1>1, <1>2, <1>3, <1>4, MoveStep

LEMMA BusyIsAdmitted ==
  ASSUME ArmInv, NEW s \in Shards, NEW p \in Procs, At(s, p) # "none"
  PROVE  Admitted
BY DEF ArmInv, Gated

\* A directory that looks empty is taken: nobody is writing to it.
LEMMA EnterStep ==
  ASSUME ArmInv, NEW s \in Shards, NEW p \in Procs, Enter(s, p)
  PROVE  ArmInv'
<1>1. Admitted /\ At(s, p) = "launched"
  BY BusyIsAdmitted DEF Enter
<1>2. CASE ~IsEmpty(s)
  BY <1>1, <1>2, EndedStep DEF Enter
<1>3. CASE IsEmpty(s)
  <2>1. /\ shardDir' = [shardDir EXCEPT ![s] = EmptyDir]
        /\ proc' = [proc EXCEPT ![s][p].at = "loading"]
        /\ UNCHANGED <<mode, list, sidecar, merging, merged, table>>
    BY <1>3 DEF Enter, Moved
  <2>2. /\ proc \in [Shards -> [Procs -> Processes]]
        /\ shardDir \in [Shards -> Directory \cup {Nothing}]
    BY DEF ArmInv, ArmType
  <2> DEFINE r == [proc[s][p] EXCEPT !.at = "loading"]
  <2>3. /\ proc' = [proc EXCEPT ![s][p] = r] /\ proc'[s][p] = r
        /\ r \in Processes /\ r.at = "loading" /\ r.config = proc[s][p].config
        /\ r.rolled = proc[s][p].rolled
    <3> DEFINE x == proc[s][p]
    <3>1. x \in Processes
      BY <2>2
    <3>2. proc' = [proc EXCEPT ![s][p] = r] /\ proc'[s][p] = r
      BY <2>1, <2>2
    <3>3. r = [x EXCEPT !.at = "loading"]
      OBVIOUS
    <3> HIDE DEF x, r
    <3>4. r \in Processes /\ r.at = "loading" /\ r.config = x.config
          /\ r.rolled = x.rolled
      BY <3>1, <3>3 DEF Processes
    <3> QED
      BY <3>2, <3>4 DEF x
  <2>4. EmptyDir \in Directory /\ ~EmptyDir.complete
    BY DEF EmptyDir, Directory, NoTaskRows
  <2>5. shardDir'[s] = EmptyDir
    BY <2>1, <2>2
  <2>6. ProcessOk(s, p)'
    <3>1. proc[s][p].config \in Configs /\ proc[s][p].rolled = 0
      BY <1>1 DEF ArmInv, ProcessOk
    <3> QED
      BY <2>3, <2>4, <2>5, <3>1 DEF ProcessOk, At
  <2>7. Grown(s)
    <3>1. Nothing \notin Directory
      BY ArmAssumption
    <3>2. ~Complete(s)
      BY <1>3, <2>2, <3>1 DEF ArmInv, ShardOk, IsEmpty, Complete
    <3>3. \A q \in Procs : At(s, q) \in {"none", "launched", "loading"}
      <4> SUFFICES ASSUME NEW q \in Procs, At(s, q) \in {"rolling", "summed", "finished"}
                   PROVE  FALSE
        BY <2>2 DEF At, Processes
      <4>1. ProcessOk(s, q)
        BY DEF ArmInv
      <4>2. shardDir[s] \in Directory /\ shardDir[s].manifest # Nothing
        BY <4>1 DEF ProcessOk
      <4> QED
        BY <1>3, <3>1, <4>2 DEF IsEmpty
    <3> QED
      BY <2>4, <2>5, <3>2, <3>3 DEF Grown
  <2> HIDE DEF r
  <2> QED
    BY <1>1, <2>1, <2>3, <2>4, <2>6, <2>7, ProcessStep
<1> QED
  BY <1>2, <1>3

\* What a process that writes finds: its own directory, and its place.
LEMMA Writing ==
  ASSUME ArmInv, NEW s \in Shards, NEW p \in Procs,
         At(s, p) \in {"loading", "rolling", "summed", "finished"}
  PROVE  /\ shardDir[s] \in Directory /\ proc[s][p] \in Processes
         /\ proc[s][p].config \in Configs /\ Admitted
         /\ proc \in [Shards -> [Procs -> Processes]]
         /\ shardDir \in [Shards -> Directory \cup {Nothing}]
         /\ ProcessOk(s, p) /\ ShardOk(s)
         /\ shardDir[s].complete => Complete(s)
<1>1. ProcessOk(s, p) /\ ShardOk(s) /\ ArmType
  BY DEF ArmInv
<1>2. shardDir[s] \in Directory /\ proc[s][p].config \in Configs
  BY <1>1 DEF ProcessOk
<1>3. shardDir[s] # Nothing
  BY <1>2, ArmAssumption
<1> QED
  BY <1>1, <1>2, <1>3, BusyIsAdmitted DEF ArmType, Complete

LEMMA WriteRunManifestStep ==
  ASSUME ArmInv, NEW s \in Shards, NEW p \in Procs, WriteRunManifest(s, p)
  PROVE  ArmInv'
<1> DEFINE c == proc[s][p].config
           x == shardDir[s]
           y == proc[s][p]
           d == [x EXCEPT !.manifest = c.decoding]
           r == [y EXCEPT !.at = "rolling", !.next = 1]
<1>1. /\ x \in Directory /\ y \in Processes /\ c \in Configs /\ Admitted
      /\ proc \in [Shards -> [Procs -> Processes]]
      /\ shardDir \in [Shards -> Directory \cup {Nothing}]
      /\ ProcessOk(s, p) /\ ShardOk(s)
      /\ x.complete => Complete(s)
  BY Writing DEF WriteRunManifest
<1>2. /\ shardDir' = [shardDir EXCEPT ![s] = d] /\ proc' = [proc EXCEPT ![s][p] = r]
      /\ UNCHANGED <<mode, list, sidecar, merging, merged, table>>
      /\ At(s, p) = "loading"
  BY <1>1 DEF WriteRunManifest
<1>3. c.decoding \in Decodings /\ c.decoding # Nothing
  BY <1>1, ArmAssumption DEF Decodings
<1> HIDE DEF c
<1>4. shardDir'[s] = d /\ proc'[s][p] = r
  BY <1>1, <1>2
<1> HIDE DEF x, y
<1>5. /\ d \in Directory /\ d.manifest # Nothing /\ d.rows = x.rows
      /\ d.summary = x.summary /\ d.complete = x.complete
  BY <1>1, <1>3 DEF Directory
<1>6. r \in Processes /\ r.at = "rolling" /\ r.next = 1 /\ r.config = y.config
      /\ r.rolled = y.rolled
  BY <1>1 DEF Processes
<1>7. Before(s, 1) = {} /\ Cardinality({}) = 0 /\ 1 \in 1..Len(list) + 1
  <2>1. DOMAIN list = 1..Len(list) /\ Len(list) \in Nat
    BY ListType DEF ArmInv, ArmType
  <2> QED
    BY <2>1, FS_EmptySet DEF Before, Rolls
<1>8. y.rolled = 0 /\ y.config \in Configs
  BY <1>1, <1>2 DEF ProcessOk, y
<1>9. ProcessOk(s, p)'
  <2>1. Before(s, 1)' = {} /\ Len(list') = Len(list)
    BY <1>2, <1>7, SameTasks
  <2>2. /\ At(s, p)' = "rolling" /\ proc'[s][p].next = 1 /\ proc'[s][p].rolled = 0
        /\ proc'[s][p].config \in Configs
    BY <1>4, <1>6, <1>8 DEF At
  <2>3. shardDir'[s] \in Directory /\ shardDir'[s].manifest # Nothing
    BY <1>4, <1>5
  <2>4. HasRows(s, Before(s, 1))'
    BY <2>1 DEF HasRows
  <2> QED
    BY <1>7, <2>1, <2>2, <2>3, <2>4 DEF ProcessOk
<1>10. Grown(s)
  <2>1. \A t \in AllTasks : x.rows[t] \in Nat
    BY <1>1 DEF Directory
  <2> QED
    BY <1>1, <1>4, <1>5, <2>1 DEF Grown, x
<1> HIDE DEF d, r
<1> QED
  BY <1>1, <1>2, <1>5, <1>6, <1>9, <1>10, ProcessStep

LEMMA RollStep ==
  ASSUME ArmInv, NEW s \in Shards, NEW p \in Procs, Roll(s, p)
  PROVE  ArmInv'
<1> DEFINE x == shardDir[s]
           y == proc[s][p]
<1> PICK i : i = y.next
  OBVIOUS
<1>1. /\ x \in Directory /\ y \in Processes /\ y.config \in Configs /\ Admitted
      /\ proc \in [Shards -> [Procs -> Processes]]
      /\ shardDir \in [Shards -> Directory \cup {Nothing}]
      /\ ProcessOk(s, p) /\ ShardOk(s)
      /\ x.complete => Complete(s)
  BY Writing DEF Roll
<1>2. DOMAIN list = 1..Len(list) /\ Len(list) \in Nat /\ list \in Seq(AllTasks)
  BY ListType DEF ArmInv, ArmType
<1>3. /\ UNCHANGED <<mode, list, sidecar, merging, merged, table>>
      /\ At(s, p) = "rolling" /\ i <= Len(list)
  BY DEF Roll
<1>4. /\ i \in 1..Len(list) + 1 /\ HasRows(s, Before(s, i))
      /\ y.rolled = Cardinality(Before(s, i)) /\ x.manifest # Nothing
  BY <1>1, <1>3 DEF ProcessOk
<1>5. i \in DOMAIN list /\ list[i] \in AllTasks /\ i + 1 \in 1..Len(list) + 1 /\ i \in Nat
  BY <1>2, <1>3, <1>4
<1>6. x.rows \in [AllTasks -> Nat] /\ IsFiniteSet(Before(s, i))
      /\ Cardinality(Before(s, i)) \in Nat
  <2>1. x.rows \in [AllTasks -> Nat]
    BY <1>1 DEF Directory
  <2>2. Before(s, i) \in SUBSET (1..Len(list))
    BY <1>2 DEF Before, Rolls
  <2> QED
    BY <1>2, <2>1, <2>2, UpToFinite, FS_Subset, FS_CardinalityType
<1>7. CASE Rollable(s, i)
  <2> DEFINE d == [x EXCEPT !.rows[list[i]] = @ + 1]
             r == [y EXCEPT !.next = i + 1, !.rolled = @ + 1]
  <2>1. shardDir' = [shardDir EXCEPT ![s] = d] /\ proc' = [proc EXCEPT ![s][p] = r]
    BY <1>1, <1>7 DEF Roll
  <2>2. shardDir'[s] = d /\ proc'[s][p] = r
    BY <1>1, <2>1
  <2> HIDE DEF x
  <2>3. /\ d \in Directory /\ d.manifest = x.manifest
        /\ d.rows = [x.rows EXCEPT ![list[i]] = @ + 1]
        /\ d.summary = x.summary /\ d.complete = x.complete
    <3> DEFINE w == [x.rows EXCEPT ![list[i]] = @ + 1]
    <3>1. w \in [AllTasks -> Nat]
      BY <1>5, <1>6
    <3>2. d = [x EXCEPT !.rows = w]
      BY <1>1 DEF Directory
    <3> HIDE DEF w, d
    <3>3. d \in Directory /\ d.manifest = x.manifest /\ d.rows = w
          /\ d.summary = x.summary /\ d.complete = x.complete
      BY <1>1, <3>1, <3>2 DEF Directory
    <3> QED
      BY <3>3 DEF w
  <2>4. \A t \in AllTasks : d.rows[t] >= x.rows[t]
    BY <1>5, <1>6, <2>3
  <2>5. d.rows[list[i]] >= 1
    BY <1>5, <1>6, <2>3
  <2>6. Before(s, i + 1) = Before(s, i) \cup {i} /\ i \notin Before(s, i)
    BY <1>2, <1>5, <1>7 DEF Before, Rolls
  <2>7. Cardinality(Before(s, i + 1)) = Cardinality(Before(s, i)) + 1
    <3> DEFINE B == Before(s, i)
    <3> HIDE DEF B
    <3>1. i \notin B => Cardinality(B \cup {i}) = Cardinality(B) + 1
      BY <1>6, FS_AddElement DEF B
    <3> QED
      BY <2>6, <3>1 DEF B
  <2>8. /\ r \in Processes /\ r.at = "rolling" /\ r.next = i + 1 /\ r.config = y.config
        /\ r.rolled = Cardinality(Before(s, i + 1))
    <3>1. y.at = "rolling" /\ y.rolled \in Nat
      BY <1>1, <1>3 DEF At, Processes
    <3> DEFINE j == i + 1
               k == y.rolled + 1
    <3>2. j \in Nat /\ k \in Nat /\ r = [y EXCEPT !.next = j, !.rolled = k]
      BY <1>5, <3>1
    <3>3. k = Cardinality(Before(s, i + 1))
      BY <1>4, <2>7
    <3> HIDE DEF y, r, j, k
    <3>4. r \in Processes /\ r.at = y.at /\ r.next = j /\ r.config = y.config /\ r.rolled = k
      BY <1>1, <3>2 DEF Processes
    <3> QED
      BY <3>1, <3>3, <3>4 DEF j
  <2> HIDE DEF d, r, y
  <2>9. ProcessOk(s, p)'
    <3>1. Before(s, i + 1)' = Before(s, i + 1) /\ Len(list') = Len(list) /\ list' = list
      BY <1>3, SameTasks
    <3>2. \A k \in Before(s, i + 1) : list[k] \in AllTasks
      BY <1>2 DEF Before, Rolls
    <3>3. \A k \in Before(s, i + 1) : d.rows[list[k]] >= 1
      <4>1. \A k \in Before(s, i) : x.rows[list[k]] >= 1
        BY <1>4 DEF HasRows, x
      <4>2. d.rows \in [AllTasks -> Nat]
        BY <2>3 DEF Directory
      <4> QED
        BY <1>6, <2>4, <2>5, <2>6, <3>2, <4>1, <4>2
    <3>4. HasRows(s, Before(s, i + 1))'
      BY <2>2, <3>1, <3>3 DEF HasRows
    <3>5. At(s, p)' = "rolling" /\ proc'[s][p].next = i + 1
      BY <2>2, <2>8 DEF At
    <3> QED
      BY <1>1, <1>4, <1>5, <2>2, <2>3, <2>8, <3>1, <3>4, <3>5 DEF ProcessOk
  <2>10. Grown(s)
    BY <1>1, <1>4, <2>2, <2>3, <2>4 DEF Grown, x
  <2> QED
    BY <1>1, <1>3, <2>1, <2>3, <2>8, <2>9, <2>10, ProcessStep
<1>8. CASE ~Rollable(s, i)
  <2> DEFINE r == [y EXCEPT !.next = i + 1]
  <2>1. /\ shardDir' = shardDir /\ proc' = [proc EXCEPT ![s][p] = r]
    BY <1>1, <1>8 DEF Roll
  <2>2. proc'[s][p] = r
    BY <1>1, <2>1
  <2>3. Before(s, i + 1) = Before(s, i)
    BY <1>2, <1>5, <1>8 DEF Before, Rolls
  <2>4. /\ r \in Processes /\ r.at = "rolling" /\ r.next = i + 1 /\ r.config = y.config
        /\ r.rolled = y.rolled
    <3>1. y.at = "rolling"
      BY <1>3 DEF At
    <3> DEFINE j == i + 1
    <3>2. j \in Nat /\ r = [y EXCEPT !.next = j]
      BY <1>5
    <3> HIDE DEF y, r, j
    <3>3. r \in Processes /\ r.at = y.at /\ r.next = j /\ r.config = y.config
          /\ r.rolled = y.rolled
      BY <1>1, <3>2 DEF Processes
    <3> QED
      BY <3>1, <3>3 DEF j
  <2> HIDE DEF r, y
  <2>5. ProcessOk(s, p)'
    <3>1. Before(s, i + 1)' = Before(s, i) /\ Len(list') = Len(list) /\ list' = list
      BY <1>3, <2>3, SameTasks
    <3>2. HasRows(s, Before(s, i + 1))'
      BY <1>4, <2>1, <3>1 DEF HasRows
    <3>3. At(s, p)' = "rolling" /\ proc'[s][p].next = i + 1
      BY <2>2, <2>4 DEF At
    <3> QED
      BY <1>1, <1>4, <1>5, <2>1, <2>2, <2>4, <3>1, <3>2, <3>3 DEF ProcessOk, x
  <2>6. sidecar' \in [Shards -> Configs \cup {Nothing}]
    BY <1>3 DEF ArmInv, ArmType
  <2> QED
    BY <1>1, <1>3, <2>1, <2>4, <2>5, <2>6, MoveStep
<1> QED
  BY <1>7, <1>8

\* What is done stays done in a directory with the same rows and summary.
LEMMA DoneStays ==
  ASSUME UNCHANGED <<mode, list>>, NEW s, NEW sum, shardDir'[s].summary = sum,
         shardDir'[s].rows = shardDir[s].rows,
         Summed(s, sum), HasRows(s, Rolls(s))
  PROVE  Done(s)'
<1>1. Rolls(s)' = Rolls(s) /\ Summed(s, sum)'
  BY SameTasks
<1>2. HasRows(s, Rolls(s))'
  BY <1>1 DEF HasRows
<1> QED
  BY <1>1, <1>2 DEF Done

LEMMA SummariseStep ==
  ASSUME ArmInv, NEW s \in Shards, NEW p \in Procs, Summarise(s, p)
  PROVE  ArmInv'
<1> DEFINE x == shardDir[s]
           y == proc[s][p]
           sum == [tasks |-> Len(list), rolled |-> y.rolled,
                   reused |-> Cardinality(DirectOf(s))]
           d == [x EXCEPT !.summary = sum]
           r == [y EXCEPT !.at = "summed"]
<1>1. /\ x \in Directory /\ y \in Processes /\ y.config \in Configs /\ Admitted
      /\ proc \in [Shards -> [Procs -> Processes]]
      /\ shardDir \in [Shards -> Directory \cup {Nothing}]
      /\ ProcessOk(s, p) /\ ShardOk(s)
      /\ x.complete => Complete(s)
  BY Writing DEF Summarise
<1>2. DOMAIN list = 1..Len(list) /\ Len(list) \in Nat
  BY ListType DEF ArmInv, ArmType
<1>3. /\ UNCHANGED <<mode, list, sidecar, merging, merged, table>>
      /\ At(s, p) = "rolling" /\ y.next > Len(list)
      /\ shardDir' = [shardDir EXCEPT ![s] = d] /\ proc' = [proc EXCEPT ![s][p] = r]
  BY <1>1 DEF Summarise, Moved
<1>4. /\ y.next \in 1..Len(list) + 1 /\ HasRows(s, Before(s, y.next))
      /\ y.rolled = Cardinality(Before(s, y.next)) /\ x.manifest # Nothing
  BY <1>1, <1>3 DEF ProcessOk
<1>5. Before(s, y.next) = Rolls(s)
  <2>1. y.next = Len(list) + 1
    BY <1>2, <1>3, <1>4
  <2> HIDE DEF y
  <2> QED
    BY <1>2, <2>1 DEF Before, Rolls
<1>6. shardDir'[s] = d /\ proc'[s][p] = r
  BY <1>1, <1>3
<1>7. sum \in Summaries
  <2>1. y.rolled \in Nat
    BY <1>1 DEF Processes
  <2>2. DirectOf(s) \in SUBSET (1..Len(list))
    BY <1>2 DEF DirectOf
  <2>3. Cardinality(DirectOf(s)) \in Nat
    BY <1>2, <2>2, UpToFinite, FS_Subset, FS_CardinalityType
  <2> HIDE DEF y
  <2> QED
    BY <1>2, <2>1, <2>3 DEF Summaries
<1>8. Summed(s, sum)
  BY <1>4, <1>5, <1>7 DEF Summed
<1> HIDE DEF sum, x
<1>9. /\ d \in Directory /\ d.manifest = x.manifest /\ d.rows = x.rows
      /\ d.summary = sum /\ d.complete = x.complete
  BY <1>1, <1>7 DEF Directory
<1>10. r \in Processes /\ r.at = "summed" /\ r.config = y.config
  <2> HIDE DEF y
  <2> QED
    BY <1>1 DEF Processes
<1> HIDE DEF d, r, y
<1>11. Done(s)'
  BY <1>3, <1>4, <1>5, <1>6, <1>8, <1>9, DoneStays DEF x
<1>12. ProcessOk(s, p)'
  BY <1>1, <1>4, <1>6, <1>9, <1>10, <1>11 DEF ProcessOk, At
<1>13. Grown(s)
  <2>1. \A t \in AllTasks : x.rows[t] \in Nat
    BY <1>1 DEF Directory
  <2> QED
    BY <1>1, <1>4, <1>6, <1>8, <1>9, <2>1 DEF Grown, x
<1> QED
  BY <1>1, <1>3, <1>9, <1>10, <1>12, <1>13, ProcessStep

LEMMA MarkCompleteStep ==
  ASSUME ArmInv, NEW s \in Shards, NEW p \in Procs, MarkComplete(s, p)
  PROVE  ArmInv'
<1> DEFINE x == shardDir[s]
           y == proc[s][p]
           d == [x EXCEPT !.complete = TRUE]
           r == IF mode = "rule" THEN NoProc ELSE [y EXCEPT !.at = "finished"]
<1>1. /\ x \in Directory /\ y \in Processes /\ y.config \in Configs /\ Admitted
      /\ proc \in [Shards -> [Procs -> Processes]]
      /\ shardDir \in [Shards -> Directory \cup {Nothing}]
      /\ ProcessOk(s, p) /\ ShardOk(s)
      /\ x.complete => Complete(s)
  BY Writing DEF MarkComplete
<1>2. /\ UNCHANGED <<mode, list, sidecar, merging, merged, table>>
      /\ At(s, p) = "summed"
      /\ shardDir' = [shardDir EXCEPT ![s] = d] /\ proc' = [proc EXCEPT ![s][p] = r]
  BY <1>1 DEF MarkComplete, Moved, Ended
<1>3. Done(s) /\ x.manifest # Nothing
  BY <1>1, <1>2 DEF ProcessOk
<1>4. shardDir'[s] = d /\ proc'[s][p] = r
  BY <1>1, <1>2
<1> HIDE DEF x
<1>5. /\ d \in Directory /\ d.manifest = x.manifest /\ d.rows = x.rows
      /\ d.summary = x.summary /\ d.complete
  BY <1>1 DEF Directory
<1>6. /\ r \in Processes /\ r.at \in {"none", "finished"}
      /\ r.at # "none" => r.config = y.config
      /\ r.at = "none" => r.rolled = 0
  <2>1. NoProc \in Processes /\ NoProc.at = "none" /\ NoProc.rolled = 0
    BY DEF NoProc, Processes
  <2> HIDE DEF y
  <2>2. /\ [y EXCEPT !.at = "finished"] \in Processes
        /\ [y EXCEPT !.at = "finished"].at = "finished"
        /\ [y EXCEPT !.at = "finished"].config = y.config
    BY <1>1 DEF Processes
  <2> QED
    BY <2>1, <2>2
<1> HIDE DEF d, r, y
<1>7. Done(s)'
  <2>1. Summed(s, x.summary) /\ HasRows(s, Rolls(s))
    BY <1>3 DEF Done, x
  <2> QED
    BY <1>2, <1>4, <1>5, <2>1, DoneStays DEF x
<1>8. ProcessOk(s, p)'
  BY <1>1, <1>3, <1>4, <1>5, <1>6, <1>7 DEF ProcessOk, At
<1>9. Grown(s)
  <2>1. \A t \in AllTasks : x.rows[t] \in Nat
    BY <1>1 DEF Directory
  <2> QED
    BY <1>1, <1>3, <1>4, <1>5, <1>7, <2>1 DEF Grown, x
<1> QED
  BY <1>1, <1>2, <1>5, <1>6, <1>8, <1>9, ProcessStep

LEMMA CopyIdentityStep ==
  ASSUME ArmInv, NEW s \in Shards, NEW p \in Procs, CopyIdentity(s, p)
  PROVE  ArmInv'
<1> DEFINE x == shardDir[s]
           id == [of |-> sidecar[s], by |-> proc[s][p].config]
           d == [x EXCEPT !.identity = id]
<1>1. /\ x \in Directory /\ proc[s][p].config \in Configs /\ Admitted
      /\ proc \in [Shards -> [Procs -> Processes]]
      /\ shardDir \in [Shards -> Directory \cup {Nothing}]
      /\ ProcessOk(s, p) /\ ShardOk(s)
      /\ x.complete => Complete(s)
  BY Writing DEF CopyIdentity
<1>2. /\ UNCHANGED <<mode, list, sidecar, merging, merged, table>>
      /\ At(s, p) = "finished"
      /\ shardDir' = [shardDir EXCEPT ![s] = d] /\ proc' = [proc EXCEPT ![s][p] = NoProc]
  BY <1>1 DEF CopyIdentity, Ended
<1>3. Done(s) /\ x.manifest # Nothing
  BY <1>1, <1>2 DEF ProcessOk
<1>4. shardDir'[s] = d /\ proc'[s][p] = NoProc
  BY <1>1, <1>2
<1>5. id \in {Nothing} \cup [of : Configs \cup {Nothing}, by : Configs]
  BY <1>1 DEF ArmInv, ArmType
<1> HIDE DEF x, id
<1>6. /\ d \in Directory /\ d.manifest = x.manifest /\ d.rows = x.rows
      /\ d.summary = x.summary /\ d.complete = x.complete
  BY <1>1, <1>5 DEF Directory
<1>7. NoProc \in Processes /\ NoProc.at = "none" /\ NoProc.rolled = 0
  BY DEF NoProc, Processes
<1> HIDE DEF d
<1>8. ProcessOk(s, p)'
  BY <1>4, <1>7 DEF ProcessOk, At
<1>9. Grown(s)
  <2>1. \A t \in AllTasks : x.rows[t] \in Nat
    BY <1>1 DEF Directory
  <2> QED
    BY <1>1, <1>3, <1>4, <1>6, <2>1 DEF Grown, x
<1> QED
  BY <1>1, <1>2, <1>6, <1>7, <1>8, <1>9, ProcessStep

LEMMA DieStep ==
  ASSUME ArmInv, NEW s \in Shards, NEW p \in Procs, Die(s, p)
  PROVE  ArmInv'
<1>1. Admitted
  BY BusyIsAdmitted DEF Die
<1> QED
  BY <1>1, EndedStep DEF Die

LEMMA MoveAsideStep ==
  ASSUME ArmInv, NEW s \in Shards, MoveAside(s)
  PROVE  ArmInv'
<1>1. /\ \A p \in Procs : At(s, p) = "none"
      /\ ~IsEmpty(s) /\ (Complete(s) => merging = Nothing)
      /\ shardDir' = [shardDir EXCEPT ![s] = Nothing]
      /\ UNCHANGED <<mode, list, sidecar, proc, merging, merged, table>>
  BY DEF MoveAside, Busy
<1>2. ArmType
  BY DEF ArmInv
<1>3. /\ shardDir'[s] = Nothing /\ shardDir' \in [Shards -> Directory \cup {Nothing}]
      /\ \A u \in Shards : u # s => shardDir'[u] = shardDir[u]
  BY <1>1, <1>2 DEF ArmType
<1>4. ArmType'
  BY <1>1, <1>2, <1>3 DEF ArmType
<1>5. \A u \in Shards : Grown(u)
  BY <1>1, <1>3 DEF Grown
<1>6. Admitted
  BY <1>1 DEF ArmInv, Gated, IsEmpty
<1> QED
  BY <1>1, <1>4, <1>5, <1>6, KeepingStep

LEMMA ShardsFinite ==
  ASSUME NEW S \in SUBSET Shards
  PROVE  IsFiniteSet(S)
<1>1. ShardCount - 1 \in Int /\ 0 \in Int
  BY ArmAssumption
<1>2. IsFiniteSet(Shards)
  BY <1>1, FS_Interval DEF Shards
<1> QED
  BY <1>2, FS_Subset

\* A sum of numbers of rows is one, and no less than any of them.
LEMMA RowsAdd ==
  ASSUME NEW S \in SUBSET Shards, NEW f \in [S -> Nat]
  PROVE  SumFunction(f) \in Nat /\ \A s \in S : f[s] <= SumFunction(f)
<1>1. IsFiniteSet(S) /\ f \in [S -> Int]
  BY ShardsFinite
<1>2. PICK g : IsSumOf(g, S, f) /\ g[S] = SumFunction(f)
  BY <1>1, SumOver
<1>3. (\A T \in SUBSET S : g[T] \in Nat) /\ \A s \in S : f[s] <= g[S]
  BY <1>1, <1>2, SumNat
<1> QED
  BY <1>2, <1>3

\* A step of a merge leaves the shards and their processes as they were.
LEMMA MergeStep ==
  ASSUME ArmInv, Admitted, UNCHANGED <<mode, list, shardDir, sidecar, proc>>,
         merged' \in ArmDirectory, MergeOk', MetricsCoverFrozen'
  PROVE  ArmInv'
<1>1. /\ \A s : Rolls(s)' = Rolls(s)
      /\ \A s, n : Before(s, n)' = Before(s, n)
      /\ \A s, sum : Summed(s, sum)' = Summed(s, sum)
      /\ Admitted'
  BY SameTasks
<1>2. ArmType'
  BY DEF ArmInv, ArmType
<1>3. ASSUME NEW s \in Shards PROVE ShardOk(s)'
  <2>1. ShardOk(s)
    BY DEF ArmInv
  <2>2. Done(s) => Done(s)'
    BY <1>1 DEF Done, HasRows
  <2> QED
    BY <2>1, <2>2 DEF ShardOk, Complete
<1>4. ASSUME NEW s \in Shards, NEW p \in Procs PROVE ProcessOk(s, p)'
  <2>1. ProcessOk(s, p)
    BY DEF ArmInv
  <2>2. Done(s) => Done(s)'
    BY <1>1 DEF Done, HasRows
  <2>3. At(s, p)' = At(s, p)
    BY DEF At
  <2> DEFINE B == Before(s, proc[s][p].next)
  <2>4. B' = B
    BY <1>1
  <2>5. HasRows(s, B) => HasRows(s, B)'
    BY <2>4 DEF HasRows
  <2> QED
    BY <2>1, <2>2, <2>3, <2>4, <2>5 DEF ProcessOk
<1> QED
  BY <1>1, <1>2, <1>3, <1>4 DEF ArmInv, Gated

LEMMA MergeRowsStep ==
  ASSUME ArmInv, NEW S \in SUBSET Shards, MergeRows(S)
  PROVE  ArmInv'
<1> DEFINE sums == [t \in AllTasks |-> SumFunction([s \in S |-> shardDir[s].rows[t]])]
           direct == {t \in Ids(list) : IsDirect(t)}
<1>1. /\ UNCHANGED <<mode, list, shardDir, sidecar, proc, table>>
      /\ merged = NoArm /\ S # {} /\ merging' = S
      /\ \A s \in S : Complete(s)
      /\ merged' = [merged EXCEPT !.rows = sums, !.reused = direct]
  BY DEF MergeRows
<1>2. /\ \A s \in S : shardDir[s] \in Directory /\ shardDir[s].rows \in [AllTasks -> Nat]
      /\ Admitted
  <2>1. \A s \in S : shardDir[s] \in Directory /\ shardDir[s] # Nothing
    BY <1>1 DEF ArmInv, ArmType, Complete
  <2> QED
    BY <1>1, <2>1 DEF ArmInv, Gated, Directory
<1>3. ASSUME NEW t \in AllTasks
      PROVE  sums[t] \in Nat /\ \A s \in S : shardDir[s].rows[t] <= sums[t]
  <2> DEFINE f == [s \in S |-> shardDir[s].rows[t]]
  <2>1. f \in [S -> Nat]
    BY <1>2
  <2>2. sums[t] = SumFunction(f) /\ \A s \in S : f[s] = shardDir[s].rows[t]
    OBVIOUS
  <2> HIDE DEF f, sums
  <2> QED
    BY <2>1, <2>2, RowsAdd
<1>4. sums \in [AllTasks -> Nat] /\ direct \in SUBSET AllTasks
  <2>1. \A t \in AllTasks : sums[t] \in Nat
    BY <1>3
  <2>2. Ids(list) \subseteq AllTasks
    BY ListType DEF ArmInv, ArmType
  <2> QED
    BY <2>1, <2>2
<1>5. \A s \in S : \A i \in Rolls(s) : list[i] \in AllTasks /\ sums[list[i]] >= 1
  <2> SUFFICES ASSUME NEW s \in S, NEW i \in Rolls(s)
               PROVE  list[i] \in AllTasks /\ sums[list[i]] >= 1
    OBVIOUS
  <2>1. list[i] \in AllTasks
    BY ListType DEF ArmInv, ArmType, Rolls
  <2>2. shardDir[s].rows[list[i]] >= 1
    BY <1>1 DEF ArmInv, ShardOk, Done, HasRows
  <2>3. shardDir[s].rows[list[i]] \in Nat
    BY <1>2, <2>1
  <2> HIDE DEF sums
  <2> QED
    BY <1>3, <2>1, <2>2, <2>3
<1> HIDE DEF sums
<1>6. /\ merged' \in ArmDirectory /\ merged'.rows = sums /\ merged'.reused = direct
      /\ merged'.summary = Nothing
  BY <1>1, <1>4 DEF NoArm, ArmDirectory
<1>7. MergedOf(S)'
  <2>1. /\ \A s : Rolls(s)' = Rolls(s)
        /\ \A t : IsDirect(t)' = IsDirect(t)
    BY <1>1, SameTasks
  <2> QED
    BY <1>1, <1>5, <1>6, <2>1 DEF MergedOf, Ids
<1>8. MergeOk'
  BY <1>1, <1>6, <1>7 DEF MergeOk, Complete
<1>9. MetricsCoverFrozen'
  BY <1>1 DEF ArmInv, MetricsCoverFrozen
<1> QED
  BY <1>1, <1>2, <1>6, <1>8, <1>9, MergeStep

\* Each task of the list is one shard's: what the shards rolled out adds up.
LEMMA RolledAdds ==
  ASSUME list \in Lists, NEW S \in SUBSET Shards, NEW f \in [S -> Nat],
         \A s \in S : f[s] = Cardinality(Rolls(s))
  PROVE  SumFunction(f) = Cardinality(RolledOf(S))
<1> DEFINE U == DOMAIN list
           R == [s \in S |-> Rolls(s)]
<1>1. IsFiniteSet(U)
  BY ListType, UpToFinite
<1>2. IsFiniteSet(S)
  BY ShardsFinite
<1>3. R \in [S -> SUBSET U] /\ \A s \in S : f[s] = Cardinality(R[s])
  BY DEF Rolls
<1>4. \A s, t \in S : s # t => R[s] \cap R[t] = {}
  BY DEF Rolls, Rollable, Owns
<1>5. RolledOf(S) = {u \in U : \E s \in S : u \in R[s]}
  BY DEF RolledOf
<1> HIDE DEF U, R
<1>6. SumFunction(f) = Cardinality({u \in U : \E s \in S : u \in R[s]})
  BY <1>1, <1>2, <1>3, <1>4, SumSizes
<1> QED
  BY <1>5, <1>6

LEMMA MergeSummariesStep ==
  ASSUME ArmInv, MergeSummaries
  PROVE  ArmInv'
<1> PICK S : S = merging
  OBVIOUS
<1> DEFINE f == [s \in S |-> shardDir[s].summary.rolled]
           h == [s \in S |-> shardDir[s].summary.reused]
           sum == [tasks |-> Len(list), rolled |-> SumFunction(f),
                   reused |-> SumFunction(h)]
<1>1. /\ UNCHANGED <<mode, list, shardDir, sidecar, proc, table>>
      /\ merging # Nothing /\ merging' = Nothing
      /\ merged' = [merged EXCEPT !.summary = sum]
  BY DEF MergeSummaries
<1>2. /\ S \in SUBSET Shards /\ MergedOf(S) /\ Admitted
      /\ \A s \in S : Complete(s)
  BY <1>1 DEF ArmInv, MergeOk, MergedOf, Gated
<1>3. \A s \in S : Summed(s, shardDir[s].summary)
  BY <1>2 DEF ArmInv, ShardOk, Done
<1>4. \A s \in S : /\ shardDir[s].summary.rolled \in Nat /\ shardDir[s].summary.reused \in Nat
                   /\ shardDir[s].summary.rolled = Cardinality(Rolls(s))
  BY <1>3 DEF Summed, Summaries
<1>5. f \in [S -> Nat] /\ h \in [S -> Nat] /\ \A s \in S : f[s] = Cardinality(Rolls(s))
  BY <1>4
<1>6. list \in Lists /\ Len(list) \in Nat
  BY ListType DEF ArmInv, ArmType
<1> HIDE DEF f, h
<1>7. /\ SumFunction(f) \in Nat /\ SumFunction(h) \in Nat
      /\ SumFunction(f) = Cardinality(RolledOf(S))
  BY <1>2, <1>5, <1>6, RowsAdd, RolledAdds
<1>8. sum \in Summaries /\ sum.tasks = Len(list) /\ sum.rolled = Cardinality(RolledOf(S))
  BY <1>6, <1>7 DEF Summaries
<1> HIDE DEF sum
<1>9. /\ merged' \in ArmDirectory /\ merged'.rows = merged.rows
      /\ merged'.reused = merged.reused /\ merged'.summary = sum
  <2>1. merged \in ArmDirectory
    BY DEF ArmInv, ArmType
  <2> QED
    BY <1>1, <1>8, <2>1 DEF ArmDirectory
<1>10. MergedOf(S)' /\ RolledOf(S)' = RolledOf(S)
  <2>1. /\ \A s : Rolls(s)' = Rolls(s)
        /\ \A t : IsDirect(t)' = IsDirect(t)
        /\ \A T : RolledOf(T)' = RolledOf(T)
    BY <1>1, SameTasks
  <2> QED
    BY <1>1, <1>2, <1>9, <2>1 DEF MergedOf
<1>11. MergeOk'
  <2>1. merged'.summary.tasks = Len(list') /\ merged'.summary.rolled = Cardinality(RolledOf(S)')
    BY <1>1, <1>8, <1>9, <1>10
  <2> QED
    BY <1>1, <1>2, <1>10, <2>1 DEF MergeOk
<1>12. MetricsCoverFrozen'
  BY <1>1 DEF ArmInv, MetricsCoverFrozen
<1> QED
  BY <1>1, <1>2, <1>9, <1>11, <1>12, MergeStep

LEMMA MergeDiesStep ==
  ASSUME ArmInv, MergeDies
  PROVE  ArmInv'
<1>1. /\ UNCHANGED <<mode, list, shardDir, sidecar, proc, merged, table>>
      /\ merging # Nothing /\ merging' = Nothing
  BY DEF MergeDies
<1>2. Admitted /\ merged' \in ArmDirectory /\ MetricsCoverFrozen'
  BY <1>1 DEF ArmInv, Gated, ArmType, MetricsCoverFrozen
<1>3. MergeOk'
  <2>1. \A S : MergedOf(S) => MergedOf(S)'
    BY <1>1, SameTasks DEF MergedOf
  <2>2. \A S : RolledOf(S)' = RolledOf(S)
    BY <1>1, SameTasks
  <2> QED
    BY <1>1, <2>1, <2>2 DEF ArmInv, MergeOk
<1> QED
  BY <1>1, <1>2, <1>3, MergeStep

LEMMA MoveArmAsideStep ==
  ASSUME ArmInv, MoveArmAside
  PROVE  ArmInv'
<1>1. /\ UNCHANGED <<mode, list, shardDir, sidecar, proc, merging, table>>
      /\ merging = Nothing /\ merged # NoArm /\ merged' = NoArm
  BY DEF MoveArmAside
<1>2. NoArm \in ArmDirectory /\ NoArm.summary = Nothing
  BY DEF NoArm, ArmDirectory, NoTaskRows
<1>3. MetricsCoverFrozen' /\ MergeOk'
  BY <1>1, <1>2 DEF ArmInv, MetricsCoverFrozen, MergeOk
<1>4. CASE Admitted
  BY <1>1, <1>2, <1>3, <1>4, MergeStep
<1>5. CASE ~Admitted
  <2>1. ~Admitted'
    BY <1>1, <1>5, SameTasks
  <2>2. \A s \in Shards : shardDir[s] = Nothing /\ \A p \in Procs : At(s, p) = "none"
    BY <1>5 DEF ArmInv, Gated
  <2>3. Gated'
    BY <1>1, <1>2, <2>2 DEF Gated, At
  <2>4. ArmType'
    BY <1>1, <1>2 DEF ArmInv, ArmType
  <2>5. \A s \in Shards : ShardOk(s)' /\ \A p \in Procs : ProcessOk(s, p)'
    BY <1>1, <2>2 DEF ArmInv, ShardOk, ProcessOk, Complete, At
  <2> QED
    BY <1>3, <2>3, <2>4, <2>5 DEF ArmInv
<1> QED
  BY <1>4, <1>5

\* Rows that count up to the tasks of a list, with at least one of each task
\* that was rolled out, are one of each.
LEMMA CountsAgree ==
  ASSUME ArmInv, Admitted, merged.summary # Nothing, Counts(merged)
  PROVE  \A t \in AllTasks :
           merged.rows[t] + (IF t \in merged.reused THEN 1 ELSE 0)
             = IF t \in Ids(Frozen) THEN 1 ELSE 0
<1>1. PICK S \in SUBSET Shards :
        /\ MergedOf(S) /\ merged.summary.rolled = Cardinality(RolledOf(S))
        /\ merged.summary.tasks = Len(list)
  BY DEF ArmInv, MergeOk
<1> DEFINE I == RolledOf(S)
           T == {list[i] : i \in I}
           D == {t \in Ids(list) : IsDirect(t)}
           got == merged.rows
<1>2. /\ list \in Seq(AllTasks) /\ Ids(list) \subseteq AllTasks
      /\ DOMAIN list = 1..Len(list) /\ Len(list) \in Nat
      /\ got \in [AllTasks -> Nat]
  BY ListType DEF ArmInv, ArmType, ArmDirectory
<1>3. Distinct(list) /\ Ids(list) = Ids(Frozen)
  BY DEF Admitted, Aligned, CheckFrozen
<1>4. I \subseteq DOMAIN list /\ IsFiniteSet(DOMAIN list) /\ IsFiniteSet(I)
      /\ Cardinality(DOMAIN list) = Len(list)
  <2>1. IsFiniteSet(DOMAIN list) /\ Cardinality(DOMAIN list) = Len(list)
    BY <1>2, UpToFinite
  <2>2. I \subseteq DOMAIN list
    BY DEF RolledOf
  <2> QED
    BY <2>1, <2>2, FS_Subset
<1>5. IsFiniteSet(T) /\ Cardinality(T) = Cardinality(I)
  <2> DEFINE f == [i \in I |-> list[i]]
  <2>1. /\ f \in [I -> T]
        /\ \A i, j \in I : f[i] = f[j] => i = j
        /\ \A t \in T : \E i \in I : f[i] = t
    BY <1>3, <1>4 DEF Distinct
  <2> HIDE DEF f, I, T
  <2> QED
    BY <1>4, <2>1, ImageSize
<1>6. IsFiniteSet(Ids(list)) /\ Cardinality(Ids(list)) = Len(list)
  <2> DEFINE U == DOMAIN list
             V == Ids(list)
             f == [i \in U |-> list[i]]
  <2>1. /\ f \in [U -> V]
        /\ \A i, j \in U : f[i] = f[j] => i = j
        /\ \A t \in V : \E i \in U : f[i] = t
    BY <1>3 DEF Distinct, Ids
  <2>2. IsFiniteSet(U) /\ Cardinality(U) = Len(list)
    BY <1>4
  <2> HIDE DEF f, U, V
  <2>3. IsFiniteSet(V) /\ Cardinality(V) = Cardinality(U)
    BY <2>1, <2>2, ImageSize
  <2> QED
    BY <2>2, <2>3 DEF V
<1>7. \A i \in I : i \in DOMAIN list /\ ~IsDirect(list[i]) /\ got[list[i]] >= 1
  BY <1>1 DEF RolledOf, Rolls, Rollable, MergedOf
<1>8. /\ T \subseteq Ids(list) /\ D \subseteq Ids(list) /\ T \cap D = {}
      /\ \A t \in T : got[t] >= 1
  BY <1>7 DEF Ids
<1>9. /\ Cardinality(T) + Cardinality(D) = Len(list)
      /\ SumFunction(got) = Cardinality(T)
  <2>1. merged.reused = D
    BY <1>1 DEF MergedOf
  <2> HIDE DEF D, I, T
  <2> QED
    BY <1>1, <1>5, <2>1 DEF Counts, RowCount, I
<1>10. T \cup D = Ids(list)
  <2> DEFINE V == Ids(list)
             W == T \cup D
  <2>1. IsFiniteSet(D)
    BY <1>6, <1>8, FS_Subset
  <2> HIDE DEF T, D
  <2>2. Cardinality(T \cup D) = Cardinality(T) + Cardinality(D)
    BY <1>5, <1>8, <2>1, DisjointSizes
  <2>3. W \in SUBSET V /\ IsFiniteSet(V) /\ Cardinality(V) = Cardinality(W)
    BY <1>6, <1>8, <1>9, <2>2
  <2> HIDE DEF V, W
  <2>4. V = W
    BY <2>3, FS_Subset
  <2> QED
    BY <2>4 DEF V, W
<1>11. \A t \in AllTasks : got[t] = IF t \in T THEN 1 ELSE 0
  <2>1. IsFiniteSet(AllTasks) /\ T \in SUBSET AllTasks
    BY <1>2, <1>8, ArmAssumption
  <2> HIDE DEF T, got
  <2> QED
    BY <1>2, <1>8, <1>9, <2>1, SumCounts
<1>12. merged.reused = D
  BY <1>1 DEF MergedOf
<1> HIDE DEF T, D
<1> QED
  BY <1>3, <1>8, <1>10, <1>11, <1>12 DEF got

LEMMA MeasureStep ==
  ASSUME ArmInv, Measure
  PROVE  ArmInv'
<1>1. /\ UNCHANGED <<mode, list, shardDir, sidecar, proc, merging, merged>>
      /\ merging = Nothing /\ merged.summary # Nothing /\ Counts(merged)
      /\ table' = merged
  BY DEF Measure
<1>2. Admitted /\ merged' \in ArmDirectory
  BY <1>1 DEF ArmInv, Gated, ArmType
<1>3. MetricsCoverFrozen'
  <2>1. \A t \in AllTasks :
          merged.rows[t] + (IF t \in merged.reused THEN 1 ELSE 0)
            = IF t \in Ids(Frozen) THEN 1 ELSE 0
    BY <1>1, <1>2, CountsAgree
  <2> QED
    BY <1>1, <2>1 DEF MetricsCoverFrozen
<1>4. MergeOk'
  <2>1. \A S : MergedOf(S) => MergedOf(S)'
    BY <1>1, SameTasks DEF MergedOf
  <2>2. \A S : RolledOf(S)' = RolledOf(S)
    BY <1>1, SameTasks
  <2> QED
    BY <1>1, <2>1, <2>2 DEF ArmInv, MergeOk
<1> QED
  BY <1>1, <1>2, <1>3, <1>4, MergeStep

LEMMA ArmInductive == ArmInv /\ [aNext]_aVars => ArmInv'
<1> SUFFICES ASSUME ArmInv, [aNext]_aVars PROVE ArmInv'
  OBVIOUS
<1>1. CASE UNCHANGED aVars
  <2>1. UNCHANGED <<mode, list, shardDir, sidecar, proc, merging, merged, table>>
    BY <1>1 DEF aVars
  <2>2. /\ \A s : Rolls(s)' = Rolls(s)
        /\ \A s, n : Before(s, n)' = Before(s, n)
        /\ \A s, sum : Summed(s, sum)' = Summed(s, sum)
        /\ \A S : RolledOf(S)' = RolledOf(S)
        /\ \A t : IsDirect(t)' = IsDirect(t)
        /\ Admitted' = Admitted
    BY <2>1, SameTasks
  <2>3. CASE Admitted
    <3>1. merged' \in ArmDirectory /\ MetricsCoverFrozen'
      BY <2>1 DEF ArmInv, ArmType, MetricsCoverFrozen
    <3>2. MergeOk'
      <4>1. \A S : MergedOf(S) => MergedOf(S)'
        BY <2>1, <2>2 DEF MergedOf
      <4> QED
        BY <2>1, <2>2, <4>1 DEF ArmInv, MergeOk, Complete
    <3> QED
      BY <2>1, <2>3, <3>1, <3>2, MergeStep
  <2>4. CASE ~Admitted
    <3>1. /\ \A s \in Shards : shardDir[s] = Nothing /\ \A p \in Procs : At(s, p) = "none"
          /\ merging = Nothing /\ merged.summary = Nothing
      BY <2>4 DEF ArmInv, Gated
    <3>2. Gated' /\ MergeOk' /\ MetricsCoverFrozen' /\ ArmType'
      BY <2>1, <3>1 DEF ArmInv, ArmType, Gated, MergeOk, MetricsCoverFrozen, At
    <3>3. \A s \in Shards : ShardOk(s)' /\ \A p \in Procs : ProcessOk(s, p)'
      BY <2>1, <3>1 DEF ArmInv, ShardOk, ProcessOk, Complete, At
    <3> QED
      BY <3>2, <3>3 DEF ArmInv
  <2> QED
    BY <2>3, <2>4
<1>2. ASSUME NEW s \in Shards, DryRun(s) \/ MoveAside(s) PROVE ArmInv'
  BY <1>2, DryRunStep, MoveAsideStep
<1>3. ASSUME NEW s \in Shards, NEW p \in Procs, Launch(s, p) \/ Step(s, p) \/ Die(s, p)
      PROVE  ArmInv'
  BY <1>3, LaunchStep, EnterStep, WriteRunManifestStep, RollStep, SummariseStep,
     MarkCompleteStep, CopyIdentityStep, DieStep DEF Step
<1>4. ASSUME NEW S \in SUBSET Shards, MergeRows(S) PROVE ArmInv'
  BY <1>4, MergeRowsStep
<1>5. CASE MergeSummaries \/ MergeDies \/ MoveArmAside \/ Measure
  BY <1>5, MergeSummariesStep, MergeDiesStep, MoveArmAsideStep, MeasureStep
<1> QED
  BY <1>1, <1>2, <1>3, <1>4, <1>5 DEF aNext

\* The metrics of an arm are over the frozen tasks, each exactly once, for any
\* number of shards, processes and deaths (rule_baseline.run,
\* merge_rule_shards.main, compute_arm).
THEOREM MetricsCorrect == ArmSpec => []MetricsCoverFrozen
<1>1. ArmInv => MetricsCoverFrozen
  BY DEF ArmInv
<1> QED
  BY <1>1, ArmInitial, ArmInductive, PTL DEF ArmSpec
-----------------------------------------------------------------------------
(* The rollout-health measurement.                                          *)

Rewards == [1..GroupSize -> HealthRewards]
TrajectoryLine ==
  [index : Nat, task : DataRows, sample : Nat, reward : HealthRewards]
GroupLine == [task : DataRows, rewards : Rewards, effective : BOOLEAN]
HealthDir ==
  [status : {"running", "failed", "complete", "torn"}, trajectories : Seq(TrajectoryLine),
   groups : Seq(GroupLine),
   summary : {Absent} \cup [groups : Nat, zero : Nat, one : Nat, mixed : Nat,
                            effective : Nat],
   complete : BOOLEAN]
SampleLine(i, k, task, r) ==
  [index |-> i - 1, task |-> task, sample |-> k - 1, reward |-> r]

\* What is in memory is in the files, line by line.
FilesFollow ==
  /\ plan \in Samples
  /\ groups \in Seq(Rewards) /\ members \in Seq(HealthRewards)
  /\ Len(groups) <= TaskCount /\ Len(members) <= GroupSize
  /\ Len(groups) = TaskCount => members = << >>
  /\ Len(hDir.groups) = Len(groups)
  /\ \A i \in 1..Len(groups) :
       hDir.groups[i] = [task |-> plan[i], rewards |-> groups[i],
                         effective |-> Effective(groups[i])]
  /\ Len(hDir.trajectories) = GroupSize * Len(groups) + Len(members)
  /\ \A i \in 1..Len(groups) : \A k \in 1..GroupSize :
       hDir.trajectories[GroupSize * (i - 1) + k] =
         SampleLine(i, k, plan[i], groups[i][k])
  /\ \A k \in 1..Len(members) :
       hDir.trajectories[GroupSize * Len(groups) + k] =
         SampleLine(Len(groups) + 1, k, plan[Len(groups) + 1], members[k])

\* What a directory that says it is complete holds.
Together(d) ==
  d.complete \/ d.status = "complete" =>
    Agree(d) /\ (d.complete => d.status # "running")

HealthInv ==
  /\ hDir \in HealthDir \cup {Absent}
  /\ hAt \in {"none", "prepared", "rolling", "summed", "closing", "reporting"}
  /\ hAt \in {"none", "prepared"} => members = << >> /\ groups = << >>
  /\ hAt # "none" => hDir \in HealthDir
  /\ hAt \in {"prepared", "rolling", "summed"} => ~hDir.complete /\ hDir.status = "running"
  /\ hAt = "prepared" => hDir.trajectories = << >> /\ hDir.groups = << >>
  /\ hAt \in {"rolling", "summed"} => FilesFollow
  /\ hAt = "summed" => Len(groups) = TaskCount /\ hDir.summary = SummaryOf(groups)
  /\ hAt \in {"closing", "reporting"} => hDir.status = "complete"
  /\ hDir # Absent \/ hAt # "none" => Together(hDir)

\* The summary of complete groups counts each once, as all zero, all right or
\* mixed, and those that carry a signal are mixed.
LEMMA SummaryCounts ==
  ASSUME NEW gs \in Seq(Rewards)
  PROVE  LET s == SummaryOf(gs)
         IN  /\ s \in [groups : Nat, zero : Nat, one : Nat, mixed : Nat, effective : Nat]
             /\ s.effective = Cardinality({i \in DOMAIN gs : Effective(gs[i])})
             /\ s.zero + s.one + s.mixed = s.groups
             /\ s.effective <= s.mixed
<1> DEFINE D == DOMAIN gs
           Z == {i \in D : AllAre(gs[i], 0)}
           O == {i \in D : AllAre(gs[i], Full)}
           M == {i \in D : ~AllAre(gs[i], 0) /\ ~AllAre(gs[i], Full)}
           E == {i \in D : Effective(gs[i])}
           s == SummaryOf(gs)
<1>1. s = [groups |-> Len(gs), zero |-> Cardinality(Z), one |-> Cardinality(O),
           mixed |-> Cardinality(M), effective |-> Cardinality(E)]
  BY DEF SummaryOf, CountGroups
<1>2. D = 1..Len(gs) /\ Len(gs) \in Nat /\ \A i \in D : gs[i] \in Rewards
  OBVIOUS
<1>3. IsFiniteSet(D) /\ Cardinality(D) = Len(gs)
  BY <1>2, UpToFinite, FS_Interval
<1>4. 1 \in 1..GroupSize /\ Full # 0
  BY HealthAssumption
<1>5. Z \cap O = {}
  <2> SUFFICES ASSUME NEW i \in Z, i \in O PROVE FALSE
    OBVIOUS
  <2>1. gs[i][1] = 0 /\ gs[i][1] = Full
    BY <1>2, <1>4 DEF AllAre, Rewards
  <2> QED
    BY <1>4, <2>1
<1>6. E \subseteq M
  BY <1>2, <1>4 DEF AllAre, Rewards, Effective
<1>7. (Z \cup O) \cup M = D /\ (Z \cup O) \cap M = {}
  OBVIOUS
<1>8. Z \in SUBSET D /\ O \in SUBSET D /\ M \in SUBSET D /\ E \in SUBSET M
  BY <1>6
<1> HIDE DEF D, Z, O, M, E, s
<1>9. /\ IsFiniteSet(Z) /\ IsFiniteSet(O) /\ IsFiniteSet(M)
      /\ Cardinality(Z) \in Nat /\ Cardinality(O) \in Nat /\ Cardinality(M) \in Nat
  BY <1>3, <1>8, FS_Subset, FS_CardinalityType
<1>10. IsFiniteSet(E) /\ Cardinality(E) \in Nat /\ Cardinality(E) <= Cardinality(M)
  BY <1>8, <1>9, FS_Subset, FS_CardinalityType
<1>12. IsFiniteSet(Z \cup O) /\ Cardinality(Z \cup O) = Cardinality(Z) + Cardinality(O)
  BY <1>5, <1>9, DisjointSizes
<1>13. Cardinality((Z \cup O) \cup M) = Cardinality(Z \cup O) + Cardinality(M)
  BY <1>7, <1>9, <1>12, DisjointSizes
<1>14. Cardinality(Z) + Cardinality(O) + Cardinality(M) = Len(gs)
  BY <1>3, <1>7, <1>9, <1>12, <1>13
<1> QED
  BY <1>1, <1>2, <1>9, <1>10, <1>14 DEF D, E, s

\* A group's lines come before those of the groups after it.
LEMMA PlaceIn ==
  ASSUME NEW d \in Nat \ {0}, NEW n \in Nat, NEW m \in Nat, NEW i \in 1..n, NEW k \in 1..d
  PROVE  d * (i - 1) + k \in 1..d * n + m
<1>1. i - 1 \in Nat /\ d * (i - 1) \in Nat /\ d * n \in Nat
  OBVIOUS
<1>2. d * n = d * (i - 1) + d * (n - i + 1)
  OBVIOUS
<1>3. d * (n - i + 1) >= d
  OBVIOUS
<1> QED
  BY <1>1, <1>2, <1>3

LEMMA HealthInitial == hInit => HealthInv
BY DEF hInit, HealthInv

\* Another manifest beside the same files.
LEMMA SameFiles ==
  ASSUME NEW d, NEW e, Agree(d), e.groups = d.groups,
         e.trajectories = d.trajectories, e.summary = d.summary
  PROVE  Agree(e)
BY DEF Agree

\* The process ends with what is in the directory, or with a manifest that
\* says so or is cut.
LEMMA LeavesStep ==
  ASSUME HealthInv, hAt # "none", Leaves,
         \/ hDir' = hDir
         \/ \E s \in {"failed", "torn"} : hDir' = [hDir EXCEPT !.status = s]
  PROVE  HealthInv'
<1>1. hDir \in HealthDir
  BY DEF HealthInv
<1>2. /\ hDir' \in HealthDir /\ hDir'.complete = hDir.complete
      /\ hDir'.status = hDir.status \/ hDir'.status \in {"failed", "torn"}
      /\ hDir'.groups = hDir.groups /\ hDir'.trajectories = hDir.trajectories
      /\ hDir'.summary = hDir.summary
  BY <1>1 DEF HealthDir
<1>3. hAt' = "none" /\ members' = << >> /\ groups' = << >>
  BY DEF Leaves
<1>4. Together(hDir')
  <2> SUFFICES ASSUME hDir'.complete \/ hDir'.status = "complete"
               PROVE  Agree(hDir') /\ (hDir'.complete => hDir'.status # "running")
    BY DEF Together
  <2>1. Agree(hDir) /\ (hDir.complete => hDir.status # "running")
    BY <1>1, <1>2 DEF HealthInv, Together
  <2>2. Agree(hDir')
    BY <1>2, <2>1, SameFiles
  <2> QED
    BY <1>2, <2>1, <2>2
<1> QED
  BY <1>2, <1>3, <1>4 DEF HealthInv

LEMMA PrepareStep == ASSUME HealthInv, Prepare PROVE HealthInv'
<1>1. hAt = "none" /\ members' = << >> /\ groups' = << >>
  BY DEF Prepare, hMemory, HealthInv
<1>2. CASE hDir = Absent
  <2>1. /\ hDir' = [status |-> "running", trajectories |-> << >>,
                    groups |-> << >>, summary |-> Absent, complete |-> FALSE]
        /\ hAt' = "prepared"
    BY <1>2 DEF Prepare
  <2>2. << >> \in Seq(TrajectoryLine) /\ << >> \in Seq(GroupLine)
    OBVIOUS
  <2>3. /\ hDir' \in HealthDir /\ ~hDir'.complete /\ hDir'.status = "running"
        /\ hDir'.trajectories = << >> /\ hDir'.groups = << >>
    BY <2>1, <2>2 DEF HealthDir
  <2> QED
    BY <1>1, <2>1, <2>3 DEF HealthInv, Together
<1>3. CASE hDir # Absent
  <2>1. hDir' = hDir /\ hAt' = hAt
    BY <1>3 DEF Prepare
  <2> QED
    BY <1>1, <2>1 DEF HealthInv
<1> QED
  BY <1>2, <1>3

LEMMA SelectTasksStep == ASSUME HealthInv, SelectTasks PROVE HealthInv'
<1>1. CASE Fails
  BY <1>1, LeavesStep DEF Fails, SelectTasks
<1>2. CASE /\ plan' \in Samples /\ hAt' = "rolling"
           /\ UNCHANGED <<hDir, members, groups>>
  <2>1. /\ hDir \in HealthDir /\ ~hDir.complete /\ hDir.status = "running"
        /\ members = << >> /\ groups = << >> /\ hDir.trajectories = << >> /\ hDir.groups = << >>
    BY DEF SelectTasks, HealthInv
  <2>2. TaskCount \in Nat \ {0} /\ GroupSize \in Nat \ {0}
    BY HealthAssumption
  <2>3. FilesFollow'
    <3>1. << >> \in Seq(Rewards) /\ << >> \in Seq(HealthRewards) /\ Len(<< >>) = 0
      OBVIOUS
    <3>2. GroupSize * 0 + 0 = 0 /\ 1..0 = {}
      BY <2>2
    <3> QED
      BY <1>2, <2>1, <2>2, <3>1, <3>2 DEF FilesFollow
  <2> QED
    BY <1>2, <2>1, <2>3 DEF HealthInv, Together
<1> QED
  BY <1>1, <1>2 DEF SelectTasks

\* One line more in the trajectories leaves those that are there.
LEMMA RollSampleStep == ASSUME HealthInv, RollSample PROVE HealthInv'
<1>1. /\ hAt = "rolling" /\ Len(groups) < Len(plan) /\ Len(members) < GroupSize
      /\ UNCHANGED <<hAt, plan, groups, attempts>>
  BY DEF RollSample
<1> DEFINE n == Len(groups)
           m == Len(members)
           line(r) == [index |-> n, task |-> plan[n + 1], sample |-> m, reward |-> r]
<1>2. PICK r \in HealthRewards :
        /\ members' = Append(members, r)
        /\ hDir' = [hDir EXCEPT !.trajectories = Append(@, line(r))]
  BY DEF RollSample
<1>3. FilesFollow /\ hDir \in HealthDir /\ ~hDir.complete /\ hDir.status = "running"
  BY <1>1 DEF HealthInv
<1>4. /\ plan \in [1..TaskCount -> DataRows] /\ Len(plan) = TaskCount
      /\ TaskCount \in Nat \ {0} /\ GroupSize \in Nat \ {0}
  BY <1>3, HealthAssumption DEF FilesFollow, Samples
<1>5. n \in Nat /\ m \in Nat /\ n + 1 \in 1..TaskCount /\ n < TaskCount /\ m < GroupSize
  BY <1>1, <1>3, <1>4 DEF FilesFollow
<1>6. line(r) \in TrajectoryLine
  BY <1>4, <1>5 DEF TrajectoryLine
<1> DEFINE T == hDir.trajectories
<1>7. T \in Seq(TrajectoryLine) /\ Len(T) = GroupSize * n + m
  BY <1>3 DEF FilesFollow, HealthDir
<1>8. hDir'.trajectories = Append(T, line(r)) /\ hDir'.groups = hDir.groups
      /\ hDir' \in HealthDir /\ ~hDir'.complete /\ hDir'.status = "running"
  <2>1. Append(T, line(r)) \in Seq(TrajectoryLine)
    BY <1>6, <1>7
  <2> HIDE DEF line
  <2> QED
    BY <1>2, <1>3, <2>1 DEF HealthDir
<1> DEFINE U == hDir'.trajectories
<1> HIDE DEF n, m, line, T
<1>9. /\ Len(U) = GroupSize * n + m + 1
      /\ U[GroupSize * n + m + 1] = line(r)
      /\ \A j \in 1..GroupSize * n + m : U[j] = T[j]
  <2>1. GroupSize * n \in Nat
    BY <1>4, <1>5
  <2> QED
    BY <1>5, <1>7, <1>8, <2>1
<1> HIDE DEF U
<1>10. \A i \in 1..n, k \in 1..GroupSize :
         GroupSize * (i - 1) + k \in 1..GroupSize * n + m
  BY <1>4, <1>5, PlaceIn
<1>11. \A k \in 1..m : GroupSize * n + k \in 1..GroupSize * n + m
  <2>1. GroupSize * n \in Nat
    BY <1>4, <1>5
  <2> QED
    BY <1>5, <2>1
<1>12. /\ members \in Seq(HealthRewards) /\ members' \in Seq(HealthRewards)
       /\ Len(members') = m + 1 /\ members'[m + 1] = r
       /\ \A k \in 1..m : members'[k] = members[k]
  BY <1>2, <1>3 DEF FilesFollow, m
<1>13. FilesFollow'
  <2>1. \A i \in 1..n, k \in 1..GroupSize :
          U[GroupSize * (i - 1) + k] = SampleLine(i, k, plan[i], groups[i][k])
    BY <1>3, <1>9, <1>10 DEF FilesFollow, n, T
  <2>2. \A k \in 1..m : U[GroupSize * n + k] = SampleLine(n + 1, k, plan[n + 1], members[k])
    BY <1>3, <1>9, <1>11 DEF FilesFollow, n, m, T
  <2>3. U[GroupSize * n + (m + 1)] = SampleLine(n + 1, m + 1, plan[n + 1], r)
    <3>1. GroupSize * n \in Nat /\ n + 1 - 1 = n /\ m + 1 - 1 = m
      BY <1>4, <1>5
    <3>2. GroupSize * n + (m + 1) = GroupSize * n + m + 1
      BY <1>5, <3>1
    <3>3. SampleLine(n + 1, m + 1, plan[n + 1], r) = line(r)
      BY <1>5, <3>1 DEF SampleLine, line
    <3>4. U[GroupSize * n + (m + 1)] = line(r)
      BY <1>9, <3>2
    <3> QED
      BY <3>3, <3>4
  <2>4. \A k \in 1..m + 1 :
          U[GroupSize * n + k] = SampleLine(n + 1, k, plan[n + 1], members'[k])
    <3>1. \A k \in 1..m + 1 : k \in 1..m \/ k = m + 1
      BY <1>5
    <3> QED
      BY <1>12, <2>2, <2>3, <3>1
  <2>5. Len(U) = GroupSize * n + (m + 1)
    <3>1. GroupSize * n \in Nat
      BY <1>4, <1>5
    <3> QED
      BY <1>5, <1>9, <3>1
  <2>6. m + 1 <= GroupSize /\ n # TaskCount
    BY <1>4, <1>5
  <2> QED
    BY <1>1, <1>3, <1>8, <1>12, <2>1, <2>4, <2>5, <2>6 DEF FilesFollow, U, n
<1> QED
  BY <1>1, <1>8, <1>13 DEF HealthInv, Together

\* A closed group is whole in both files.
LEMMA CloseGroupStep == ASSUME HealthInv, CloseGroup PROVE HealthInv'
<1> DEFINE n == Len(groups)
           line == [task |-> plan[n + 1], rewards |-> members,
                    effective |-> Effective(members)]
<1>1. /\ hAt = "rolling" /\ Len(members) = GroupSize
      /\ groups' = Append(groups, members) /\ members' = << >>
      /\ hDir' = [hDir EXCEPT !.groups = Append(@, line)]
      /\ UNCHANGED <<hAt, plan, attempts>>
  BY DEF CloseGroup
<1>2. FilesFollow /\ hDir \in HealthDir /\ ~hDir.complete /\ hDir.status = "running"
  BY <1>1 DEF HealthInv
<1>3. /\ plan \in [1..TaskCount -> DataRows] /\ Len(plan) = TaskCount
      /\ TaskCount \in Nat \ {0} /\ GroupSize \in Nat \ {0}
  BY <1>2, HealthAssumption DEF FilesFollow, Samples
<1>4. members # << >> /\ members \in Rewards
  <2>1. members \in Seq(HealthRewards)
    BY <1>2 DEF FilesFollow
  <2>2. members \in [1..Len(members) -> HealthRewards]
    BY <2>1
  <2> QED
    BY <1>1, <1>3, <2>2 DEF Rewards
<1>5. n \in Nat /\ n <= TaskCount /\ n # TaskCount
  BY <1>2, <1>3, <1>4 DEF FilesFollow
<1>6. n + 1 \in 1..TaskCount /\ n + 1 <= TaskCount
  BY <1>3, <1>5
<1>7. line \in GroupLine
  <2>1. Effective(members) \in BOOLEAN
    BY DEF Effective
  <2> QED
    BY <1>3, <1>4, <1>6, <2>1 DEF GroupLine
<1> DEFINE G == hDir.groups
           H == hDir'.groups
           T == hDir.trajectories
<1>8. G \in Seq(GroupLine) /\ Len(G) = n /\ T \in Seq(TrajectoryLine)
  BY <1>2 DEF FilesFollow, HealthDir
<1>9. /\ H = Append(G, line) /\ hDir'.trajectories = T
      /\ hDir' \in HealthDir /\ ~hDir'.complete /\ hDir'.status = "running"
  <2>1. Append(G, line) \in Seq(GroupLine)
    BY <1>7, <1>8
  <2> HIDE DEF line
  <2> QED
    BY <1>1, <1>2, <2>1 DEF HealthDir
<1>10. /\ groups \in Seq(Rewards) /\ groups' \in Seq(Rewards) /\ Len(groups') = n + 1
       /\ groups'[n + 1] = members /\ \A i \in 1..n : groups'[i] = groups[i]
  BY <1>1, <1>2, <1>4 DEF FilesFollow
<1> HIDE DEF G, n, line, T, H
<1>11. /\ Len(H) = n + 1 /\ H[n + 1] = line /\ \A i \in 1..n : H[i] = G[i]
  BY <1>8, <1>9
<1>12. \A i \in 1..n + 1 : i \in 1..n \/ i = n + 1
  BY <1>5
<1>13. FilesFollow'
  <2>1. \A i \in 1..n + 1 :
          H[i] = [task |-> plan[i], rewards |-> groups'[i],
                  effective |-> Effective(groups'[i])]
    <3>1. \A i \in 1..n :
            G[i] = [task |-> plan[i], rewards |-> groups[i],
                    effective |-> Effective(groups[i])]
      BY <1>2 DEF FilesFollow, n, G
    <3> QED
      BY <1>10, <1>11, <1>12, <3>1 DEF line
  <2>2. \A i \in 1..n, k \in 1..GroupSize :
          T[GroupSize * (i - 1) + k] = SampleLine(i, k, plan[i], groups[i][k])
    BY <1>2 DEF FilesFollow, n, T
  <2>3. \A k \in 1..GroupSize :
          T[GroupSize * n + k] = SampleLine(n + 1, k, plan[n + 1], members[k])
    BY <1>1, <1>2 DEF FilesFollow, n, T
  <2>4. \A i \in 1..n + 1, k \in 1..GroupSize :
          T[GroupSize * (i - 1) + k] = SampleLine(i, k, plan[i], groups'[i][k])
    <3> SUFFICES ASSUME NEW i \in 1..n + 1, NEW k \in 1..GroupSize
                 PROVE  T[GroupSize * (i - 1) + k] =
                          SampleLine(i, k, plan[i], groups'[i][k])
      OBVIOUS
    <3>1. CASE i \in 1..n
      BY <1>10, <2>2, <3>1
    <3>2. CASE i = n + 1
      <4>1. i - 1 = n
        BY <1>5, <3>2
      <4> QED
        BY <1>10, <2>3, <3>2, <4>1
    <3> QED
      BY <1>12, <3>1, <3>2
  <2>5. Len(T) = GroupSize * (n + 1) + 0
    <3>1. Len(T) = GroupSize * n + GroupSize
      BY <1>1, <1>2 DEF FilesFollow, n, T
    <3> QED
      BY <1>3, <1>5, <3>1
  <2>6. << >> \in Seq(HealthRewards) /\ Len(<< >>) = 0 /\ 0 <= GroupSize /\ 1..0 = {}
    BY <1>3
  <2>7. /\ plan \in Samples /\ plan' = plan /\ Len(groups') <= TaskCount
        /\ groups' \in Seq(Rewards) /\ members' \in Seq(HealthRewards)
        /\ Len(members') <= GroupSize /\ members' = << >>
        /\ Len(H) = Len(groups')
        /\ Len(T) = GroupSize * Len(groups') + Len(members')
    BY <1>1, <1>2, <1>6, <1>10, <1>11, <2>5, <2>6 DEF FilesFollow
  <2>8. 1..Len(members') = {}
    BY <1>1, <2>6
  <2> QED
    BY <1>9, <1>10, <2>1, <2>4, <2>7, <2>8 DEF FilesFollow, T, H
<1> QED
  BY <1>1, <1>9, <1>13 DEF HealthInv, Together

LEMMA WriteSummaryStep == ASSUME HealthInv, WriteSummary PROVE HealthInv'
<1>1. CASE Fails
  BY <1>1, LeavesStep DEF Fails, WriteSummary
<1>2. CASE /\ hDir' = [hDir EXCEPT !.summary = SummaryOf(groups)]
           /\ hAt' = "summed" /\ UNCHANGED hMemory
  <2>1. FilesFollow /\ hDir \in HealthDir /\ ~hDir.complete /\ hDir.status = "running"
    BY DEF HealthInv, WriteSummary
  <2>2. Len(groups) = TaskCount /\ groups \in Seq(Rewards)
    BY <2>1, HealthAssumption DEF WriteSummary, FilesFollow, Samples
  <2>3. SummaryOf(groups) \in
          [groups : Nat, zero : Nat, one : Nat, mixed : Nat, effective : Nat]
    BY <2>2, SummaryCounts
  <2>4. /\ hDir' \in HealthDir /\ ~hDir'.complete /\ hDir'.status = "running"
        /\ hDir'.summary = SummaryOf(groups)
        /\ hDir'.groups = hDir.groups /\ hDir'.trajectories = hDir.trajectories
    <3> HIDE DEF SummaryOf
    <3> QED
      BY <1>2, <2>1, <2>3 DEF HealthDir
  <2>5. FilesFollow'
    BY <1>2, <2>1, <2>4 DEF FilesFollow, hMemory
  <2>6. groups' = groups
    BY <1>2 DEF hMemory
  <2> QED
    BY <1>2, <2>2, <2>4, <2>5, <2>6 DEF HealthInv, Together
<1> QED
  BY <1>1, <1>2 DEF WriteSummary

\* The files of a run whose groups are all closed and summed agree.
LEMMA ClosedAgree ==
  ASSUME FilesFollow, hDir \in HealthDir, Len(groups) = TaskCount,
         hDir.summary = SummaryOf(groups)
  PROVE  Agree(hDir)
<1>4. TaskCount \in Nat \ {0} /\ GroupSize \in Nat \ {0}
  BY HealthAssumption
<1>5. groups \in Seq(Rewards) /\ members = << >>
  BY <1>4 DEF FilesFollow
<1>6. /\ Len(hDir.groups) = TaskCount /\ hDir.groups \in Seq(GroupLine)
      /\ \A i \in 1..TaskCount :
           hDir.groups[i] = [task |-> plan[i], rewards |-> groups[i],
                             effective |-> Effective(groups[i])]
  BY DEF FilesFollow, HealthDir
<1>7. \A i \in 1..TaskCount :
        /\ hDir.groups[i].task = plan[i] /\ hDir.groups[i].rewards = groups[i]
        /\ hDir.groups[i].effective <=> Effective(groups[i])
  <2> SUFFICES ASSUME NEW i \in 1..TaskCount
               PROVE  /\ hDir.groups[i].task = plan[i]
                      /\ hDir.groups[i].rewards = groups[i]
                      /\ hDir.groups[i].effective <=> Effective(groups[i])
    OBVIOUS
  <2> DEFINE line == hDir.groups[i]
  <2>1. line = [task |-> plan[i], rewards |-> groups[i],
                effective |-> Effective(groups[i])]
    BY <1>6
  <2> HIDE DEF line
  <2>2. line.task = plan[i] /\ line.rewards = groups[i] /\ line.effective = Effective(groups[i])
    BY <2>1
  <2> QED
    BY <2>2 DEF line
<1>12. Len(hDir.trajectories) = TaskCount * GroupSize
  BY <1>4, <1>5 DEF FilesFollow
<1>8. \A i \in 1..TaskCount :
        /\ Len(hDir.groups[i].rewards) = GroupSize
        /\ \A k \in 1..GroupSize :
             hDir.trajectories[GroupSize * (i - 1) + k] =
               [index |-> i - 1, task |-> hDir.groups[i].task, sample |-> k - 1,
                reward |-> hDir.groups[i].rewards[k]]
  <2> SUFFICES ASSUME NEW i \in 1..TaskCount
               PROVE  /\ Len(hDir.groups[i].rewards) = GroupSize
                      /\ \A k \in 1..GroupSize :
                           hDir.trajectories[GroupSize * (i - 1) + k] =
                             [index |-> i - 1, task |-> hDir.groups[i].task,
                              sample |-> k - 1, reward |-> hDir.groups[i].rewards[k]]
    OBVIOUS
  <2>1. hDir.groups[i].task = plan[i] /\ hDir.groups[i].rewards = groups[i]
    BY <1>7
  <2>2. groups[i] \in [1..GroupSize -> HealthRewards]
    BY <1>5 DEF Rewards
  <2>3. Len(groups[i]) = GroupSize
    BY <1>4, <2>2
  <2>4. \A k \in 1..GroupSize :
          hDir.trajectories[GroupSize * (i - 1) + k] =
            SampleLine(i, k, plan[i], groups[i][k])
    BY DEF FilesFollow
  <2> QED
    BY <2>1, <2>3, <2>4 DEF SampleLine
<1>9. {i \in DOMAIN hDir.groups : hDir.groups[i].effective} =
        {i \in DOMAIN groups : Effective(groups[i])}
  <2>1. DOMAIN hDir.groups = 1..TaskCount /\ DOMAIN groups = 1..TaskCount
    BY <1>5, <1>6
  <2> QED
    BY <1>7, <2>1
<1>10. /\ hDir.summary.effective = Cardinality({i \in DOMAIN groups : Effective(groups[i])})
       /\ hDir.summary.zero + hDir.summary.one + hDir.summary.mixed = hDir.summary.groups
       /\ hDir.summary.effective <= hDir.summary.mixed
  BY <1>5, SummaryCounts
<1>11. hDir.summary.effective =
         Cardinality({i \in DOMAIN hDir.groups : hDir.groups[i].effective})
  BY <1>9, <1>10
<1> QED
  BY <1>6, <1>8, <1>10, <1>11, <1>12 DEF Agree

LEMMA WriteStatusStep == ASSUME HealthInv, WriteStatus PROVE HealthInv'
<1>1. /\ FilesFollow /\ hDir \in HealthDir /\ ~hDir.complete /\ Len(groups) = TaskCount
      /\ hDir.summary = SummaryOf(groups)
  BY DEF HealthInv, WriteStatus
<1>2. /\ hDir' \in HealthDir /\ ~hDir'.complete /\ hDir'.summary = hDir.summary
      /\ hDir'.groups = hDir.groups /\ hDir'.trajectories = hDir.trajectories
      /\ hDir'.status = "complete"
  BY <1>1 DEF HealthDir, WriteStatus
<1>3. Agree(hDir)
  BY <1>1, ClosedAgree
<1>4. Agree(hDir')
  BY <1>2, <1>3, SameFiles
<1>5. hAt' = "closing"
  BY DEF WriteStatus
<1> QED
  BY <1>2, <1>4, <1>5 DEF HealthInv, Together

\* The mark is put beside a manifest that already says complete.
LEMMA WriteCompleteStep == ASSUME HealthInv, WriteComplete PROVE HealthInv'
<1>1. hDir \in HealthDir /\ hDir.status = "complete" /\ Together(hDir)
  BY DEF HealthInv, WriteComplete
<1>2. /\ hDir' \in HealthDir /\ hDir'.summary = hDir.summary
      /\ hDir'.groups = hDir.groups /\ hDir'.trajectories = hDir.trajectories
      /\ hDir'.status = "complete"
  BY <1>1 DEF HealthDir, WriteComplete
<1>3. Agree(hDir)
  BY <1>1 DEF Together
<1>4. Agree(hDir')
  BY <1>2, <1>3, SameFiles
<1>5. hAt' = "reporting"
  BY DEF WriteComplete
<1> QED
  BY <1>2, <1>4, <1>5 DEF HealthInv, Together

LEMMA HealthInductive == HealthInv /\ [hNext]_hVars => HealthInv'
<1> SUFFICES ASSUME HealthInv, [hNext]_hVars PROVE HealthInv'
  OBVIOUS
<1>1. CASE Prepare
  BY <1>1, PrepareStep
<1>2. CASE SelectTasks
  BY <1>2, SelectTasksStep
<1>3. CASE RollSample
  BY <1>3, RollSampleStep
<1>4. CASE CloseGroup
  BY <1>4, CloseGroupStep
<1>5. CASE WriteSummary
  BY <1>5, WriteSummaryStep
<1>6. CASE WriteStatus
  BY <1>6, WriteStatusStep
<1>7. CASE WriteComplete
  BY <1>7, WriteCompleteStep
<1>8. CASE Raise
  BY <1>8, LeavesStep DEF Raise, Fails
<1>9. CASE KillHealth
  BY <1>9, LeavesStep DEF KillHealth
<1>10. CASE UNCHANGED hVars
  BY <1>10 DEF hVars, HealthInv, FilesFollow
<1>11. CASE Report
  BY <1>11, LeavesStep DEF Report
<1> QED
  BY <1>1, <1>2, <1>3, <1>4, <1>5, <1>6, <1>7, <1>8, <1>9, <1>10, <1>11 DEF hNext

\* A measurement that says it is complete, by its mark or its manifest, is
\* whole and its files agree, for any number of tasks, any group size and any
\* number of attempts, killed or failed anywhere, the report after the mark
\* included (scripts/eval/run_rollout_health.py, run).
THEOREM HealthCorrect == hSpec => []HealthIsWhole
<1>1. HealthInv => HealthIsWhole
  BY DEF HealthInv, Together, HealthIsWhole
<1> QED
  BY HealthInitial, HealthInductive, <1>1, PTL DEF hSpec
=============================================================================
