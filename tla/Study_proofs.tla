---------------------------- MODULE Study_proofs ----------------------------
(***************************************************************************)
(* Proofs about the feedback-recovery study, for every number of tasks,    *)
(* samples, continuations and starts of the script: what its logs are      *)
(* worth however it was killed, and what the analysis makes of them.       *)
(***************************************************************************)
EXTENDS Study, FoldTheorems

vars == <<stageVars, starts, cVars, auditVars>>

\* Which stage a directory is for never changes, and what the others would
\* leave is not there.
StageOfRun ==
  /\ stage \in {"a", "b", "c", "audit"}
  /\ stage \in {"c", "audit"} => stagePc = "down"
  /\ stage # "c" =>
       /\ pc = "down" /\ log = << >> /\ manifest = None
  /\ stage = "c" => anchors \in Snapshots
-----------------------------------------------------------------------------
(* Stage C.                                                                 *)

Records ==
  {r \in [sample : Samples, attempt : {0, 1},
          outcome : {"correct", "wrong", "infra"},
          seed : {"C"} \X Samples \X {0}] :
     /\ r.outcome \in Outcomes(r.sample)
     /\ r.seed = GenerationSeed(r.sample, r.attempt)}

LogLines == Records \cup {Torn}

CTypeOK ==
  /\ log \in Seq(LogLines)
  /\ pc \in {"down", "starting", "running", "failing"}
  /\ pos \in Nat \ {0} /\ attempt \in {0, 1}
  /\ last \in Nat /\ had \in 0..Len(log)
  /\ stage = "c" => last <= Len(Plan)

\* What an attempt's line may follow: no sample has three, and the first of
\* two is an infrastructure failure.
RetriesRight(l) ==
  \A s \in Samples :
    /\ \A i, j, k \in Lines(l, s) : ~(i < j /\ j < k)
    /\ \A i, j \in Lines(l, s) : i < j => l[i].outcome = "infra"

\* The samples logged since this invocation began are those of the plan before
\* the position, and the one whose first attempt failed.
InPlace ==
  pc = "running" =>
    /\ Readable
    /\ pos <= last + 1
    /\ done = Logged(SubSeq(log, 1, had))
    /\ \A p \in 1..pos - 1 : Plan[p] \in Logged(log)
    /\ \A s \in Logged(log) \ done :
         \/ \E p \in 1..pos - 1 : Plan[p] = s
         \/ attempt = 1 /\ Plan[pos] = s
    /\ attempt = 1 =>
         /\ pos <= last /\ Plan[pos] \notin done
         /\ Lines(log, Plan[pos]) = {Len(log)}
         /\ log[Len(log)].outcome = "infra"

Statuses ==
  /\ pc # "down" => manifest = "running"
  /\ pc = "starting" => had = Len(log)
  /\ manifest = "complete" => \A p \in 1..last : Plan[p] \in Logged(log)

StageCInv == CTypeOK /\ RetriesRight(log) /\ InPlace /\ Statuses
-----------------------------------------------------------------------------
\* A record is no torn line, and its seeds are those of its sample.
LEMMA RecordType ==
  ASSUME NEW r \in Records
  PROVE  /\ r # Torn
         /\ r.sample \in Samples
         /\ r.outcome \in {"correct", "wrong", "infra"}
         /\ r.seed = <<"C", r.sample, 0>>
BY DEF Records, Torn, GenerationSeed

\* The record of an attempt is a record.
LEMMA RecordMade ==
  ASSUME NEW s \in Samples, NEW tries \in {0, 1}, NEW outcome \in Outcomes(s)
  PROVE  /\ Record(s, tries, outcome) \in Records
         /\ Record(s, tries, outcome).sample = s
         /\ Record(s, tries, outcome).outcome = outcome
BY DEF Records, Record, Outcomes, GenerationSeed

\* What one more line does to the lines of a sample and to the samples logged.
LEMMA LinesAppend ==
  ASSUME NEW l \in Seq(LogLines), NEW e \in LogLines, NEW s
  PROVE  /\ Lines(Append(l, e), s) =
              Lines(l, s) \cup
                IF e # Torn /\ e.sample = s THEN {Len(l) + 1} ELSE {}
         /\ \A i \in Lines(l, s) : Append(l, e)[i] = l[i]
         /\ Append(l, e)[Len(l) + 1] = e
         /\ Len(Append(l, e)) = Len(l) + 1
         /\ Lines(l, s) \subseteq 1..Len(l)
BY DEF Lines

LEMMA LoggedAppend ==
  ASSUME NEW l \in Seq(LogLines), NEW e \in LogLines
  PROVE  Logged(Append(l, e)) =
           Logged(l) \cup IF e # Torn THEN {e.sample} ELSE {}
<1>1. /\ Len(Append(l, e)) = Len(l) + 1
      /\ \A i \in 1..Len(l) : Append(l, e)[i] = l[i]
      /\ Append(l, e)[Len(l) + 1] = e
  OBVIOUS
<1>2. DOMAIN Append(l, e) = DOMAIN l \cup {Len(l) + 1}
  OBVIOUS
<1>3. {j \in DOMAIN Append(l, e) : Append(l, e)[j] # Torn} =
        {j \in DOMAIN l : l[j] # Torn} \cup
          IF e # Torn THEN {Len(l) + 1} ELSE {}
  BY <1>1, <1>2
<1> QED
  BY <1>1, <1>3 DEF Logged

\* A sample is logged if and only if it has a line.
LEMMA LoggedLines ==
  ASSUME NEW l \in Seq(LogLines)
  PROVE  /\ \A s : s \in Logged(l) <=> Lines(l, s) # {}
         /\ Logged(l) \subseteq Samples
<1>1. \A i \in DOMAIN l : l[i] # Torn => l[i].sample \in Samples
  BY RecordType DEF LogLines
<1> QED
  BY <1>1 DEF Logged, Lines

\* What was logged at some time is logged, and stays where it is.
LEMMA LoggedPart ==
  ASSUME NEW l \in Seq(LogLines), NEW n \in 0..Len(l)
  PROVE  /\ SubSeq(l, 1, Len(l)) = l
         /\ Logged(SubSeq(l, 1, n)) \subseteq Logged(l)
<1>1. SubSeq(l, 1, Len(l)) = l
  OBVIOUS
<1>2. /\ DOMAIN SubSeq(l, 1, n) = 1..n
      /\ \A i \in 1..n : SubSeq(l, 1, n)[i] = l[i]
  OBVIOUS
<1>3. Logged(SubSeq(l, 1, n)) \subseteq Logged(l)
  BY <1>2 DEF Logged
<1> QED
  BY <1>1, <1>3

LEMMA PartAppend ==
  ASSUME NEW l \in Seq(LogLines), NEW e \in LogLines, NEW n \in 0..Len(l)
  PROVE  SubSeq(Append(l, e), 1, n) = SubSeq(l, 1, n)
OBVIOUS

\* The plan of a readable snapshots file: its samples are different, since a
\* file has no anchor twice and an arm order no arm.
LEMMA PlanType ==
  ASSUME anchors \in Snapshots, Readable
  PROVE  /\ anchors \in Seq(AnchorIds)
         /\ \A i, j \in DOMAIN anchors : anchors[i] = anchors[j] => i = j
         /\ Len(Plan) = Len(anchors) * PerAnchor
         /\ DOMAIN Plan = 1..Len(Plan)
         /\ \A p \in DOMAIN Plan : Plan[p] \in Samples
<1> DEFINE N == Len(anchors)
<1>1. anchors \in Seq(AnchorIds \cup {Torn})
  BY StageAssumption DEF Readable
<1>2. \A i \in DOMAIN anchors : anchors[i] # Torn
  BY <1>1 DEF Readable, ToSet
<1>3. anchors \in Seq(AnchorIds)
  BY <1>1, <1>2
<1>4. \A i, j \in DOMAIN anchors : anchors[i] = anchors[j] => i = j
  BY <1>2, StageAssumption DEF Readable
<1>5. N \in Nat /\ Continuations \in Nat \ {0} /\ PerAnchor \in Nat \ {0}
  BY <1>3, StageAssumption DEF PerAnchor
<1>6. N * PerAnchor \in Nat
  BY <1>5
<1>7. DOMAIN Plan = 1..N * PerAnchor
  BY DEF Plan
<1>8. Len(Plan) = N * PerAnchor
  BY <1>6, <1>7
<1>9. ASSUME NEW p \in DOMAIN Plan
      PROVE  Plan[p] \in Samples
  <2>1. p - 1 \in Nat /\ p - 1 < N * PerAnchor
    BY <1>6, <1>7
  <2>2. /\ (p - 1) \div PerAnchor \in 0..N - 1
        /\ (p - 1) % PerAnchor \in 0..PerAnchor - 1
    BY <1>5, <2>1
  <2>3. ((p - 1) % PerAnchor) \div Continuations \in 0..2
    BY <1>5, <2>2 DEF PerAnchor
  <2>4. ((p - 1) % PerAnchor) % Continuations \in 0..Continuations - 1
    BY <1>5, <2>2
  <2>5. anchors[((p - 1) \div PerAnchor) + 1] \in AnchorIds
    BY <1>3, <1>5, <2>2
  <2>6. ArmOrder[anchors[((p - 1) \div PerAnchor) + 1]]
          [(((p - 1) % PerAnchor) \div Continuations) + 1] \in Arms
    BY <2>3, <2>5, StageAssumption
  <2> QED
    BY <1>7, <2>4, <2>5, <2>6, <1>5 DEF Plan, Samples
<1> QED
  BY <1>3, <1>4, <1>7, <1>8, <1>9

\* Two positions never plan the same sample.
LEMMA PlanInjective ==
  ASSUME anchors \in Snapshots, Readable,
         NEW p \in DOMAIN Plan, NEW q \in DOMAIN Plan, Plan[p] = Plan[q]
  PROVE  p = q
<1> DEFINE N == Len(anchors)
           a(x) == (x - 1) \div PerAnchor
           k(x) == (x - 1) % PerAnchor
<1>1. /\ N \in Nat /\ Continuations \in Nat \ {0} /\ PerAnchor \in Nat \ {0}
      /\ PerAnchor = 3 * Continuations
  BY PlanType, StageAssumption DEF PerAnchor
<1>2. \A x \in DOMAIN Plan :
        /\ x - 1 \in Nat /\ x - 1 < N * PerAnchor
        /\ Plan[x] = [anchor |-> anchors[a(x) + 1],
                      arm |-> ArmOrder[anchors[a(x) + 1]]
                                [(k(x) \div Continuations) + 1],
                      index |-> (k(x) % Continuations) + 1]
  <2>1. DOMAIN Plan = 1..N * PerAnchor /\ N * PerAnchor \in Nat
    BY <1>1, PlanType
  <2> QED
    BY <2>1 DEF Plan
<1>3. \A x \in DOMAIN Plan :
        /\ a(x) \in 0..N - 1 /\ k(x) \in 0..PerAnchor - 1
        /\ x - 1 = PerAnchor * a(x) + k(x)
  <2>1. ASSUME NEW n \in Nat, n < N * PerAnchor
        PROVE  /\ n \div PerAnchor \in 0..N - 1 /\ n % PerAnchor \in 0..PerAnchor - 1
               /\ n = PerAnchor * (n \div PerAnchor) + (n % PerAnchor)
    <3>1. /\ n \div PerAnchor \in Nat /\ n % PerAnchor \in 0..PerAnchor - 1
          /\ n = PerAnchor * (n \div PerAnchor) + (n % PerAnchor)
          /\ n \div PerAnchor < N
      BY <1>1, <2>1, DivMod
    <3> QED
      BY <1>1, <3>1
  <2> QED
    BY <1>2, <2>1
<1>4. \A x \in DOMAIN Plan :
        /\ k(x) \div Continuations \in 0..2
        /\ k(x) % Continuations \in 0..Continuations - 1
        /\ k(x) = Continuations * (k(x) \div Continuations)
                    + (k(x) % Continuations)
  <2> HIDE DEF a, k
  <2>1. \A x \in DOMAIN Plan : k(x) \in Nat /\ k(x) < 3 * Continuations
    BY <1>1, <1>3
  <2>2. ASSUME NEW n \in Nat, n < 3 * Continuations
        PROVE  /\ n \div Continuations \in 0..2
               /\ n % Continuations \in 0..Continuations - 1
               /\ n = Continuations * (n \div Continuations)
                        + (n % Continuations)
    <3>1. /\ n \div Continuations \in Nat
          /\ n % Continuations \in 0..Continuations - 1
          /\ n = Continuations * (n \div Continuations)
                    + (n % Continuations)
          /\ n \div Continuations < 3
      BY <1>1, <2>2, DivMod
    <3> QED
      BY <1>1, <3>1
  <2> QED
    BY <2>1, <2>2
<1> HIDE DEF a, k
<1>5. /\ anchors[a(p) + 1] = anchors[a(q) + 1]
      /\ (k(p) % Continuations) + 1 = (k(q) % Continuations) + 1
  BY <1>2
<1>6. a(p) = a(q)
  <2>1. \A x \in DOMAIN Plan : a(x) \in Int /\ a(x) + 1 \in 1..N
    BY <1>1, <1>3
  <2>2. DOMAIN anchors = 1..N
    BY PlanType
  <2> QED
    BY <1>5, <2>1, <2>2, PlanType
<1>7. k(p) \div Continuations = k(q) \div Continuations
  <2>1. anchors[a(p) + 1] \in AnchorIds
    BY <1>1, <1>3, PlanType
  <2>2. ArmOrder[anchors[a(p) + 1]][(k(p) \div Continuations) + 1]
          = ArmOrder[anchors[a(p) + 1]][(k(q) \div Continuations) + 1]
    BY <1>2, <1>6
  <2>3. /\ (k(p) \div Continuations) + 1 \in 1..3
        /\ (k(q) \div Continuations) + 1 \in 1..3
        /\ k(p) \div Continuations \in Int /\ k(q) \div Continuations \in Int
    BY <1>4
  <2>4. (k(p) \div Continuations) + 1 = (k(q) \div Continuations) + 1
    BY <2>1, <2>2, <2>3, StageAssumption
  <2> QED
    BY <2>3, <2>4
<1>8. k(p) = k(q)
  BY <1>1, <1>4, <1>5, <1>7
<1>9. p - 1 = q - 1 /\ p \in Int /\ q \in Int
  <2>1. p \in 1..Len(Plan) /\ q \in 1..Len(Plan)
    BY PlanType
  <2> QED
    BY <1>3, <1>6, <1>8, <2>1
<1> QED
  BY <1>9
-----------------------------------------------------------------------------
(* What each step does to the invariant of stage C.                         *)

LEMMA StageCInit == Init => StageOfRun /\ StageCInv
<1> SUFFICES ASSUME Init PROVE StageOfRun /\ StageCInv
  OBVIOUS
<1>1. /\ pc = "down" /\ log = << >> /\ manifest = None /\ last = 0
      /\ had = 0 /\ pos = 1 /\ attempt = 0
  BY DEF Init, CInit
<1>2. /\ stage \in {"a", "b", "c", "audit"} /\ stagePc = "down"
      /\ stage = "c" => anchors \in Snapshots
  BY DEF Init, StageInit
<1>3. StageOfRun
  BY <1>1, <1>2 DEF StageOfRun
<1>4. 0 <= Len(Plan)
  <2>1. CASE Readable /\ stage = "c"
    <3>1. Len(anchors) * PerAnchor \in Nat
      <4>1. Len(anchors) \in Nat /\ PerAnchor \in Nat
        BY <1>2, <2>1, PlanType, StageAssumption DEF PerAnchor
      <4> QED
        BY <4>1
    <3> QED
      BY <1>2, <2>1, <3>1, PlanType
  <2>2. CASE ~Readable
    BY <2>2 DEF Plan
  <2>3. CASE Readable /\ stage # "c"
    BY <1>2, <2>3 DEF Init, StageInit, Readable
  <2> QED
    BY <2>1, <2>2, <2>3
<1>5. StageCInv
  BY <1>1, <1>4, StageAssumption
  DEF StageCInv, CTypeOK, RetriesRight, Lines, InPlace, Statuses
<1> QED
  BY <1>3, <1>5

\* The steps of the other stages and of the audit leave stage C alone, and
\* where they are taken there is none.
LEMMA OtherSteps ==
  ASSUME StageOfRun, StageCInv,
         \/ StageNext /\ UNCHANGED <<cVars, auditVars>>
         \/ AuditNext /\ UNCHANGED <<stageVars, starts, cVars>>
  PROVE  StageOfRun' /\ StageCInv'
<1>1. UNCHANGED cVars /\ stage' = stage
  BY DEF StageNext, StartStage, BeginStage, Roll, Rolled, Pool,
         WriteSnapshots, WriteSelected, FinishStage, FailStage, StopStage,
         stageVars
<1>2. \/ stage \in {"a", "b"}
      \/ UNCHANGED stageVars
  BY DEF StageNext, StartStage, BeginStage, Roll, Rolled, Pool,
         WriteSnapshots, WriteSelected, FinishStage, FailStage, StopStage,
         StageOfRun
<1>3. CASE stage \in {"a", "b"}
  BY <1>1, <1>3, StageAssumption
  DEF StageOfRun, StageCInv, CTypeOK, RetriesRight, Lines, InPlace, Statuses,
      cVars
<1>4. CASE UNCHANGED stageVars
  <2>1. /\ anchors' = anchors /\ stagePc' = stagePc /\ stage' = stage
        /\ UNCHANGED <<log, exists, manifest, pc, last, done, pos, attempt, had>>
    BY <1>1, <1>4 DEF cVars, stageVars, stageFiles
  <2>2. Plan' = Plan /\ (Readable <=> Readable')
    BY <2>1 DEF Plan, Readable
  <2>3. CTypeOK'
    BY <2>1, <2>2 DEF StageCInv, CTypeOK
  <2>4. RetriesRight(log)'
    BY <2>1 DEF StageCInv, RetriesRight, Lines
  <2>5. InPlace'
    <3>1. InPlace
      BY DEF StageCInv
    <3> QED
      BY <2>1, <2>2, <3>1, Zenon DEF InPlace
  <2>6. Statuses' /\ StageOfRun'
    BY <2>1, <2>2 DEF StageCInv, Statuses, Logged, StageOfRun
  <2> QED
    BY <2>3, <2>4, <2>5, <2>6 DEF StageCInv
<1> QED
  BY <1>2, <1>3, <1>4

\* One attempt.
LEMMA ContinueStep ==
  ASSUME StageOfRun, StageCInv, Continue
  PROVE  StageOfRun' /\ StageCInv'
<1> DEFINE s == Plan[pos]
<1>1. /\ pc = "running" /\ pos <= last /\ s \notin done
      /\ stage = "c" /\ anchors \in Snapshots /\ Readable
      /\ pos \in DOMAIN Plan /\ s \in Samples
      /\ last <= Len(Plan) /\ attempt \in {0, 1}
      /\ DOMAIN Plan = 1..Len(Plan) /\ Len(Plan) \in Nat
  <2>1. /\ pc = "running" /\ pos <= last /\ s \notin done /\ Readable
        /\ stage = "c" /\ anchors \in Snapshots /\ last <= Len(Plan)
        /\ pos \in Nat \ {0} /\ last \in Nat /\ attempt \in {0, 1}
    BY DEF Continue, StageOfRun, StageCInv, InPlace, CTypeOK
  <2>2. DOMAIN Plan = 1..Len(Plan) /\ \A p \in DOMAIN Plan : Plan[p] \in Samples
    BY <2>1, PlanType
  <2>3. Len(Plan) \in Nat
    <3>1. Len(anchors) \in Nat /\ PerAnchor \in Nat
      BY <2>1, PlanType, StageAssumption DEF PerAnchor
    <3> QED
      BY <2>1, <3>1, PlanType
  <2> QED
    BY <2>1, <2>2, <2>3
<1>2. PICK outcome \in Outcomes(s) :
        /\ log' = Append(log, Record(s, attempt, outcome))
        /\ IF outcome = "infra" /\ attempt = 0
             THEN attempt' = 1 /\ UNCHANGED pos
             ELSE attempt' = 0 /\ pos' = pos + 1
  BY DEF Continue
<1> DEFINE e == Record(s, attempt, outcome)
<1>3. /\ UNCHANGED <<manifest, pc, last, done, had, stageVars>>
      /\ anchors' = anchors /\ stage' = stage /\ stagePc' = stagePc
  BY DEF Continue, stageVars, stageFiles
<1>4. Plan' = Plan /\ (Readable <=> Readable')
  BY <1>3 DEF Plan, Readable
<1>5. e \in LogLines /\ e # Torn /\ e.sample = s /\ e.outcome = outcome
  BY <1>1, RecordMade, RecordType DEF LogLines
<1> HIDE DEF e, s
<1>6. /\ log \in Seq(LogLines)
      /\ log' = Append(log, e) /\ log' \in Seq(LogLines)
      /\ Len(log') = Len(log) + 1 /\ had \in 0..Len(log)
      /\ pos \in Nat \ {0} /\ last \in Nat
  BY <1>2, <1>5 DEF StageCInv, CTypeOK, e, s
<1>7. Logged(log') = Logged(log) \cup {s}
  BY <1>5, <1>6, LoggedAppend
<1>8. \A x : /\ Lines(log', x) = Lines(log, x)
                                  \cup IF x = s THEN {Len(log) + 1} ELSE {}
             /\ \A i \in Lines(log, x) : log'[i] = log[i]
             /\ Lines(log, x) \subseteq 1..Len(log)
  BY <1>5, <1>6, LinesAppend
<1>9. log'[Len(log) + 1] = e
  BY <1>6, LinesAppend
<1>10. \/ attempt = 0 /\ s \notin Logged(log) /\ Lines(log, s) = {}
       \/ /\ attempt = 1 /\ Lines(log, s) = {Len(log)}
          /\ log[Len(log)].outcome = "infra"
  <2>1. CASE attempt = 1
    BY <1>1, <2>1 DEF StageCInv, InPlace, s
  <2>2. CASE attempt = 0
    <3>1. \A p \in 1..pos - 1 : p \in DOMAIN Plan /\ p # pos
      BY <1>1, <1>6
    <3>2. \A p \in 1..pos - 1 : Plan[p] # s
      BY <1>1, <3>1, PlanInjective DEF s
    <3>3. s \notin Logged(log)
      BY <1>1, <2>2, <3>2 DEF StageCInv, InPlace, s
    <3> QED
      BY <1>6, <2>2, <3>3, LoggedLines
  <2> QED
    BY <1>1, <2>1, <2>2
<1>11. CTypeOK'
  BY <1>1, <1>2, <1>3, <1>4, <1>6 DEF StageCInv, CTypeOK
<1>12. RetriesRight(log')
  <2>1. ASSUME NEW x \in Samples, x # s
        PROVE  /\ \A i, j, k \in Lines(log', x) : ~(i < j /\ j < k)
               /\ \A i, j \in Lines(log', x) : i < j => log'[i].outcome = "infra"
    BY <1>8, <2>1 DEF StageCInv, RetriesRight
  <2>2. /\ \A i, j, k \in Lines(log', s) : ~(i < j /\ j < k)
        /\ \A i, j \in Lines(log', s) : i < j => log'[i].outcome = "infra"
    BY <1>6, <1>8, <1>10
  <2> QED
    BY <2>1, <2>2 DEF RetriesRight
<1>13. InPlace'
  <2>1. done' = Logged(SubSeq(log', 1, had'))
    <3>1. SubSeq(log', 1, had) = SubSeq(log, 1, had)
      BY <1>5, <1>6, PartAppend
    <3>2. done = Logged(SubSeq(log, 1, had))
      BY <1>1 DEF StageCInv, InPlace
    <3> QED
      BY <1>3, <3>1, <3>2
  <2>2. /\ \A p \in 1..pos - 1 : Plan[p] \in Logged(log)
        /\ \A x \in Logged(log) \ done :
             (\E p \in 1..pos - 1 : Plan[p] = x) \/ (attempt = 1 /\ Plan[pos] = x)
    BY <1>1 DEF StageCInv, InPlace
  <2>3. CASE outcome = "infra" /\ attempt = 0
    <3>1. attempt' = 1 /\ pos' = pos
      BY <1>2, <2>3
    <3>2. Lines(log', s) = {Len(log')} /\ log'[Len(log')].outcome = "infra"
      BY <1>5, <1>6, <1>8, <1>9, <1>10, <2>3
    <3>3. /\ \A p \in 1..pos - 1 : Plan[p] \in Logged(log')
          /\ \A x \in Logged(log') \ done :
               (\E p \in 1..pos - 1 : Plan[p] = x) \/ Plan[pos] = x
          /\ pos <= last + 1
      BY <1>1, <1>6, <1>7, <2>2 DEF s
    <3> QED
      BY <1>1, <1>3, <1>4, <2>1, <3>1, <3>2, <3>3, Zenon DEF InPlace, s
  <2>4. CASE ~(outcome = "infra" /\ attempt = 0)
    <3>1. attempt' = 0 /\ pos' = pos + 1
      BY <1>2, <2>4
    <3>2. \A p \in 1..pos : Plan[p] \in Logged(log')
      BY <1>6, <1>7, <2>2 DEF s
    <3>3. \A x \in Logged(log') \ done : \E p \in 1..pos : Plan[p] = x
      BY <1>6, <1>7, <2>2 DEF s
    <3>4. pos' - 1 = pos /\ pos' <= last' + 1 /\ attempt' # 1
      BY <1>1, <1>3, <1>6, <3>1
    <3> QED
      BY <1>1, <1>3, <1>4, <2>1, <3>2, <3>3, <3>4, Zenon DEF InPlace
  <2> QED
    BY <2>3, <2>4
<1>14. Statuses'
  BY <1>1, <1>3, StageAssumption DEF StageCInv, Statuses
<1>15. StageOfRun'
  BY <1>1, <1>3 DEF StageOfRun
<1> QED
  BY <1>11, <1>12, <1>13, <1>14, <1>15 DEF StageCInv

\* What a write cut short leaves has the lines it had.
LEMMA CutLog ==
  ASSUME CTypeOK, RetriesRight(log), log' \in Cut
  PROVE  /\ log' \in Seq(LogLines)
         /\ Len(log) <= Len(log')
         /\ Logged(log') = Logged(log)
         /\ RetriesRight(log')
<1>1. log \in Seq(LogLines)
  BY DEF CTypeOK
<1>2. CASE log' = log
  BY <1>1, <1>2
<1>3. CASE log' = Append(log, Torn)
  <2>0. Torn \in LogLines
    BY DEF LogLines
  <2>1. Len(log') = Len(log) + 1 /\ Logged(log') = Logged(log)
    <3>1. Logged(Append(log, Torn)) =
            Logged(log) \cup IF Torn # Torn THEN {Torn.sample} ELSE {}
      BY <1>1, <2>0, LoggedAppend
    <3> QED
      BY <1>1, <1>3, <3>1
  <2>2. \A s : /\ Lines(log', s) = Lines(log, s)
               /\ \A i \in Lines(log, s) : log'[i] = log[i]
    BY <1>1, <1>3, <2>0, LinesAppend
  <2>3. RetriesRight(log')
    BY <2>2 DEF RetriesRight
  <2>4. log' \in Seq(LogLines)
    BY <1>1, <1>3, <2>0
  <2> QED
    BY <1>1, <2>1, <2>3, <2>4
<1> QED
  BY <1>2, <1>3 DEF Cut

\* The steps of stage C that no process takes with a line of its own.
LEMMA QuietSteps ==
  ASSUME StageOfRun, StageCInv, Start \/ Finish \/ Raise \/ Fail \/ Crash
  PROVE  StageOfRun' /\ StageCInv'
<1>1. /\ anchors' = anchors /\ stage' = stage /\ stagePc' = stagePc
      /\ stage = "c"
  BY DEF Start, Finish, Raise, Fail, Crash, stageVars, stageFiles, StageOfRun
<1>2. Plan' = Plan
  BY <1>1 DEF Plan, Readable
<1>3. CTypeOK /\ RetriesRight(log) /\ Statuses
  BY DEF StageCInv
<1>4. /\ log' \in Seq(LogLines) /\ Logged(log') = Logged(log)
      /\ RetriesRight(log') /\ Len(log) <= Len(log')
      /\ Len(log) \in Nat /\ Len(log') \in Nat
  <2>1. log' \in Cut
    BY DEF Start, Finish, Raise, Fail, Crash, Cut
  <2>2. /\ log' \in Seq(LogLines) /\ Logged(log') = Logged(log)
        /\ RetriesRight(log') /\ Len(log) <= Len(log')
    BY <1>3, <2>1, CutLog
  <2> QED
    BY <1>3, <2>2 DEF CTypeOK
<1>5. pc' # "running" /\ StageOfRun'
  BY <1>1 DEF Start, Finish, Raise, Fail, Crash, Gone, StageOfRun
<1>6. InPlace'
  BY <1>5 DEF InPlace
<1>7. CASE Start
  <2>1. PICK n \in 0..Len(Plan) \div PerAnchor : last' = n * PerAnchor
    BY <1>7 DEF Start
  <2>2. last' \in Nat /\ last' <= Len(Plan)
    <3>1. Len(Plan) \in Nat /\ PerAnchor \in Nat \ {0}
      <4>1. PerAnchor \in Nat \ {0}
        BY StageAssumption DEF PerAnchor
      <4>2. CASE Readable
        <5>1. Len(anchors) \in Nat /\ Len(Plan) = Len(anchors) * PerAnchor
          BY <1>1, <4>2, PlanType DEF StageOfRun
        <5> QED
          BY <4>1, <5>1
      <4>3. CASE ~Readable
        BY <4>1, <4>3 DEF Plan
      <4> QED
        BY <4>1, <4>2, <4>3
    <3>2. /\ Len(Plan) \div PerAnchor \in Nat
          /\ PerAnchor * (Len(Plan) \div PerAnchor) <= Len(Plan)
      <4> HIDE DEF Plan
      <4> QED
        BY <3>1, DivMod
    <3>3. /\ n \in Nat /\ n <= Len(Plan) \div PerAnchor
          /\ n * PerAnchor <= PerAnchor * (Len(Plan) \div PerAnchor)
          /\ n * PerAnchor \in Nat
      BY <3>1, <3>2
    <3> QED
      BY <2>1, <3>1, <3>2, <3>3
  <2>3. /\ pc' = "starting" /\ manifest' = "running" /\ had' = Len(log)
        /\ log' = log /\ pos' = pos /\ attempt' = attempt
    BY <1>7 DEF Start
  <2>4. CTypeOK' /\ Statuses'
    BY <1>2, <1>3, <1>4, <2>2, <2>3 DEF CTypeOK, Statuses
  <2> QED
    BY <1>4, <1>5, <1>6, <2>4 DEF StageCInv
<1>8. CASE Finish
  <2>1. /\ manifest' = "complete" /\ pc' = "down" /\ last' = last /\ log' = log
        /\ pos' = 1 /\ attempt' = 0 /\ had' = 0 /\ pc = "running" /\ pos > last
    BY <1>8 DEF Finish, Gone
  <2>2. \A p \in 1..last : Plan[p] \in Logged(log)
    BY <1>3, <2>1 DEF StageCInv, InPlace, CTypeOK
  <2>3. CTypeOK' /\ Statuses'
    BY <1>1, <1>2, <1>3, <1>4, <2>1, <2>2 DEF CTypeOK, Statuses
  <2> QED
    BY <1>4, <1>5, <1>6, <2>3 DEF StageCInv
<1>9. CASE Raise \/ Fail \/ Crash
  <2>1. /\ pc # "down" /\ pc' \in {"down", "failing"} /\ last' = last
        /\ \/ pos' = pos /\ attempt' = attempt /\ had' = had
           \/ pos' = 1 /\ attempt' = 0 /\ had' = 0
        /\ manifest' \in {"running", "failed"}
        /\ pc' = "failing" => manifest' = "running"
    BY <1>3, <1>9 DEF Raise, Fail, Crash, Gone, Statuses
  <2>2. CTypeOK' /\ Statuses'
    BY <1>1, <1>2, <1>3, <1>4, <2>1 DEF CTypeOK, Statuses
  <2> QED
    BY <1>4, <1>5, <1>6, <2>2 DEF StageCInv
<1> QED
  BY <1>7, <1>8, <1>9

\* The log is read, and a logged sample passed over.
LEMMA BeginStep ==
  ASSUME StageOfRun, StageCInv, Begin
  PROVE  StageOfRun' /\ StageCInv'
<1>1. /\ UNCHANGED <<log, manifest, last, had>> /\ anchors' = anchors
      /\ stage' = stage /\ stagePc' = stagePc /\ pc = "starting"
      /\ pc' \in {"running", "failing"} /\ pos' = 1 /\ attempt' = 0
      /\ done' = Logged(log)
      /\ pc' = "running" => Readable
  BY DEF Begin, stageVars, stageFiles
<1>2. Plan' = Plan /\ (Readable <=> Readable')
  BY <1>1 DEF Plan, Readable
<1>3. CTypeOK' /\ Statuses'
  BY <1>1, <1>2, StageAssumption DEF StageCInv, CTypeOK, Statuses
<1>4. SubSeq(log, 1, had) = log
  BY <1>1, LoggedPart DEF StageCInv, CTypeOK, Statuses
<1>5. pos' <= last' + 1 /\ 1..pos' - 1 = {}
  BY <1>1 DEF StageCInv, CTypeOK
<1>6. InPlace'
  <2>1. log' = log /\ had' = had /\ done' = Logged(log)
    BY <1>1
  <2>2. done' = Logged(SubSeq(log', 1, had'))
    <3>1. SubSeq(log', 1, had') = log
      BY <1>4, <2>1
    <3> QED
      BY <2>1, <3>1
  <2>6. attempt' # 1
    BY <1>1
  <2>3. \A p \in 1..pos' - 1 : FALSE
    BY <1>5
  <2>4. \A s \in Logged(log') \ done' : FALSE
    BY <2>1
  <2>5. pc' = "running" => Readable'
    BY <1>1, <1>2
  <2> QED
    BY <1>5, <2>2, <2>3, <2>4, <2>5, <2>6, Zenon DEF InPlace
<1>7. RetriesRight(log')
  BY <1>1 DEF StageCInv
<1>8. StageOfRun'
  BY <1>1 DEF StageOfRun
<1> QED
  BY <1>3, <1>6, <1>7, <1>8 DEF StageCInv

LEMMA SkipStep ==
  ASSUME StageOfRun, StageCInv, Skip
  PROVE  StageOfRun' /\ StageCInv'
<1>1. /\ UNCHANGED <<log, manifest, pc, last, done, attempt, had>>
      /\ anchors' = anchors /\ stage' = stage /\ stagePc' = stagePc
      /\ pc = "running" /\ pos <= last /\ Plan[pos] \in done /\ pos' = pos + 1
  BY DEF Skip, stageVars, stageFiles
<1>2. Plan' = Plan /\ (Readable <=> Readable')
  BY <1>1 DEF Plan, Readable
<1>3. /\ log \in Seq(LogLines) /\ had \in 0..Len(log)
      /\ last \in Nat /\ pos \in Nat \ {0}
  BY DEF StageCInv, CTypeOK
<1>4. CTypeOK' /\ Statuses'
  BY <1>1, <1>2 DEF StageCInv, CTypeOK, Statuses
<1>5. done \subseteq Logged(log)
  BY <1>1, <1>3, LoggedPart DEF StageCInv, InPlace
<1>6. /\ pos' - 1 = pos /\ pos' <= last' + 1 /\ 1..pos = (1..pos - 1) \cup {pos}
      /\ 1..pos - 1 \subseteq 1..pos
  BY <1>1, <1>3
<1>7. attempt # 1 /\ Readable /\ done = Logged(SubSeq(log, 1, had))
  BY <1>1 DEF StageCInv, InPlace
<1>8. /\ \A p \in 1..pos : Plan[p] \in Logged(log)
      /\ \A x \in Logged(log) \ done : \E p \in 1..pos : Plan[p] = x
  BY <1>1, <1>5, <1>6, <1>7 DEF StageCInv, InPlace
<1>9. InPlace'
  BY <1>1, <1>2, <1>6, <1>7, <1>8, Zenon DEF InPlace
<1>10. RetriesRight(log')
  BY <1>1 DEF StageCInv
<1>11. StageOfRun'
  BY <1>1 DEF StageOfRun
<1> QED
  BY <1>4, <1>9, <1>10, <1>11 DEF StageCInv
-----------------------------------------------------------------------------
LEMMA StageCInvariant == Spec => [](StageOfRun /\ StageCInv)
<1>1. Init => StageOfRun /\ StageCInv
  BY StageCInit
<1>2. ASSUME StageOfRun /\ StageCInv, [Next]_vars
      PROVE  (StageOfRun /\ StageCInv)'
  <2>1. CASE UNCHANGED vars
    <3>1. /\ anchors' = anchors /\ stagePc' = stagePc /\ stage' = stage
          /\ UNCHANGED <<log, exists, manifest, pc, last, done, pos, attempt, had>>
      BY <2>1 DEF vars, cVars, stageVars, stageFiles
    <3>2. Plan' = Plan /\ (Readable <=> Readable')
      BY <3>1 DEF Plan, Readable
    <3>3. CTypeOK' /\ Statuses' /\ StageOfRun'
      BY <1>2, <3>1, <3>2 DEF StageCInv, CTypeOK, Statuses, StageOfRun
    <3>4. RetriesRight(log')
      BY <1>2, <3>1 DEF StageCInv
    <3>5. InPlace'
      <4>1. InPlace
        BY <1>2 DEF StageCInv
      <4> QED
        BY <3>1, <3>2, <4>1, Zenon DEF InPlace
    <3> QED
      BY <3>3, <3>4, <3>5 DEF StageCInv
  <2>2. CASE StageNext /\ UNCHANGED <<cVars, auditVars>>
    BY <1>2, <2>2, OtherSteps
  <2>3. CASE AuditNext /\ UNCHANGED <<stageVars, starts, cVars>>
    BY <1>2, <2>3, OtherSteps
  <2>4. CASE CNext /\ UNCHANGED auditVars
    BY <1>2, <2>4, ContinueStep, QuietSteps, BeginStep, SkipStep DEF CNext
  <2> QED
    BY <1>2, <2>1, <2>2, <2>3, <2>4 DEF Next
<1> QED
  BY <1>1, <1>2, PTL DEF Spec, vars

\* The integrity check finds no problem in a log whose retries are right.
LEMMA NoProblems ==
  ASSUME NEW l \in Seq(LogLines), RetriesRight(l)
  PROVE  Problems(l) = {}
<1> SUFFICES ASSUME NEW s \in Problems(l)
             PROVE  FALSE
  OBVIOUS
<1>1. s \in Logged(l) /\ s \in Samples /\ Lines(l, s) # {}
  BY LoggedLines DEF Problems
<1>2. /\ \A i, j, k \in Lines(l, s) : ~(i < j /\ j < k)
      /\ \A i, j \in Lines(l, s) : i < j => l[i].outcome = "infra"
  BY <1>1 DEF RetriesRight
<1>3. Lines(l, s) \subseteq 1..Len(l) /\ Len(l) \in Nat
  BY DEF Lines
<1>4. \A i \in Lines(l, s) : l[i].seed = <<"C", s, 0>>
  BY RecordType DEF Lines, LogLines
<1>5. \E i \in Lines(l, s) : \A j \in Lines(l, s) : i <= j
  <2>1. PICK i \in Lines(l, s) : TRUE
    BY <1>1
  <2>2. CASE \E j \in Lines(l, s) : j < i
    <3>1. PICK j \in Lines(l, s) : j < i
      BY <2>2
    <3>2. \A k \in Lines(l, s) : j <= k
      BY <1>2, <1>3, <2>1, <3>1
    <3> QED
      BY <3>2
  <2> QED
    BY <1>3, <2>1, <2>2
<1>6. /\ First(l, s) \in Lines(l, s)
      /\ \A j \in Lines(l, s) : First(l, s) <= j
  BY <1>5 DEF First
<1>7. l[First(l, s)].outcome # "infra" /\ Cardinality(Lines(l, s)) > 1
  BY <1>2, <1>4 DEF Problems
<1>8. Lines(l, s) = {First(l, s)}
  BY <1>2, <1>3, <1>6, <1>7
<1>9. Cardinality({First(l, s)}) = 1
  BY FS_Singleton
<1> QED
  BY <1>7, <1>8, <1>9

\* However often the stage was killed, resumed or cut to fewer anchors, its log
\* has no third attempt of a sample, no retry of anything but an infrastructure
\* failure and none under other seeds; and a stage that says complete has a line
\* for every sample it was asked for (run_stage_c and _stage_c_integrity).
THEOREM LogCorrect == Spec => []LogIntact
<1>1. StageOfRun /\ StageCInv => LogIntact
  BY NoProblems DEF StageCInv, CTypeOK, Statuses, LogIntact
<1> QED
  BY <1>1, StageCInvariant, PTL

\* A resumed run never runs a sample again that the log had when it began: what
\* run_stage_c took from the log before its loops still describes it at every
\* line it adds.
THEOREM ResumeCorrect == Spec => ResumeRunsTheRest
<1> DEFINE A == pc = "running" /\ log' # log /\ log'[Len(log')] # Torn =>
                  log'[Len(log')].sample \notin Logged(SubSeq(log, 1, had))
<1>1. ASSUME StageOfRun /\ StageCInv, [Next]_vars
      PROVE  [A]_cVars
  <2> SUFFICES ASSUME pc = "running", log' # log, log'[Len(log')] # Torn
               PROVE  log'[Len(log')].sample \notin Logged(SubSeq(log, 1, had))
    OBVIOUS
  <2>1. log \in Seq(LogLines) /\ attempt \in {0, 1} /\ pos \in Nat \ {0}
    BY <1>1 DEF StageCInv, CTypeOK
  <2>2. CNext
    BY <1>1 DEF Next, vars, cVars
  <2>3. log' # Append(log, Torn)
    BY <2>1
  <2>4. Continue
    BY <2>2, <2>3 DEF CNext, Start, Begin, Skip, Finish, Raise, Fail, Crash, Cut
  <2>5. Plan[pos] \notin done /\ done = Logged(SubSeq(log, 1, had))
    BY <1>1, <2>4 DEF Continue, StageCInv, InPlace
  <2>6. PICK outcome \in Outcomes(Plan[pos]) :
          log' = Append(log, Record(Plan[pos], attempt, outcome))
    BY <2>4 DEF Continue
  <2>7. log'[Len(log')].sample = Plan[pos]
    BY <2>1, <2>6 DEF Record
  <2> QED
    BY <2>5, <2>7
<1> QED
  BY <1>1, StageCInvariant, PTL DEF Spec, vars, ResumeRunsTheRest
-----------------------------------------------------------------------------
(* Stages A and B.                                                          *)

Rollouts ==
  {t \in [task : ToSet(Tasks), sample : 1..SamplesPerTask,
          turns : Seq(Turns), end : Endings, correct : BOOLEAN] :
     Len(t.turns) <= MaxSteps}

\* The lines of a log that nothing cut are the plan's rollouts in its order.
Whole(l) ==
  \A i \in DOMAIN l :
    /\ l[i] \in Rollouts
    /\ l[i].task = Tasks[((i - 1) \div SamplesPerTask) + 1]
    /\ l[i].sample = ((i - 1) % SamplesPerTask) + 1

\* A process that rolls began the log, and one that is past it has it all; a
\* summary is of a log that nothing can be added to.
LogsInv ==
  /\ trajectories \in Seq(Rollouts \cup {Torn})
  /\ stagePc \in {"rolling", "pooling", "snapshots", "selected", "summarising"} =>
       Whole(trajectories) /\ Len(trajectories) <= Planned
  /\ stagePc \in {"pooling", "snapshots", "selected", "summarising"} =>
       Len(trajectories) = Planned
  /\ summary # None =>
       /\ Whole(trajectories) /\ Len(trajectories) = Planned
       /\ summary = StageSummary(trajectories)
-----------------------------------------------------------------------------
\* The place of a rollout in the plan, and the rollout of a place.
LEMMA PlannedPlaces ==
  /\ Planned \in Nat /\ SamplesPerTask \in Nat \ {0} /\ Len(Tasks) \in Nat
  /\ \A i \in 1..Planned :
       /\ Tasks[((i - 1) \div SamplesPerTask) + 1] \in ToSet(Tasks)
       /\ ((i - 1) % SamplesPerTask) + 1 \in 1..SamplesPerTask
  /\ \A k \in DOMAIN Tasks, n \in 1..SamplesPerTask :
       \E i \in 1..Planned :
         /\ ((i - 1) \div SamplesPerTask) + 1 = k
         /\ ((i - 1) % SamplesPerTask) + 1 = n
<1> DEFINE S == SamplesPerTask
<1>1. /\ S \in Nat \ {0} /\ Len(Tasks) \in Nat
      /\ DOMAIN Tasks = 1..Len(Tasks)
      /\ \A k \in 1..Len(Tasks) : Tasks[k] \in ToSet(Tasks)
  BY StudyAssumption DEF ToSet
<1>2. Planned = Len(Tasks) * S /\ Planned \in Nat
  BY <1>1 DEF Planned
<1>3. ASSUME NEW i \in 1..Planned
      PROVE  /\ Tasks[((i - 1) \div S) + 1] \in ToSet(Tasks)
             /\ ((i - 1) % S) + 1 \in 1..S
  <2>1. i - 1 \in Nat /\ i - 1 < Len(Tasks) * S
    BY <1>2
  <2>2. /\ (i - 1) \div S \in Nat /\ (i - 1) \div S < Len(Tasks)
        /\ (i - 1) % S \in 0..S - 1
    BY <1>1, <2>1, DivMod
  <2> QED
    BY <1>1, <2>2
<1>4. ASSUME NEW k \in DOMAIN Tasks, NEW n \in 1..S
      PROVE  \E i \in 1..Planned : /\ ((i - 1) \div S) + 1 = k
                                   /\ ((i - 1) % S) + 1 = n
  <2> DEFINE j == S * (k - 1) + (n - 1)
             i == j + 1
  <2>1. k - 1 \in Nat /\ n - 1 \in 0..S - 1 /\ k <= Len(Tasks)
    BY <1>1
  <2>2. j \in Nat /\ j \div S = k - 1 /\ j % S = n - 1
    BY <1>1, <2>1, MulAdd
  <2>3. S * (k - 1) + S <= Len(Tasks) * S
    BY <1>1, <2>1
  <2>4. j < Len(Tasks) * S
    BY <1>1, <2>1, <2>3
  <2> HIDE DEF j
  <2>5. i \in 1..Planned /\ i - 1 = j
    BY <1>2, <2>2, <2>4
  <2>6. ((i - 1) \div S) + 1 = k /\ ((i - 1) % S) + 1 = n
    BY <1>1, <2>1, <2>2, <2>5
  <2> HIDE DEF i
  <2> QED
    BY <2>5, <2>6
<1> QED
  BY <1>1, <1>2, <1>3, <1>4

\* A rollout is logged at its place.
LEMMA RollStep ==
  ASSUME LogsInv, Roll
  PROVE  LogsInv'
<1> DEFINE n == Len(trajectories)
           a == Tasks[(n \div SamplesPerTask) + 1]
           k == (n % SamplesPerTask) + 1
<1>1. /\ stagePc = "rolling" /\ n < Planned /\ trajectories \in Seq(Rollouts \cup {Torn})
      /\ Whole(trajectories) /\ n \in Nat /\ Planned \in Nat
      /\ stagePc' = stagePc /\ summary' = summary
  BY PlannedPlaces DEF Roll, Position, LogsInv
<1>2. PICK t \in Trajectories :
        trajectories' = Append(trajectories,
                          [task |-> a, sample |-> k, turns |-> t.turns,
                           end |-> t.end, correct |-> t.correct])
  BY DEF Roll, Position
<1> DEFINE r == [task |-> a, sample |-> k, turns |-> t.turns, end |-> t.end,
                 correct |-> t.correct]
<1>3. a \in ToSet(Tasks) /\ k \in 1..SamplesPerTask
  <2>1. n + 1 \in 1..Planned /\ (n + 1) - 1 = n
    BY <1>1
  <2> HIDE DEF n
  <2> QED
    BY <2>1, PlannedPlaces
<1>4. r \in Rollouts /\ r.task = a /\ r.sample = k
  BY <1>3, StudyAssumption DEF Rollouts
<1> HIDE DEF r, a, k
<1>5. /\ trajectories' \in Seq(Rollouts \cup {Torn})
      /\ Len(trajectories') = n + 1
      /\ trajectories'[n + 1] = r
      /\ \A i \in 1..n : trajectories'[i] = trajectories[i]
  BY <1>1, <1>2, <1>4 DEF r
<1>6. Whole(trajectories')
  <2> SUFFICES ASSUME NEW i \in DOMAIN trajectories'
               PROVE  /\ trajectories'[i] \in Rollouts
                      /\ trajectories'[i].task
                           = Tasks[((i - 1) \div SamplesPerTask) + 1]
                      /\ trajectories'[i].sample
                           = ((i - 1) % SamplesPerTask) + 1
    BY DEF Whole
  <2>1. CASE i \in 1..n
    BY <1>1, <1>5, <2>1 DEF Whole
  <2>2. CASE i = n + 1
    <3>1. i - 1 = n
      BY <1>1, <2>2
    <3> QED
      BY <1>4, <1>5, <2>2, <3>1 DEF a, k
  <2> QED
    BY <1>1, <1>5, <2>1, <2>2
<1>7. summary = None
  BY <1>1 DEF LogsInv
<1> QED
  BY <1>1, <1>5, <1>6, <1>7 DEF LogsInv

\* The steps that leave the log as it is, or cut it.
LEMMA StopStep ==
  ASSUME LogsInv, StopStage
  PROVE  LogsInv'
<1>1. /\ stagePc' = "down" /\ UNCHANGED <<stage, summary>>
      /\ trajectories \in Seq(Rollouts \cup {Torn})
  BY DEF StopStage, LogsInv
<1>2. CASE trajectories' = trajectories
  BY <1>1, <1>2 DEF LogsInv, StageSummary
<1>3. CASE Position < Planned /\ trajectories' = Append(trajectories, Torn)
  <2>1. trajectories' \in Seq(Rollouts \cup {Torn})
    BY <1>1, <1>3
  <2>2. summary = None
    BY <1>3, PlannedPlaces DEF Position, LogsInv
  <2> QED
    BY <1>1, <2>1, <2>2 DEF LogsInv
<1> QED
  BY <1>2, <1>3 DEF StopStage

LEMMA LogsInvariant == Spec => []LogsInv
<1>1. Init => LogsInv
  <2> SUFFICES ASSUME Init PROVE LogsInv
    OBVIOUS
  <2>1. trajectories = << >> /\ stagePc = "down" /\ summary = None
    BY DEF Init, StageInit
  <2> QED
    BY <2>1 DEF LogsInv
<1>2. ASSUME LogsInv, [Next]_vars
      PROVE  LogsInv'
  <2>1. CASE UNCHANGED <<stage, trajectories, stagePc, summary>>
    BY <1>2, <2>1 DEF LogsInv, StageSummary
  <2>2. CASE StageNext
    <3>1. CASE Roll
      BY <1>2, <3>1, RollStep
    <3>2. CASE StopStage
      BY <1>2, <3>2, StopStep
    <3>3. CASE StartStage \/ FailStage \/ Pool \/ WriteSnapshots \/ WriteSelected
      <4>1. /\ UNCHANGED <<stage, trajectories, summary>>
            /\ \/ stagePc' \in {"down", "starting"}
               \/ /\ stagePc \in {"pooling", "snapshots", "selected"}
                  /\ stagePc' \in {"snapshots", "selected", "summarising"}
        BY <3>3 DEF StartStage, FailStage, Pool, WriteSnapshots, WriteSelected,
                    stageFiles
      <4> QED
        BY <1>2, <4>1 DEF LogsInv, StageSummary
    <3>4. CASE BeginStage
      <4>1. /\ UNCHANGED <<stage, trajectories, summary>>
            /\ stagePc' = "failing" \/ (stagePc' = "rolling" /\ trajectories = << >>)
        BY <3>4 DEF BeginStage, stageFiles
      <4>2. trajectories = << >> => Whole(trajectories) /\ Len(trajectories) <= Planned
        BY PlannedPlaces DEF Whole
      <4> QED
        BY <1>2, <4>1, <4>2 DEF LogsInv, StageSummary
    <3>5. CASE Rolled
      <4>1. /\ UNCHANGED <<stage, trajectories, summary>>
            /\ stagePc = "rolling" /\ Len(trajectories) >= Planned
            /\ stagePc' \in {"summarising", "pooling"}
        BY <3>5 DEF Rolled, stageFiles, Position
      <4>2. Len(trajectories) = Planned
        BY <1>2, <4>1, PlannedPlaces DEF LogsInv
      <4> QED
        BY <1>2, <4>1, <4>2 DEF LogsInv, StageSummary
    <3>6. CASE FinishStage
      <4>1. /\ UNCHANGED <<stage, trajectories>> /\ stagePc' = "down"
            /\ stagePc = "summarising" /\ summary' = StageSummary(trajectories)
        BY <3>6 DEF FinishStage
      <4>2. StageSummary(trajectories)' = StageSummary(trajectories)
        BY <4>1 DEF StageSummary
      <4> QED
        BY <1>2, <4>1, <4>2 DEF LogsInv
    <3> QED
      BY <2>2, <3>1, <3>2, <3>3, <3>4, <3>5, <3>6 DEF StageNext
  <2>3. CASE CNext \/ UNCHANGED stageVars
    <3>1. UNCHANGED <<stage, trajectories, stagePc, summary>>
      BY <2>3 DEF CNext, Start, Begin, Skip, Continue, Finish, Raise, Fail,
                  Crash, stageVars, stageFiles
    <3> QED
      BY <2>1, <3>1
  <2> QED
    BY <1>2, <2>2, <2>3 DEF Next, vars
<1> QED
  BY <1>1, <1>2, PTL DEF Spec, vars

\* A stage whose gate passed met no sandbox that was away.
LEMMA PassedWasAvailable ==
  ASSUME NEW l, \A i \in DOMAIN l : l[i] \in Rollouts, AutomatedPass(l),
         NEW i \in DOMAIN l, NEW k \in DOMAIN l[i].turns
  PROVE  l[i].turns[k].code # "unavailable"
<1> SUFFICES ASSUME l[i].turns[k].code = "unavailable" PROVE FALSE
  OBVIOUS
<1> DEFINE E == {n \in DOMAIN l[i].turns :
                   Classify(l[i].turns[n].code) = "E_INFRA"}
<1>1. k \in E
  BY DEF Classify
<1>2. IsFiniteSet(E)
  <2>1. l[i].turns \in Seq(Turns)
    BY DEF Rollouts
  <2>2. E \subseteq 1..Len(l[i].turns) /\ Len(l[i].turns) \in Nat
    BY <2>1
  <2>3. IsFiniteSet(1..Len(l[i].turns))
    BY <2>2, UpToFinite
  <2> QED
    BY <2>2, <2>3, FS_Subset
<1>3. Cardinality(E) \in Nat /\ Cardinality(E) # 0
  BY <1>1, <1>2, FS_CardinalityType, FS_EmptySet
<1>4. ErrorCount(l[i], "E_INFRA") > 0
  BY <1>3 DEF ErrorCount
<1>5. i \in InfraFailures(l)
  BY <1>4 DEF InfraFailures, InfraTrajectory
<1> QED
  BY <1>5 DEF AutomatedPass

\* A summary is about the whole plan, each task and sample once, however often
\* the stage was started, and its gate passes no infrastructure failure
\* (run_stage_ab and _stage_a_gate).
THEOREM SummaryCorrect == Spec => []SummaryIsWhole
<1>1. ASSUME LogsInv
      PROVE  SummaryIsWhole
  <2> SUFFICES ASSUME summary # None
               PROVE  /\ {<<trajectories[i].task, trajectories[i].sample>> :
                             i \in DOMAIN trajectories}
                           = ToSet(Tasks) \X (1..SamplesPerTask)
                      /\ Len(trajectories) = Planned
                      /\ stage = "a" /\ summary.pass =>
                           \A i \in DOMAIN trajectories :
                             \A k \in DOMAIN trajectories[i].turns :
                               trajectories[i].turns[k].code # "unavailable"
    BY DEF SummaryIsWhole
  <2>1. /\ Whole(trajectories) /\ Len(trajectories) = Planned
        /\ summary = StageSummary(trajectories)
        /\ DOMAIN trajectories = 1..Planned
    BY <1>1 DEF LogsInv
  <2>2. ASSUME NEW a \in ToSet(Tasks), NEW n \in 1..SamplesPerTask
        PROVE  \E i \in DOMAIN trajectories :
                 trajectories[i].task = a /\ trajectories[i].sample = n
    <3>1. PICK k \in DOMAIN Tasks : a = Tasks[k]
      BY DEF ToSet
    <3>2. PICK i \in 1..Planned :
            /\ ((i - 1) \div SamplesPerTask) + 1 = k
            /\ ((i - 1) % SamplesPerTask) + 1 = n
      BY PlannedPlaces
    <3>3. trajectories[i].task = a /\ trajectories[i].sample = n
      BY <2>1, <3>1, <3>2 DEF Whole
    <3> QED
      BY <2>1, <3>3
  <2>3. \A i \in DOMAIN trajectories :
          /\ trajectories[i].task \in ToSet(Tasks)
          /\ trajectories[i].sample \in 1..SamplesPerTask
    BY <2>1 DEF Whole, Rollouts
  <2>4. {<<trajectories[i].task, trajectories[i].sample>> :
            i \in DOMAIN trajectories} = ToSet(Tasks) \X (1..SamplesPerTask)
    BY <2>2, <2>3
  <2>5. stage = "a" => summary.pass = AutomatedPass(trajectories)
    BY <2>1 DEF StageSummary
  <2>6. \A i \in DOMAIN trajectories : trajectories[i] \in Rollouts
    BY <2>1 DEF Whole
  <2>7. ASSUME stage = "a", summary.pass, NEW i \in DOMAIN trajectories,
               NEW k \in DOMAIN trajectories[i].turns
        PROVE  trajectories[i].turns[k].code # "unavailable"
    <3>1. AutomatedPass(trajectories)
      BY <2>5, <2>7
    <3> QED
      BY <2>6, <3>1, PassedWasAvailable
  <2> QED
    BY <2>1, <2>4, <2>7
<1> QED
  BY <1>1, LogsInvariant, PTL

\* What the stages leave is about their whole plan, however often they were
\* killed and started again.
THEOREM LogsCorrect == Spec => []LogsAreWhole
BY LogCorrect, SummaryCorrect, PTL DEF LogsAreWhole
-----------------------------------------------------------------------------
(* What the analysis makes of a log.                                        *)

Answered(l) ==
  {l[i].sample : i \in {j \in DOMAIN l : l[j] # Torn /\ l[j].outcome # "infra"}}

\* A set of records speaks for a log if it has one of each sample, an answer
\* wherever there is one.
SpeaksFor(kept, l) ==
  /\ kept \subseteq Records
  /\ \A r \in kept : r.sample \in Logged(l)
  /\ \A r \in kept : r.outcome # "infra" <=> r.sample \in Answered(l)
  /\ \A s \in Logged(l) : \E r \in kept : r.sample = s
  /\ \A r1, r2 \in kept : r1.sample = r2.sample => r1 = r2

LEMMA KeptSpeaks ==
  ASSUME NEW l \in Seq(LogLines)
  PROVE  SpeaksFor(Kept(l), l)
<1> DEFINE usable(s) == {i \in Lines(l, s) : l[i].outcome # "infra"}
           place(s) == IF usable(s) = {} THEN First(l, s) ELSE Min(usable(s))
<1>1. ASSUME NEW s \in Logged(l)
      PROVE  /\ place(s) \in Lines(l, s)
             /\ l[place(s)].outcome # "infra" <=> usable(s) # {}
  <2>1. Lines(l, s) # {} /\ Lines(l, s) \subseteq Nat
    BY LoggedLines DEF Lines
  <2>2. First(l, s) \in Lines(l, s)
    <3>1. \E i \in Lines(l, s) : \A j \in Lines(l, s) : i <= j
      BY <2>1, NatMin
    <3> QED
      BY <3>1 DEF First
  <2>3. usable(s) # {} => Min(usable(s)) \in usable(s)
    <3>1. usable(s) # {} => \E i \in usable(s) : \A j \in usable(s) : i <= j
      BY <2>1, NatMin
    <3> QED
      BY <3>1 DEF Min
  <2> QED
    BY <2>2, <2>3
<1>2. Kept(l) = {l[place(s)] : s \in Logged(l)}
  BY DEF Kept
<1>3. ASSUME NEW s \in Logged(l)
      PROVE  /\ l[place(s)] \in Records
             /\ l[place(s)].sample = s
             /\ l[place(s)].outcome # "infra" <=> s \in Answered(l)
  <2>1. l[place(s)] \in Records /\ l[place(s)].sample = s
    <3>1. \A i \in Lines(l, s) : /\ i \in DOMAIN l /\ l[i] # Torn
                                  /\ l[i].sample = s
      BY DEF Lines
    <3>2. \A i \in DOMAIN l : l[i] \in Records \cup {Torn}
      BY DEF LogLines
    <3>3. place(s) \in Lines(l, s)
      BY <1>1
    <3> HIDE DEF place, usable
    <3> QED
      BY <3>1, <3>2, <3>3
  <2>2. usable(s) # {} <=> s \in Answered(l)
    BY DEF Lines, Answered
  <2>3. l[place(s)].outcome # "infra" <=> usable(s) # {}
    BY <1>1
  <2> HIDE DEF place, usable
  <2> QED
    BY <2>1, <2>2, <2>3
<1> HIDE DEF place, usable
<1> QED
  BY <1>2, <1>3 DEF SpeaksFor

\* An arm of an anchor counts all its branches if and only if each is counted.
LEMMA CountedAll ==
  ASSUME NEW l \in Seq(LogLines), NEW kept, SpeaksFor(kept, l),
         NEW a, NEW arm, NEW scenario
  PROVE  Cardinality(Counted(kept, a, arm, scenario)) = Continuations
           <=> \A n \in 1..Continuations :
                 \E r \in Counted(kept, a, arm, scenario) : r.sample.index = n
<1> DEFINE C == Counted(kept, a, arm, scenario)
           f == [r \in C |-> r.sample.index]
<1>1. Continuations \in Nat
  BY StageAssumption
<1>2. \A r \in C : /\ r \in kept /\ r.sample \in Samples
                   /\ r.sample.anchor = a /\ r.sample.arm = arm
                   /\ r.sample.index \in 1..Continuations
  BY RecordType DEF Counted, SpeaksFor, Samples
<1>3. f \in Injection(C, 1..Continuations)
  <2>1. f \in [C -> 1..Continuations]
    BY <1>2
  <2>2. ASSUME NEW r1 \in C, NEW r2 \in C, f[r1] = f[r2]
        PROVE  r1 = r2
    <3>1. r1.sample = r2.sample
      BY <1>2, <2>2 DEF Samples
    <3> QED
      BY <1>2, <3>1 DEF SpeaksFor
  <2> QED
    BY <2>1, <2>2 DEF Injection, IsInjective
<1>4. IsFiniteSet(1..Continuations) /\ Cardinality(1..Continuations) = Continuations
  BY <1>1, UpToFinite
<1>5. Cardinality(C) = Continuations <=> f \in Surjection(C, 1..Continuations)
  <2> HIDE DEF f, C
  <2> QED
    BY <1>3, <1>4, FS_Injection
<1>6. f \in Surjection(C, 1..Continuations)
        <=> \A n \in 1..Continuations : \E r \in C : r.sample.index = n
  BY <1>2 DEF Surjection
<1> QED
  BY <1>5, <1>6

\* Whatever the log went through, the contrasts compare like with like: the
\* main analysis has exactly the anchors all of whose planned branches have an
\* answer, the sensitivity runs those all of whose branches were attempted, and
\* what a missing branch counts as changes no difference of the main analysis
\* (_dedupe_attempts, _complete_anchors and _paired_bootstrap).
THEOREM EffectsCorrect == Spec => []EffectsArePaired
<1>1. ASSUME CTypeOK
      PROVE  EffectsArePaired
  <2> DEFINE kept == Kept(log)
             lines(a) == {s \in Samples : s.anchor = a}
             main == CompleteAnchors(kept, None)
             all(a, scenario) ==
               \A s \in lines(a) :
                 \E r \in Counted(kept, a, s.arm, scenario) : r.sample = s
  <2>1. log \in Seq(LogLines) /\ SpeaksFor(kept, log)
    BY <1>1, KeptSpeaks DEF CTypeOK
  <2>2. Continuations \in Nat \ {0} /\ None \notin {"correct", "wrong"}
    BY StageAssumption
  <2> HIDE DEF kept
  <2>3. ASSUME NEW a \in AnchorIds, NEW scenario
        PROVE  (\A arm \in Arms :
                  Cardinality(Counted(kept, a, arm, scenario)) = Continuations)
                 <=> all(a, scenario)
    <3>1. \A arm \in Arms :
            Cardinality(Counted(kept, a, arm, scenario)) = Continuations
              <=> \A n \in 1..Continuations :
                    \E r \in Counted(kept, a, arm, scenario) : r.sample.index = n
      BY <2>1, CountedAll
    <3>2. \A arm \in Arms : \A r \in Counted(kept, a, arm, scenario) :
            /\ r.sample \in Samples
            /\ r.sample.anchor = a /\ r.sample.arm = arm
      BY <2>1, RecordType DEF Counted, SpeaksFor
    <3>3. ASSUME all(a, scenario), NEW arm \in Arms, NEW n \in 1..Continuations
          PROVE  \E r \in Counted(kept, a, arm, scenario) : r.sample.index = n
      <4>1. [anchor |-> a, arm |-> arm, index |-> n] \in lines(a)
        BY DEF Samples
      <4> QED
        BY <3>3, <4>1
    <3>4. ASSUME NEW s \in lines(a),
                 NEW r \in Counted(kept, a, s.arm, scenario),
                 r.sample.index = s.index
          PROVE  r.sample = s
      <4>1. s \in Samples /\ s.anchor = a /\ s.arm \in Arms
        BY DEF Samples
      <4>2. r.sample \in Samples /\ r.sample.anchor = a /\ r.sample.arm = s.arm
        BY <3>2, <4>1
      <4> QED
        BY <3>4, <4>1, <4>2 DEF Samples
    <3>5. \A s \in lines(a) : s.arm \in Arms /\ s.index \in 1..Continuations
      BY DEF Samples
    <3> QED
      BY <3>1, <3>3, <3>4, <3>5
  <2>4. ASSUME NEW a \in AnchorIds
        PROVE  /\ all(a, None) <=> lines(a) \subseteq Answered(log)
               /\ \A scenario \in {"correct", "wrong"} :
                    all(a, scenario) <=> lines(a) \subseteq Logged(log)
    <3>1. \A s \in lines(a) :
            (\E r \in Counted(kept, a, s.arm, None) : r.sample = s)
              <=> s \in Answered(log)
      <4>1. \A s \in Answered(log) : s \in Logged(log)
        BY DEF Answered, Logged
      <4> QED
        BY <2>1, <4>1 DEF Counted, SpeaksFor
    <3>2. \A scenario \in {"correct", "wrong"} : \A s \in lines(a) :
            (\E r \in Counted(kept, a, s.arm, scenario) : r.sample = s)
              <=> s \in Logged(log)
      BY <2>1, <2>2 DEF Counted, SpeaksFor
    <3> QED
      BY <3>1, <3>2
  <2>5. ASSUME NEW a \in AnchorIds, lines(a) \subseteq Logged(log)
        PROVE  a \in {r.sample.anchor : r \in kept}
    <3>1. [anchor |-> a, arm |-> "F", index |-> 1] \in lines(a)
      BY <2>2 DEF Samples, Arms
    <3> QED
      BY <2>1, <2>5, <3>1 DEF SpeaksFor
  <2>6. {r.sample.anchor : r \in kept} \subseteq AnchorIds
    BY <2>1, RecordType DEF SpeaksFor, Samples
  <2>7. main = {a \in AnchorIds : lines(a) \subseteq Answered(log)}
    <3>1. \A a \in AnchorIds : lines(a) \subseteq Answered(log)
                                 => lines(a) \subseteq Logged(log)
      BY DEF Answered, Logged
    <3> HIDE DEF lines, all
    <3>2. \A a \in AnchorIds :
            (\A arm \in Arms :
               Cardinality(Counted(kept, a, arm, None)) = Continuations)
              <=> lines(a) \subseteq Answered(log)
      BY <2>3, <2>4
    <3> QED
      BY <2>5, <2>6, <3>1, <3>2 DEF CompleteAnchors
  <2>8. ASSUME NEW scenario \in {"correct", "wrong"}
        PROVE  CompleteAnchors(kept, scenario)
                 = {a \in AnchorIds : lines(a) \subseteq Logged(log)}
    <3> HIDE DEF lines, all
    <3>1. \A a \in AnchorIds :
            (\A arm \in Arms :
               Cardinality(Counted(kept, a, arm, scenario)) = Continuations)
              <=> lines(a) \subseteq Logged(log)
      BY <2>3, <2>4
    <3> QED
      BY <2>5, <2>6, <3>1 DEF CompleteAnchors
  <2>9. ASSUME NEW a \in main, NEW arm \in Arms, NEW scenario
        PROVE  CorrectIn(kept, a, arm, scenario) = CorrectIn(kept, a, arm, None)
    <3>1. \A r \in kept : r.sample.anchor = a => r.outcome # "infra"
      <4>1. lines(a) \subseteq Answered(log)
        BY <2>7
      <4> QED
        BY <2>1, <4>1, RecordType DEF SpeaksFor
    <3> QED
      BY <3>1 DEF CorrectIn, Counted
  <2>10. \A a \in main, contrast \in {<<"F", "M">>, <<"P", "F">>} :
           \A scenario \in {"correct", "wrong"} :
             Difference(kept, a, contrast, scenario)
               = Difference(kept, a, contrast, None)
    BY <2>9 DEF Difference, Arms
  <2> QED
    BY <2>7, <2>8, <2>10 DEF EffectsArePaired, kept, Answered
<1>2. CTypeOK => EffectsArePaired
  BY <1>1
<1> QED
  BY <1>2, StageCInvariant, PTL DEF StageCInv
-----------------------------------------------------------------------------
(* The audit sample.                                                        *)

\* The branches of the first n places of the arms' shuffles.
Rounds(n) == {b \in Continuation : b[2] <= n}

\* What has been picked: the rare ones, the rounds done, and, when the cap was
\* reached inside a round, a part of that.
AuditInv ==
  stage = "audit" =>
    /\ by_arm \in [Arms -> 0..MaxPerArm]
    /\ index \in 0..MaxPerArm + 2
    /\ index = 0 => picked = {}
    /\ picked \subseteq Continuation
    /\ picked \subseteq Rare \cup Rounds(index - 1)
    /\ Rounds(index - 2) \subseteq picked
    /\ Cardinality(picked) <= AuditBranches
    /\ Cardinality(picked) < AuditBranches => Rounds(index - 1) \subseteq picked

LEMMA BranchesFinite ==
  /\ IsFiniteSet(Branches)
  /\ \A S : S \subseteq Branches => IsFiniteSet(S) /\ Cardinality(S) \in Nat
<1>1. IsFiniteSet(Arms)
  <2>1. Arms = ({"F"} \cup {"P"}) \cup {"M"}
    BY DEF Arms
  <2>2. IsFiniteSet({"F"}) /\ IsFiniteSet({"P"}) /\ IsFiniteSet({"M"})
    BY FS_Singleton
  <2>3. IsFiniteSet({"F"} \cup {"P"})
    BY <2>2, FS_Union
  <2> QED
    BY <2>1, <2>2, <2>3, FS_Union
<1>2. IsFiniteSet(1..MaxPerArm)
  BY AuditAssumption, UpToFinite
<1>3. IsFiniteSet(Branches)
  BY <1>1, <1>2, FS_Product DEF Branches
<1> QED
  BY <1>3, FS_Subset, FS_CardinalityType

\* A round picks one branch of an arm at most.
LEMMA OfferOne ==
  ASSUME NEW arm \in Arms, NEW S, S \subseteq Branches
  PROVE  Cardinality(S \cup Offer({arm})) <= Cardinality(S) + 1
<1>1. Offer({arm}) \subseteq {<<arm, index>>}
  BY DEF Offer, Continuation, Branches
<1>2. IsFiniteSet(S) /\ Cardinality(S) \in Nat
  BY BranchesFinite
<1>3. CASE Offer({arm}) = {}
  <2>1. S \cup Offer({arm}) = S
    BY <1>3
  <2>2. Cardinality(S \cup Offer({arm})) = Cardinality(S)
    BY <2>1
  <2> QED
    BY <1>2, <2>2
<1>4. CASE Offer({arm}) = {<<arm, index>>}
  <2> DEFINE b == <<arm, index>>
  <2>1. S \cup Offer({arm}) = S \cup {b}
    BY <1>4
  <2> HIDE DEF b
  <2>2. Cardinality(S \cup {b}) =
          IF b \in S THEN Cardinality(S) ELSE Cardinality(S) + 1
    BY <1>2, FS_AddElement
  <2>3. Cardinality(S \cup Offer({arm})) = Cardinality(S \cup {b})
    BY <2>1
  <2> QED
    BY <1>2, <2>2, <2>3
<1> QED
  BY <1>1, <1>3, <1>4

\* What a round leaves, whether the cap stops it or not.
LEMMA RoundPicks ==
  ASSUME AuditInv, Round
  PROVE  /\ picked \subseteq picked'
         /\ picked' \subseteq picked \cup Offer(Arms)
         /\ Cardinality(picked') <= AuditBranches
         /\ Cardinality(picked') < AuditBranches =>
              picked' = picked \cup Offer(Arms)
<1> DEFINE first(n) == picked \cup Offer({Turn3[i] : i \in 1..n})
           full == {n \in 1..3 : Cardinality(first(n)) >= AuditBranches}
<1>1. /\ stage = "audit" /\ Cardinality(picked) < AuditBranches
      /\ picked' = first(IF full = {} THEN 3 ELSE Min(full))
      /\ picked \subseteq Branches /\ AuditBranches \in Nat
  BY AuditAssumption DEF Round, AuditInv, Continuation
<1>2. /\ {Turn3[i] : i \in 1..1} = {"F"}
      /\ {Turn3[i] : i \in 1..2} = {"F", "P"}
      /\ {Turn3[i] : i \in 1..3} = {"F", "P", "M"}
  BY DEF Turn3
<1>3. /\ Offer({"F", "P"}) = Offer({"F"}) \cup Offer({"P"})
      /\ Offer({"F", "P", "M"}) = Offer({"F", "P"}) \cup Offer({"M"})
      /\ Offer(Arms) = Offer({"F", "P", "M"})
  BY DEF Offer, Arms
<1>4. /\ first(1) = picked \cup Offer({"F"})
      /\ first(2) = first(1) \cup Offer({"P"})
      /\ first(3) = first(2) \cup Offer({"M"})
      /\ first(3) = picked \cup Offer(Arms)
  BY <1>2, <1>3
<1>5. \A n \in 1..3 : first(n) \subseteq Branches
  BY <1>1 DEF Offer, Continuation
<1>6. /\ Cardinality(first(1)) <= Cardinality(picked) + 1
      /\ Cardinality(first(2)) <= Cardinality(first(1)) + 1
      /\ Cardinality(first(3)) <= Cardinality(first(2)) + 1
  <2> HIDE DEF first
  <2>1. "F" \in Arms /\ "P" \in Arms /\ "M" \in Arms
    BY DEF Arms
  <2>2. first(1) \subseteq Branches /\ first(2) \subseteq Branches
    BY <1>5
  <2> QED
    BY <1>1, <1>4, <2>1, <2>2, OfferOne
<1>7. /\ \A n \in 1..3 : Cardinality(first(n)) \in Nat
      /\ Cardinality(picked) \in Nat
  <2> HIDE DEF first
  <2> QED
    BY <1>1, <1>5, BranchesFinite
<1> DEFINE m == IF full = {} THEN 3 ELSE Min(full)
<1>8. /\ m \in 1..3
      /\ \A n \in 1..3 : n < m => Cardinality(first(n)) < AuditBranches
      /\ Cardinality(first(m)) < AuditBranches => m = 3
  <2>1. full # {} => Min(full) \in full /\ \A n \in full : Min(full) <= n
    <3>1. full # {} => \E x \in full : \A y \in full : x <= y
      <4> HIDE DEF first
      <4> QED
        BY NatMin
    <3> HIDE DEF full
    <3> QED
      BY <3>1 DEF Min
  <2> HIDE DEF first
  <2>2. \A n \in 1..3 : n \notin full => Cardinality(first(n)) < AuditBranches
    BY <1>1, <1>7
  <2> QED
    BY <1>1, <1>7, <2>1, <2>2
<1>9. picked' = first(m)
  BY <1>1
<1> HIDE DEF m, full
<1>10. picked \subseteq first(m) /\ first(m) \subseteq first(3)
  BY <1>2, <1>4, <1>8 DEF Offer
<1> HIDE DEF first
<1>11. Cardinality(first(m)) <= AuditBranches
  BY <1>1, <1>6, <1>7, <1>8
<1> QED
  BY <1>4, <1>8, <1>9, <1>10, <1>11

LEMMA AuditSteps ==
  ASSUME AuditInv, AuditNext \/ UNCHANGED <<stage, auditVars>>, stage' = stage
  PROVE  AuditInv'
<1> SUFFICES ASSUME stage = "audit"
             PROVE  AuditInv'
  BY DEF AuditInv
<1>1. CASE UNCHANGED <<stage, auditVars>>
  BY <1>1 DEF AuditInv, auditVars, Continuation, Rare, Rounds
<1>2. MaxPerArm \in Nat /\ AuditBranches \in Nat \ {0} /\ RareShare \in Nat \ {0}
  BY AuditAssumption
<1>3. ASSUME UNCHANGED <<by_arm, code>>
      PROVE  /\ Continuation' = Continuation /\ Rare' = Rare
             /\ \A n : Rounds(n)' = Rounds(n)
  BY <1>3 DEF Continuation, Rare, Rounds
<1>4. CASE PickRare
  <2>1. PICK S \in SUBSET Rare :
          /\ \/ Cardinality(S) = AuditBranches \div RareShare
             \/ S = Rare /\ Cardinality(S) < AuditBranches \div RareShare
          /\ picked' = S
    BY <1>4 DEF PickRare
  <2>2. index' = 1 /\ UNCHANGED <<by_arm, code>>
    BY <1>4 DEF PickRare
  <2>3. /\ AuditBranches \div RareShare \in Nat
        /\ AuditBranches \div RareShare <= AuditBranches
    <3>1. /\ AuditBranches \div RareShare \in Nat
          /\ AuditBranches % RareShare \in Nat
          /\ AuditBranches = RareShare * (AuditBranches \div RareShare)
                               + (AuditBranches % RareShare)
      BY <1>2, DivMod
    <3>2. \A n \in Nat : n <= RareShare * n
      BY <1>2
    <3> QED
      BY <1>2, <3>1, <3>2
  <2>4. S \subseteq Continuation /\ Cardinality(S) \in Nat
    <3>1. S \subseteq Continuation /\ S \subseteq Branches
      BY DEF Rare, Continuation
    <3> QED
      BY <3>1, BranchesFinite
  <2>5. Rounds(0) = {} /\ Rounds(-1) = {}
    BY <1>2 DEF Rounds, Continuation, Branches
  <2>6. index' - 1 = 0 /\ index' - 2 = -1 /\ index' \in 0..MaxPerArm + 2
    BY <1>2, <2>2
  <2>7. by_arm \in [Arms -> 0..MaxPerArm]
    BY DEF AuditInv
  <2>8. Cardinality(S) <= AuditBranches
    BY <1>2, <2>1, <2>3, <2>4
  <2>9. /\ picked' \subseteq Rare' /\ picked' \subseteq Continuation'
        /\ Rounds(0)' = {} /\ Rounds(-1)' = {}
    BY <1>3, <2>1, <2>2, <2>4, <2>5
  <2> QED
    BY <2>1, <2>2, <2>6, <2>7, <2>8, <2>9 DEF AuditInv
<1>5. CASE Round
  <2>1. /\ picked \subseteq picked' /\ picked' \subseteq picked \cup Offer(Arms)
        /\ Cardinality(picked') <= AuditBranches
        /\ Cardinality(picked') < AuditBranches =>
             picked' = picked \cup Offer(Arms)
    BY <1>5, RoundPicks
  <2>2. /\ index > 0 /\ Cardinality(picked) < AuditBranches
        /\ UNCHANGED <<by_arm, code>>
        /\ index' = IF index <= MaxPerArm + 1 THEN index + 1 ELSE index - 1
    BY <1>5 DEF Round
  <2>3. /\ by_arm \in [Arms -> 0..MaxPerArm] /\ index \in 1..MaxPerArm + 2
        /\ picked \subseteq Continuation
        /\ picked \subseteq Rare \cup Rounds(index - 1)
        /\ Rounds(index - 1) \subseteq picked
    BY <2>2 DEF AuditInv
  <2>4. Offer(Arms) = {b \in Continuation : b[2] = index} \ picked
    BY DEF Offer, Continuation, Branches
  <2>5. index' \in 1..MaxPerArm + 2
    BY <1>2, <2>2, <2>3
  <2>6. \A b \in Continuation : b[2] \in 1..MaxPerArm
    BY DEF Continuation, Branches
  <2>7. picked' \subseteq Rare \cup Rounds(index' - 1)
    BY <1>2, <2>1, <2>2, <2>3, <2>4, <2>6 DEF Rounds
  <2>8. Rounds(index' - 2) \subseteq picked'
    BY <1>2, <2>1, <2>2, <2>3, <2>6 DEF Rounds
  <2>9. Cardinality(picked') < AuditBranches => Rounds(index' - 1) \subseteq picked'
    BY <1>2, <2>1, <2>2, <2>3, <2>4, <2>6 DEF Rounds
  <2>10. picked' \subseteq Continuation
    BY <2>1, <2>3, <2>4
  <2>11. /\ Continuation' = Continuation /\ Rare' = Rare
         /\ Rounds(index - 1)' = Rounds(index' - 1)
         /\ Rounds(index - 2)' = Rounds(index' - 2)
    BY <2>2 DEF Continuation, Rare, Rounds
  <2> QED
    BY <2>1, <2>2, <2>3, <2>5, <2>7, <2>8, <2>9, <2>10, <2>11 DEF AuditInv
<1>6. CASE Leave
  <2>1. UNCHANGED <<by_arm, code, picked, index>>
    BY <1>6 DEF Leave
  <2> QED
    BY <2>1 DEF AuditInv, Continuation, Rare, Rounds
<1> QED
  BY <1>1, <1>4, <1>5, <1>6 DEF AuditNext

\* An arm has one branch of each place.
LEMMA PlacesOf ==
  ASSUME NEW arm, NEW n \in Nat
  PROVE  /\ IsFiniteSet({arm} \X (1..n))
         /\ Cardinality({arm} \X (1..n)) = n
<1>1. IsFiniteSet({arm}) /\ Cardinality({arm}) = 1
  BY FS_Singleton
<1>2. IsFiniteSet(1..n) /\ Cardinality(1..n) = n
  BY UpToFinite
<1>3. /\ IsFiniteSet({arm} \X (1..n))
      /\ Cardinality({arm} \X (1..n)) = Cardinality({arm}) * Cardinality(1..n)
  BY <1>1, <1>2, FS_Product
<1> QED
  BY <1>1, <1>2, <1>3

\* No arm is favoured: at any time an arm has more picked branches than another
\* only by one, and by its rare ones, unless the other has no branch left; and
\* never more than the cap are picked (_select_audit_sample).
THEOREM AuditCorrect == Spec => []AuditIsFair
<1>1. Init => AuditInv
  <2> SUFFICES ASSUME Init, stage = "audit" PROVE AuditInv
    BY DEF AuditInv
  <2>1. /\ by_arm \in [Arms -> 0..MaxPerArm] /\ picked = {} /\ index = 0
    BY BranchAssumption DEF Init, StageInit, AuditInit
  <2>2. Rounds(-1) = {} /\ Rounds(-2) = {}
    BY AuditAssumption DEF Rounds, Continuation, Branches
  <2>3. Cardinality({}) = 0
    BY FS_EmptySet
  <2>4. index - 1 = -1 /\ index - 2 = -2 /\ index \in 0..MaxPerArm + 2
    BY <2>1, AuditAssumption
  <2> QED
    BY <2>1, <2>2, <2>3, <2>4, AuditAssumption DEF AuditInv
<1>2. ASSUME StageOfRun, AuditInv, [Next]_vars
      PROVE  AuditInv'
  <2>1. stage' = stage
    BY <1>2 DEF Next, vars, StageNext, StartStage, BeginStage, Roll, Rolled,
         Pool, WriteSnapshots, WriteSelected, FinishStage, FailStage,
         StopStage, CNext, Start, Begin, Skip, Continue, Finish, Raise, Fail,
         Crash, stageVars
  <2>2. AuditNext \/ UNCHANGED <<stage, auditVars>>
    BY <1>2, <2>1 DEF Next, vars
  <2> QED
    BY <1>2, <2>1, <2>2, AuditSteps
<1>3. ASSUME AuditInv
      PROVE  AuditIsFair
  <2> DEFINE of(arm) == {b \in picked : b[1] = arm}
  <2> SUFFICES ASSUME stage = "audit", index > 0
               PROVE  /\ Cardinality(picked) <= AuditBranches
                      /\ \A a, b \in Arms :
                           \/ Cardinality(of(a)) <= Cardinality(of(b)) + 1
                                + Cardinality(of(a) \cap Rare)
                           \/ {c \in Continuation : c[1] = b} \subseteq picked
    BY DEF AuditIsFair
  <2>1. /\ by_arm \in [Arms -> 0..MaxPerArm] /\ index \in 1..MaxPerArm + 2
        /\ picked \subseteq Continuation
        /\ picked \subseteq Rare \cup Rounds(index - 1)
        /\ Rounds(index - 2) \subseteq picked
        /\ Cardinality(picked) <= AuditBranches
    BY <1>3 DEF AuditInv
  <2>2. \A arm : of(arm) \subseteq Branches
    BY <2>1 DEF Continuation
  <2>3. ASSUME NEW a \in Arms, NEW b \in Arms, NEW c \in Continuation,
               c[1] = b, c \notin picked
        PROVE  Cardinality(of(a)) <= Cardinality(of(b)) + 1
                                       + Cardinality(of(a) \cap Rare)
    <3>1. index - 1 \in Nat /\ MaxPerArm \in Nat
      BY <2>1, AuditAssumption
    <3>2. c[2] >= index - 1 /\ c[2] <= by_arm[b] /\ c[2] \in 1..MaxPerArm
      BY <2>1, <2>3 DEF Rounds, Continuation, Branches
    <3>3. Cardinality(of(b)) >= index - 2
      <4>1. CASE index = 1
        BY <2>2, <4>1, BranchesFinite
      <4>2. CASE index > 1
        <5>1. index - 2 \in Nat
          BY <2>1, <4>2
        <5>2. {b} \X (1..index - 2) \subseteq of(b)
          <6> SUFFICES ASSUME NEW j \in 1..index - 2
                       PROVE  <<b, j>> \in picked
            OBVIOUS
          <6>1. by_arm[b] \in 0..MaxPerArm /\ j \in 1..MaxPerArm /\ j <= by_arm[b]
            BY <2>1, <3>1, <3>2
          <6>2. <<b, j>> \in Rounds(index - 2)
            BY <6>1 DEF Rounds, Continuation, Branches
          <6> QED
            BY <2>1, <6>2
        <5>3. IsFiniteSet(of(b))
          BY <2>2, BranchesFinite
        <5>4. Cardinality({b} \X (1..index - 2)) <= Cardinality(of(b))
          BY <5>2, <5>3, FS_Subset
        <5> QED
          BY <5>1, <5>4, PlacesOf
      <4> QED
        BY <2>1, <4>1, <4>2
    <3>4. of(a) \subseteq (of(a) \cap Rare) \cup ({a} \X (1..index - 1))
      BY <2>1, <3>1 DEF Rounds, Continuation, Branches
    <3> DEFINE R == of(a) \cap Rare
               P == {a} \X (1..index - 1)
    <3>5. /\ IsFiniteSet(R) /\ Cardinality(R) \in Nat
          /\ Cardinality(of(a)) \in Nat /\ Cardinality(of(b)) \in Nat
      <4>1. R \subseteq Branches
        BY <2>2
      <4> HIDE DEF R
      <4> QED
        BY <2>2, <4>1, BranchesFinite
    <3>6. IsFiniteSet(P) /\ Cardinality(P) = index - 1
      BY <3>1, PlacesOf
    <3> HIDE DEF R, P
    <3>7. /\ IsFiniteSet(R \cup P)
          /\ Cardinality(R \cup P) = Cardinality(R) + Cardinality(P)
                                       - Cardinality(R \cap P)
      BY <3>5, <3>6, FS_Union
    <3>8. Cardinality(R \cap P) \in Nat
      BY <3>5, FS_Intersection, FS_CardinalityType
    <3>9. Cardinality(of(a)) <= Cardinality(R \cup P)
      BY <3>4, <3>7, FS_Subset DEF R, P
    <3> QED
      BY <2>1, <3>3, <3>5, <3>6, <3>7, <3>8, <3>9 DEF R
  <2>4. \A a, b \in Arms :
          \/ Cardinality(of(a)) <= Cardinality(of(b)) + 1
               + Cardinality(of(a) \cap Rare)
          \/ {c \in Continuation : c[1] = b} \subseteq picked
    <3> HIDE DEF of
    <3> QED
      BY <2>3
  <2> QED
    BY <2>1, <2>4
<1> QED
  BY <1>1, <1>2, <1>3, StageCInvariant, PTL DEF Spec, vars
-----------------------------------------------------------------------------
(* The anchors that stage B selects.                                        *)

Reasons == {"terminated_at_anchor", "insufficient_remaining_steps",
            "insufficient_remaining_tool_calls",
            "insufficient_remaining_python_seconds", None}
CandidateLines == [id : AnchorIds, exclusion_reason : Reasons]

\* The step of a rollout's first executed error, and the candidate of it.
ErrorStep(t) == CHOOSE k \in FirstExecError(t) : TRUE
FromRollout(t) == Candidate(t, ErrorStep(t))

\* The rollout has a candidate, and it may be selected.
Offers(t, a) ==
  /\ FirstExecError(t) # {}
  /\ FromRollout(t).id = a /\ FromRollout(t).exclusion_reason = None

LEMMA OneCandidate ==
  ASSUME NEW t \in Rollouts, FirstExecError(t) # {}
  PROVE  /\ ErrorStep(t) \in FirstExecError(t)
         /\ \A k \in FirstExecError(t) : k = ErrorStep(t)
         /\ FromRollout(t) \in CandidateLines
<1>1. ErrorStep(t) \in FirstExecError(t)
  BY DEF ErrorStep
<1>2. /\ t.task \in ToSet(Tasks) /\ t.sample \in 1..SamplesPerTask
      /\ Len(t.turns) \in Nat /\ Len(t.turns) <= MaxSteps
      /\ DOMAIN t.turns = 1..Len(t.turns)
  BY DEF Rollouts
<1>3. \A k \in FirstExecError(t) :
        /\ k \in 1..Len(t.turns)
        /\ \A j \in FirstExecError(t) : k <= j
  BY <1>2 DEF FirstExecError, ExecErrors
<1>4. \A k \in FirstExecError(t) : k = ErrorStep(t)
  <2> SUFFICES ASSUME NEW k \in FirstExecError(t) PROVE k = ErrorStep(t)
    OBVIOUS
  <2>1. PICK j \in FirstExecError(t) : j = ErrorStep(t)
    BY <1>1
  <2>2. k \in Int /\ j \in Int /\ k <= j /\ j <= k
    BY <1>2, <1>3
  <2> QED
    BY <2>1, <2>2
<1>5. ErrorStep(t) \in 1..MaxSteps
  <2>1. PICK j \in 1..Len(t.turns) : j = ErrorStep(t)
    BY <1>1, <1>3
  <2>2. MaxSteps \in Nat
    BY StudyAssumption
  <2> QED
    BY <1>2, <2>1, <2>2
<1>6. [task |-> t.task, sample |-> t.sample, step |-> ErrorStep(t)] \in AnchorIds
  BY <1>2, <1>5 DEF AnchorIds, ToSet
<1>7. ExclusionReason(t, ErrorStep(t)) \in Reasons
  BY Zenon DEF ExclusionReason, Reasons
<1> QED
  BY <1>1, <1>4, <1>6, <1>7 DEF FromRollout, Candidate, CandidateLines

\* An anchor may be selected that a rollout of the log offers.
LEMMA OfferedAre ==
  ASSUME NEW l \in Seq(Rollouts), NEW a \in AnchorIds
  PROVE  EligibleIn(l, a) <=> \E i \in 1..Len(l) : Offers(l[i], a)
<1>1. ASSUME NEW i \in DOMAIN l
      PROVE  (/\ l[i] # Torn /\ l[i].task = a.task /\ l[i].sample = a.sample
              /\ a.step \in FirstExecError(l[i])
              /\ ExclusionReason(l[i], a.step) = None) <=> Offers(l[i], a)
  <2>1. PICK t \in Rollouts : t = l[i]
    OBVIOUS
  <2>2. t # Torn
    <3>1. "task" \in DOMAIN t
      BY DEF Rollouts
    <3>2. "task" \notin DOMAIN Torn
      BY DEF Torn
    <3> QED
      BY <3>1, <3>2
  <2>3. a = [task |-> a.task, sample |-> a.sample, step |-> a.step]
    BY DEF AnchorIds
  <2>4. FirstExecError(t) # {} =>
          /\ FromRollout(t).id = [task |-> t.task, sample |-> t.sample, step |-> ErrorStep(t)]
          /\ FromRollout(t).exclusion_reason = ExclusionReason(t, ErrorStep(t))
    BY DEF FromRollout, Candidate
  <2>5. CASE FirstExecError(t) = {}
    BY <2>1, <2>5 DEF Offers
  <2>6. CASE FirstExecError(t) # {}
    <3>1. /\ ErrorStep(t) \in FirstExecError(t)
          /\ \A k \in FirstExecError(t) : k = ErrorStep(t)
      BY <2>6, OneCandidate
    <3>2. Offers(t, a) <=> /\ t.task = a.task /\ t.sample = a.sample
                           /\ a.step = ErrorStep(t)
                           /\ ExclusionReason(t, ErrorStep(t)) = None
      BY <2>3, <2>4, <2>6 DEF Offers
    <3> QED
      BY <2>1, <2>2, <3>1, <3>2
  <2> QED
    BY <2>5, <2>6
<1>2. DOMAIN l = 1..Len(l)
  OBVIOUS
<1> QED
  BY <1>1, <1>2 DEF EligibleIn

LEMMA CandidatesRun ==
  ASSUME NEW l \in Seq(Rollouts)
  PROVE  \E r : /\ r[0] = << >>
                /\ \A k \in 1..Len(l) : r[k] = AddCandidate(r[k - 1], l[k])
                /\ Candidates(l) = r[Len(l)]
<1> DEFINE n == Len(l)
           D == 1..n
           S == Seq(CandidateLines)
           step == [p \in D \X S |-> AddCandidate(p[2], l[p[1]])]
           Body(g, s) == IF s = {} THEN << >> ELSE AddCandidate(g[s \ {Max(s)}], l[Max(s)])
           Iter(i) == i = [s \in SUBSET D |-> Body(i, s)]
           iter == CHOOSE i : Iter(i)
           r == [k \in 0..n |-> iter[1..k]]
<1>1. n \in Nat /\ DOMAIN l = D
  OBVIOUS
<1>2. Candidates(l) = iter[D]
  BY <1>1, Zenon DEF Candidates, FoldLeft, MapThenFoldSet
<1>3. << >> \in S
  OBVIOUS
<1>4. step \in [D \X S -> S]
  <2>1. ASSUME NEW k \in D, NEW cs \in S PROVE AddCandidate(cs, l[k]) \in S
    <3>1. l[k] \in Rollouts
      BY <1>1
    <3>2. AddCandidate(cs, l[k])
            = IF FirstExecError(l[k]) = {} THEN cs ELSE Append(cs, FromRollout(l[k]))
      BY DEF AddCandidate, FromRollout, ErrorStep
    <3>3. FirstExecError(l[k]) # {} => FromRollout(l[k]) \in CandidateLines
      BY <3>1, OneCandidate
    <3> QED
      BY <3>2, <3>3
  <2> HIDE DEF S, D
  <2> QED
    BY <2>1
<1>5. \E g : Iter(g)
  <2>1. PICK g \in [SUBSET D -> S] : IsLeftFold(g, n, << >>, step)
    <3> HIDE DEF step, n, S
    <3> QED
      BY <1>1, <1>3, <1>4, LeftFoldExists
  <2>2. ASSUME NEW s \in SUBSET D
        PROVE  g[s] = Body(g, s)
    <3>1. s # {} => Max(s) \in D /\ s \ {Max(s)} \in SUBSET D
      BY <1>1, MaxIn
    <3> QED
      BY <2>1, <3>1 DEF IsLeftFold
  <2> HIDE DEF Body, step
  <2> QED
    BY <2>1, <2>2
<1>6. Iter(iter)
  <2> HIDE DEF Iter
  <2> QED
    BY <1>5
<1> HIDE DEF iter, step
<1>7. r[0] = << >>
  <2>1. 1..0 = {} /\ 1..0 \in SUBSET D
    OBVIOUS
  <2> QED
    BY <1>1, <1>6, <2>1
<1>8. ASSUME NEW k \in 1..n
      PROVE  r[k] = AddCandidate(r[k - 1], l[k])
  <2>1. 1..k \in SUBSET D /\ 1..k # {} /\ k \in Nat \ {0} /\ k - 1 \in 0..n
    <3> HIDE DEF n
    <3> QED
      BY <1>1
  <2>2. Max(1..k) = k /\ (1..k) \ {Max(1..k)} = 1..k - 1
    BY <2>1, MaxUpTo
  <2>3. iter[1..k] = Body(iter, 1..k)
    BY <1>6, <2>1
  <2>4. iter[1..k] = AddCandidate(iter[1..k - 1], l[k])
    BY <2>1, <2>2, <2>3
  <2>5. r[k] = iter[1..k] /\ r[k - 1] = iter[1..k - 1]
    BY <2>1
  <2> QED
    BY <2>4, <2>5
<1>9. Candidates(l) = r[n]
  BY <1>1, <1>2
<1> HIDE DEF r
<1> QED
  BY <1>7, <1>8, <1>9

\* What may be selected of the first k candidates.
Offered(cs, l, k) ==
  /\ cs \in Seq(CandidateLines)
  /\ \A a : a \in Eligible(cs) <=> \E i \in 1..k : Offers(l[i], a)

LEMMA OneMoreOffer ==
  ASSUME NEW l \in Seq(Rollouts), NEW k \in 1..Len(l), NEW cs,
         Offered(cs, l, k - 1)
  PROVE  Offered(AddCandidate(cs, l[k]), l, k)
<1>1. PICK t \in Rollouts : t = l[k]
  OBVIOUS
<1>2. /\ cs \in Seq(CandidateLines)
      /\ \A a : a \in Eligible(cs) <=> \E i \in 1..k - 1 : Offers(l[i], a)
  BY DEF Offered
<1>3. AddCandidate(cs, t) = IF FirstExecError(t) = {} THEN cs ELSE Append(cs, FromRollout(t))
  BY DEF AddCandidate, FromRollout, ErrorStep
<1>4. \A a : (\E i \in 1..k : Offers(l[i], a))
               <=> (\E i \in 1..k - 1 : Offers(l[i], a)) \/ Offers(t, a)
  <2>1. 1..k = (1..k - 1) \cup {k}
    OBVIOUS
  <2> QED
    BY <1>1, <2>1, Zenon
<1>5. CASE FirstExecError(t) = {}
  <2>1. \A a : ~Offers(t, a)
    BY <1>5 DEF Offers
  <2> QED
    BY <1>1, <1>2, <1>3, <1>4, <1>5, <2>1 DEF Offered
<1>6. CASE FirstExecError(t) # {}
  <2> DEFINE ds == Append(cs, FromRollout(t))
             n == Len(cs)
  <2>1. FromRollout(t) \in CandidateLines
    BY <1>6, OneCandidate
  <2>2. /\ ds \in Seq(CandidateLines) /\ n \in Nat
        /\ DOMAIN ds = DOMAIN cs \cup {n + 1} /\ DOMAIN cs = 1..n
        /\ ds[n + 1] = FromRollout(t) /\ \A i \in DOMAIN cs : ds[i] = cs[i]
    BY <1>2, <2>1
  <2> HIDE DEF ds, n
  <2>3. \A a : a \in Eligible(ds) <=>
                 \E i \in DOMAIN ds : ds[i].exclusion_reason = None /\ ds[i].id = a
    BY DEF Eligible
  <2>4. \A a : a \in Eligible(cs) <=>
                 \E i \in DOMAIN cs : cs[i].exclusion_reason = None /\ cs[i].id = a
    BY DEF Eligible
  <2>5. \A a : a \in Eligible(ds) <=> a \in Eligible(cs) \/ Offers(t, a)
    BY <1>6, <2>2, <2>3, <2>4 DEF Offers
  <2>6. AddCandidate(cs, l[k]) = ds
    BY <1>1, <1>3, <1>6 DEF ds
  <2> QED
    BY <1>2, <1>4, <2>2, <2>5, <2>6 DEF Offered
<1> QED
  BY <1>5, <1>6

LEMMA EligibleAre ==
  ASSUME NEW l \in Seq(Rollouts), NEW e, e = Eligible(Candidates(l))
  PROVE  /\ IsFiniteSet(e)
         /\ e = {a \in AnchorIds : EligibleIn(l, a)}
<1> PICK n \in Nat : n = Len(l)
  OBVIOUS
<1>1. PICK r : /\ r[0] = << >>
               /\ \A k \in 1..n : r[k] = AddCandidate(r[k - 1], l[k])
               /\ Candidates(l) = r[n]
  BY CandidatesRun
<1> DEFINE N == {k \in Nat : k <= n => Offered(r[k], l, k)}
<1>2. 0 \in N
  <2>1. << >> \in Seq(CandidateLines) /\ 1..0 = {} /\ DOMAIN << >> = {}
    OBVIOUS
  <2>2. Eligible(<< >>) = {}
    BY <2>1 DEF Eligible
  <2>3. Offered(<< >>, l, 0)
    BY <2>1, <2>2 DEF Offered
  <2> QED
    BY <1>1, <2>3
<1>3. ASSUME NEW k \in Nat, k \in N PROVE k + 1 \in N
  <2> SUFFICES ASSUME k + 1 <= n PROVE Offered(r[k + 1], l, k + 1)
    OBVIOUS
  <2>1. k + 1 \in 1..Len(l) /\ (k + 1) - 1 = k
    OBVIOUS
  <2>2. Offered(r[(k + 1) - 1], l, (k + 1) - 1)
    BY <1>3, <2>1
  <2>3. r[k + 1] = AddCandidate(r[(k + 1) - 1], l[k + 1])
    BY <1>1, <2>1
  <2> QED
    BY <2>1, <2>2, <2>3, OneMoreOffer
<1> HIDE DEF N
<1>4. Nat \subseteq N
  BY <1>2, <1>3, NatSet
<1>5. PICK cs : cs = Candidates(l) /\ Offered(cs, l, n)
  BY <1>1, <1>4 DEF N
<1>6. cs \in Seq(CandidateLines) /\ \A a : a \in e <=> \E i \in 1..n : Offers(l[i], a)
  BY <1>5 DEF Offered
<1>7. e \subseteq AnchorIds
  <2>1. \A i \in DOMAIN cs : cs[i] \in CandidateLines
    BY <1>6
  <2> QED
    BY <1>5, <2>1 DEF Eligible, CandidateLines
<1>8. IsFiniteSet(e)
  <2> DEFINE D == {j \in DOMAIN cs : cs[j].exclusion_reason = None}
             f == [i \in D |-> cs[i].id]
  <2>1. DOMAIN cs = 1..Len(cs) /\ Len(cs) \in Nat
    BY <1>6
  <2>2. IsFiniteSet(1..Len(cs)) /\ D \in SUBSET (1..Len(cs))
    BY <2>1, UpToFinite
  <2>3. IsFiniteSet(D)
    BY <2>2, FS_Subset
  <2>4. e = {cs[i].id : i \in D}
    BY <1>5 DEF Eligible
  <2> HIDE DEF D
  <2>5. f \in [D -> e] /\ \A a \in e : \E i \in D : f[i] = a
    BY <2>4
  <2>6. f \in Surjection(D, e)
    BY <2>5 DEF Surjection
  <2> QED
    BY <2>3, <2>6, FS_Surjection
<1> QED
  BY <1>6, <1>7, <1>8, OfferedAre

\* The order of keys, and the anchors sorted by it.
KeyOrder == {p \in AnchorIds \X AnchorIds : OrderKey[p[1]] < OrderKey[p[2]]}

LEMMA KeysAreNat == \A a \in AnchorIds : OrderKey[a] \in Nat
BY StudyAssumption

Sorts(q, e, n) ==
  /\ q \in [1..n -> e] /\ q \in Seq(AnchorIds) /\ Len(q) = n
  /\ \A i, j \in 1..n : i < j => OrderKey[q[i]] < OrderKey[q[j]]
  /\ \A a \in e : \E i \in 1..n : q[i] = a

LEMMA InKeyOrderIs ==
  ASSUME NEW e \in SUBSET AnchorIds, IsFiniteSet(e)
  PROVE  \E n \in Nat : Sorts(InKeyOrder(e), e, n)
<1> PICK q : q = InKeyOrder(e)
  OBVIOUS
<1>1. \A a, b \in e : <<a, b>> \in KeyOrder <=> OrderKey[a] < OrderKey[b]
  BY DEF KeyOrder
<1>2. \A a, b \in AnchorIds : OrderKey[a] \in Nat /\ (OrderKey[a] = OrderKey[b] => a = b)
  BY KeysAreNat, StudyAssumption
<1>3. IsOrder(KeyOrder, e)
  BY <1>1, <1>2 DEF IsOrder
<1>4. q = OrderOf(KeyOrder, e)
  <2>1. \A x \in e : {u \in e : <<u, x>> \in KeyOrder} = {u \in e : OrderKey[u] < OrderKey[x]}
    BY <1>1
  <2>2. \A x \in e : RankIn(KeyOrder, e, x) = Cardinality({u \in e : OrderKey[u] < OrderKey[x]})
    BY <2>1 DEF RankIn
  <2> DEFINE at(i) == CHOOSE x \in e : RankIn(KeyOrder, e, x) = i - 1
             by(i) == CHOOSE a \in e : Cardinality({b \in e : OrderKey[b] < OrderKey[a]}) = i - 1
  <2>3. \A i : at(i) = by(i)
    BY <2>2
  <2>4. /\ OrderOf(KeyOrder, e) = [i \in 1..Cardinality(e) |-> at(i)]
        /\ InKeyOrder(e) = [i \in 1..Cardinality(e) |-> by(i)]
    BY DEF OrderOf, InKeyOrder
  <2> HIDE DEF at, by
  <2> QED
    BY <2>3, <2>4
<1> PICK n : n = Cardinality(e)
  OBVIOUS
<1>5. /\ n \in Nat /\ q \in [1..n -> e]
      /\ \A i, j \in 1..n : i < j => <<q[i], q[j]>> \in KeyOrder
      /\ \A a \in e : \E i \in 1..n : q[i] = a
  BY <1>3, <1>4, InItsOrder
<1>6. q \in Seq(AnchorIds) /\ Len(q) = n
  <2>1. q \in [1..n -> AnchorIds]
    BY <1>5
  <2> QED
    BY <1>5, <2>1
<1>7. \A i, j \in 1..n : i < j => OrderKey[q[i]] < OrderKey[q[j]]
  <2>1. \A i \in 1..n : q[i] \in e
    BY <1>5
  <2> QED
    BY <1>1, <1>5, <2>1
<1> QED
  BY <1>5, <1>6, <1>7 DEF Sorts

LEMMA SelectionRun ==
  ASSUME NEW b \in Seq(AnchorIds)
  PROVE  \E r : /\ r[0] = << >>
                /\ \A k \in 1..Len(b) : r[k] = FirstOfTask(r[k - 1], b[k])
                /\ FoldLeft(FirstOfTask, << >>, b) = r[Len(b)]
<1> DEFINE n == Len(b)
           D == 1..n
           S == Seq(AnchorIds)
           step == [p \in D \X S |-> FirstOfTask(p[2], b[p[1]])]
           Body(g, s) == IF s = {} THEN << >> ELSE FirstOfTask(g[s \ {Max(s)}], b[Max(s)])
           Iter(i) == i = [s \in SUBSET D |-> Body(i, s)]
           iter == CHOOSE i : Iter(i)
           r == [k \in 0..n |-> iter[1..k]]
<1>1. n \in Nat /\ DOMAIN b = D
  OBVIOUS
<1>2. FoldLeft(FirstOfTask, << >>, b) = iter[D]
  BY <1>1, Zenon DEF FoldLeft, MapThenFoldSet
<1>3. << >> \in S
  OBVIOUS
<1>4. step \in [D \X S -> S]
  <2>1. ASSUME NEW k \in D, NEW c \in S PROVE FirstOfTask(c, b[k]) \in S
    <3>1. b[k] \in AnchorIds
      BY <1>1
    <3> QED
      BY <3>1 DEF FirstOfTask
  <2> HIDE DEF S, D
  <2> QED
    BY <2>1
<1>5. \E g : Iter(g)
  <2>1. PICK g \in [SUBSET D -> S] : IsLeftFold(g, n, << >>, step)
    <3> HIDE DEF step, n, S
    <3> QED
      BY <1>1, <1>3, <1>4, LeftFoldExists
  <2>2. ASSUME NEW s \in SUBSET D
        PROVE  g[s] = Body(g, s)
    <3>1. s # {} => Max(s) \in D /\ s \ {Max(s)} \in SUBSET D
      BY <1>1, MaxIn
    <3> QED
      BY <2>1, <3>1 DEF IsLeftFold
  <2> HIDE DEF Body, step
  <2> QED
    BY <2>1, <2>2
<1>6. Iter(iter)
  <2> HIDE DEF Iter
  <2> QED
    BY <1>5
<1> HIDE DEF iter, step
<1>7. r[0] = << >>
  <2>1. 1..0 = {} /\ 1..0 \in SUBSET D
    OBVIOUS
  <2> QED
    BY <1>1, <1>6, <2>1
<1>8. ASSUME NEW k \in 1..n
      PROVE  r[k] = FirstOfTask(r[k - 1], b[k])
  <2>1. 1..k \in SUBSET D /\ 1..k # {} /\ k \in Nat \ {0} /\ k - 1 \in 0..n
    <3> HIDE DEF n
    <3> QED
      BY <1>1
  <2>2. Max(1..k) = k /\ (1..k) \ {Max(1..k)} = 1..k - 1
    BY <2>1, MaxUpTo
  <2>3. iter[1..k] = Body(iter, 1..k)
    BY <1>6, <2>1
  <2>4. iter[1..k] = FirstOfTask(iter[1..k - 1], b[k])
    BY <2>1, <2>2, <2>3
  <2>5. r[k] = iter[1..k] /\ r[k - 1] = iter[1..k - 1]
    BY <2>1
  <2> QED
    BY <2>4, <2>5
<1>9. FoldLeft(FirstOfTask, << >>, b) = r[n]
  BY <1>1, <1>2
<1> HIDE DEF r
<1> QED
  BY <1>7, <1>8, <1>9

\* The m-th of q is the first of its task.
IsFirst(q, m) == \A j \in 1..m - 1 : q[j].task # q[m].task

\* What is chosen of the first k.
ChosenOf(c, q, k) ==
  /\ c \in Seq(AnchorIds)
  /\ \A i \in 1..Len(c) : \E m \in 1..k : c[i] = q[m] /\ IsFirst(q, m)
  /\ \A m \in 1..k : \E i \in 1..Len(c) : c[i].task = q[m].task
  /\ \A m \in 1..k : IsFirst(q, m) => \E i \in 1..Len(c) : c[i] = q[m]
  /\ \A i, j \in 1..Len(c) : i < j => OrderKey[c[i]] < OrderKey[c[j]]

Ascending(q) ==
  \A i, j \in 1..Len(q) : i < j => OrderKey[q[i]] < OrderKey[q[j]]

LEMMA OneMoreChoice ==
  ASSUME NEW q \in Seq(AnchorIds), Ascending(q), NEW k \in 1..Len(q), NEW c,
         ChosenOf(c, q, k - 1)
  PROVE  ChosenOf(FirstOfTask(c, q[k]), q, k)
<1>1. /\ c \in Seq(AnchorIds) /\ Len(c) \in Nat /\ DOMAIN c = 1..Len(c)
      /\ \A i \in 1..Len(c) : \E m \in 1..k - 1 : c[i] = q[m] /\ IsFirst(q, m)
      /\ \A m \in 1..k - 1 : \E i \in 1..Len(c) : c[i].task = q[m].task
      /\ \A m \in 1..k - 1 : IsFirst(q, m) => \E i \in 1..Len(c) : c[i] = q[m]
      /\ \A i, j \in 1..Len(c) : i < j => OrderKey[c[i]] < OrderKey[c[j]]
  BY DEF ChosenOf
<1>2. /\ k \in Nat /\ q[k] \in AnchorIds
      /\ \A m \in 1..k : m = k \/ m \in 1..k - 1
      /\ \A m \in 1..k - 1 : m \in 1..k /\ m \in 1..Len(q) /\ m < k
  OBVIOUS
<1>3. CASE \E i \in 1..Len(c) : c[i].task = q[k].task
  <2>1. FirstOfTask(c, q[k]) = c
    BY <1>1, <1>3 DEF FirstOfTask
  <2>2. ~IsFirst(q, k)
    BY <1>1, <1>3 DEF IsFirst
  <2> QED
    BY <1>1, <1>2, <1>3, <2>1, <2>2 DEF ChosenOf
<1>4. CASE \A i \in 1..Len(c) : c[i].task # q[k].task
  <2> DEFINE d == Append(c, q[k])
  <2>1. FirstOfTask(c, q[k]) = d
    BY <1>1, <1>4 DEF FirstOfTask
  <2>2. /\ d \in Seq(AnchorIds) /\ Len(d) = Len(c) + 1
        /\ d[Len(c) + 1] = q[k] /\ \A i \in 1..Len(c) : d[i] = c[i]
    BY <1>1, <1>2
  <2> HIDE DEF d
  <2> PICK n \in Nat : n = Len(c)
    BY <1>1
  <2>3. /\ Len(d) = n + 1 /\ d[n + 1] = q[k] /\ \A i \in 1..n : d[i] = c[i]
        /\ \A i \in 1..n + 1 : i = n + 1 \/ i \in 1..n
        /\ \A i \in 1..n : i \in 1..n + 1
        /\ n + 1 \in 1..n + 1
    BY <2>2
  <2>4. IsFirst(q, k)
    BY <1>1, <1>4 DEF IsFirst
  <2>5. ASSUME NEW i \in 1..n + 1
        PROVE  \E m \in 1..k : d[i] = q[m] /\ IsFirst(q, m)
    <3>1. CASE i \in 1..n
      <4>1. PICK m \in 1..k - 1 : c[i] = q[m] /\ IsFirst(q, m)
        BY <1>1, <3>1
      <4> QED
        BY <1>2, <2>3, <3>1, <4>1
    <3>2. CASE i = n + 1
      <4>1. k \in 1..k
        OBVIOUS
      <4> QED
        BY <2>3, <2>4, <3>2, <4>1
    <3> QED
      BY <2>3, <3>1, <3>2
  <2>6. ASSUME NEW m \in 1..k PROVE \E i \in 1..n + 1 : d[i].task = q[m].task
    <3>1. CASE m = k
      BY <2>3, <3>1
    <3>2. CASE m \in 1..k - 1
      <4>1. PICK i \in 1..n : c[i].task = q[m].task
        BY <1>1, <3>2
      <4> QED
        BY <2>3, <4>1
    <3> QED
      BY <1>2, <3>1, <3>2
  <2>7. ASSUME NEW m \in 1..k, IsFirst(q, m) PROVE \E i \in 1..n + 1 : d[i] = q[m]
    <3>1. CASE m = k
      BY <2>3, <3>1
    <3>2. CASE m \in 1..k - 1
      <4>1. PICK i \in 1..n : c[i] = q[m]
        BY <1>1, <2>7, <3>2
      <4> QED
        BY <2>3, <4>1
    <3> QED
      BY <1>2, <3>1, <3>2
  <2>8. ASSUME NEW i \in 1..n + 1, NEW j \in 1..n + 1, i < j
        PROVE  OrderKey[d[i]] < OrderKey[d[j]]
    <3>1. CASE j \in 1..n
      <4>1. i \in 1..n
        BY <2>8, <3>1
      <4> QED
        BY <1>1, <2>3, <2>8, <3>1, <4>1
    <3>2. CASE j = n + 1
      <4>1. i \in 1..n
        BY <2>8, <3>2
      <4>2. PICK m \in 1..k - 1 : c[i] = q[m]
        BY <1>1, <4>1
      <4>3. OrderKey[q[m]] < OrderKey[q[k]]
        BY <1>2 DEF Ascending
      <4> QED
        BY <2>3, <3>2, <4>1, <4>2, <4>3
    <3> QED
      BY <2>3, <3>1, <3>2
  <2> QED
    BY <2>1, <2>2, <2>3, <2>5, <2>6, <2>7, <2>8 DEF ChosenOf
<1> QED
  BY <1>3, <1>4

\* The selection is the first choices of the log, in the order of their keys.
LEMMA SelectionIs ==
  ASSUME NEW l \in Seq(Rollouts), NEW c, c = SelectOnePerTask(Candidates(l))
  PROVE  /\ c \in Seq(AnchorIds) /\ Ascending(c)
         /\ \A a : a \in FirstChoices(l) <=> \E i \in 1..Len(c) : c[i] = a
<1> PICK e : e = Eligible(Candidates(l))
  OBVIOUS
<1>0. IsFiniteSet(e) /\ e \in SUBSET AnchorIds
  BY EligibleAre
<1>1. e = {a \in AnchorIds : EligibleIn(l, a)}
  BY EligibleAre
<1> PICK q : q = InKeyOrder(e)
  OBVIOUS
<1>2. PICK n \in Nat :
        /\ q \in [1..n -> e] /\ q \in Seq(AnchorIds) /\ Len(q) = n
        /\ \A i, j \in 1..n : i < j => OrderKey[q[i]] < OrderKey[q[j]]
        /\ \A a \in e : \E i \in 1..n : q[i] = a
  <2>1. PICK n \in Nat : Sorts(q, e, n)
    BY <1>0, InKeyOrderIs
  <2> QED
    BY <2>1 DEF Sorts
<1>3. Ascending(q)
  BY <1>2 DEF Ascending
<1>4. c = FoldLeft(FirstOfTask, << >>, q)
  BY Zenon DEF SelectOnePerTask
<1>5. \E r : /\ r[0] = << >>
             /\ \A k \in 1..n : r[k] = FirstOfTask(r[k - 1], q[k])
             /\ c = r[n]
  <2>1. \E r : /\ r[0] = << >>
               /\ \A k \in 1..Len(q) : r[k] = FirstOfTask(r[k - 1], q[k])
               /\ FoldLeft(FirstOfTask, << >>, q) = r[Len(q)]
    BY <1>2, SelectionRun
  <2>2. Len(q) = n
    BY <1>2
  <2> QED
    BY <1>4, <2>1, <2>2, Zenon
<1> PICK r : /\ r[0] = << >>
             /\ \A k \in 1..n : r[k] = FirstOfTask(r[k - 1], q[k])
             /\ c = r[n]
  BY <1>5
<1> DEFINE N == {k \in Nat : k <= n => ChosenOf(r[k], q, k)}
<1>6. 0 \in N
  <2>1. << >> \in Seq(AnchorIds) /\ 1..0 = {} /\ Len(<< >>) = 0
    OBVIOUS
  <2>2. ChosenOf(<< >>, q, 0)
    BY <2>1 DEF ChosenOf
  <2>3. r[0] = << >>
    OBVIOUS
  <2> QED
    BY <2>2, <2>3
<1>7. ASSUME NEW k \in Nat, k \in N PROVE k + 1 \in N
  <2> SUFFICES ASSUME k + 1 <= n PROVE ChosenOf(r[k + 1], q, k + 1)
    OBVIOUS
  <2>1. k + 1 \in 1..n /\ (k + 1) - 1 = k /\ n = Len(q) /\ q \in Seq(AnchorIds)
    BY <1>2
  <2>2. ChosenOf(r[(k + 1) - 1], q, (k + 1) - 1)
    BY <1>7, <2>1
  <2>3. r[k + 1] = FirstOfTask(r[(k + 1) - 1], q[k + 1])
    BY <2>1
  <2> HIDE DEF N
  <2> QED
    BY <1>3, <2>1, <2>2, <2>3, OneMoreChoice
<1> HIDE DEF N
<1>8. Nat \subseteq N
  BY <1>6, <1>7, NatSet
<1>9. ChosenOf(c, q, n)
  BY <1>8 DEF N
<1>10. /\ c \in Seq(AnchorIds)
       /\ \A i \in 1..Len(c) : \E m \in 1..n : c[i] = q[m] /\ IsFirst(q, m)
       /\ \A m \in 1..n : IsFirst(q, m) => \E i \in 1..Len(c) : c[i] = q[m]
       /\ Ascending(c)
  BY <1>9 DEF ChosenOf, Ascending
<1>11. FirstChoices(l) = {a \in e : \A b \in e : b.task = a.task => OrderKey[a] <= OrderKey[b]}
  BY <1>1, Zenon DEF FirstChoices
<1>12. \A m \in 1..n : q[m] \in e /\ q[m] \in AnchorIds /\ OrderKey[q[m]] \in Nat
  BY <1>0, <1>2, KeysAreNat
<1>13. ASSUME NEW m \in 1..n
       PROVE  IsFirst(q, m) <=> q[m] \in FirstChoices(l)
  <2>1. ASSUME IsFirst(q, m), NEW b \in e, b.task = q[m].task
        PROVE  OrderKey[q[m]] <= OrderKey[b]
    <3>1. PICK j \in 1..n : b = q[j]
      BY <1>2
    <3>2. j \notin 1..m - 1
      BY <2>1, <3>1 DEF IsFirst
    <3>3. m = j \/ m < j
      BY <3>2
    <3> QED
      BY <1>2, <1>12, <3>1, <3>3
  <2>2. ASSUME q[m] \in FirstChoices(l), NEW j \in 1..m - 1, q[j].task = q[m].task
        PROVE  FALSE
    <3>1. j \in 1..n /\ j < m
      OBVIOUS
    <3>2. OrderKey[q[j]] < OrderKey[q[m]]
      BY <1>2, <3>1
    <3>3. OrderKey[q[m]] <= OrderKey[q[j]]
      BY <1>11, <1>12, <2>2, <3>1
    <3> QED
      BY <1>12, <3>1, <3>2, <3>3
  <2> QED
    BY <1>11, <1>12, <2>1, <2>2 DEF IsFirst
<1>14. ASSUME NEW a
       PROVE  a \in FirstChoices(l) <=> \E i \in 1..Len(c) : c[i] = a
  <2>1. ASSUME a \in FirstChoices(l) PROVE \E i \in 1..Len(c) : c[i] = a
    <3>1. PICK m \in 1..n : q[m] = a
      BY <1>2, <1>11, <2>1
    <3> QED
      BY <1>10, <1>13, <2>1, <3>1
  <2>2. ASSUME NEW i \in 1..Len(c) PROVE c[i] \in FirstChoices(l)
    BY <1>10, <1>13
  <2> QED
    BY <2>1, <2>2
<1> QED
  BY <1>10, <1>14

\* A file that holds the selection up to some line, and perhaps a torn one.
Beginning(file, c) ==
  \E n \in 0..Len(c) :
    \/ file = SubSeq(c, 1, n)
    \/ file = Append(SubSeq(c, 1, n), Torn)

\* Once stage B has opened the snapshots file, its log is whole, nothing is
\* added to it, and the file is a beginning of what that log selects.
AnchorsInv ==
  /\ stagePc # "down" => status = "running"
  /\ stage = "b" /\ stagePc \in {"selected", "summarising"} =>
       anchors = SelectOnePerTask(Candidates(trajectories))
  /\ stage = "b" /\ anchors # None =>
       /\ Whole(trajectories) /\ Len(trajectories) = Planned
       /\ Beginning(anchors, SelectOnePerTask(Candidates(trajectories)))
       /\ status = "complete" =>
            anchors = SelectOnePerTask(Candidates(trajectories))

LEMMA WholeIsSeq ==
  ASSUME NEW S, NEW l \in Seq(S), Whole(l)
  PROVE  l \in Seq(Rollouts)
<1>1. DOMAIN l = 1..Len(l) /\ Len(l) \in Nat /\ \A i \in 1..Len(l) : l[i] \in Rollouts
  BY DEF Whole
<1>2. l = [i \in 1..Len(l) |-> l[i]]
  BY <1>1
<1> QED
  BY <1>1, <1>2

\* Of a beginning of the first choices, the property.
LEMMA BeginningIs ==
  ASSUME LogsInv, AnchorsInv
  PROVE  AnchorsAreFirstChoices
<1> SUFFICES ASSUME stage = "b", anchors # None
             PROVE  LET chosen == FirstChoices(trajectories)
                        whole == {i \in DOMAIN anchors : anchors[i] # Torn}
                    IN  /\ \A i \in DOMAIN anchors \ whole : i = Len(anchors)
                        /\ \A i \in whole : anchors[i] \in chosen
                        /\ \A i, j \in whole : i < j => OrderKey[anchors[i]] < OrderKey[anchors[j]]
                        /\ \A i \in whole, a \in chosen :
                             OrderKey[a] < OrderKey[anchors[i]] => \E j \in whole : anchors[j] = a
                        /\ status = "complete" => ToSet(anchors) = chosen
  BY Zenon DEF AnchorsAreFirstChoices
<1> PICK c : c = SelectOnePerTask(Candidates(trajectories))
  OBVIOUS
<1>1. /\ Beginning(anchors, c) /\ Whole(trajectories)
      /\ status = "complete" => anchors = c
  BY DEF AnchorsInv
<1>2. trajectories \in Seq(Rollouts)
  BY <1>1, WholeIsSeq DEF LogsInv
<1>3. /\ c \in Seq(AnchorIds) /\ Ascending(c)
      /\ \A a : a \in FirstChoices(trajectories) <=> \E i \in 1..Len(c) : c[i] = a
  BY <1>2, SelectionIs
<1> PICK chosen : chosen = FirstChoices(trajectories)
  OBVIOUS
<1> DEFINE whole == {i \in DOMAIN anchors : anchors[i] # Torn}
<1>4. PICK n \in 0..Len(c) : anchors = SubSeq(c, 1, n) \/ anchors = Append(SubSeq(c, 1, n), Torn)
  BY <1>1 DEF Beginning
<1>5. /\ Len(c) \in Nat /\ n \in Nat /\ n <= Len(c) /\ DOMAIN c = 1..Len(c)
      /\ \A i \in 1..Len(c) : c[i] \in AnchorIds /\ c[i] \in chosen
  BY <1>3
<1>6. \A a \in AnchorIds : a # Torn
  <2> SUFFICES ASSUME NEW a \in AnchorIds, a = Torn PROVE FALSE
    OBVIOUS
  <2>1. "task" \in DOMAIN a
    BY DEF AnchorIds
  <2>2. "task" \notin DOMAIN Torn
    BY DEF Torn
  <2> QED
    BY <2>1, <2>2
<1>7. /\ DOMAIN anchors = 1..Len(anchors) /\ Len(anchors) \in {n, n + 1}
      /\ \A i \in 1..n : anchors[i] = c[i]
      /\ Len(anchors) = n + 1 => anchors[n + 1] = Torn
  <2> PICK s : s = SubSeq(c, 1, n)
    OBVIOUS
  <2>1. s \in Seq(AnchorIds) /\ Len(s) = n /\ \A i \in 1..n : s[i] = c[i]
    BY <1>3, <1>5
  <2>2. CASE anchors = s
    BY <1>5, <2>1, <2>2
  <2>3. CASE anchors = Append(s, Torn)
    <3>1. s \in Seq(AnchorIds \cup {Torn})
      BY <2>1
    <3>2. /\ Len(anchors) = n + 1 /\ anchors[n + 1] = Torn
          /\ DOMAIN anchors = 1..n + 1 /\ \A i \in 1..n : anchors[i] = s[i]
      BY <1>5, <2>1, <2>3, <3>1
    <3> QED
      BY <1>5, <2>1, <3>2
  <2> QED
    BY <1>4, <2>2, <2>3
<1>8. whole = 1..n
  <2>1. ASSUME NEW i \in 1..n PROVE i \in DOMAIN anchors /\ anchors[i] # Torn
    <3>1. i \in 1..Len(c)
      BY <1>5
    <3>0. i \in 1..Len(anchors)
      <4>1. CASE Len(anchors) = n
        BY <4>1
      <4>2. CASE Len(anchors) = n + 1
        BY <1>5, <4>2
      <4> QED
        BY <1>7, <4>1, <4>2
    <3>2. anchors[i] = c[i]
      BY <1>7
    <3>3. c[i] \in AnchorIds
      BY <1>5, <3>1
    <3> QED
      BY <1>6, <1>7, <3>0, <3>2, <3>3
  <2>2. ASSUME NEW i \in DOMAIN anchors PROVE i \in 1..n \/ anchors[i] = Torn
    <3>1. i \in 1..Len(anchors)
      BY <1>7
    <3>2. CASE Len(anchors) = n
      BY <3>1, <3>2
    <3>3. CASE Len(anchors) = n + 1
      <4>1. i \in 1..n + 1
        BY <3>1, <3>3
      <4>2. i \in 1..n \/ i = n + 1
        BY <1>5, <4>1
      <4> QED
        BY <1>7, <3>3, <4>2
    <3> QED
      BY <1>7, <3>2, <3>3
  <2>3. \A i : i \in whole <=> i \in 1..n
    BY <2>1, <2>2, Zenon
  <2> QED
    BY <2>3
<1> HIDE DEF whole
<1>9. ASSUME NEW i \in DOMAIN anchors \ whole
      PROVE  i = Len(anchors)
  <2>1. i \in 1..Len(anchors) /\ i \notin 1..n
    BY <1>7, <1>8
  <2>2. Len(anchors) # n
    BY <2>1
  <2>3. Len(anchors) = n + 1
    BY <1>7, <2>2
  <2>4. i \in 1..n + 1
    BY <2>1, <2>3
  <2> QED
    BY <1>5, <2>1, <2>3, <2>4
<1>10. ASSUME NEW i \in whole
       PROVE  anchors[i] = c[i] /\ i \in 1..Len(c) /\ anchors[i] \in chosen
  <2>1. i \in 1..n
    BY <1>8
  <2>2. i \in 1..Len(c)
    BY <1>5, <2>1
  <2>3. anchors[i] = c[i]
    BY <1>7, <2>1
  <2> QED
    BY <1>5, <2>2, <2>3
<1>11. \A i, j \in whole : i < j => OrderKey[anchors[i]] < OrderKey[anchors[j]]
  BY <1>3, <1>10 DEF Ascending
<1>12. ASSUME NEW i \in whole, NEW a \in chosen, OrderKey[a] < OrderKey[anchors[i]]
       PROVE  \E j \in whole : anchors[j] = a
  <2>1. PICK j \in 1..Len(c) : c[j] = a
    BY <1>3
  <2>2. OrderKey[c[j]] < OrderKey[c[i]] /\ i \in 1..Len(c) /\ i \in 1..n
    BY <1>8, <1>10, <1>12, <2>1
  <2>3. OrderKey[c[j]] \in Nat /\ OrderKey[c[i]] \in Nat
    BY <1>5, <2>2, KeysAreNat
  <2>4. ~ (i < j) /\ i # j
    BY <1>3, <2>2, <2>3 DEF Ascending
  <2>5. j \in 1..n
    BY <1>5, <2>2, <2>4
  <2> QED
    BY <1>7, <1>8, <2>1, <2>5
<1>13. status = "complete" => ToSet(anchors) = chosen
  <2> SUFFICES ASSUME status = "complete" PROVE ToSet(anchors) = chosen
    OBVIOUS
  <2>1. anchors = c
    BY <1>1
  <2> QED
    BY <1>3, <1>5, <2>1 DEF ToSet
<1> HIDE DEF whole
<1> QED
  BY <1>9, <1>10, <1>11, <1>12, <1>13 DEF whole

LEMMA PrefixIsBeginning ==
  ASSUME NEW c \in Seq(AnchorIds), NEW file,
         \/ file = c
         \/ \E part \in Prefixes1(c) : file \in {part, Append(part, Torn)}
  PROVE  Beginning(file, c)
<1>1. Len(c) \in Nat
  OBVIOUS
<1>2. CASE file = c
  <2>1. c = SubSeq(c, 1, Len(c)) /\ Len(c) \in 0..Len(c)
    OBVIOUS
  <2> QED
    BY <1>2, <2>1 DEF Beginning
<1>3. CASE \E part \in Prefixes1(c) : file \in {part, Append(part, Torn)}
  <2>1. PICK n \in 0 .. Len(c) - 1 : file \in {SubSeq(c, 1, n), Append(SubSeq(c, 1, n), Torn)}
    BY <1>3 DEF Prefixes1
  <2>2. n \in 0..Len(c)
    BY <1>1
  <2> QED
    BY <2>1, <2>2 DEF Beginning
<1> QED
  BY <1>2, <1>3

\* What the log of a run past its rollouts selects.
LEMMA SelectionHere ==
  ASSUME LogsInv, stagePc \in {"snapshots", "selected", "summarising"}
  PROVE  /\ Whole(trajectories) /\ Len(trajectories) = Planned
         /\ SelectOnePerTask(Candidates(trajectories)) \in Seq(AnchorIds)
<1>1. Whole(trajectories) /\ Len(trajectories) = Planned
  BY DEF LogsInv
<1>2. trajectories \in Seq(Rollouts)
  BY <1>1, WholeIsSeq DEF LogsInv
<1> QED
  BY <1>1, <1>2, SelectionIs

\* The steps after which the snapshots file is as it was.
LEMMA AnchorsKept ==
  ASSUME AnchorsInv, UNCHANGED <<stage, anchors, trajectories>>,
         stagePc' # "down" => status' = "running",
         status' = "complete" => status = "complete",
         stagePc' \in {"selected", "summarising"} =>
           stagePc \in {"selected", "summarising"}
  PROVE  AnchorsInv'
<1> PICK c : c = SelectOnePerTask(Candidates(trajectories))
  OBVIOUS
<1>1. /\ SelectOnePerTask(Candidates(trajectories))' = c
      /\ Whole(trajectories)' = Whole(trajectories)
      /\ Beginning(anchors, SelectOnePerTask(Candidates(trajectories)))' = Beginning(anchors, c)
      /\ Planned' = Planned
  BY DEF Whole, Planned, Beginning
<1>2. /\ stage = "b" /\ stagePc \in {"selected", "summarising"} => anchors = c
      /\ stage = "b" /\ anchors # None =>
           /\ Whole(trajectories) /\ Len(trajectories) = Planned
           /\ Beginning(anchors, c)
           /\ status = "complete" => anchors = c
  BY DEF AnchorsInv
<1> QED
  BY <1>1, <1>2 DEF AnchorsInv

\* The snapshots file gets the selection, or a beginning of it.
LEMMA AnchorsWritten ==
  ASSUME LogsInv, stagePc = "snapshots", stage' = stage,
         trajectories' = trajectories,
         status' # "complete", stagePc' # "down" => status' = "running",
         \/ anchors' = SelectOnePerTask(Candidates(trajectories))
         \/ /\ stagePc' = "down"
            /\ \E part \in Prefixes1(SelectOnePerTask(Candidates(trajectories))) :
                 anchors' \in {part, Append(part, Torn)}
  PROVE  AnchorsInv'
<1> PICK c : c = SelectOnePerTask(Candidates(trajectories))
  OBVIOUS
<1>1. /\ SelectOnePerTask(Candidates(trajectories))' = c
      /\ Whole(trajectories)' = Whole(trajectories)
      /\ Beginning(anchors, SelectOnePerTask(Candidates(trajectories)))' = Beginning(anchors', c)
      /\ Planned' = Planned
  BY DEF Whole, Planned, Beginning
<1>2. Whole(trajectories) /\ Len(trajectories) = Planned /\ c \in Seq(AnchorIds)
  BY SelectionHere
<1>3. Beginning(anchors', c)
  BY <1>2, PrefixIsBeginning
<1>4. stagePc' # "down" => anchors' = c
  OBVIOUS
<1> QED
  BY <1>1, <1>2, <1>3, <1>4 DEF AnchorsInv

LEMMA AnchorsInvariant == Spec => []AnchorsInv
<1>1. Init => AnchorsInv
  <2> SUFFICES ASSUME Init PROVE AnchorsInv
    OBVIOUS
  <2>1. stagePc = "down" /\ (stage = "b" => anchors = None)
    BY DEF Init, StageInit
  <2> QED
    BY <2>1 DEF AnchorsInv
<1>2. ASSUME LogsInv, AnchorsInv, [Next]_vars
      PROVE  AnchorsInv'
  <2>0. stagePc # "down" => status = "running"
    BY <1>2 DEF AnchorsInv
  <2>1. CASE UNCHANGED stageVars
    BY <1>2, <2>0, <2>1, AnchorsKept DEF stageVars, stageFiles
  <2>2. CASE StageNext
    <3>1. CASE StartStage \/ BeginStage \/ Rolled \/ Pool \/ FailStage
      <4>1. /\ UNCHANGED <<stage, anchors, trajectories>>
            /\ stagePc' # "down" => status' = "running"
            /\ status' # "complete"
            /\ stagePc' \in {"selected", "summarising"} =>
                 stage = "a" /\ stagePc' = "summarising"
        BY <2>0, <3>1 DEF StartStage, BeginStage, Rolled, Pool, FailStage, stageFiles
      <4>2. CASE stage = "b"
        BY <1>2, <4>1, <4>2, AnchorsKept
      <4> QED
        BY <4>1, <4>2 DEF AnchorsInv
    <3>2. CASE Roll
      <4>1. /\ stagePc = "rolling" /\ Len(trajectories) < Planned
            /\ UNCHANGED <<stage, anchors, status, stagePc>>
        BY <3>2 DEF Roll, Position
      <4>2. stage = "b" => anchors = None
        <5>1. Planned \in Nat /\ Len(trajectories) \in Nat
          BY <1>2, PlannedPlaces DEF LogsInv
        <5> QED
          BY <1>2, <4>1, <5>1 DEF AnchorsInv
      <4> QED
        BY <2>0, <4>1, <4>2 DEF AnchorsInv
    <3>3. CASE WriteSnapshots
      BY <1>2, <2>0, <3>3, AnchorsWritten DEF WriteSnapshots
    <3>4. CASE WriteSelected
      BY <1>2, <2>0, <3>4, AnchorsKept DEF WriteSelected
    <3>5. CASE FinishStage
      <4> PICK c : c = SelectOnePerTask(Candidates(trajectories))
        OBVIOUS
      <4>1. /\ stagePc = "summarising" /\ stagePc' = "down"
            /\ UNCHANGED <<stage, trajectories, anchors>>
        BY <3>5 DEF FinishStage
      <4>2. stage = "b" => anchors = c
        BY <1>2, <4>1 DEF AnchorsInv
      <4>3. Whole(trajectories) /\ Len(trajectories) = Planned /\ c \in Seq(AnchorIds)
        BY <1>2, <4>1, SelectionHere
      <4>4. Beginning(c, c)
        BY <4>3, PrefixIsBeginning
      <4>5. /\ SelectOnePerTask(Candidates(trajectories))' = c
            /\ Whole(trajectories)' = Whole(trajectories)
            /\ Beginning(anchors, SelectOnePerTask(Candidates(trajectories)))' = Beginning(anchors, c)
            /\ Planned' = Planned
        BY <4>1 DEF Whole, Planned, Beginning
      <4> QED
        BY <4>1, <4>2, <4>3, <4>4, <4>5 DEF AnchorsInv
    <3>6. CASE StopStage
      <4>1. /\ stagePc # "down" /\ stagePc' = "down" /\ stage' = stage
            /\ status' # "complete"
        BY <2>0, <3>6 DEF StopStage
      <4>2. CASE UNCHANGED <<anchors, trajectories>>
        BY <1>2, <4>1, <4>2, AnchorsKept
      <4>3. CASE /\ stagePc = "rolling" /\ anchors' = anchors
                 /\ Position < Planned
        <5>1. Planned \in Nat /\ Len(trajectories) \in Nat
          BY <1>2, PlannedPlaces DEF LogsInv
        <5>2. stage = "b" => anchors = None
          BY <1>2, <4>3, <5>1 DEF AnchorsInv, Position
        <5> QED
          BY <4>1, <4>3, <5>2 DEF AnchorsInv
      <4>4. CASE /\ stagePc = "snapshots" /\ trajectories' = trajectories
                 /\ \E part \in Prefixes1(SelectOnePerTask(Candidates(trajectories))) :
                      anchors' \in {part, Append(part, Torn)}
        BY <1>2, <4>1, <4>4, AnchorsWritten
      <4> QED
        BY <3>6, <4>2, <4>3, <4>4 DEF StopStage
    <3> QED
      BY <2>2, <3>1, <3>2, <3>3, <3>4, <3>5, <3>6 DEF StageNext
  <2>3. CASE CNext
    <3>1. UNCHANGED stageVars
      BY <2>3 DEF CNext, Start, Begin, Skip, Continue, Finish, Raise, Fail, Crash
    <3> QED
      BY <2>1, <3>1
  <2> QED
    BY <1>2, <2>1, <2>2, <2>3 DEF Next, vars
<1> QED
  BY <1>1, <1>2, LogsInvariant, PTL DEF Spec, vars

\* However stage B (run_stage_ab, _stage_b_pool) was killed and started again:
\* the snapshots that stage C is given are, but for a last torn line, the
\* beginning, and once the stage is complete the whole, of what
\* select_one_per_task chooses of the rollouts in the log: for every task with
\* an executed error that leaves room for a branch, the first such error of the
\* candidate with the smallest key.
THEOREM AnchorsCorrect == Spec => []AnchorsAreFirstChoices
<1>1. LogsInv /\ AnchorsInv => AnchorsAreFirstChoices
  BY BeginningIs
<1> QED
  BY <1>1, LogsInvariant, AnchorsInvariant, PTL
=============================================================================
