-------------------------- MODULE Processes_proofs --------------------------
(***************************************************************************)
(* Proofs about the two places where the program waits for another         *)
(* process.  The symbolic worker, for any number of requests, workers and  *)
(* interrupted calls, with workers that die anywhere: a verdict is the     *)
(* evidence's on the pair it answers, and the parent leaves no worker      *)
(* comparing behind it.  A tool call, for every result size, deadline and  *)
(* kill of the child: the code says what happened to the program, and no   *)
(* child outlives its call.                                                *)
(***************************************************************************)
EXTENDS Processes, TLAPS

-----------------------------------------------------------------------------
(* The symbolic worker.                                                     *)

Ids == 1..Len(asked)
Verdict == [id : Nat, status : Status, fired : BOOLEAN]

\* What the proofs need of the types.
WorkerType ==
  /\ asked \in Seq(BOOLEAN)
  /\ tasks \in Seq(Nat)
  /\ results \in Seq(Verdict)
  /\ status \in Status \cup {None}
  /\ stage \in {"disarm", "send"} => status \in Status
  /\ failure \in Failed \cup {None}
  /\ started \in Nat
  /\ process \in 0..started
  /\ alive \subseteq 1..started

\* Wherever a request is, in the pipe or with the worker, it was asked.
RequestsAreKnown ==
  /\ \A i \in DOMAIN tasks : tasks[i] \in 0..Len(asked)
  /\ stage \in Comparing \cup {"send"} => item \in Ids

\* Wherever a verdict "correct" is, with the worker, in the pipe or returned,
\* the evidence agreed on the pair it belongs to.
VerdictsAreJustified ==
  /\ status = "correct" => stage \in {"disarm", "send"} /\ asked[item]
  /\ \A i \in DOMAIN results :
       results[i].id \in Ids /\ (results[i].status = "correct" => asked[results[i].id])
  /\ pc \in {"terminated", "killed"} => failure \in Failed
  /\ answer.from # None => answer.from = answer.request
  /\ answer.status = "correct" => answer.request \in Ids /\ asked[answer.request]

\* A worker that the parent is about to let go has been signalled.
LetGoIsSignalled ==
  /\ NoOrphan
  /\ pc \in {"terminated", "killed", "closing"} /\ process \in alive
       => process \in doomed

WorkerInv ==
  WorkerType /\ RequestsAreKnown /\ VerdictsAreJustified /\ LetGoIsSignalled
-----------------------------------------------------------------------------
\* A verdict of the parent's own is never "correct".
LEMMA FailIsJustified ==
  ASSUME NEW verdict \in Failed, Fail(verdict)
  PROVE  /\ pc' = "idle" /\ failure' = None
         /\ answer'.from = None /\ answer'.status # "correct"
BY WorkerAssumption DEF Fail, NoAnswer, Failed

\* What a step that leaves the pipes and the requests alone has to show.
LEMMA ParentOnly ==
  ASSUME WorkerInv, UNCHANGED <<asked, started, alive, tasks, results, worker>>,
         process' \in 0..started, failure' \in Failed \cup {None},
         pc' \in {"terminated", "killed"} => failure' \in Failed,
         \/ answer' = answer
         \/ answer'.from = None /\ answer'.status # "correct",
         LetGoIsSignalled'
  PROVE  WorkerInv'
<1> USE DEF WorkerInv, worker
<1>1. WorkerType'
  BY DEF WorkerType
<1>2. RequestsAreKnown'
  BY DEF RequestsAreKnown, Ids
<1>3. VerdictsAreJustified'
  <2>1. answer'.from # None => answer'.from = answer'.request
    BY DEF VerdictsAreJustified
  <2>2. answer'.status = "correct" => answer'.request \in Ids /\ asked[answer'.request]
    BY DEF VerdictsAreJustified
  <2> QED
    BY <2>1, <2>2 DEF VerdictsAreJustified, Ids
<1> QED
  BY <1>1, <1>2, <1>3

LEMMA RestartStep ==
  ASSUME WorkerInv, NEW verdict \in Failed, Restart(verdict),
         UNCHANGED <<asked, interrupts, started, alive, pipes, worker>>
  PROVE  WorkerInv'
<1> USE DEF WorkerInv
<1>1. CASE Alive /\ doomed' = doomed \cup {process} /\ pc' = "terminated"
           /\ failure' = verdict /\ UNCHANGED <<process, answer>>
  <2>1. LetGoIsSignalled'
    BY <1>1 DEF LetGoIsSignalled, NoOrphan
  <2> QED
    BY <1>1, <2>1, ParentOnly DEF WorkerType, pipes
<1>2. CASE ~Alive /\ process' = 0 /\ Fail(verdict) /\ UNCHANGED doomed
  <2>1. LetGoIsSignalled'
    BY <1>2, FailIsJustified DEF LetGoIsSignalled, NoOrphan, Alive
  <2>2. process' \in 0..started
    BY <1>2 DEF WorkerType
  <2> QED
    BY <1>2, <2>1, <2>2, FailIsJustified, ParentOnly DEF pipes
<1> QED
  BY <1>1, <1>2 DEF Restart

LEMMA ResetStep ==
  ASSUME WorkerInv, ~Alive, Reset("internal_error"),
         UNCHANGED <<asked, interrupts, started, alive, doomed, pipes, worker>>
  PROVE  WorkerInv'
<1> USE DEF WorkerInv
<1>1. Fail("internal_error") /\ process' = 0 /\ "internal_error" \in Failed
  BY DEF Reset, Failed
<1>2. LetGoIsSignalled'
  BY <1>1, FailIsJustified DEF LetGoIsSignalled, NoOrphan, Alive
<1>3. process' \in 0..started
  BY <1>1 DEF WorkerType
<1> QED
  BY <1>1, <1>2, <1>3, FailIsJustified, ParentOnly DEF pipes

\* Steps that move the parent and nothing else.
LEMMA MoveStep ==
  ASSUME WorkerInv,
         UNCHANGED <<asked, process, failure, started, alive, doomed, tasks, results, worker>>,
         pc' \notin {"terminated", "killed", "closing"},
         \/ answer' = answer
         \/ answer'.from = None /\ answer'.status # "correct"
  PROVE  WorkerInv'
<1> USE DEF WorkerInv
<1>1. LetGoIsSignalled'
  BY DEF LetGoIsSignalled, NoOrphan
<1> QED
  BY <1>1, ParentOnly DEF WorkerType
-----------------------------------------------------------------------------
(* The parent.                                                             *)

LEMMA CompareStep ==
  ASSUME WorkerInv, NEW agree \in BOOLEAN, Compare(agree) PROVE WorkerInv'
<1> USE DEF WorkerInv, pipes, worker
<1>1. /\ asked' = Append(asked, agree) /\ pc' = "ensuring"
      /\ UNCHANGED <<process, failure, answer, started, alive, doomed, tasks, results,
                     stage, item, status>>
  BY DEF Compare
<1>2. /\ asked' \in Seq(BOOLEAN) /\ Len(asked') = Len(asked) + 1 /\ Len(asked) \in Nat
      /\ \A i \in Ids : asked'[i] = asked[i]
  BY <1>1 DEF WorkerType, Ids
<1>3. Ids \subseteq Ids'
  BY <1>2 DEF Ids
<1>4. WorkerType'
  BY <1>1, <1>2 DEF WorkerType
<1>5. RequestsAreKnown'
  BY <1>1, <1>2, <1>3 DEF RequestsAreKnown
<1>6. VerdictsAreJustified'
  <2>1. status' = "correct" => stage' \in {"disarm", "send"} /\ asked'[item']
    BY <1>1, <1>2 DEF VerdictsAreJustified, RequestsAreKnown, Comparing
  <2>2. \A i \in DOMAIN results' :
          /\ results'[i].id \in Ids'
          /\ results'[i].status = "correct" => asked'[results'[i].id]
    BY <1>1, <1>2, <1>3 DEF VerdictsAreJustified
  <2> QED
    BY <1>1, <1>2, <1>3, <2>1, <2>2 DEF VerdictsAreJustified
<1>7. LetGoIsSignalled'
  BY <1>1 DEF LetGoIsSignalled, NoOrphan
<1> QED
  BY <1>4, <1>5, <1>6, <1>7

LEMMA StartWorkerStep == ASSUME WorkerInv, StartWorker PROVE WorkerInv'
<1> USE DEF WorkerInv
<1>1. /\ ~Alive /\ started' = started + 1 /\ process' = started + 1
      /\ alive' = alive \cup {started + 1} /\ pc' = "starting"
      /\ tasks' = << >> /\ results' = << >> /\ stage' = "starting" /\ status' = None
      /\ UNCHANGED <<asked, failure, answer, doomed>>
  BY DEF StartWorker
<1>2. WorkerType'
  <2>1. << >> \in Seq(Nat) /\ << >> \in Seq(Verdict)
    OBVIOUS
  <2> QED
    BY <1>1, <2>1 DEF WorkerType
<1>3. RequestsAreKnown'
  <2>1. DOMAIN tasks' = {}
    BY <1>1
  <2>2. stage' \notin Comparing \cup {"send"}
    BY <1>1 DEF Comparing
  <2> QED
    BY <2>1, <2>2 DEF RequestsAreKnown
<1>4. VerdictsAreJustified'
  BY <1>1, WorkerAssumption DEF VerdictsAreJustified, Ids
<1>5. LetGoIsSignalled'
  BY <1>1 DEF LetGoIsSignalled, NoOrphan, Alive
<1> QED
  BY <1>2, <1>3, <1>4, <1>5

LEMMA SendStep == ASSUME WorkerInv, Send PROVE WorkerInv'
<1> USE DEF WorkerInv, worker
<1>1. /\ tasks' = Append(tasks, Len(asked)) /\ pc' = "waiting"
      /\ UNCHANGED <<asked, process, failure, answer, started, alive, doomed, results,
                     stage, item, status>>
  BY DEF Send, Request
<1>2. Len(asked) \in Nat
  BY DEF WorkerType
<1>3. WorkerType'
  BY <1>1, <1>2 DEF WorkerType
<1>4. RequestsAreKnown'
  <2>1. \A i \in DOMAIN tasks' : tasks'[i] \in 0..Len(asked)
    BY <1>1, <1>2 DEF RequestsAreKnown, WorkerType
  <2> QED
    BY <1>1, <2>1 DEF RequestsAreKnown, Ids
<1>5. VerdictsAreJustified' /\ LetGoIsSignalled'
  BY <1>1 DEF VerdictsAreJustified, Ids, LetGoIsSignalled, NoOrphan
<1> QED
  BY <1>3, <1>4, <1>5

LEMMA ReceiveStep == ASSUME WorkerInv, Receive PROVE WorkerInv'
<1> USE DEF WorkerInv, worker
<1> DEFINE got == Head(results)
<1>1. /\ results # << >> /\ results' = Tail(results)
      /\ UNCHANGED <<asked, process, failure, started, alive, doomed, tasks, stage,
                     item, status>>
      /\ \/ UNCHANGED <<pc, answer>>
         \/ /\ got.id = Len(asked) /\ pc' = "idle"
            /\ answer' = [request |-> Len(asked), from |-> got.id,
                          status |-> got.status, fired |-> got.fired]
  BY DEF Receive, Request
<1>2. /\ results' \in Seq(Verdict) /\ got = results[1] /\ 1 \in DOMAIN results
      /\ \A i \in DOMAIN results' : i + 1 \in DOMAIN results /\ results'[i] = results[i + 1]
  BY <1>1 DEF WorkerType
<1>3. WorkerType' /\ RequestsAreKnown'
  BY <1>1, <1>2 DEF WorkerType, RequestsAreKnown, Ids
<1>4. VerdictsAreJustified'
  <2>1. got.id \in Ids /\ (got.status = "correct" => asked[got.id])
    BY <1>2 DEF VerdictsAreJustified
  <2> HIDE DEF got
  <2>2. /\ answer'.from # None => answer'.from = answer'.request
        /\ answer'.status = "correct" => answer'.request \in Ids /\ asked[answer'.request]
    BY <1>1, <2>1 DEF VerdictsAreJustified
  <2>3. \A i \in DOMAIN results' :
          /\ results'[i].id \in Ids
          /\ results'[i].status = "correct" => asked[results'[i].id]
    BY <1>2 DEF VerdictsAreJustified
  <2> QED
    BY <1>1, <2>2, <2>3 DEF VerdictsAreJustified, Ids
<1>5. LetGoIsSignalled'
  BY <1>1 DEF LetGoIsSignalled, NoOrphan
<1> QED
  BY <1>3, <1>4, <1>5

LEMMA JoinStep == ASSUME WorkerInv, Join PROVE WorkerInv'
<1> USE DEF WorkerInv
<1>1. UNCHANGED <<asked, started, alive, doomed, tasks, results, worker>>
  BY DEF Join, pipes
<1>2. CASE pc = "terminated" /\ Alive /\ pc' = "killed"
           /\ UNCHANGED <<process, failure, answer>>
  <2>1. LetGoIsSignalled'
    BY <1>1, <1>2 DEF LetGoIsSignalled, NoOrphan
  <2>2. failure' \in Failed
    BY <1>2 DEF VerdictsAreJustified
  <2> QED
    BY <1>1, <1>2, <2>1, <2>2, ParentOnly DEF WorkerType
<1>3. CASE /\ (pc = "terminated" /\ ~Alive) \/ pc = "killed"
           /\ process' = 0 /\ Fail(failure)
  <2>1. failure \in Failed
    BY <1>3 DEF VerdictsAreJustified
  <2>2. LetGoIsSignalled'
    BY <1>1, <1>3, <2>1, FailIsJustified DEF LetGoIsSignalled, NoOrphan, Alive
  <2>3. process' \in 0..started
    BY <1>3 DEF WorkerType
  <2> QED
    BY <1>1, <1>3, <2>1, <2>2, <2>3, FailIsJustified, ParentOnly
<1>4. CASE pc = "closing" /\ process' = 0 /\ pc' = "idle" /\ UNCHANGED <<failure, answer>>
  <2>1. LetGoIsSignalled'
    BY <1>1, <1>4 DEF LetGoIsSignalled, NoOrphan
  <2>2. process' \in 0..started /\ failure' \in Failed \cup {None}
    BY <1>4 DEF WorkerType
  <2> QED
    BY <1>1, <1>4, <2>1, <2>2, ParentOnly
<1> QED
  BY <1>2, <1>3, <1>4 DEF Join

LEMMA CloseStep == ASSUME WorkerInv, Close PROVE WorkerInv'
<1> USE DEF WorkerInv, worker
<1>1. /\ tasks' = IF Alive THEN Append(tasks, 0) ELSE tasks
      /\ doomed' = IF Alive THEN doomed \cup {process} ELSE doomed
      /\ pc' = "closing"
      /\ UNCHANGED <<asked, process, failure, answer, started, alive, results, stage,
                     item, status>>
  BY DEF Close, Stop
<1>2. Len(asked) \in Nat
  BY DEF WorkerType
<1>3. WorkerType'
  BY <1>1 DEF WorkerType
<1>4. RequestsAreKnown'
  <2>1. \A i \in DOMAIN tasks' : tasks'[i] \in 0..Len(asked)
    BY <1>1, <1>2 DEF RequestsAreKnown, WorkerType
  <2> QED
    BY <1>1, <2>1 DEF RequestsAreKnown, Ids
<1>5. VerdictsAreJustified' /\ LetGoIsSignalled'
  BY <1>1 DEF VerdictsAreJustified, Ids, LetGoIsSignalled, NoOrphan, Alive
<1> QED
  BY <1>3, <1>4, <1>5

LEMMA ParentInductive ==
  ASSUME WorkerInv, ParentStep \/ Interrupt \/ Close PROVE WorkerInv'
<1> USE DEF pipes, worker, parent
<1>1. CASE KeepWorker
  BY <1>1, MoveStep DEF KeepWorker
<1>2. CASE StartupPolled
  BY <1>2, MoveStep DEF StartupPolled
<1>3. CASE StartupCheck
  <2>1. CASE Alive
    BY <1>3, <2>1, MoveStep DEF StartupCheck
  <2>2. CASE ~Alive
    BY <1>3, <2>2, ResetStep DEF StartupCheck
  <2> QED
    BY <2>1, <2>2
<1>4. CASE StartupDeadline
  BY <1>4, RestartStep DEF StartupDeadline, Failed
<1>5. CASE Deadline
  BY <1>5, RestartStep DEF Deadline, Failed
<1>6. CASE Handshake
  <2>1. CASE Alive
    BY <1>6, <2>1, MoveStep DEF Handshake
  <2>2. CASE ~Alive
    <3>1. Fail("internal_error") /\ "internal_error" \in Failed
      BY <1>6, <2>2 DEF Handshake, Failed
    <3>2. LetGoIsSignalled'
      BY <1>6, <2>2, <3>1, FailIsJustified
         DEF Handshake, WorkerInv, LetGoIsSignalled, NoOrphan
    <3>3. process' \in 0..started
      BY <1>6 DEF Handshake, WorkerInv, WorkerType
    <3>4. UNCHANGED <<asked, started, alive, tasks, results, worker>>
      BY <1>6 DEF Handshake
    <3> QED
      BY <3>1, <3>2, <3>3, <3>4, FailIsJustified, ParentOnly
  <2> QED
    BY <2>1, <2>2
<1>7. CASE SendRaises
  <2>1. answer'.from = None /\ answer'.status # "correct"
    BY <1>7 DEF SendRaises, NoAnswer
  <2> QED
    BY <1>7, <2>1, MoveStep DEF SendRaises
<1>8. CASE Polled
  BY <1>8, MoveStep DEF Polled
<1>9. CASE Check
  <2>1. CASE Alive
    BY <1>9, <2>1, MoveStep DEF Check
  <2>2. CASE ~Alive
    BY <1>9, <2>2, ResetStep DEF Check
  <2> QED
    BY <2>1, <2>2
<1>10. CASE EndOfResults
  BY <1>10, ResetStep DEF EndOfResults
<1>11. CASE Interrupt
  <2>1. answer'.from = None /\ answer'.status # "correct"
    BY <1>11, WorkerAssumption DEF Interrupt, NoAnswer
  <2>2. LetGoIsSignalled'
    BY <1>11 DEF Interrupt, WorkerInv, LetGoIsSignalled, NoOrphan
  <2>3. process' \in 0..started /\ failure' = None /\ pc' = "idle"
    BY <1>11 DEF Interrupt, WorkerInv, WorkerType
  <2>4. UNCHANGED <<asked, started, alive, tasks, results, worker>>
    BY <1>11 DEF Interrupt
  <2> QED
    BY <2>1, <2>2, <2>3, <2>4, ParentOnly
<1> QED
  BY <1>1, <1>2, <1>3, <1>4, <1>5, <1>6, <1>7, <1>8, <1>9, <1>10, <1>11,
     StartWorkerStep, SendStep, ReceiveStep, JoinStep, CloseStep DEF ParentStep
-----------------------------------------------------------------------------
(* The worker.                                                             *)

\* A step of the comparison: it goes on, or reaches a verdict that is correct
\* only if the evidence agrees.
LEMMA ComparisonStep ==
  ASSUME WorkerInv,
         UNCHANGED <<parent, started, alive, doomed, tasks, results, item>>,
         stage \in Comparing,
         \/ stage' \in Comparing \cup {"send"} /\ status' = status
            /\ (status = "correct" => stage' \in {"disarm", "send"})
            /\ (stage' \in {"disarm", "send"} => stage = "disarm")
         \/ \E v \in Findings(item) \cup Failed : status' = v /\ stage' = "disarm"
  PROVE  WorkerInv'
<1> USE DEF WorkerInv, parent
<1>1. /\ stage' \in Comparing \cup {"send"} /\ status' \in Status \cup {None}
      /\ stage' \in {"disarm", "send"} => status' \in Status
  BY DEF WorkerType, Findings, Comparing, Status, Refused, Failed
<1>2. status' = "correct" => stage' \in {"disarm", "send"} /\ asked[item]
  BY DEF VerdictsAreJustified, Findings, Refused, Failed
<1>3. WorkerType' /\ LetGoIsSignalled'
  BY <1>1 DEF WorkerType, LetGoIsSignalled, NoOrphan
<1>4. RequestsAreKnown'
  BY <1>1 DEF RequestsAreKnown, Ids
<1>5. VerdictsAreJustified'
  BY <1>2 DEF VerdictsAreJustified, Ids
<1> QED
  BY <1>3, <1>4, <1>5

\* Nowhere does an exception make a verdict "correct".
LEMMA RaisedStep ==
  ASSUME WorkerInv, NEW verdict \in Failed, Raised(verdict),
         UNCHANGED <<parent, started, alive, doomed, tasks, results, item>>
  PROVE  WorkerInv'
<1>1. stage \in Comparing
  BY DEF Raised, Comparing
<1>2. \/ stage' = "evidence" /\ status' = status /\ stage = "simplify"
      \/ \E v \in Findings(item) \cup Failed : status' = v /\ stage' = "disarm"
  BY DEF Raised, Reach, Advance, Findings, Refused, Failed
<1>3. stage = "simplify" => status # "correct"
  BY DEF WorkerInv, VerdictsAreJustified
<1> QED
  BY <1>1, <1>2, <1>3, ComparisonStep DEF Comparing

LEMMA WorkerInductive ==
  ASSUME WorkerInv, WorkerStep PROVE WorkerInv'
<1> USE DEF pipes
<1>1. CASE Ready
  <2> USE DEF WorkerInv, parent
  <2>1. /\ stage' = "recv" /\ stage = "starting" /\ status # "correct"
        /\ UNCHANGED <<parent, started, alive, doomed, tasks, results, item, status>>
    BY <1>1 DEF Ready, Works, VerdictsAreJustified
  <2>2. WorkerType' /\ LetGoIsSignalled' /\ RequestsAreKnown'
    BY <2>1 DEF WorkerType, LetGoIsSignalled, NoOrphan, RequestsAreKnown, Comparing
  <2>3. VerdictsAreJustified'
    BY <2>1 DEF VerdictsAreJustified, Ids
  <2> QED
    BY <2>2, <2>3
<1>2. CASE Take
  <2> USE DEF WorkerInv, parent
  <2>1. /\ tasks # << >> /\ Head(tasks) # 0 /\ tasks' = Tail(tasks)
        /\ item' = Head(tasks) /\ status' = None /\ stage' = "surface"
        /\ UNCHANGED <<parent, started, alive, doomed, results>>
    BY <1>2 DEF Take, Works, Stop
  <2>2. /\ tasks' \in Seq(Nat) /\ Len(asked) \in Nat
        /\ Head(tasks) = tasks[1] /\ 1 \in DOMAIN tasks
        /\ \A i \in DOMAIN tasks' : i + 1 \in DOMAIN tasks /\ tasks'[i] = tasks[i + 1]
    BY <2>1 DEF WorkerType
  <2>3. item' \in Ids
    BY <2>1, <2>2 DEF RequestsAreKnown, Ids
  <2>4. WorkerType' /\ LetGoIsSignalled'
    BY <2>1, <2>2 DEF WorkerType, LetGoIsSignalled, NoOrphan
  <2>5. RequestsAreKnown'
    BY <2>1, <2>2, <2>3 DEF RequestsAreKnown, Ids
  <2>6. VerdictsAreJustified'
    BY <2>1, WorkerAssumption DEF VerdictsAreJustified, Ids
  <2> QED
    BY <2>4, <2>5, <2>6
<1>3. CASE Surface \/ ParsePrediction \/ ParseReference \/ Structure \/ Simplify \/ Evidence
  <2>1. /\ stage \in Comparing \ {"disarm"}
        /\ UNCHANGED <<parent, started, alive, doomed, tasks, results, item>>
        /\ \/ stage' \in Comparing \ {"disarm"} /\ status' = status
           \/ \E v \in Findings(item) : status' = v /\ stage' = "disarm"
    BY <1>3 DEF Surface, ParsePrediction, ParseReference, Structure, Simplify, Evidence,
                Works, Reach, Advance, Comparing, Findings, Refused
  <2>2. status # "correct"
    BY <2>1 DEF WorkerInv, VerdictsAreJustified, Comparing
  <2>3. "send" \notin Comparing
    BY DEF Comparing
  <2> QED
    BY <2>1, <2>2, <2>3, ComparisonStep
<1>4. CASE LimitFires
  BY <1>4, RaisedStep DEF LimitFires, Works, Failed
<1>5. CASE ComparatorRaises
  BY <1>5, RaisedStep DEF ComparatorRaises, Works, Failed
<1>6. CASE Disarm
  <2>1. /\ stage = "disarm" /\ stage' = "send" /\ status' = status
        /\ UNCHANGED <<parent, started, alive, doomed, tasks, results, item>>
    BY <1>6 DEF Disarm, Works
  <2>2. stage \in Comparing
    BY <2>1 DEF Comparing
  <2> QED
    BY <2>1, <2>2, ComparisonStep
<1>7. CASE SendResult
  <2> USE DEF WorkerInv, parent
  <2> DEFINE r == [id |-> item, status |-> status, fired |-> timer = "fired"]
  <2>1. /\ results' = Append(results, r) /\ stage = "send" /\ stage' = "recv"
        /\ status' = None
        /\ UNCHANGED <<parent, started, alive, doomed, tasks>>
    BY <1>7 DEF SendResult, Works
  <2>2. /\ item \in Ids /\ (status = "correct" => asked[item]) /\ Len(asked) \in Nat
        /\ status \in Status
    BY <2>1 DEF RequestsAreKnown, VerdictsAreJustified, WorkerType
  <2>3. r.id \in Ids /\ (r.status = "correct" => asked[r.id])
    BY <2>2
  <2> HIDE DEF r
  <2>4. QED
    <3>1. RequestsAreKnown' /\ LetGoIsSignalled'
      BY <2>1 DEF RequestsAreKnown, Comparing, Ids, LetGoIsSignalled, NoOrphan
    <3>2. WorkerType'
      <4>1. r \in Verdict
        BY <2>2 DEF r, Verdict, WorkerType, Ids
      <4> QED
        BY <2>1, <4>1 DEF WorkerType
    <3>3. VerdictsAreJustified'
      <4>1. \A i \in DOMAIN results' :
              /\ results'[i].id \in Ids
              /\ results'[i].status = "correct" => asked[results'[i].id]
        BY <2>1, <2>3 DEF VerdictsAreJustified, WorkerType
      <4> QED
        BY <2>1, <4>1, WorkerAssumption DEF VerdictsAreJustified, Ids
    <3> QED
      BY <3>1, <3>2, <3>3
<1> QED
  BY <1>1, <1>2, <1>3, <1>4, <1>5, <1>6, <1>7 DEF WorkerStep

LEMMA DiesStep == ASSUME WorkerInv, NEW w, Dies(w) PROVE WorkerInv'
<1> USE DEF WorkerInv
<1>1. /\ alive' = alive \ {w}
      /\ UNCHANGED <<parent, started, doomed, tasks, results, stage, item, status>>
  BY DEF Dies, pipes, worker
<1>2. WorkerType' /\ RequestsAreKnown' /\ LetGoIsSignalled'
  BY <1>1 DEF parent, WorkerType, RequestsAreKnown, Ids, LetGoIsSignalled, NoOrphan
<1>3. VerdictsAreJustified'
  BY <1>1 DEF parent, VerdictsAreJustified, Ids
<1> QED
  BY <1>2, <1>3
-----------------------------------------------------------------------------
(* The theorems.                                                           *)

LEMMA InitialInv == Init => WorkerInv
<1> SUFFICES ASSUME Init PROVE WorkerInv
  OBVIOUS
<1> USE DEF Init
<1>1. WorkerType /\ LetGoIsSignalled
  BY DEF WorkerType, LetGoIsSignalled, NoOrphan
<1>2. RequestsAreKnown
  BY DEF RequestsAreKnown, Comparing
<1>3. VerdictsAreJustified
  BY WorkerAssumption DEF VerdictsAreJustified, NoAnswer
<1> QED
  BY <1>1, <1>2, <1>3 DEF WorkerInv

LEMMA StepInv == WorkerInv /\ [Next]_vars => WorkerInv'
<1> SUFFICES ASSUME WorkerInv, [Next]_vars PROVE WorkerInv'
  OBVIOUS
<1>1. CASE UNCHANGED vars
  BY <1>1 DEF vars, parent, pipes, worker, WorkerInv, WorkerType, RequestsAreKnown,
              VerdictsAreJustified, LetGoIsSignalled, NoOrphan, Ids
<1>2. CASE Next
  BY <1>2, CompareStep, ParentInductive, WorkerInductive, DiesStep DEF Next
<1> QED
  BY <1>1, <1>2

LEMMA AlwaysInv == Spec => []WorkerInv
BY InitialInv, StepInv, PTL DEF Spec

\* Whatever raises, dies or interrupts a call, and whatever is left in the
\* pipes: a call of compare answers with the verdict made for its own request,
\* and "correct" only where the evidence agrees (VerdictIsOwn).
THEOREM VerdictCorrect == Spec => []VerdictIsOwn
<1>1. WorkerInv => VerdictIsOwn
  BY DEF WorkerInv, VerdictsAreJustified, VerdictIsOwn, AnswersOwnRequest, NoFalseAccept
<1> QED
  BY <1>1, AlwaysInv, PTL

\* A worker the object no longer holds is gone or has been signalled: no
\* restart, reset or close leaves a process comparing behind it (NoOrphan).
THEOREM OrphanCorrect == Spec => []NoOrphan
<1>1. WorkerInv => NoOrphan
  BY DEF WorkerInv, LetGoIsSignalled
<1> QED
  BY <1>1, AlwaysInv, PTL
-----------------------------------------------------------------------------
(* Refinement: parent, pipes and worker implement AtomicCompare.           *)

\* The caller sees nothing of a step inside a call.
LEMMA Unseen ==
  ASSUME UNCHANGED <<asked, answer>>,
         pc \notin {"idle", "closing"} <=> pc' \notin {"idle", "closing"}
  PROVE  UNCHANGED Atomic!vars
BY DEF Atomic!vars

\* A failure of the parent's own making.
LEMMA FailIsFail ==
  ASSUME NEW verdict \in Failed, Fail(verdict), pc \notin {"idle", "closing"},
         UNCHANGED asked
  PROVE  Atomic!Next
<1>1. Atomic!Fail(verdict)
  BY DEF Fail, NoAnswer, Request, Atomic!Fail, Atomic!Last
<1> QED
  BY <1>1 DEF Atomic!Next

LEMMA RestartSeen ==
  ASSUME NEW verdict \in Failed, Restart(verdict), pc \notin {"idle", "closing"},
         UNCHANGED asked
  PROVE  [Atomic!Next]_(Atomic!vars)
<1>1. CASE Alive
  BY <1>1, Unseen DEF Restart
<1>2. CASE ~Alive
  BY <1>2, FailIsFail DEF Restart
<1> QED
  BY <1>1, <1>2

LEMMA ReceiveSeen ==
  ASSUME WorkerInv, Receive
  PROVE  [Atomic!Next]_(Atomic!vars)
<1> DEFINE got == Head(results)
<1>1. /\ pc = "waiting" /\ results # << >> /\ UNCHANGED asked
      /\ \/ UNCHANGED <<pc, answer>>
         \/ /\ got.id = Request
            /\ pc' = "idle"
            /\ answer' = [request |-> Request, from |-> got.id,
                          status |-> got.status, fired |-> got.fired]
  BY DEF Receive
<1>2. /\ got.status \in Status
      /\ got.status = "correct" => asked[got.id]
  <2>1. results \in Seq(Verdict) /\ got = results[1] /\ 1 \in DOMAIN results
    BY <1>1 DEF WorkerInv, WorkerType
  <2>2. results[1] \in Verdict
    BY <2>1
  <2>3. results[1].status = "correct" => asked[results[1].id]
    BY <2>1 DEF WorkerInv, VerdictsAreJustified
  <2> QED
    BY <2>1, <2>2, <2>3 DEF Verdict
<1> HIDE DEF got
<1>3. CASE UNCHANGED <<pc, answer>>
  BY <1>1, <1>3, Unseen
<1>4. CASE UNCHANGED asked /\ got.id = Request /\ pc' = "idle"
           /\ answer' = [request |-> Request, from |-> got.id,
                         status |-> got.status, fired |-> got.fired]
  <2>1. Atomic!Judge(got.status)
    BY <1>1, <1>2, <1>4 DEF Request, Atomic!Judge, Atomic!Last
  <2> QED
    BY <1>2, <2>1 DEF Atomic!Next
<1> QED
  BY <1>1, <1>3, <1>4

LEMMA AtomicInit == Init => Atomic!Init
BY DEF Init, NoAnswer, Atomic!Init, Atomic!NoAnswer

LEMMA AtomicNext == WorkerInv /\ [Next]_vars => [Atomic!Next]_(Atomic!vars)
<1> SUFFICES ASSUME WorkerInv, [Next]_vars PROVE [Atomic!Next]_(Atomic!vars)
  OBVIOUS
<1>0. {"internal_error", "timeout"} \subseteq Failed
  BY DEF Failed
<1>1. ASSUME NEW agree \in BOOLEAN, Compare(agree) PROVE Atomic!Next
  <2>1. Atomic!Call(agree)
    BY <1>1 DEF Compare, Atomic!Call
  <2> QED
    BY <2>1 DEF Atomic!Next
<1>2. CASE KeepWorker \/ StartWorker \/ StartupPolled \/ Send \/ Polled
  BY <1>2, Unseen DEF KeepWorker, StartWorker, StartupPolled, Send, Polled
<1>3. CASE StartupCheck \/ Check
  <2>1. CASE Alive
    BY <1>3, <2>1, Unseen DEF StartupCheck, Check
  <2>2. CASE ~Alive
    BY <1>0, <1>3, <2>2, FailIsFail DEF StartupCheck, Check, Reset
  <2> QED
    BY <2>1, <2>2
<1>4. CASE StartupDeadline \/ Deadline
  BY <1>0, <1>4, RestartSeen DEF StartupDeadline, Deadline
<1>5. CASE Handshake
  <2>1. CASE Alive
    BY <1>5, <2>1, Unseen DEF Handshake
  <2>2. CASE ~Alive
    BY <1>0, <1>5, <2>2, FailIsFail DEF Handshake
  <2> QED
    BY <2>1, <2>2
<1>6. CASE SendRaises
  <2>1. Atomic!Fail("raised")
    BY <1>6 DEF SendRaises, NoAnswer, Request, Atomic!Fail, Atomic!Last
  <2> QED
    BY <2>1 DEF Atomic!Next
<1>7. CASE EndOfResults
  BY <1>0, <1>7, FailIsFail DEF EndOfResults, Reset
<1>8. CASE Receive
  BY <1>8, ReceiveSeen
<1>9. CASE Join
  <2>1. CASE pc = "terminated" /\ Alive /\ pc' = "killed" /\ UNCHANGED <<process, failure, answer>>
    BY <1>9, <2>1, Unseen DEF Join
  <2>2. CASE pc \in {"terminated", "killed"} /\ Fail(failure)
    <3>1. failure \in Failed
      BY <2>2 DEF WorkerInv, VerdictsAreJustified
    <3> QED
      BY <1>9, <2>2, <3>1, FailIsFail DEF Join
  <2>3. CASE pc = "closing" /\ pc' = "idle" /\ UNCHANGED <<failure, answer>>
    BY <1>9, <2>3, Unseen DEF Join
  <2> QED
    BY <1>9, <2>1, <2>2, <2>3 DEF Join
<1>10. CASE Interrupt
  <2>1. Atomic!Leave
    BY <1>10 DEF Interrupt, NoAnswer, Atomic!Leave, Atomic!NoAnswer
  <2> QED
    BY <2>1 DEF Atomic!Next
<1>11. CASE Close
  BY <1>11, Unseen DEF Close
<1>12. CASE WorkerStep \/ \E w \in alive : Dies(w)
  <2>1. UNCHANGED parent
    BY <1>12
       DEF WorkerStep, Ready, Take, Surface, ParsePrediction, ParseReference, Structure,
           Simplify, Evidence, LimitFires, ComparatorRaises, Disarm, SendResult, Works, Dies
  <2> QED
    BY <2>1, Unseen DEF parent
<1>13. CASE UNCHANGED vars
  BY <1>13, Unseen DEF vars, parent
<1> QED
  BY <1>1, <1>2, <1>3, <1>4, <1>5, <1>6, <1>7, <1>8, <1>9, <1>10, <1>11, <1>12, <1>13
     DEF Next, ParentStep

\* For any number of requests, workers, deaths and interrupted calls, compare
\* is one atomic call: every step of parent and worker is the call, its one
\* answer, its abandonment, or nothing to the caller.
THEOREM CompareImplementsAtomic == Spec => ImplementsAtomicCompare
<1>1. WorkerInv /\ [Next]_vars => [Atomic!Next]_(Atomic!vars)
  BY AtomicNext
<1> QED
  BY <1>1, AtomicInit, AlwaysInv, PTL DEF Spec, ImplementsAtomicCompare, Atomic!Spec
-----------------------------------------------------------------------------
(* One tool call.                                                           *)

Computed == Ok(Nil)
RaisedResult == Error("execution_error")

\* A result that the child made tells what became of the calculation.
Told == \/ held = Computed /\ program = "finished"
        \/ held = RaisedResult /\ program = "raised"

Stages ==
  /\ caller \in {"called", "joining", "getting", "returned"}
  /\ caller = "called" => child = "none" /\ program = "none" /\ pipe = "empty"
  /\ caller = "joining" => child \in {"computing", "hung", "flushing", "ended"}
  /\ caller = "getting" => child = "ended"
  /\ Returned => child \in {"none", "ended"}
  /\ caller \in {"joining", "getting"} => program # "none"

\* The child has only made its result when it begins to flush it, and what is
\* in the pipe is that result.
ResultIsTold ==
  /\ child = "computing" => pipe = "empty" /\ program = "running"
  /\ child = "hung" => pipe = "empty" /\ program = "hung"
  /\ child = "flushing" \/ pipe = "whole" => Told

ToolInv == Stages /\ ResultIsTold /\ CodeIsHonest
-----------------------------------------------------------------------------
LEMMA ErrorsClaimNothing ==
  ASSUME NEW code
  PROVE  Error(code).code = code /\ Error(code).sandbox # <<"Finished", 1>>
BY ToolAssumption DEF Error

LEMMA OkClaims ==
  ASSUME NEW time
  PROVE  Ok(time).code = "ok" /\ Ok(time).sandbox # <<"Finished", 1>>
BY ToolAssumption DEF Ok

\* A call that returns an error without a class before anything ran.
LEMMA RefusedStep ==
  ASSUME ToolInv, UnknownTool \/ InvalidArguments
  PROVE  ToolInv'
<1>1. PICK code \in {"unknown_tool", "invalid_arguments"} :
        caller' = "returned" /\ result' = Error(code)
  BY DEF UnknownTool, InvalidArguments, Return
<1>2. /\ UNCHANGED <<program, child, pipe, held>>
      /\ child = "none" /\ program = "none" /\ pipe = "empty"
  BY DEF UnknownTool, InvalidArguments, ToolInv, Stages
<1>3. Classify(code) = Nil
  BY <1>1 DEF Classify
<1>4. CodeIsHonest'
  BY <1>1, <1>2, <1>3, ErrorsClaimNothing
     DEF CodeIsHonest, OkIsFinished, RaisedIsExec, Returned
<1> QED
  BY <1>1, <1>2, <1>4 DEF ToolInv, Stages, ResultIsTold, Told, Returned

\* What the sandbox's answer is turned into.
LEMMA RunIsHonest ==
  ASSUME NEW run \in Runs
  PROVE  /\ ReportOf(run) # "none"
         /\ RunResult(run).code = "ok" => ReportOf(run) = "finished"
         /\ RunResult(run).sandbox = <<"Finished", 1>> =>
              Classify(RunResult(run).code) = "E_EXEC"
<1>1. ReportOf(run) # "none"
  BY DEF ReportOf
<1>2. CASE run.run_status = "TimeLimitExceeded"
  <2>1. RunResult(run) = Metadata("timeout", run)
    BY <1>2 DEF RunResult
  <2>2. Metadata("timeout", run).sandbox # <<"Finished", 1>>
    BY <1>2 DEF Metadata
  <2> QED
    BY <1>1, <2>1, <2>2 DEF Metadata
<1>3. CASE /\ run.run_status # "TimeLimitExceeded" /\ run.status = "Success"
           /\ run.run_status = "Finished" /\ run.return_code = 0
  <2>1. RunResult(run) = Ok(run.time) /\ ReportOf(run) = "finished"
    BY <1>3 DEF RunResult, ReportOf
  <2> QED
    BY <1>1, <2>1, OkClaims
<1>4. CASE /\ run.run_status # "TimeLimitExceeded"
           /\ ~(run.status = "Success" /\ run.run_status = "Finished"
                /\ run.return_code = 0)
  <2>1. RunResult(run) = Metadata("execution_error", run)
    BY <1>4 DEF RunResult
  <2>2. RunResult(run).code = "execution_error"
    BY <2>1 DEF Metadata
  <2>3. Classify("execution_error") = "E_EXEC"
    BY DEF Classify
  <2> QED
    BY <1>1, <2>2, <2>3
<1> QED
  BY <1>2, <1>3, <1>4

LEMMA PostStep == ASSUME ToolInv, Post PROVE ToolInv'
<1>1. /\ caller' = "returned" /\ child' = "none" /\ pipe' = "empty"
  BY DEF Post, Return, ToolInv, Stages
<1>2. CodeIsHonest'
  <2>1. CASE \E fault \in Faults :
               /\ program' \in {"not run", "finished", "raised", "cut off"}
               /\ Return(RunCode(fault))
    <3>1. PICK fault \in Faults :
            /\ program' \in {"not run", "finished", "raised", "cut off"}
            /\ result' = RunCode(fault)
      BY <2>1 DEF Return
    <3>2. RunCode(fault) \in {Error("timeout"), Error("unavailable"),
                              Error("execution_error")}
      BY DEF Faults, RunCode
    <3>3. result'.code # "ok" /\ result'.sandbox # <<"Finished", 1>>
      BY <3>1, <3>2, ErrorsClaimNothing
    <3> QED
      BY <3>1, <3>3 DEF CodeIsHonest, OkIsFinished, RaisedIsExec
  <2>2. CASE \E run \in Runs : program' = ReportOf(run) /\ Return(RunResult(run))
    <3>1. PICK run \in Runs : program' = ReportOf(run) /\ result' = RunResult(run)
      BY <2>2 DEF Return
    <3> QED
      BY <3>1, RunIsHonest DEF CodeIsHonest, OkIsFinished, RaisedIsExec
  <2> QED
    BY <2>1, <2>2 DEF Post
<1> QED
  BY <1>1, <1>2 DEF ToolInv, Stages, ResultIsTold, Returned

\* The SymPy tool's parent.
LEMMA CallerStep ==
  ASSUME ToolInv, StartChild \/ JoinDeadline \/ Joined \/ Get
  PROVE  ToolInv'
<1> USE DEF ToolInv
<1>1. CASE StartChild
  BY <1>1 DEF StartChild, Stages, ResultIsTold, Told, CodeIsHonest, OkIsFinished,
              RaisedIsExec, Returned
<1>2. CASE JoinDeadline
  <2>1. CodeIsHonest'
    BY <1>2, ErrorsClaimNothing
       DEF JoinDeadline, Return, Stages, CodeIsHonest, OkIsFinished, RaisedIsExec
  <2> QED
    BY <1>2, <2>1 DEF JoinDeadline, Return, Stages, ResultIsTold, Told, Returned
<1>3. CASE Joined
  BY <1>3 DEF Joined, Stages, ResultIsTold, Told, CodeIsHonest, OkIsFinished,
              RaisedIsExec, Returned
<1>4. CASE Get
  <2>1. /\ caller = "getting" /\ caller' = "returned" /\ program # "none"
        /\ UNCHANGED <<program, child, pipe, held>>
    BY <1>4 DEF Get, Return, Stages
  <2>2. \/ result' = Computed /\ program = "finished"
        \/ result' = RaisedResult
    BY <1>4 DEF Get, Return, ResultIsTold, Told, RaisedResult
  <2>3. CodeIsHonest'
    BY <2>1, <2>2, OkClaims, ErrorsClaimNothing
       DEF Computed, RaisedResult, CodeIsHonest, OkIsFinished, RaisedIsExec
  <2> QED
    BY <2>1, <2>3 DEF Stages, ResultIsTold, Told, Returned
<1> QED
  BY <1>1, <1>2, <1>3, <1>4

\* The child, and the system that may kill it.
LEMMA CalleeStep == ASSUME ToolInv, Compute \/ Flush \/ Killed PROVE ToolInv'
<1> USE DEF ToolInv
<1>1. caller' = caller /\ result' = result
  BY DEF Compute, Flush, Killed, Child
<1>2. ~Returned /\ caller = "joining"
  BY DEF Compute, Flush, Killed, Child, Stages, Returned
<1>3. CodeIsHonest'
  BY <1>1, <1>2 DEF CodeIsHonest, OkIsFinished, RaisedIsExec, Returned
<1>4. CASE Compute
  BY <1>1, <1>2, <1>3, <1>4
     DEF Compute, Child, Stages, ResultIsTold, Told, Computed, RaisedResult, Returned
<1>5. CASE Flush
  BY <1>1, <1>2, <1>3, <1>5 DEF Flush, Child, Stages, ResultIsTold, Told, Returned
<1>6. CASE Killed
  BY <1>1, <1>2, <1>3, <1>6 DEF Killed, Stages, ResultIsTold, Told, Returned
<1> QED
  BY <1>4, <1>5, <1>6

LEMMA ToolInductive == ToolInv /\ [tNext]_tVars => ToolInv'
<1> SUFFICES ASSUME ToolInv, [tNext]_tVars PROVE ToolInv'
  OBVIOUS
<1>1. CASE UNCHANGED tVars
  BY <1>1 DEF tVars, ToolInv, Stages, ResultIsTold, Told, CodeIsHonest,
              OkIsFinished, RaisedIsExec, Returned
<1> QED
  BY <1>1, RefusedStep, PostStep, CallerStep, CalleeStep DEF tNext, Parent

LEMMA ToolInitial == tInit => ToolInv
BY DEF tInit, ToolInv, Stages, ResultIsTold, CodeIsHonest, OkIsFinished,
       RaisedIsExec, Returned

\* A code claims no more than happened, for every answer of the sandbox and
\* every fate of the SymPy child.
THEOREM CodeCorrect == ToolSpec => []CodeIsHonest
<1>1. ToolInv => CodeIsHonest
  BY DEF ToolInv
<1> QED
  BY <1>1, ToolInitial, ToolInductive, PTL DEF ToolSpec

\* No child outlives its call, whenever the deadline passes or the system
\* kills it.
THEOREM ChildCorrect == ToolSpec => []NoChildLeft
<1>1. ToolInv => NoChildLeft
  BY DEF ToolInv, Stages, NoChildLeft
<1> QED
  BY <1>1, ToolInitial, ToolInductive, PTL DEF ToolSpec
-----------------------------------------------------------------------------
(* The two together.                                                        *)

\* Each part keeps its own invariant, and the other does nothing meanwhile.
PartsInv ==
  /\ part \in {"worker", "tool"}
  /\ WorkerInv
  /\ part = "tool" => ToolInv
  /\ part = "worker" => caller = "idle" /\ child = "none"

LEMMA PartsInvariant == AllSpec => []PartsInv
<1>1. AllInit => PartsInv
  BY InitialInv, ToolInitial DEF AllInit, PartsInv
<1>2. ASSUME PartsInv, [AllNext]_<<part, vars, tVars>>
      PROVE  PartsInv'
  <2>1. CASE part = "worker" /\ Next /\ UNCHANGED tVars /\ UNCHANGED part
    <3>1. WorkerInv'
      BY <1>2, <2>1, StepInv DEF PartsInv
    <3> QED
      BY <1>2, <2>1, <3>1 DEF PartsInv, tVars
  <2>2. CASE part = "tool" /\ tNext /\ UNCHANGED vars /\ UNCHANGED part
    <3>1. WorkerInv'
      BY <1>2, <2>2, StepInv DEF PartsInv
    <3>2. ToolInv'
      BY <1>2, <2>2, ToolInductive DEF PartsInv
    <3> QED
      BY <1>2, <2>2, <3>1, <3>2 DEF PartsInv
  <2>3. CASE UNCHANGED <<part, vars, tVars>>
    <3>1. WorkerInv'
      BY <1>2, <2>3, StepInv DEF PartsInv
    <3>2. ToolInv => ToolInv'
      BY <2>3, ToolInductive
    <3> QED
      BY <1>2, <2>3, <3>1, <3>2 DEF PartsInv, tVars
  <2> QED
    BY <1>2, <2>1, <2>2, <2>3 DEF AllNext
<1> QED
  BY <1>1, <1>2, PTL DEF AllSpec

\* What a call leaves behind: a worker that the object let go is gone or has
\* been signalled, and a tool call's child has ended, however calls, deadlines
\* and deaths fall together (_restart, _reset, _ensure_worker, _shutdown;
\* _run_isolated).
THEOREM NothingLeftCorrect == AllSpec => []NothingLeftRunning
<1>1. PartsInv => NothingLeftRunning
  BY DEF PartsInv, NothingLeftRunning, NoOrphan, NoChildLeft, WorkerInv,
         LetGoIsSignalled, ToolInv, Stages
<1> QED
  BY <1>1, PartsInvariant, PTL
=============================================================================
