--------------------------- MODULE Episode_proofs ---------------------------
(***************************************************************************)
(* Proofs about episodes for every budget and every set of inputs: first   *)
(* the books an episode keeps (AgentEpisode, BoundedEpisode), then what it *)
(* leaves for others to read, its trace, its conversation and the          *)
(* snapshots of its journal (TraceReplay, PrefixResume).  The three are    *)
(* extended by different code at different awaits; the invariant of the    *)
(* second part says how far apart they may be.                             *)
(***************************************************************************)
EXTENDS AgentEpisode, PrefixResume, FoldTheorems, FiniteSetTheorems, TLAPS

-----------------------------------------------------------------------------
(* Lemmas about the data.                                                  *)

\* Appending an event adds one to the count of its kind and nothing else.
LEMMA CountAppend ==
  ASSUME NEW S, NEW evs \in Seq(S), NEW e \in S, NEW kinds
  PROVE  /\ Count(evs, kinds) \in Nat
         /\ Count(Append(evs, e), kinds)
              = Count(evs, kinds) + (IF e.kind \in kinds THEN 1 ELSE 0)
<1> DEFINE I == {i \in DOMAIN evs : evs[i].kind \in kinds}
           n == Len(evs) + 1
           J == {i \in DOMAIN Append(evs, e) :
                   Append(evs, e)[i].kind \in kinds}
<1>1. IsFiniteSet(I)
  <2>1. IsFiniteSet(1 .. Len(evs))
    BY FS_Interval
  <2>2. I \in SUBSET (1 .. Len(evs))
    OBVIOUS
  <2>3. QED
    BY <2>1, <2>2, FS_Subset, Zenon
<1>2. Cardinality(I) \in Nat
  BY <1>1, FS_CardinalityType
<1>3. n \notin I
  OBVIOUS
<1>4. J = IF e.kind \in kinds THEN I \cup {n} ELSE I
  OBVIOUS
<1>5. Cardinality(I \cup {n}) = Cardinality(I) + 1
  BY <1>1, <1>3, FS_AddElement, Zenon
<1>6. Cardinality(J) = Cardinality(I) + (IF e.kind \in kinds THEN 1 ELSE 0)
  <2>1. CASE e.kind \in kinds
    <3>1. J = I \cup {n}
      BY <1>4, <2>1
    <3>2. QED
      BY <3>1, <1>5, <2>1, Zenon
  <2>2. CASE e.kind \notin kinds
    <3>1. J = I
      BY <1>4, <2>2
    <3>2. Cardinality(I) = Cardinality(I) + 0
      <4> HIDE DEF I
      <4> QED BY <1>2
    <3>3. QED
      BY <3>1, <3>2, <2>2, Zenon
  <2>3. QED
    BY <2>1, <2>2
<1> QED
  BY <1>2, <1>6 DEF Count

\* What the registry returns for a registered or unknown tool is a code and a
\* time that fit in an event, and the charge for it is a natural number.
LEMMA ToolResultsType ==
  ASSUME NEW name, NEW result \in ToolResults(name)
  PROVE  /\ result[1] \in ResultCode
         /\ result[2] \in Nat \cup {None}
         /\ PythonSeconds(name, result[2]) \in Nat
<1>1. result[1] \in ResultCode /\ result[2] \in RunTimes \cup {None}
  BY DEF ToolResults, ResultCode, ToolErrorCode
<1>2. QED
  BY <1>1, InputAssumption DEF PythonSeconds

\* Charging keeps a usage a usage.
LEMMA WithUsageType ==
  ASSUME NEW u \in Usage, NEW s \in Nat, NEW c \in Nat, NEW p \in Nat,
         NEW t \in Nat, NEW i \in Nat
  PROVE  WithUsage(u, s, c, p, t, i) \in Usage
BY DEF WithUsage, Usage

\* A budget ends an episode with one of two reasons, or not at all.
LEMMA BudgetReasonType ==
  ASSUME NEW u \in Usage
  PROVE  /\ BudgetReason(u) \in {"max_steps", "python_time_budget", None}
         /\ BudgetReason(u) = None =>
              /\ u.steps < MaxSteps
              /\ u.python_seconds > 0 => u.python_seconds < MaxPythonSeconds
BY BudgetAssumption, InputAssumption DEF BudgetReason, Usage, TerminationReason
-----------------------------------------------------------------------------
(* The type invariant.                                                     *)

\* Every step that ends a turn goes through Store: what it needs to keep the
\* types is that its arguments have them.
LEMMA StoreType ==
  ASSUME TypeOK,
         NEW convo \in Seq(Message), NEW evs \in Seq(Events), NEW u \in Usage,
         NEW reason \in TerminationReason \cup {None},
         NEW answer \in Answers \cup {None},
         NEW observation \in Content \cup {None},
         Store(convo, evs, u, reason, answer, observation),
         pending' \in Call, offset' \in Nat, elapsed' \in Nat,
         cancelled' \in BOOLEAN, requested' \in Nat
  PROVE  TypeOK'
<1> DEFINE next == IF observation # None /\ reason = None
                   THEN Append(convo, Observation(observation)) ELSE convo
           shot == [messages |-> next, usage |-> u, events |-> evs,
                    terminated |-> reason # None]
<1>1. next \in Seq(Message)
  <2>1. observation # None => Observation(observation) \in Message
    BY DEF Observation, Message
  <2>2. QED
    BY <2>1
<1>2. shot \in Snapshot
  BY <1>1 DEF Snapshot
<1>3. journal' = Append(journal, shot) /\ messages' = next
  BY DEF Store, StepSnapshot
<1>4. journal' \in Seq(Snapshot) /\ messages' \in Seq(Message)
  <2> HIDE DEF next, shot
  <2> QED
    BY <1>1, <1>2, <1>3 DEF TypeOK
<1> QED
  BY <1>4 DEF Store, StepSnapshot, Stages, TypeOK

\* What a turn records about the model output has the right types.
LEMMA TurnType ==
  ASSUME TypeOK, NEW d \in Delays, NEW tokens \in TokenCounts
  PROVE  /\ Now(d) \in Nat
         /\ elapsed + d \in Nat
         /\ Recorded(tokens, d) \in Seq(Events)
         /\ Spent(tokens) \in Usage
         /\ Said \in Seq(Message)
<1>1. d \in Nat /\ tokens \in Nat
  BY InputAssumption
<1>2. Now(d) \in Nat /\ elapsed + d \in Nat
  BY <1>1 DEF Now, TypeOK
<1>3. Event("MODEL_OUTPUT", Now(d), None, None, tokens) \in Events
  BY <1>1, <1>2 DEF Event, Events, EventKind
<1>4. Recorded(tokens, d) \in Seq(Events)
  BY <1>3 DEF Recorded, TypeOK
<1>5. Spent(tokens) \in Usage
  BY <1>1, WithUsageType DEF Spent, TypeOK
<1>6. Said \in Seq(Message)
  BY DEF Said, Turn, Message, Content, TypeOK
<1> QED
  BY <1>2, <1>4, <1>5, <1>6

LEMMA TypeInit == Init => TypeOK
<1> SUFFICES ASSUME Init PROVE TypeOK
  OBVIOUS
<1>1. usage \in Usage /\ pending \in Call
  BY DEF Init, NoUsage, Usage, NoCall, Call
<1>2. messages \in Seq(Message)
  <2>1. [role |-> "system", content |-> "instructions"] \in Message
    BY DEF Message, Content
  <2>2. [role |-> "user", content |-> "problem"] \in Message
    BY DEF Message, Content
  <2>3. QED
    BY <2>1, <2>2 DEF Init, Prompt
<1>3. events \in Seq(Events) /\ journal \in Seq(Snapshot)
  BY DEF Init
<1>4. /\ pc \in Stages
      /\ termination_reason \in TerminationReason \cup {None}
      /\ final_answer \in Answers \cup {None}
      /\ offset \in Nat /\ elapsed \in Nat /\ requested \in Nat
      /\ cancelled \in BOOLEAN
  BY DEF Init, Stages
<1> QED
  BY <1>1, <1>2, <1>3, <1>4 DEF TypeOK
LEMMA TypeNext == TypeOK /\ [Next]_vars => TypeOK'
<1> SUFFICES ASSUME TypeOK, [Next]_vars
             PROVE  TypeOK'
  OBVIOUS
<1>1. CASE StopCancelled
  BY <1>1 DEF StopCancelled, Abort, TypeOK, Stages, TerminationReason
<1>2. CASE Generate
  BY <1>2 DEF Generate, envVars, TypeOK, Stages
<1>3. ASSUME NEW d \in Delays, ModelFails(d)
      PROVE  TypeOK'
  <2>1. d \in Nat /\ Now(d) \in Nat
    BY InputAssumption DEF Now, TypeOK
  <2>2. Event("TERMINATION", Now(d), None, None, None) \in Events
    BY <2>1 DEF Event, Events, EventKind
  <2>3. events' \in Seq(Events)
    BY <1>3, <2>2 DEF ModelFails, TypeOK
  <2> QED
    BY <1>3, <2>1, <2>3
       DEF ModelFails, Abort, TypeOK, Stages, TerminationReason
<1>4. ASSUME NEW d \in Delays, NEW tokens \in TokenCounts,
             NEW answer \in Answers, SubmitFinal(tokens, d, answer)
      PROVE  TypeOK'
  <2> DEFINE evs == Append(Recorded(tokens, d),
                           Event("FINAL", Now(d), answer, None, None))
             u == WithUsage(usage, 1, 0, 0, tokens, 0)
  <2>1. Event("FINAL", Now(d), answer, None, None) \in Events
    BY TurnType DEF Event, Events, EventKind
  <2>2. evs \in Seq(Events)
    BY <2>1, TurnType
  <2>3. u \in Usage
    BY InputAssumption, WithUsageType DEF TypeOK
  <2>4. Store(Said, evs, u, "final", answer, None)
    BY <1>4 DEF SubmitFinal
  <2>5. "final" \in TerminationReason \cup {None}
    BY DEF TerminationReason
  <2> HIDE DEF evs, u
  <2>6. /\ pending' \in Call /\ offset' \in Nat /\ elapsed' \in Nat
        /\ cancelled' \in BOOLEAN /\ requested' \in Nat
    BY <1>4, TurnType DEF SubmitFinal, TypeOK
  <2> QED
    BY <2>2, <2>3, <2>4, <2>5, <2>6, StoreType, TurnType
<1>5. ASSUME NEW d \in Delays, NEW tokens \in TokenCounts,
             NEW code \in StepErrorCode, RefuseAction(tokens, d, code)
      PROVE  TypeOK'
  <2> DEFINE evs == Append(Recorded(tokens, d),
                           Event("INVALID_ACTION", Now(d), None, code, None))
             u == WithUsage(usage, 1, 0, 0, tokens, 1)
  <2>1. Event("INVALID_ACTION", Now(d), None, code, None) \in Events
    BY TurnType DEF Event, Events, EventKind
  <2>2. evs \in Seq(Events)
    BY <2>1, TurnType
  <2>3. u \in Usage
    BY InputAssumption, WithUsageType DEF TypeOK
  <2>4. Store(Said, evs, u, BudgetReason(u), None, code)
    BY <1>5 DEF RefuseAction
  <2>5. BudgetReason(u) \in TerminationReason \cup {None}
    <3> HIDE DEF u
    <3> QED
      BY <2>3, BudgetReasonType DEF TerminationReason
  <2>6. /\ pending' \in Call /\ offset' \in Nat /\ elapsed' \in Nat
        /\ cancelled' \in BOOLEAN /\ requested' \in Nat
    BY <1>5, TurnType DEF RefuseAction, TypeOK
  <2>7. code \in Content
    BY DEF Content
  <2> HIDE DEF evs, u
  <2> QED
    BY <2>2, <2>3, <2>4, <2>5, <2>6, <2>7, StoreType, TurnType
<1>6. ASSUME NEW d \in Delays, NEW tokens \in TokenCounts,
             NEW name \in ToolNames, CallTool(tokens, d, name)
      PROVE  TypeOK'
  <2>1. /\ Now(d) \in Nat /\ elapsed + d \in Nat
        /\ Recorded(tokens, d) \in Seq(Events)
        /\ Spent(tokens) \in Usage
        /\ Said \in Seq(Message)
    BY TurnType
  <2> QED
    BY <1>6, <2>1 DEF CallTool, TypeOK, Call, Stages
<1>7. ASSUME NEW result \in ToolResults(pending.name), ToolReturns(result)
      PROVE  TypeOK'
  <2> DEFINE name == pending.name
             u == WithUsage(usage, 1, 1, PythonSeconds(name, result[2]), 0, 0)
             call == Event("TOOL_CALL", pending.ms, name, None, None)
             answer == Event("TOOL_RESULT", pending.ms, name, result[1],
                             result[2])
  <2>1. /\ result[1] \in ResultCode
        /\ result[2] \in Nat \cup {None}
        /\ PythonSeconds(name, result[2]) \in Nat
    BY ToolResultsType
  <2>2. call \in Events /\ answer \in Events
    BY <2>1 DEF Event, Events, EventKind, TypeOK, Call
  <2>3. Append(Append(events, call), answer) \in Seq(Events)
    <3> HIDE DEF call, answer
    <3> QED BY <2>2 DEF TypeOK
  <2>4. u \in Usage
    BY <2>1, WithUsageType DEF TypeOK
  <2>5. /\ Store(messages, Append(Append(events, call), answer), u,
                 BudgetReason(u), None, result[1])
        /\ pending' = NoCall
        /\ UNCHANGED <<offset, elapsed, cancelled, requested>>
    BY <1>7 DEF ToolReturns
  <2>6. BudgetReason(u) \in TerminationReason \cup {None}
    <3> HIDE DEF u
    <3> QED
      BY <2>4, BudgetReasonType DEF TerminationReason
  <2>7. /\ pending' \in Call /\ offset' \in Nat /\ elapsed' \in Nat
        /\ cancelled' \in BOOLEAN /\ requested' \in Nat
    BY <2>5 DEF TypeOK, NoCall, Call
  <2>8. result[1] \in Content /\ messages \in Seq(Message)
    BY <2>1 DEF Content, TypeOK
  <2> HIDE DEF u, call, answer
  <2> QED
    BY <2>3, <2>4, <2>5, <2>6, <2>7, <2>8, StoreType
<1>8. CASE Abandon
  BY <1>8 DEF Abandon, envVars, TypeOK, Stages
<1>9. CASE Cancel
  BY <1>9 DEF Cancel, envVars, TypeOK
<1>10. CASE UNCHANGED vars
  BY <1>10 DEF vars, envVars, TypeOK
<1> QED
  BY <1>1, <1>2, <1>3, <1>4, <1>5, <1>6, <1>7, <1>8, <1>9, <1>10
     DEF Next, Work, ModelReturns, ToolAnswers, Finished

\* The episode's state has its types for every budget and all inputs.
THEOREM TypeCorrect == Spec => []TypeOK
BY TypeInit, TypeNext, PTL DEF Spec
-----------------------------------------------------------------------------
(* Counters, budget and requests.  The invariants are proved together: the *)
(* budget holds because the stage says what the step may still spend, and  *)
(* the counters match the trace because each Store appends what it charges.*)

\* Two events appended in one step count like two steps of one.
LEMMA CountAppendTwice ==
  ASSUME NEW evs \in Seq(Events), NEW e \in Events, NEW f \in Events, NEW kinds
  PROVE  /\ Count(evs, kinds) \in Nat
         /\ Count(Append(Append(evs, e), f), kinds)
              = Count(evs, kinds) + (IF e.kind \in kinds THEN 1 ELSE 0)
                                  + (IF f.kind \in kinds THEN 1 ELSE 0)
<1> DEFINE first == Append(evs, e)
<1>1. first \in Seq(Events)
  OBVIOUS
<1>2. /\ Count(evs, kinds) \in Nat
      /\ Count(first, kinds)
           = Count(evs, kinds) + (IF e.kind \in kinds THEN 1 ELSE 0)
  BY CountAppend
<1> HIDE DEF first
<1>3. Count(Append(first, f), kinds)
        = Count(first, kinds) + (IF f.kind \in kinds THEN 1 ELSE 0)
  BY <1>1, CountAppend
<1>4. Count(Append(first, f), kinds)
        = Count(evs, kinds) + (IF e.kind \in kinds THEN 1 ELSE 0)
                            + (IF f.kind \in kinds THEN 1 ELSE 0)
  BY <1>2, <1>3
<1> QED
  BY <1>2, <1>4 DEF first

\* UsageMatchesEvents in the next state, with the prime on the trace.
LEMMA UsageNext ==
  ASSUME usage'.steps = Count(events', {"TOOL_CALL", "INVALID_ACTION", "FINAL"}),
         usage'.tool_calls = Count(events', {"TOOL_CALL"}),
         usage'.invalid_actions = Count(events', {"INVALID_ACTION"})
  PROVE  UsageMatchesEvents'
BY DEF UsageMatchesEvents, Count

LEMMA AccountingInit == Init => Accounting
<1> SUFFICES ASSUME Init PROVE Accounting
  OBVIOUS
<1>1. ASSUME NEW kinds
      PROVE  Count(<< >>, kinds) = 0
  <2>1. {i \in DOMAIN << >> : << >>[i].kind \in kinds} = {}
    OBVIOUS
  <2>2. QED
    BY <2>1, FS_EmptySet DEF Count
<1>2. UsageMatchesEvents
  BY <1>1 DEF Init, UsageMatchesEvents, NoUsage
<1>3. BudgetRespected /\ RequestsCharged /\ StagesConsistent
  BY BudgetAssumption
     DEF Init, BudgetRespected, RequestsCharged, StagesConsistent, NoUsage
<1> QED
  BY <1>2, <1>3 DEF Accounting

LEMMA AccountingNext == TypeOK /\ Accounting /\ [Next]_vars => Accounting'
<1> SUFFICES ASSUME TypeOK, Accounting, [Next]_vars
             PROVE  Accounting'
  OBVIOUS
<1> USE DEF Accounting
<1>1. CASE StopCancelled
  BY <1>1, InputAssumption
          DEF StopCancelled, Abort, StagesConsistent, UsageMatchesEvents,
              BudgetRespected, RequestsCharged, TerminationReason
<1>2. CASE Generate
  BY <1>2 DEF Generate, envVars, StagesConsistent, UsageMatchesEvents,
              BudgetRespected, RequestsCharged
<1>8. CASE Abandon
  BY <1>8 DEF Abandon, envVars, StagesConsistent, UsageMatchesEvents,
              BudgetRespected, RequestsCharged
<1>9. CASE Cancel
  BY <1>9 DEF Cancel, envVars, StagesConsistent, UsageMatchesEvents,
              BudgetRespected, RequestsCharged
<1>10. CASE UNCHANGED vars
  BY <1>10 DEF vars, envVars, StagesConsistent, UsageMatchesEvents,
              BudgetRespected, RequestsCharged
<1>3. ASSUME NEW d \in Delays, ModelFails(d)
      PROVE  Accounting'
  <2> DEFINE e == Event("TERMINATION", Now(d), None, None, None)
  <2>1. e \in Events /\ e.kind = "TERMINATION"
    BY InputAssumption DEF Event, Events, EventKind, Now, TypeOK
  <2>2. events' = Append(events, e)
    BY <1>3 DEF ModelFails
  <2> HIDE DEF e
  <2>3. UsageMatchesEvents'
    <3>1. usage' = usage /\ events \in Seq(Events)
      BY <1>3 DEF ModelFails, Abort, TypeOK
    <3>2. ASSUME NEW K, "TERMINATION" \notin K
          PROVE  Count(events', K) = Count(events, K)
      <4>1. Count(events, K) \in Nat /\ Count(events', K) = Count(events, K) + 0
        BY <2>1, <2>2, <3>1, <3>2, CountAppend
      <4> QED
        BY <4>1
    <3>3. /\ Count(events', {"TOOL_CALL", "INVALID_ACTION", "FINAL"})
               = Count(events, {"TOOL_CALL", "INVALID_ACTION", "FINAL"})
          /\ Count(events', {"TOOL_CALL"}) = Count(events, {"TOOL_CALL"})
          /\ Count(events', {"INVALID_ACTION"}) = Count(events, {"INVALID_ACTION"})
      BY <3>2
    <3> QED
      BY <3>1, <3>3, UsageNext DEF UsageMatchesEvents
  <2>4. BudgetRespected' /\ RequestsCharged' /\ StagesConsistent'
    BY <1>3, InputAssumption
       DEF ModelFails, Abort, BudgetRespected, RequestsCharged,
           StagesConsistent, TerminationReason
  <2> QED
    BY <2>3, <2>4
<1>4. ASSUME NEW d \in Delays, NEW tokens \in TokenCounts,
             NEW answer \in Answers, SubmitFinal(tokens, d, answer)
      PROVE  Accounting'
  <2> DEFINE e == Event("MODEL_OUTPUT", Now(d), None, None, tokens)
             f == Event("FINAL", Now(d), answer, None, None)
  <2>1. e \in Events /\ f \in Events
    BY InputAssumption, TurnType DEF Event, Events, EventKind
  <2>2. /\ e.kind = "MODEL_OUTPUT" /\ f.kind = "FINAL"
        /\ e.kind \notin {"TOOL_CALL", "INVALID_ACTION", "FINAL"}
        /\ f.kind \in {"TOOL_CALL", "INVALID_ACTION", "FINAL"}
    BY DEF Event
  <2>3. events' = Append(Append(events, e), f)
    BY <1>4 DEF SubmitFinal, Store, Recorded
  <2>4. usage' = WithUsage(usage, 1, 0, 0, tokens, 0)
    BY <1>4 DEF SubmitFinal, Store
  <2>5. /\ tokens \in Nat
        /\ usage'.steps = usage.steps + 1
        /\ usage'.tool_calls = usage.tool_calls + 0
        /\ usage'.invalid_actions = usage.invalid_actions + 0
    BY <2>4, InputAssumption DEF WithUsage, TypeOK, Usage
  <2> HIDE DEF e, f
  <2>6. UsageMatchesEvents'
    <3> DEFINE K == {"TOOL_CALL", "INVALID_ACTION", "FINAL"}
    <3>1. Count(events', {"TOOL_CALL", "INVALID_ACTION", "FINAL"})
          = Count(events, {"TOOL_CALL", "INVALID_ACTION", "FINAL"}) + 1
      <4>1. /\ Count(events, K) \in Nat
            /\ Count(events', K) = Count(events, K)
                 + (IF e.kind \in K THEN 1 ELSE 0)
                 + (IF f.kind \in K THEN 1 ELSE 0)
        BY <2>1, <2>3, CountAppendTwice DEF TypeOK
      <4>2. QED
        BY <4>1, <2>2
    <3>2. Count(events', {"TOOL_CALL"})
          = Count(events, {"TOOL_CALL"}) + 0
      BY <2>1, <2>2, <2>3, CountAppendTwice DEF TypeOK
    <3>3. Count(events', {"INVALID_ACTION"})
          = Count(events, {"INVALID_ACTION"}) + 0
      BY <2>1, <2>2, <2>3, CountAppendTwice DEF TypeOK
    <3> QED
      BY <3>1, <3>2, <3>3, <2>5, UsageNext DEF UsageMatchesEvents
  <2>7. pc = "generating" /\ termination_reason' = "final" /\ pc' = "done"
        /\ UNCHANGED <<pending, requested>>
    BY <1>4, InputAssumption DEF SubmitFinal, Store, TerminationReason
  <2>8. BudgetRespected' /\ RequestsCharged' /\ StagesConsistent'
    BY <2>4, <2>5, <2>7, InputAssumption, BudgetAssumption
       DEF BudgetRespected, RequestsCharged, StagesConsistent, WithUsage,
           TypeOK, Usage, TerminationReason
  <2> QED
    BY <2>6, <2>8
<1>5. ASSUME NEW d \in Delays, NEW tokens \in TokenCounts,
             NEW code \in StepErrorCode, RefuseAction(tokens, d, code)
      PROVE  Accounting'
  <2> DEFINE e == Event("MODEL_OUTPUT", Now(d), None, None, tokens)
             f == Event("INVALID_ACTION", Now(d), None, code, None)
             u == WithUsage(usage, 1, 0, 0, tokens, 1)
  <2>1. e \in Events /\ f \in Events
    BY InputAssumption, TurnType DEF Event, Events, EventKind
  <2>2. /\ e.kind = "MODEL_OUTPUT" /\ f.kind = "INVALID_ACTION"
        /\ e.kind \notin {"TOOL_CALL", "INVALID_ACTION", "FINAL"}
        /\ f.kind \in {"TOOL_CALL", "INVALID_ACTION", "FINAL"}
    BY DEF Event
  <2>3. events' = Append(Append(events, e), f)
    BY <1>5 DEF RefuseAction, Store, Recorded
  <2>4. usage' = u /\ u \in Usage
    BY <1>5, InputAssumption, WithUsageType DEF RefuseAction, Store, TypeOK
  <2>5. u.steps = usage.steps + 1 /\ u.tool_calls = usage.tool_calls + 0
        /\ u.invalid_actions = usage.invalid_actions + 1
    BY DEF WithUsage, TypeOK, Usage
  <2>6. /\ pc = "generating"
        /\ termination_reason' = BudgetReason(u)
        /\ pc' = IF termination_reason' = None THEN "turn" ELSE "done"
        /\ UNCHANGED <<pending, requested>>
    BY <1>5 DEF RefuseAction, Store
  <2> HIDE DEF e, f, u
  <2>7. UsageMatchesEvents'
    <3> DEFINE K == {"TOOL_CALL", "INVALID_ACTION", "FINAL"}
    <3>1. Count(events', {"TOOL_CALL", "INVALID_ACTION", "FINAL"})
          = Count(events, {"TOOL_CALL", "INVALID_ACTION", "FINAL"}) + 1
      <4>1. /\ Count(events, K) \in Nat
            /\ Count(events', K) = Count(events, K)
                 + (IF e.kind \in K THEN 1 ELSE 0)
                 + (IF f.kind \in K THEN 1 ELSE 0)
        BY <2>1, <2>3, CountAppendTwice DEF TypeOK
      <4>2. QED
        BY <4>1, <2>2
    <3>2. Count(events', {"TOOL_CALL"})
          = Count(events, {"TOOL_CALL"}) + 0
      BY <2>1, <2>2, <2>3, CountAppendTwice DEF TypeOK
    <3>3. Count(events', {"INVALID_ACTION"})
          = Count(events, {"INVALID_ACTION"}) + 1
      BY <2>1, <2>2, <2>3, CountAppendTwice DEF TypeOK
    <3> QED
      BY <3>1, <3>2, <3>3, <2>4, <2>5, UsageNext DEF UsageMatchesEvents
  <2>8. BudgetRespected'
    BY <2>4, <2>5, <2>6, BudgetReasonType, BudgetAssumption
       DEF BudgetRespected, StagesConsistent, TypeOK, Usage
  <2>9. RequestsCharged' /\ StagesConsistent'
    BY <2>4, <2>5, <2>6 DEF RequestsCharged, StagesConsistent
  <2> QED
    BY <2>7, <2>8, <2>9
<1>6. ASSUME NEW d \in Delays, NEW tokens \in TokenCounts,
             NEW name \in ToolNames, CallTool(tokens, d, name)
      PROVE  Accounting'
  <2> DEFINE e == Event("MODEL_OUTPUT", Now(d), None, None, tokens)
  <2>1. e \in Events /\ e.kind = "MODEL_OUTPUT"
    BY InputAssumption, TurnType DEF Event, Events, EventKind
  <2>2. events' = Append(events, e)
    BY <1>6 DEF CallTool, Recorded
  <2>3. usage' = WithUsage(usage, 0, 0, 0, tokens, 0)
    BY <1>6 DEF CallTool, Spent
  <2>4. /\ usage'.steps = usage.steps
        /\ usage'.tool_calls = usage.tool_calls
        /\ usage'.python_seconds = usage.python_seconds
        /\ usage'.invalid_actions = usage.invalid_actions
    BY <2>3 DEF WithUsage, TypeOK, Usage
  <2>5. pending'.name = name /\ pending' # NoCall
    BY <1>6, InputAssumption DEF CallTool, NoCall
  <2>6. pc = "generating" /\ pending = NoCall
    BY <1>6 DEF CallTool, Permitted, StagesConsistent
  <2> HIDE DEF e
  <2>7. UsageMatchesEvents'
    BY <2>1, <2>2, <2>4, CountAppend, UsageNext
       DEF UsageMatchesEvents, TypeOK
  <2>8. BudgetRespected'
    BY <1>6, <2>4 DEF CallTool, Permitted, BudgetRespected
  <2>9. RequestsCharged'
    BY <1>6, <2>4, <2>5, <2>6, BudgetAssumption
       DEF CallTool, Permitted, RequestsCharged, TypeOK, Usage
  <2>10. StagesConsistent'
    BY <1>6, <2>4, <2>5, <2>6 DEF CallTool, Permitted, StagesConsistent
  <2> QED
    BY <2>7, <2>8, <2>9, <2>10
<1>7. ASSUME NEW result \in ToolResults(pending.name), ToolReturns(result)
      PROVE  Accounting'
  <2> DEFINE name == pending.name
             seconds == PythonSeconds(name, result[2])
             u == WithUsage(usage, 1, 1, seconds, 0, 0)
             e == Event("TOOL_CALL", pending.ms, name, None, None)
             f == Event("TOOL_RESULT", pending.ms, name, result[1], result[2])
  <2>1. /\ result[1] \in ResultCode
        /\ result[2] \in Nat \cup {None}
        /\ seconds \in Nat
    BY ToolResultsType
  <2>2. e \in Events /\ f \in Events
    BY <2>1 DEF Event, Events, EventKind, TypeOK, Call
  <2>3. e.kind = "TOOL_CALL" /\ f.kind = "TOOL_RESULT"
    BY DEF Event
  <2>4. events' = Append(Append(events, e), f)
    BY <1>7 DEF ToolReturns, Store
  <2>5. usage' = u /\ u \in Usage
    <3>1. u \in Usage
      BY <2>1, WithUsageType DEF TypeOK
    <3>2. usage' = u
      BY <1>7 DEF ToolReturns, Store
    <3> QED
      BY <3>1, <3>2
  <2>6. u.steps = usage.steps + 1 /\ u.tool_calls = usage.tool_calls + 1
        /\ u.invalid_actions = usage.invalid_actions + 0
    BY DEF WithUsage, TypeOK, Usage
  <2>7. /\ pc = "executing"
        /\ termination_reason' = BudgetReason(u)
        /\ pc' = IF termination_reason' = None THEN "turn" ELSE "done"
        /\ pending' = NoCall
        /\ UNCHANGED requested
    BY <1>7 DEF ToolReturns, Store
  <2>8. pending # NoCall
    BY <2>7, InputAssumption DEF StagesConsistent, NoCall
  <2> HIDE DEF e, f, u
  <2>9. UsageMatchesEvents'
    <3>1. Count(events', {"TOOL_CALL", "INVALID_ACTION", "FINAL"})
          = Count(events, {"TOOL_CALL", "INVALID_ACTION", "FINAL"}) + 1
      BY <2>2, <2>3, <2>4, CountAppendTwice DEF TypeOK
    <3>2. Count(events', {"TOOL_CALL"})
          = Count(events, {"TOOL_CALL"}) + 1
      BY <2>2, <2>3, <2>4, CountAppendTwice DEF TypeOK
    <3>3. Count(events', {"INVALID_ACTION"})
          = Count(events, {"INVALID_ACTION"}) + 0
      BY <2>2, <2>3, <2>4, CountAppendTwice DEF TypeOK
    <3> QED
      BY <3>1, <3>2, <3>3, <2>5, <2>6, UsageNext DEF UsageMatchesEvents
  <2>10. BudgetRespected'
    BY <2>5, <2>6, <2>7, BudgetReasonType, BudgetAssumption
       DEF BudgetRespected, StagesConsistent, TypeOK, Usage
  <2>11. RequestsCharged'
    BY <2>5, <2>6, <2>7, <2>8 DEF RequestsCharged, TypeOK, Usage
  <2>12. StagesConsistent'
    BY <2>7 DEF StagesConsistent
  <2> QED
    BY <2>9, <2>10, <2>11, <2>12
<1> QED
  BY <1>1, <1>2, <1>3, <1>4, <1>5, <1>6, <1>7, <1>8, <1>9, <1>10
     DEF Next, Work, ModelReturns, ToolAnswers, Finished

LEMMA AccountingInvariant == Spec => [](TypeOK /\ Accounting)
BY TypeInit, TypeNext, AccountingInit, AccountingNext, PTL DEF Spec

\* For every budget and all inputs the books of an episode balance: what
\* ProductMathEnv charges, records and lets into the registry agree.
THEOREM AccountingCorrect == Spec => []Accounting
BY AccountingInvariant, PTL

\* For every budget, the counters charged are those the trace accounts for.
THEOREM UsageCorrect == Spec => []UsageMatchesEvents
BY AccountingInvariant, PTL DEF Accounting

\* For every budget, no episode exceeds it and a running one has not used it up.
THEOREM BudgetCorrect == Spec => []BudgetRespected
BY AccountingInvariant, PTL DEF Accounting

\* For every budget, tools are entered at most max_tool_calls times, and every
\* call that answered is charged.
THEOREM RequestsCorrect == Spec => []RequestsCharged
BY AccountingInvariant, PTL DEF Accounting
-----------------------------------------------------------------------------
(* The answer.                                                             *)

\* AnswerFromFinal in the next state, with the primes on the variables.
LEMMA AnswerPrimed ==
  ASSUME final_answer' # None <=> termination_reason' = "final",
         termination_reason' = "final" =>
           /\ events' # << >>
           /\ events'[Len(events')].kind = "FINAL"
           /\ events'[Len(events')].subject = final_answer',
         Count(events', {"FINAL"})
           = IF termination_reason' = "final" THEN 1 ELSE 0
  PROVE  AnswerFromFinal'
BY DEF AnswerFromFinal, Count

LEMMA AnswerInit == Init => AnswerFromFinal
<1> SUFFICES ASSUME Init PROVE AnswerFromFinal
  OBVIOUS
<1>1. {i \in DOMAIN << >> : << >>[i].kind \in {"FINAL"}} = {}
  OBVIOUS
<1>2. Count(<< >>, {"FINAL"}) = 0
  BY <1>1, FS_EmptySet DEF Count
<1> QED
  BY <1>2, InputAssumption DEF Init, AnswerFromFinal, TerminationReason

LEMMA AnswerNext ==
  TypeOK /\ StagesConsistent /\ AnswerFromFinal /\ [Next]_vars
    => AnswerFromFinal'
<1> SUFFICES ASSUME TypeOK, StagesConsistent, AnswerFromFinal, [Next]_vars
             PROVE  AnswerFromFinal'
  OBVIOUS
<1>a. pc \in {"turn", "generating", "executing"} =>
        /\ termination_reason = None
        /\ final_answer = None
        /\ Count(events, {"FINAL"}) = 0
  BY InputAssumption DEF StagesConsistent, AnswerFromFinal, TerminationReason
<1>1. CASE StopCancelled
  BY <1>1, <1>a, InputAssumption, AnswerPrimed
     DEF StopCancelled, Abort, TerminationReason
<1>2. CASE Generate
  BY <1>2 DEF Generate, envVars, AnswerFromFinal
<1>3. ASSUME NEW d \in Delays, ModelFails(d)
      PROVE  AnswerFromFinal'
  <2> DEFINE e == Event("TERMINATION", Now(d), None, None, None)
  <2>1. e \in Events /\ e.kind \notin {"FINAL"}
    BY InputAssumption DEF Event, Events, EventKind, Now, TypeOK
  <2>2. events' = Append(events, e) /\ pc = "generating"
    BY <1>3 DEF ModelFails
  <2> HIDE DEF e
  <2>3. Count(events', {"FINAL"}) = 0
    BY <2>1, <2>2, <1>a, CountAppend DEF TypeOK
  <2> QED
    BY <1>3, <1>a, <2>3, InputAssumption, AnswerPrimed
       DEF ModelFails, Abort, TerminationReason
<1>4. ASSUME NEW d \in Delays, NEW tokens \in TokenCounts,
             NEW answer \in Answers, SubmitFinal(tokens, d, answer)
      PROVE  AnswerFromFinal'
  <2> DEFINE e == Event("MODEL_OUTPUT", Now(d), None, None, tokens)
             f == Event("FINAL", Now(d), answer, None, None)
  <2>1. e \in Events /\ f \in Events
    BY InputAssumption, TurnType DEF Event, Events, EventKind
  <2>2. /\ e.kind \notin {"FINAL"}
        /\ f.kind \in {"FINAL"} /\ f.kind = "FINAL" /\ f.subject = answer
    BY DEF Event
  <2>3. /\ events' = Append(Append(events, e), f)
        /\ pc = "generating"
        /\ termination_reason' = "final" /\ final_answer' = answer
    BY <1>4 DEF SubmitFinal, Store, Recorded
  <2> HIDE DEF e, f
  <2>4. Count(events', {"FINAL"}) = 1
    BY <2>1, <2>2, <2>3, <1>a, CountAppendTwice DEF TypeOK
  <2>5. events' # << >> /\ events'[Len(events')] = f
    BY <2>1, <2>3 DEF TypeOK
  <2> QED
    BY <2>2, <2>3, <2>4, <2>5, InputAssumption, AnswerPrimed
<1>5. ASSUME NEW d \in Delays, NEW tokens \in TokenCounts,
             NEW code \in StepErrorCode, RefuseAction(tokens, d, code)
      PROVE  AnswerFromFinal'
  <2> DEFINE e == Event("MODEL_OUTPUT", Now(d), None, None, tokens)
             f == Event("INVALID_ACTION", Now(d), None, code, None)
             u == WithUsage(usage, 1, 0, 0, tokens, 1)
  <2>1. e \in Events /\ f \in Events
    BY InputAssumption, TurnType DEF Event, Events, EventKind
  <2>2. e.kind \notin {"FINAL"} /\ f.kind \notin {"FINAL"}
    BY DEF Event
  <2>3. /\ events' = Append(Append(events, e), f)
        /\ pc = "generating"
        /\ termination_reason' = BudgetReason(u) /\ final_answer' = None
    BY <1>5 DEF RefuseAction, Store, Recorded
  <2>4. u \in Usage
    BY InputAssumption, WithUsageType DEF TypeOK
  <2> HIDE DEF e, f, u
  <2>5. Count(events', {"FINAL"}) = 0
    BY <2>1, <2>2, <2>3, <1>a, CountAppendTwice DEF TypeOK
  <2>6. termination_reason' # "final"
    BY <2>3, <2>4, BudgetReasonType, InputAssumption DEF TerminationReason
  <2> QED
    BY <2>3, <2>5, <2>6, AnswerPrimed
<1>6. ASSUME NEW d \in Delays, NEW tokens \in TokenCounts,
             NEW name \in ToolNames, CallTool(tokens, d, name)
      PROVE  AnswerFromFinal'
  <2> DEFINE e == Event("MODEL_OUTPUT", Now(d), None, None, tokens)
  <2>1. e \in Events
    BY InputAssumption, TurnType DEF Event, Events, EventKind
  <2>2. e.kind \notin {"FINAL"}
    BY DEF Event
  <2>3. /\ events' = Append(events, e)
        /\ pc = "generating"
        /\ UNCHANGED <<termination_reason, final_answer>>
    BY <1>6 DEF CallTool, Recorded
  <2> HIDE DEF e
  <2>4. Count(events', {"FINAL"}) = 0
    BY <2>1, <2>2, <2>3, <1>a, CountAppend DEF TypeOK
  <2> QED
    BY <2>3, <2>4, <1>a, InputAssumption, AnswerPrimed DEF TerminationReason
<1>7. ASSUME NEW result \in ToolResults(pending.name), ToolReturns(result)
      PROVE  AnswerFromFinal'
  <2> DEFINE name == pending.name
             u == WithUsage(usage, 1, 1, PythonSeconds(name, result[2]), 0, 0)
             e == Event("TOOL_CALL", pending.ms, name, None, None)
             f == Event("TOOL_RESULT", pending.ms, name, result[1], result[2])
  <2>1. /\ result[1] \in ResultCode
        /\ result[2] \in Nat \cup {None}
        /\ PythonSeconds(name, result[2]) \in Nat
    BY ToolResultsType
  <2>2. e \in Events /\ f \in Events
    BY <2>1 DEF Event, Events, EventKind, TypeOK, Call
  <2>3. e.kind \notin {"FINAL"} /\ f.kind \notin {"FINAL"}
    BY DEF Event
  <2>4. /\ events' = Append(Append(events, e), f)
        /\ pc = "executing"
        /\ termination_reason' = BudgetReason(u) /\ final_answer' = None
    BY <1>7 DEF ToolReturns, Store
  <2>5. u \in Usage
    BY <2>1, WithUsageType DEF TypeOK
  <2> HIDE DEF e, f, u
  <2>6. Count(events', {"FINAL"}) = 0
    BY <2>2, <2>3, <2>4, <1>a, CountAppendTwice DEF TypeOK
  <2>7. termination_reason' # "final"
    BY <2>4, <2>5, BudgetReasonType, InputAssumption DEF TerminationReason
  <2> QED
    BY <2>4, <2>6, <2>7, AnswerPrimed
<1>8. CASE Abandon
  BY <1>8 DEF Abandon, envVars, AnswerFromFinal
<1>9. CASE Cancel
  BY <1>9 DEF Cancel, envVars, AnswerFromFinal
<1>10. CASE UNCHANGED vars
  BY <1>10 DEF vars, envVars, AnswerFromFinal
<1> QED
  BY <1>1, <1>2, <1>3, <1>4, <1>5, <1>6, <1>7, <1>8, <1>9, <1>10
     DEF Next, Work, ModelReturns, ToolAnswers, Finished

\* For every budget, an answer exists exactly when the trace ends in the one
\* FINAL event that submitted it.
THEOREM AnswerCorrect == Spec => []AnswerFromFinal
BY AnswerInit, AnswerNext, AccountingInvariant, PTL DEF Spec, Accounting
-----------------------------------------------------------------------------
(* Why an episode ended.                                                   *)

\* Some Python call has been answered.
PythonRan(evs) ==
  \E i \in DOMAIN evs :
    evs[i].kind = "TOOL_RESULT" /\ evs[i].subject = Python

\* EndJustified speaks of ended episodes; what makes it inductive is that
\* Python time is never charged without an answered call.
EndInv == EndJustified /\ (usage.python_seconds > 0 => PythonRan(events))

LEMMA PythonRanAppend ==
  ASSUME NEW evs \in Seq(Events), NEW e \in Events
  PROVE  /\ PythonRan(evs) => PythonRan(Append(evs, e))
         /\ e.kind = "TOOL_RESULT" /\ e.subject = Python =>
              PythonRan(Append(evs, e))
<1>1. /\ Len(evs) \in Nat
      /\ DOMAIN evs = 1..Len(evs)
      /\ DOMAIN Append(evs, e) = 1..(Len(evs) + 1)
      /\ \A i \in 1..Len(evs) : Append(evs, e)[i] = evs[i]
      /\ Append(evs, e)[Len(evs) + 1] = e
  OBVIOUS
<1>2. PythonRan(evs) => PythonRan(Append(evs, e))
  BY <1>1 DEF PythonRan
<1>3. Len(evs) + 1 \in DOMAIN Append(evs, e)
  BY <1>1
<1> QED
  BY <1>1, <1>2, <1>3 DEF PythonRan

LEMMA PythonRanTwice ==
  ASSUME NEW evs \in Seq(Events), NEW e \in Events, NEW f \in Events
  PROVE  /\ PythonRan(evs) => PythonRan(Append(Append(evs, e), f))
         /\ f.kind = "TOOL_RESULT" /\ f.subject = Python =>
              PythonRan(Append(Append(evs, e), f))
<1>1. Append(evs, e) \in Seq(Events)
  OBVIOUS
<1> QED
  BY <1>1, PythonRanAppend

\* A step keeps EndInv when its reason comes from budget_reason or from
\* something that is no budget.
LEMMA EndPrimed ==
  ASSUME usage' \in Usage, usage'.steps <= MaxSteps,
         usage'.python_seconds > 0 => PythonRan(events'),
         \/ termination_reason' = BudgetReason(usage')
         \/ termination_reason' \in {"final", "cancelled", "model_error", None}
  PROVE  EndInv'
<1>1. usage'.steps \in Nat /\ usage'.python_seconds \in Nat
  BY DEF Usage
<1>2. None \notin TerminationReason
  BY InputAssumption
<1>3. termination_reason' = "max_steps" => usage'.steps = MaxSteps
  BY <1>1, <1>2, BudgetAssumption DEF BudgetReason, TerminationReason
<1>4. termination_reason' = "python_time_budget" =>
        /\ usage'.steps < MaxSteps
        /\ usage'.python_seconds >= MaxPythonSeconds
        /\ usage'.python_seconds > 0
  BY <1>1, <1>2, BudgetAssumption DEF BudgetReason, TerminationReason
<1> QED
  BY <1>3, <1>4 DEF EndInv, EndJustified, PythonRan

LEMMA EndInit == Init => EndInv
BY InputAssumption
   DEF Init, EndInv, EndJustified, NoUsage, TerminationReason

LEMMA EndNext ==
  /\ TypeOK /\ StagesConsistent /\ EndInv /\ [Next]_vars
  /\ TypeOK' /\ BudgetRespected'
  => EndInv'
<1> SUFFICES ASSUME TypeOK, StagesConsistent, EndInv, [Next]_vars,
                    TypeOK', BudgetRespected'
             PROVE  EndInv'
  OBVIOUS
<1>a. pc \in {"turn", "generating", "executing"} => termination_reason = None
  BY DEF StagesConsistent
<1>b. usage' \in Usage /\ usage'.steps <= MaxSteps
  BY DEF TypeOK, BudgetRespected
<1>c. events \in Seq(Events) /\ usage.python_seconds \in Nat
  BY DEF TypeOK, Usage
<1>1. CASE StopCancelled
  BY <1>1, <1>b, EndPrimed DEF StopCancelled, Abort, EndInv
<1>2. CASE Generate
  BY <1>2 DEF Generate, envVars, EndInv, EndJustified
<1>3. ASSUME NEW d \in Delays, ModelFails(d)
      PROVE  EndInv'
  <2> DEFINE e == Event("TERMINATION", Now(d), None, None, None)
  <2>1. e \in Events
    BY InputAssumption DEF Event, Events, EventKind, Now, TypeOK
  <2>2. /\ events' = Append(events, e)
        /\ usage' = usage /\ termination_reason' = "model_error"
    BY <1>3 DEF ModelFails, Abort
  <2> HIDE DEF e
  <2>3. usage'.python_seconds > 0 => PythonRan(events')
    BY <2>1, <2>2, <1>c, PythonRanAppend DEF EndInv
  <2> QED
    BY <2>2, <2>3, <1>b, EndPrimed
<1>4. ASSUME NEW d \in Delays, NEW tokens \in TokenCounts,
             NEW answer \in Answers, SubmitFinal(tokens, d, answer)
      PROVE  EndInv'
  <2> DEFINE e == Event("MODEL_OUTPUT", Now(d), None, None, tokens)
             f == Event("FINAL", Now(d), answer, None, None)
  <2>1. e \in Events /\ f \in Events
    BY InputAssumption, TurnType DEF Event, Events, EventKind
  <2>2. /\ events' = Append(Append(events, e), f)
        /\ usage'.python_seconds = usage.python_seconds + 0
        /\ termination_reason' = "final"
    BY <1>4 DEF SubmitFinal, Store, Recorded, WithUsage
  <2> HIDE DEF e, f
  <2>3. usage'.python_seconds > 0 => PythonRan(events')
    BY <2>1, <2>2, <1>c, PythonRanTwice DEF EndInv
  <2> QED
    BY <2>2, <2>3, <1>b, EndPrimed
<1>5. ASSUME NEW d \in Delays, NEW tokens \in TokenCounts,
             NEW code \in StepErrorCode, RefuseAction(tokens, d, code)
      PROVE  EndInv'
  <2> DEFINE e == Event("MODEL_OUTPUT", Now(d), None, None, tokens)
             f == Event("INVALID_ACTION", Now(d), None, code, None)
  <2>1. e \in Events /\ f \in Events
    BY InputAssumption, TurnType DEF Event, Events, EventKind
  <2>2. /\ events' = Append(Append(events, e), f)
        /\ usage' = WithUsage(usage, 1, 0, 0, tokens, 1)
        /\ termination_reason' = BudgetReason(usage')
    BY <1>5 DEF RefuseAction, Store, Recorded
  <2>3. usage'.python_seconds = usage.python_seconds + 0
    BY <2>2 DEF WithUsage
  <2> HIDE DEF e, f
  <2>4. usage'.python_seconds > 0 => PythonRan(events')
    BY <2>1, <2>2, <2>3, <1>c, PythonRanTwice DEF EndInv
  <2> QED
    BY <2>2, <2>4, <1>b, EndPrimed
<1>6. ASSUME NEW d \in Delays, NEW tokens \in TokenCounts,
             NEW name \in ToolNames, CallTool(tokens, d, name)
      PROVE  EndInv'
  <2> DEFINE e == Event("MODEL_OUTPUT", Now(d), None, None, tokens)
  <2>1. e \in Events
    BY InputAssumption, TurnType DEF Event, Events, EventKind
  <2>2. /\ events' = Append(events, e)
        /\ usage'.python_seconds = usage.python_seconds + 0
        /\ termination_reason' = None
    BY <1>6, <1>a DEF CallTool, Recorded, Spent, WithUsage
  <2> HIDE DEF e
  <2>3. usage'.python_seconds > 0 => PythonRan(events')
    BY <2>1, <2>2, <1>c, PythonRanAppend DEF EndInv
  <2> QED
    BY <2>2, <2>3, <1>b, EndPrimed
<1>7. ASSUME NEW result \in ToolResults(pending.name), ToolReturns(result)
      PROVE  EndInv'
  <2> DEFINE name == pending.name
             time == PythonSeconds(name, result[2])
             e == Event("TOOL_CALL", pending.ms, name, None, None)
             f == Event("TOOL_RESULT", pending.ms, name, result[1], result[2])
  <2>1. /\ result[1] \in ResultCode
        /\ result[2] \in Nat \cup {None}
        /\ time \in Nat
    BY ToolResultsType
  <2>2. e \in Events /\ f \in Events
    BY <2>1 DEF Event, Events, EventKind, TypeOK, Call
  <2>3. time > 0 => f.kind = "TOOL_RESULT" /\ f.subject = Python
    BY DEF Event, PythonSeconds
  <2>4. /\ events' = Append(Append(events, e), f)
        /\ usage' = WithUsage(usage, 1, 1, time, 0, 0)
        /\ termination_reason' = BudgetReason(usage')
    BY <1>7 DEF ToolReturns, Store
  <2>5. usage'.python_seconds = usage.python_seconds + time
    BY <2>4 DEF WithUsage
  <2> HIDE DEF e, f, time
  <2>6. usage'.python_seconds > 0 => PythonRan(events')
    BY <2>1, <2>2, <2>3, <2>4, <2>5, <1>c, PythonRanTwice DEF EndInv
  <2> QED
    BY <2>4, <2>6, <1>b, EndPrimed
<1>8. CASE Abandon
  BY <1>8 DEF Abandon, envVars, EndInv, EndJustified
<1>9. CASE Cancel
  BY <1>9 DEF Cancel, envVars, EndInv, EndJustified
<1>10. CASE UNCHANGED vars
  BY <1>10 DEF vars, envVars, EndInv, EndJustified
<1> QED
  BY <1>1, <1>2, <1>3, <1>4, <1>5, <1>6, <1>7, <1>8, <1>9, <1>10
     DEF Next, Work, ModelReturns, ToolAnswers, Finished

\* For every budget, a zero Python budget among them: an episode ends for a
\* budget only when that budget is used up, and for Python time only after an
\* answered Python call, so a disabled tool ends nothing.
THEOREM EndCorrect == Spec => []EndJustified
<1>1. EndInv => EndJustified
  BY DEF EndInv
<1> QED
  BY <1>1, EndInit, EndNext, AccountingInvariant, PTL DEF Spec, Accounting

\* For every budget and all answers, an ending is told by the trace and the
\* counters: the submitted answer by the last event, a budget by its counter.
THEOREM EndingCorrect == Spec => []EndingExplained
BY AnswerCorrect, EndCorrect, PTL DEF EndingExplained
-----------------------------------------------------------------------------
(* Refinement: the loop and the environment implement BoundedEpisode.      *)

LEMMA BoundedInit == Init => Bounded!Init
BY BudgetAssumption DEF Init, Bounded!Init, NoUsage

LEMMA BoundedNext ==
  TypeOK /\ Accounting /\ Accounting' /\ AnswerFromFinal /\ [Next]_vars
    => [Bounded!Next]_(Bounded!vars)
<1> SUFFICES ASSUME TypeOK, Accounting, Accounting', AnswerFromFinal, [Next]_vars
             PROVE  [Bounded!Next]_(Bounded!vars)
  OBVIOUS
<1>a. /\ termination_reason # None <=> pc = "done"
      /\ usage.steps \in Nat /\ usage.tool_calls \in Nat
      /\ usage'.steps <= MaxSteps /\ usage'.tool_calls <= MaxToolCalls
      /\ termination_reason = None => usage.steps < MaxSteps
      /\ termination_reason' = None => usage'.steps < MaxSteps
      /\ termination_reason = None => final_answer = None
  BY InputAssumption
     DEF Accounting, StagesConsistent, BudgetRespected, AnswerFromFinal,
         TypeOK, Usage, TerminationReason
<1>1. CASE StopCancelled
  <2>1. Bounded!Stop("ended")
    BY <1>1, <1>a, InputAssumption
       DEF StopCancelled, Abort, Bounded!Stop, TerminationReason
  <2> QED
    BY <2>1 DEF Bounded!Next
<1>2. CASE Generate
  BY <1>2, <1>a DEF Generate, envVars, Bounded!vars
<1>3. ASSUME NEW d \in Delays, ModelFails(d)
      PROVE  [Bounded!Next]_(Bounded!vars)
  <2>1. Bounded!Stop("ended")
    BY <1>3, <1>a, InputAssumption
       DEF ModelFails, Abort, Bounded!Stop, TerminationReason
  <2> QED
    BY <2>1 DEF Bounded!Next
<1>4. ASSUME NEW d \in Delays, NEW tokens \in TokenCounts,
             NEW answer \in Answers, SubmitFinal(tokens, d, answer)
      PROVE  [Bounded!Next]_(Bounded!vars)
  <2>1. /\ usage'.steps = usage.steps + 1
        /\ usage'.tool_calls = usage.tool_calls
        /\ pc = "generating" /\ termination_reason' = "final"
        /\ final_answer' = answer
    BY <1>4, <1>a DEF SubmitFinal, Store, WithUsage
  <2>2. Bounded!Submit(answer)
    BY <2>1, <1>a, InputAssumption DEF Bounded!Submit, TerminationReason
  <2> QED
    BY <2>2 DEF Bounded!Next
<1>5. ASSUME NEW d \in Delays, NEW tokens \in TokenCounts,
             NEW code \in StepErrorCode, RefuseAction(tokens, d, code)
      PROVE  [Bounded!Next]_(Bounded!vars)
  <2>1. /\ usage'.steps = usage.steps + 1
        /\ usage'.tool_calls = usage.tool_calls + 0
        /\ pc = "generating" /\ final_answer' = None
        /\ pc' \in {"turn", "done"}
    BY <1>5, <1>a DEF RefuseAction, Store, WithUsage
  <2>2. final_answer = None
    BY <1>a, <2>1
  <2>3. Bounded!Charge(0)
    BY <2>1, <2>2, <1>a DEF Bounded!Charge
  <2> QED
    BY <2>3 DEF Bounded!Next
<1>6. ASSUME NEW d \in Delays, NEW tokens \in TokenCounts,
             NEW name \in ToolNames, CallTool(tokens, d, name)
      PROVE  [Bounded!Next]_(Bounded!vars)
  <2>1. /\ usage'.steps = usage.steps
        /\ usage'.tool_calls = usage.tool_calls
    BY <1>6, <1>a DEF CallTool, Spent, WithUsage
  <2> QED
    BY <1>6, <2>1, <1>a DEF CallTool, Permitted, Bounded!vars
<1>7. ASSUME NEW result \in ToolResults(pending.name), ToolReturns(result)
      PROVE  [Bounded!Next]_(Bounded!vars)
  <2>1. /\ usage'.steps = usage.steps + 1
        /\ usage'.tool_calls = usage.tool_calls + 1
        /\ pc = "executing" /\ final_answer' = None
        /\ pc' \in {"turn", "done"}
    BY <1>7, <1>a DEF ToolReturns, Store, WithUsage
  <2>2. final_answer = None
    BY <1>a, <2>1
  <2>3. Bounded!Charge(1)
    BY <2>1, <2>2, <1>a DEF Bounded!Charge
  <2> QED
    BY <2>3 DEF Bounded!Next
<1>8. CASE Abandon
  <2>1. Bounded!Stop("lost")
    BY <1>8, <1>a DEF Abandon, envVars, Bounded!Stop
  <2> QED
    BY <2>1 DEF Bounded!Next
<1>9. CASE Cancel
  BY <1>9 DEF Cancel, envVars, Bounded!vars
<1>10. CASE UNCHANGED vars
  BY <1>10 DEF vars, envVars, Bounded!vars
<1> QED
  BY <1>1, <1>2, <1>3, <1>4, <1>5, <1>6, <1>7, <1>8, <1>9, <1>10
     DEF Next, Work, ModelReturns, ToolAnswers, Finished

\* For every budget and all inputs, an episode is a bounded episode: every
\* step of loop, environment and tools is one charge, one submission, one stop
\* or nothing.
THEOREM EpisodeImplementsBounded == Spec => ImplementsBoundedEpisode
<1>1. Init => Bounded!Init
  BY BoundedInit
<1>2. TypeOK /\ Accounting /\ Accounting' /\ AnswerFromFinal /\ [Next]_vars
        => [Bounded!Next]_(Bounded!vars)
  BY BoundedNext
<1> QED
  BY <1>1, <1>2, AccountingInvariant, AnswerCorrect, PTL
     DEF Spec, ImplementsBoundedEpisode, Bounded!Spec
-----------------------------------------------------------------------------
(* What an episode leaves for others to read.                              *)

\* The first two conjuncts of TraceGrammar, of any trace.
Chain(evs) ==
  /\ evs # << >> => evs[1].kind \in {"MODEL_OUTPUT", "TERMINATION"}
  /\ \A i \in 1 .. Len(evs) - 1 :
       /\ evs[i + 1].kind \in Follows(evs[i].kind)
       /\ evs[i].kind = "TOOL_CALL" => evs[i + 1].subject = evs[i].subject

\* TimeMonotone, of any trace and clock.
Ordered(evs, bound) ==
  /\ \A i, j \in DOMAIN evs : i <= j => evs[i].ms <= evs[j].ms
  /\ \A i \in DOMAIN evs : evs[i].ms <= bound

Ends(evs, kinds) == evs # << >> /\ evs[Len(evs)].kind \in kinds

Outputs(evs) == Count(evs, {"MODEL_OUTPUT"})
Steps(evs) == Count(evs, {"TOOL_CALL", "INVALID_ACTION", "FINAL"})

Alternates(convo) ==
  /\ Len(convo) >= 2
  /\ \A i \in 3 .. Len(convo) :
       convo[i].role = IF i % 2 = 1 THEN "assistant" ELSE "tool"

\* The conversation is one message ahead of the trace's turns while the model's
\* own message is unanswered, and two when it is.
Unanswered(evs, convo) == Len(convo) = 2 * Outputs(evs) + 1
Answered(evs, convo) == Len(convo) = 2 * Outputs(evs) + 2

PrefixOf(s, t) == Len(s) <= Len(t) /\ s = SubSeq(t, 1, Len(s))

\* A snapshot against a later trace and conversation.
Entry(s, evs, convo) ==
  /\ PrefixOf(s.events, evs)
  /\ PrefixOf(s.messages, convo)
  /\ s.usage.steps = Steps(s.events)
  /\ ~s.terminated => s.messages[Len(s.messages)].role = "tool"

\* A turn whose output is recorded and whose transition is not: what a trace,
\* a conversation and the clock are while a call is awaited, and inside a
\* step before it is stored.
Opened(evs, convo, ms, bound) ==
  /\ Chain(evs) /\ Ordered(evs, bound)
  /\ Ends(evs, {"MODEL_OUTPUT"})
  /\ evs[Len(evs)].ms = ms
  /\ Alternates(convo) /\ Unanswered(evs, convo)
  /\ \A k \in DOMAIN journal :
       Entry(journal[k], evs, convo) /\ ~journal[k].terminated

\* The same after the transition.
Closed(evs, convo, bound) ==
  /\ Chain(evs) /\ Ordered(evs, bound)
  /\ Ends(evs, {"FINAL", "INVALID_ACTION", "TOOL_RESULT"})
  /\ Alternates(convo) /\ Unanswered(evs, convo)
  /\ \A k \in DOMAIN journal :
       Entry(journal[k], evs, convo) /\ ~journal[k].terminated

\* The inductive invariant.  TraceFaithful alone does not say where in a turn
\* the task is, so not that the next event and message fit.
TraceInv ==
  /\ Chain(events)
  /\ Ordered(events, offset + elapsed)
  /\ Alternates(messages)
  /\ Unanswered(events, messages) \/ Answered(events, messages)
  /\ \A k \in DOMAIN journal :
       /\ Entry(journal[k], events, messages)
       /\ journal[k].terminated => k = Len(journal) /\ pc = "done"
  /\ pending # NoCall <=> Ends(events, {"MODEL_OUTPUT"})
  /\ pc \in {"turn", "generating"} =>
       /\ events = << >> \/ Ends(events, {"TOOL_RESULT", "INVALID_ACTION"})
       /\ Answered(events, messages)
  /\ pc = "executing" =>
       /\ Unanswered(events, messages)
       /\ pending.ms = events[Len(events)].ms
-----------------------------------------------------------------------------
(* Lemmas about one event, one message, one snapshot.                      *)

\* An event that may follow the last one keeps the grammar.
LEMMA ChainAppend ==
  ASSUME NEW evs \in Seq(Events), NEW e \in Events, Chain(evs),
         evs = << >> => e.kind \in {"MODEL_OUTPUT", "TERMINATION"},
         evs # << >> =>
           /\ e.kind \in Follows(evs[Len(evs)].kind)
           /\ evs[Len(evs)].kind = "TOOL_CALL" =>
                e.subject = evs[Len(evs)].subject
  PROVE  Chain(Append(evs, e))
<1> DEFINE new == Append(evs, e)
<1>1. /\ Len(new) = Len(evs) + 1 /\ Len(evs) \in Nat
      /\ \A i \in 1 .. Len(evs) : new[i] = evs[i]
      /\ new[Len(evs) + 1] = e
  OBVIOUS
<1> HIDE DEF new
<1>2. new[1].kind \in {"MODEL_OUTPUT", "TERMINATION"}
  <2>1. CASE evs = << >>
    BY <1>1, <2>1
  <2>2. CASE evs # << >>
    <3>1. Len(evs) >= 1
      BY <2>2
    <3> QED
      BY <1>1, <2>2, <3>1 DEF Chain
  <2> QED
    BY <2>1, <2>2
<1>3. ASSUME NEW i \in 1 .. Len(new) - 1
      PROVE  /\ new[i + 1].kind \in Follows(new[i].kind)
             /\ new[i].kind = "TOOL_CALL" => new[i + 1].subject = new[i].subject
  <2>1. CASE i = Len(evs)
    <3>1. evs # << >>
      BY <1>1, <2>1
    <3> QED
      BY <1>1, <2>1, <3>1
  <2>2. CASE i # Len(evs)
    <3>1. i \in 1 .. Len(evs) - 1 /\ new[i] = evs[i] /\ new[i + 1] = evs[i + 1]
      BY <1>1, <2>2
    <3> QED
      BY <3>1 DEF Chain
  <2> QED
    BY <2>1, <2>2
<1> QED
  BY <1>2, <1>3 DEF Chain, new

\* An event no earlier than the others and no later than the clock keeps order.
LEMMA OrderedAppend ==
  ASSUME NEW evs \in Seq(Events), NEW e \in Events, NEW b, NEW c \in Nat,
         Ordered(evs, b), e.ms <= c,
         \A i \in DOMAIN evs : evs[i].ms <= e.ms
  PROVE  Ordered(Append(evs, e), c)
<1> DEFINE new == Append(evs, e)
<1>1. /\ DOMAIN new = 1 .. Len(evs) + 1 /\ Len(evs) \in Nat
      /\ DOMAIN evs = 1 .. Len(evs)
      /\ \A i \in 1 .. Len(evs) : new[i] = evs[i] /\ evs[i] \in Events
      /\ new[Len(evs) + 1] = e
  OBVIOUS
<1>2. e.ms \in Nat /\ \A i \in 1 .. Len(evs) : evs[i].ms \in Nat
  BY <1>1 DEF Events
<1> HIDE DEF new
<1>3. ASSUME NEW i \in DOMAIN new, NEW j \in DOMAIN new, i <= j
      PROVE  new[i].ms <= new[j].ms
  <2>1. CASE j = Len(evs) + 1
    BY <1>1, <1>2, <2>1
  <2>2. CASE j # Len(evs) + 1
    <3>1. i \in 1 .. Len(evs) /\ j \in 1 .. Len(evs)
      BY <1>1, <1>3, <2>2
    <3> QED
      BY <1>1, <1>3, <3>1 DEF Ordered
  <2> QED
    BY <2>1, <2>2
<1>4. ASSUME NEW i \in DOMAIN new
      PROVE  new[i].ms <= c
  <2>1. CASE i = Len(evs) + 1
    BY <1>1, <2>1
  <2>2. CASE i # Len(evs) + 1
    <3>1. i \in 1 .. Len(evs) /\ evs[i].ms <= e.ms
      BY <1>1, <2>2
    <3> QED
      BY <1>1, <1>2, <3>1
  <2> QED
    BY <2>1, <2>2
<1> QED
  BY <1>3, <1>4 DEF Ordered, new

\* The last event is what follows are measured against.
LEMMA EndsAppend ==
  ASSUME NEW evs \in Seq(Events), NEW e \in Events, NEW kinds
  PROVE  /\ Append(evs, e) \in Seq(Events)
         /\ Append(evs, e)[Len(Append(evs, e))] = e
         /\ Append(evs, e) # << >>
         /\ Ends(Append(evs, e), kinds) <=> e.kind \in kinds
BY DEF Ends

\* A message of the role whose turn it is keeps the alternation.
LEMMA AlternatesAppend ==
  ASSUME NEW convo \in Seq(Message), NEW m \in Message, Alternates(convo),
         m.role = IF Len(convo) % 2 = 0 THEN "assistant" ELSE "tool"
  PROVE  /\ Alternates(Append(convo, m))
         /\ Len(Append(convo, m)) = Len(convo) + 1
<1> DEFINE new == Append(convo, m)
<1>1. /\ Len(new) = Len(convo) + 1 /\ Len(convo) \in Nat
      /\ \A i \in 1 .. Len(convo) : new[i] = convo[i]
      /\ new[Len(convo) + 1] = m
  OBVIOUS
<1> HIDE DEF new
<1>2. ASSUME NEW i \in 3 .. Len(new)
      PROVE  new[i].role = IF i % 2 = 1 THEN "assistant" ELSE "tool"
  <2>1. CASE i = Len(convo) + 1
    BY <1>1, <2>1
  <2>2. CASE i # Len(convo) + 1
    <3>1. i \in 3 .. Len(convo) /\ new[i] = convo[i]
      BY <1>1, <2>2
    <3> QED
      BY <3>1 DEF Alternates
  <2> QED
    BY <2>1, <2>2
<1> QED
  BY <1>1, <1>2 DEF Alternates, new

\* What was a prefix stays one, and everything is a prefix of itself.
LEMMA PrefixAppend ==
  ASSUME NEW S, NEW t \in Seq(S), NEW x \in S
  PROVE  /\ PrefixOf(t, t)
         /\ \A s \in Seq(S) : PrefixOf(s, t) => PrefixOf(s, Append(t, x))
<1>1. PrefixOf(t, t)
  BY DEF PrefixOf
<1>2. ASSUME NEW s \in Seq(S), PrefixOf(s, t)
      PROVE  PrefixOf(s, Append(t, x))
  <2>1. /\ Len(s) \in Nat /\ Len(t) \in Nat /\ Len(s) <= Len(t)
        /\ Len(Append(t, x)) = Len(t) + 1
    BY <1>2 DEF PrefixOf
  <2>2. SubSeq(Append(t, x), 1, Len(s)) = SubSeq(t, 1, Len(s))
    BY <2>1
  <2> QED
    BY <1>2, <2>1, <2>2 DEF PrefixOf
<1> QED
  BY <1>1, <1>2

\* A snapshot that was true stays true when an event or a message is added.
LEMMA EntryAppend ==
  ASSUME NEW s \in Snapshot, NEW evs \in Seq(Events), NEW convo \in Seq(Message),
         NEW e \in Events, NEW m \in Message, Entry(s, evs, convo)
  PROVE  /\ Entry(s, Append(evs, e), convo)
         /\ Entry(s, evs, Append(convo, m))
<1>1. s.events \in Seq(Events) /\ s.messages \in Seq(Message)
  BY DEF Snapshot
<1>2. PrefixOf(s.events, Append(evs, e))
  BY <1>1, PrefixAppend DEF Entry
<1>3. PrefixOf(s.messages, Append(convo, m))
  BY <1>1, PrefixAppend DEF Entry
<1> QED
  BY <1>2, <1>3 DEF Entry

\* The snapshots of the journal, against a trace and conversation longer by one.
Unended(evs, convo) ==
  \A k \in DOMAIN journal :
    Entry(journal[k], evs, convo) /\ ~journal[k].terminated

LEMMA UnendedAppend ==
  ASSUME TypeOK, NEW evs \in Seq(Events), NEW convo \in Seq(Message),
         NEW e \in Events, NEW m \in Message, Unended(evs, convo)
  PROVE  /\ Unended(Append(evs, e), convo)
         /\ Unended(evs, Append(convo, m))
<1> SUFFICES ASSUME NEW k \in DOMAIN journal
             PROVE  /\ Entry(journal[k], Append(evs, e), convo)
                    /\ Entry(journal[k], evs, Append(convo, m))
                    /\ ~journal[k].terminated
  BY DEF Unended
<1>1. journal[k] \in Snapshot
  BY DEF TypeOK
<1>2. Entry(journal[k], evs, convo) /\ ~journal[k].terminated
  BY DEF Unended
<1> QED
  BY <1>1, <1>2, EntryAppend

\* Outputs grows with model outputs only.
LEMMA OutputsAppend ==
  ASSUME NEW evs \in Seq(Events), NEW e \in Events
  PROVE  /\ Outputs(evs) \in Nat
         /\ e.kind = "MODEL_OUTPUT" => Outputs(Append(evs, e)) = Outputs(evs) + 1
         /\ e.kind # "MODEL_OUTPUT" => Outputs(Append(evs, e)) = Outputs(evs)
<1>1. /\ Count(evs, {"MODEL_OUTPUT"}) \in Nat
      /\ Count(Append(evs, e), {"MODEL_OUTPUT"})
           = Count(evs, {"MODEL_OUTPUT"})
               + (IF e.kind \in {"MODEL_OUTPUT"} THEN 1 ELSE 0)
  BY CountAppend
<1> QED
  BY <1>1 DEF Outputs

\* No event is younger than the last one.
LEMMA LastIsLatest ==
  ASSUME NEW evs \in Seq(Events), NEW b, Ordered(evs, b), evs # << >>
  PROVE  /\ evs[Len(evs)] \in Events
         /\ \A i \in DOMAIN evs : evs[i].ms <= evs[Len(evs)].ms
         /\ evs[Len(evs)].ms <= b
<1>1. Len(evs) \in DOMAIN evs /\ DOMAIN evs = 1 .. Len(evs) /\ Len(evs) \in Nat
  OBVIOUS
<1> QED
  BY <1>1 DEF Ordered

\* A model output opens a turn: record_model_output and the assistant message.
LEMMA TurnOpens ==
  ASSUME TypeOK, TraceInv, pc = "generating",
         NEW d \in Delays, NEW tokens \in TokenCounts
  PROVE  /\ Opened(Recorded(tokens, d), Said, Now(d), offset + (elapsed + d))
         /\ Recorded(tokens, d) \in Seq(Events)
         /\ Said \in Seq(Message)
         /\ Now(d) \in Nat /\ offset + (elapsed + d) = Now(d)
<1> DEFINE e == Event("MODEL_OUTPUT", Now(d), None, None, tokens)
<1>1. /\ Now(d) \in Nat
      /\ Recorded(tokens, d) \in Seq(Events) /\ Said \in Seq(Message)
  BY TurnType
<1>2. d \in Nat /\ tokens \in Nat /\ offset \in Nat /\ elapsed \in Nat
  BY InputAssumption DEF TypeOK
<1>3. offset + (elapsed + d) = Now(d) /\ offset + elapsed <= Now(d)
  BY <1>2 DEF Now
<1>4. /\ e \in Events /\ e.kind = "MODEL_OUTPUT" /\ e.ms = Now(d)
      /\ Recorded(tokens, d) = Append(events, e)
  BY <1>1, <1>2 DEF Event, Events, EventKind, Recorded
<1>5. /\ Turn \in Message /\ Turn.role = "assistant"
      /\ Said = Append(messages, Turn)
  BY DEF Turn, Message, Content, Said
<1>6. events \in Seq(Events) /\ messages \in Seq(Message)
  BY DEF TypeOK
<1>7. /\ Chain(events) /\ Ordered(events, offset + elapsed)
      /\ Alternates(messages) /\ Answered(events, messages)
      /\ events = << >> \/ Ends(events, {"TOOL_RESULT", "INVALID_ACTION"})
      /\ Unended(events, messages)
  BY DEF TraceInv, Unended
<1> HIDE DEF e
<1>8. Chain(Append(events, e))
  <2>1. events # << >> =>
          /\ e.kind \in Follows(events[Len(events)].kind)
          /\ events[Len(events)].kind # "TOOL_CALL"
    BY <1>4, <1>7 DEF Ends, Follows
  <2> QED
    BY <1>4, <1>6, <1>7, <2>1, ChainAppend
<1>9. Ordered(Append(events, e), Now(d))
  <2>1. \A i \in DOMAIN events : events[i].ms <= e.ms
    <3> SUFFICES ASSUME NEW i \in DOMAIN events PROVE events[i].ms <= e.ms
      OBVIOUS
    <3>1. events[i] \in Events
      BY <1>6
    <3>2. events[i].ms \in Nat
      BY <3>1 DEF Events
    <3>3. events[i].ms <= offset + elapsed
      BY <1>7 DEF Ordered
    <3> QED
      BY <3>2, <3>3, <1>1, <1>2, <1>3, <1>4
  <2>2. e.ms <= Now(d)
    BY <1>1, <1>4
  <2> QED
    BY <1>1, <1>4, <1>6, <1>7, <2>1, <2>2, OrderedAppend
<1>10. /\ Ends(Append(events, e), {"MODEL_OUTPUT"})
       /\ Append(events, e)[Len(Append(events, e))].ms = Now(d)
  BY <1>4, <1>6, EndsAppend
<1>11. Outputs(events) \in Nat /\ Outputs(Append(events, e)) = Outputs(events) + 1
  BY <1>4, <1>6, OutputsAppend
<1>12. Alternates(Said) /\ Len(Said) = Len(messages) + 1
  <2>1. Len(messages) % 2 = 0
    BY <1>7, <1>11 DEF Answered
  <2> QED
    BY <1>5, <1>6, <1>7, <2>1, AlternatesAppend
<1>13. Unanswered(Append(events, e), Said)
  BY <1>7, <1>11, <1>12 DEF Unanswered, Answered
<1>14. Unended(Append(events, e), Said)
  <2>1. Unended(Append(events, e), messages)
    BY <1>4, <1>5, <1>6, <1>7, UnendedAppend
  <2>2. Append(events, e) \in Seq(Events)
    BY <1>4, <1>6
  <2> QED
    BY <1>4, <1>5, <1>6, <2>1, <2>2, UnendedAppend
<1> QED
  BY <1>1, <1>3, <1>4, <1>8, <1>9, <1>10, <1>12, <1>13, <1>14
     DEF Opened, Unended

\* One more event of the time of the output: what both transitions add.
LEMMA EventFits ==
  ASSUME TypeOK, NEW evs \in Seq(Events), NEW convo \in Seq(Message),
         NEW e \in Events, NEW bound \in Nat,
         Chain(evs), Ordered(evs, bound), evs # << >>,
         Unanswered(evs, convo), Unended(evs, convo),
         e.kind \in Follows(evs[Len(evs)].kind), e.kind # "MODEL_OUTPUT",
         evs[Len(evs)].kind = "TOOL_CALL" => e.subject = evs[Len(evs)].subject,
         e.ms = evs[Len(evs)].ms
  PROVE  /\ Chain(Append(evs, e)) /\ Ordered(Append(evs, e), bound)
         /\ Unanswered(Append(evs, e), convo) /\ Unended(Append(evs, e), convo)
<1>1. Chain(Append(evs, e))
  BY ChainAppend
<1>2. Ordered(Append(evs, e), bound)
  <2>1. /\ \A i \in DOMAIN evs : evs[i].ms <= evs[Len(evs)].ms
        /\ evs[Len(evs)].ms <= bound
    BY LastIsLatest
  <2> QED
    BY <2>1, OrderedAppend
<1>3. Unanswered(Append(evs, e), convo)
  BY OutputsAppend DEF Unanswered
<1>4. Turn \in Message
  BY DEF Turn, Message, Content
<1>5. Unended(Append(evs, e), convo)
  BY <1>4, UnendedAppend
<1> QED
  BY <1>1, <1>2, <1>3, <1>5

\* A refusal or an answer closes a turn.
LEMMA EventCloses ==
  ASSUME TypeOK, NEW evs \in Seq(Events), NEW convo \in Seq(Message),
         NEW e \in Events, NEW ms, NEW bound \in Nat,
         Opened(evs, convo, ms, bound),
         e.kind \in {"FINAL", "INVALID_ACTION"}, e.ms = ms
  PROVE  Closed(Append(evs, e), convo, bound)
<1>1. /\ Chain(evs) /\ Ordered(evs, bound) /\ evs # << >>
      /\ evs[Len(evs)].kind = "MODEL_OUTPUT" /\ evs[Len(evs)].ms = ms
      /\ Alternates(convo) /\ Unanswered(evs, convo) /\ Unended(evs, convo)
  BY DEF Opened, Ends, Unended
<1>2. e.kind \in Follows(evs[Len(evs)].kind) /\ e.kind # "MODEL_OUTPUT"
  BY <1>1 DEF Follows
<1>3. /\ Chain(Append(evs, e)) /\ Ordered(Append(evs, e), bound)
      /\ Unanswered(Append(evs, e), convo) /\ Unended(Append(evs, e), convo)
  BY <1>1, <1>2, EventFits
<1>4. Ends(Append(evs, e), {"FINAL", "INVALID_ACTION", "TOOL_RESULT"})
  BY EndsAppend
<1> QED
  BY <1>1, <1>3, <1>4 DEF Closed, Unended

\* A call and its result close a turn.
LEMMA CallCloses ==
  ASSUME TypeOK, NEW evs \in Seq(Events), NEW convo \in Seq(Message),
         NEW call \in Events, NEW answer \in Events, NEW ms, NEW bound \in Nat,
         Opened(evs, convo, ms, bound),
         call.kind = "TOOL_CALL", call.ms = ms,
         answer.kind = "TOOL_RESULT", answer.ms = ms,
         answer.subject = call.subject
  PROVE  Closed(Append(Append(evs, call), answer), convo, bound)
<1> DEFINE mid == Append(evs, call)
<1>1. /\ Chain(evs) /\ Ordered(evs, bound) /\ evs # << >>
      /\ evs[Len(evs)].kind = "MODEL_OUTPUT" /\ evs[Len(evs)].ms = ms
      /\ Alternates(convo) /\ Unanswered(evs, convo) /\ Unended(evs, convo)
  BY DEF Opened, Ends, Unended
<1>2. call.kind \in Follows(evs[Len(evs)].kind) /\ call.kind # "MODEL_OUTPUT"
  BY <1>1 DEF Follows
<1>3. /\ Chain(mid) /\ Ordered(mid, bound)
      /\ Unanswered(mid, convo) /\ Unended(mid, convo)
  BY <1>1, <1>2, EventFits
<1>4. mid \in Seq(Events) /\ mid # << >> /\ mid[Len(mid)] = call
  BY EndsAppend
<1> HIDE DEF mid
<1>5. /\ answer.kind \in Follows(mid[Len(mid)].kind)
      /\ answer.kind # "MODEL_OUTPUT"
      /\ answer.ms = mid[Len(mid)].ms
      /\ answer.subject = mid[Len(mid)].subject
  BY <1>4 DEF Follows
<1>6. /\ Chain(Append(mid, answer)) /\ Ordered(Append(mid, answer), bound)
      /\ Unanswered(Append(mid, answer), convo)
      /\ Unended(Append(mid, answer), convo)
  BY <1>3, <1>4, <1>5, EventFits
<1>7. Ends(Append(mid, answer), {"FINAL", "INVALID_ACTION", "TOOL_RESULT"})
  BY <1>4, EndsAppend
<1> QED
  BY <1>1, <1>6, <1>7 DEF Closed, Unended, mid
-----------------------------------------------------------------------------
(* The invariant is inductive.                                             *)

\* TraceInv of the next state, with the primes on the variables.
LEMMA TracePrimed ==
  ASSUME Chain(events'), Ordered(events', offset' + elapsed'),
         Alternates(messages'),
         Unanswered(events', messages') \/ Answered(events', messages'),
         \A k \in DOMAIN journal' :
           /\ Entry(journal'[k], events', messages')
           /\ journal'[k].terminated => k = Len(journal') /\ pc' = "done",
         pending' # NoCall <=> Ends(events', {"MODEL_OUTPUT"}),
         pc' \in {"turn", "generating"} =>
           /\ events' = << >> \/ Ends(events', {"TOOL_RESULT", "INVALID_ACTION"})
           /\ Answered(events', messages'),
         pc' = "executing" =>
           /\ Unanswered(events', messages')
           /\ pending'.ms = events'[Len(events')].ms
  PROVE  TraceInv'
BY DEF TraceInv, Chain, Ordered, Alternates, Unanswered, Answered, Entry,
       PrefixOf, Ends, Outputs, Steps, Count

\* Storing a closed turn: the observation is there exactly if the episode goes
\* on, and the new snapshot is what the trace and the conversation now are.
LEMMA StoreTrace ==
  ASSUME TypeOK, NEW convo \in Seq(Message), NEW evs \in Seq(Events),
         NEW u \in Usage, NEW reason, NEW answer,
         NEW observation \in Content \cup {None},
         Store(convo, evs, u, reason, answer, observation),
         Closed(evs, convo, offset' + elapsed'),
         pending' = NoCall,
         u.steps = Steps(evs),
         reason = None =>
           observation # None /\ Ends(evs, {"TOOL_RESULT", "INVALID_ACTION"})
  PROVE  TraceInv'
<1> DEFINE next == IF observation # None /\ reason = None
                   THEN Append(convo, Observation(observation)) ELSE convo
           shot == [messages |-> next, usage |-> u, events |-> evs,
                    terminated |-> reason # None]
<1>1. /\ messages' = next /\ events' = evs /\ journal' = Append(journal, shot)
      /\ pc' = IF reason = None THEN "turn" ELSE "done"
  BY DEF Store, StepSnapshot
<1>2. /\ Chain(evs) /\ Ordered(evs, offset' + elapsed')
      /\ Ends(evs, {"FINAL", "INVALID_ACTION", "TOOL_RESULT"})
      /\ Alternates(convo) /\ Unanswered(evs, convo) /\ Unended(evs, convo)
  BY DEF Closed, Unended
<1>3. Outputs(evs) \in Nat
  <2>1. evs # << >>
    BY <1>2 DEF Ends
  <2>2. evs[Len(evs)] \in Events
    BY <1>2, <2>1, LastIsLatest
  <2> QED
    BY <2>2, OutputsAppend
<1>4. Len(convo) % 2 = 1 /\ Len(convo) \in Nat
  BY <1>2, <1>3 DEF Unanswered
<1>5. /\ next \in Seq(Message) /\ Alternates(next) /\ Unended(evs, next)
      /\ PrefixOf(next, next)
      /\ reason # None => Unanswered(evs, next)
      /\ reason = None =>
           Answered(evs, next) /\ next[Len(next)].role = "tool"
  <2>1. CASE reason = None
    <3> DEFINE m == Observation(observation)
    <3>1. m \in Message /\ m.role = "tool" /\ next = Append(convo, m)
      BY <2>1 DEF Observation, Message
    <3> HIDE DEF m, next
    <3>2. Alternates(next) /\ Len(next) = Len(convo) + 1
      BY <1>2, <1>4, <3>1, AlternatesAppend
    <3>3. Unended(evs, next)
      <4>1. evs # << >>
        BY <1>2 DEF Ends
      <4>2. evs[Len(evs)] \in Events
        BY <1>2, <4>1, LastIsLatest
      <4> QED
        BY <1>2, <3>1, <4>2, UnendedAppend
    <3>4. next \in Seq(Message) /\ next[Len(next)] = m
      BY <3>1
    <3>5. PrefixOf(next, next)
      BY <3>1, <3>4, PrefixAppend
    <3>6. Answered(evs, next)
      BY <1>2, <1>3, <1>4, <3>2 DEF Unanswered, Answered
    <3> QED
      BY <2>1, <3>1, <3>2, <3>3, <3>4, <3>5, <3>6
  <2>2. CASE reason # None
    <3>1. next = convo
      BY <2>2
    <3>2. PrefixOf(convo, convo)
      BY DEF PrefixOf
    <3> QED
      BY <1>2, <2>2, <3>1, <3>2
  <2> QED
    BY <2>1, <2>2
<1> HIDE DEF next
<1>6. ASSUME NEW k \in DOMAIN journal'
      PROVE  /\ Entry(journal'[k], events', messages')
             /\ journal'[k].terminated => k = Len(journal') /\ pc' = "done"
  <2>1. Entry(shot, evs, next)
    <3>1. PrefixOf(evs, evs)
      BY DEF PrefixOf
    <3> QED
      BY <1>5, <3>1 DEF Entry
  <2> HIDE DEF shot
  <2>2. journal \in Seq(Snapshot)
    BY DEF TypeOK
  <2>3. CASE k = Len(journal) + 1
    <3>1. journal'[k] = shot /\ k = Len(journal')
      BY <1>1, <2>2, <2>3
    <3>2. shot.terminated => reason # None
      BY DEF shot
    <3> QED
      BY <1>1, <2>1, <3>1, <3>2
  <2>4. CASE k # Len(journal) + 1
    <3>1. k \in DOMAIN journal /\ journal'[k] = journal[k]
      BY <1>1, <2>2, <2>4
    <3>2. Entry(journal[k], evs, next) /\ ~journal[k].terminated
      BY <1>5, <3>1 DEF Unended
    <3> QED
      BY <1>1, <3>1, <3>2
  <2> QED
    BY <2>3, <2>4
<1>7. ~Ends(events', {"MODEL_OUTPUT"})
  BY <1>1, <1>2 DEF Ends
<1>8. /\ Chain(events') /\ Ordered(events', offset' + elapsed')
      /\ Alternates(messages')
      /\ Unanswered(events', messages') \/ Answered(events', messages')
  BY <1>1, <1>2, <1>5
<1>9. /\ pc' \in {"turn", "generating"} =>
           /\ Ends(events', {"TOOL_RESULT", "INVALID_ACTION"})
           /\ Answered(events', messages')
      /\ pc' # "executing"
  BY <1>1, <1>5
<1> QED
  BY <1>6, <1>7, <1>8, <1>9, TracePrimed

LEMMA TraceInit == Init => TraceInv
<1> SUFFICES ASSUME Init PROVE TraceInv
  OBVIOUS
<1>1. Outputs(<< >>) = 0
  <2>1. {i \in DOMAIN << >> : << >>[i].kind \in {"MODEL_OUTPUT"}} = {}
    OBVIOUS
  <2> QED
    BY <2>1, FS_EmptySet DEF Outputs, Count
<1>2. Chain(events) /\ Ordered(events, offset + elapsed)
  BY DEF Init, Chain, Ordered
<1>3. Alternates(messages) /\ Answered(events, messages)
  BY <1>1 DEF Init, Prompt, Alternates, Answered
<1>4. journal = << >> /\ pending = NoCall /\ events = << >> /\ pc = "turn"
  BY DEF Init
<1> QED
  BY <1>2, <1>3, <1>4 DEF TraceInv, Ends

\* A step that leaves trace, conversation, journal and clock alone may move the
\* task to an end, or from the head of the loop to the generation.
LEMMA TraceUnchanged ==
  ASSUME TypeOK, TraceInv,
         UNCHANGED <<events, messages, journal, offset, elapsed, pending>>,
         \/ pc' = pc
         \/ pc = "turn" /\ pc' = "generating"
         \/ pc # "done" /\ pc' \in {"done", "abandoned"}
  PROVE  TraceInv'
<1>1. /\ Chain(events') /\ Ordered(events', offset' + elapsed')
      /\ Alternates(messages')
      /\ Unanswered(events', messages') \/ Answered(events', messages')
  BY DEF TraceInv
<1>2. \A k \in DOMAIN journal' :
        /\ Entry(journal'[k], events', messages')
        /\ journal'[k].terminated => k = Len(journal') /\ pc' = "done"
  BY DEF TraceInv
<1>3. pending' # NoCall <=> Ends(events', {"MODEL_OUTPUT"})
  BY DEF TraceInv
<1>4. pc' \in {"turn", "generating"} =>
        /\ events' = << >> \/ Ends(events', {"TOOL_RESULT", "INVALID_ACTION"})
        /\ Answered(events', messages')
  BY DEF TraceInv
<1>5. pc' = "executing" =>
        /\ Unanswered(events', messages')
        /\ pending'.ms = events'[Len(events')].ms
  BY DEF TraceInv
<1> QED
  BY <1>1, <1>2, <1>3, <1>4, <1>5, TracePrimed

LEMMA TraceNext ==
  TypeOK /\ TypeOK' /\ Accounting /\ Accounting' /\ TraceInv /\ [Next]_vars
    => TraceInv'
<1> SUFFICES ASSUME TypeOK, TypeOK', Accounting, Accounting', TraceInv,
                    [Next]_vars
             PROVE  TraceInv'
  OBVIOUS
<1> USE DEF envVars
<1>charged. usage'.steps = Steps(events')
  BY DEF Accounting, UsageMatchesEvents, Steps, Count
<1>idle. pc = "generating" => pending = NoCall
  BY DEF Accounting, StagesConsistent
<1>1. CASE StopCancelled
  BY <1>1, TraceUnchanged DEF StopCancelled, Abort
<1>2. CASE Generate
  BY <1>2, TraceUnchanged DEF Generate
<1>3. ASSUME NEW d \in Delays, ModelFails(d)
      PROVE  TraceInv'
  <2> DEFINE e == Event("TERMINATION", Now(d), None, None, None)
  <2>1. /\ pc = "generating" /\ pc' = "done" /\ events' = Append(events, e)
        /\ elapsed' = elapsed + d
        /\ UNCHANGED <<offset, messages, journal, pending>>
    BY <1>3 DEF ModelFails, Abort
  <2>2. d \in Nat /\ offset \in Nat /\ elapsed \in Nat
    BY InputAssumption DEF TypeOK
  <2>3. /\ Now(d) \in Nat /\ Now(d) = offset' + elapsed'
        /\ offset + elapsed <= Now(d)
    BY <2>1, <2>2 DEF Now
  <2>4. e \in Events /\ e.kind = "TERMINATION" /\ e.ms = Now(d)
    BY <2>3 DEF Event, Events, EventKind
  <2> HIDE DEF e
  <2>5. events \in Seq(Events) /\ messages \in Seq(Message)
    BY DEF TypeOK
  <2>6. /\ Chain(events) /\ Ordered(events, offset + elapsed)
        /\ Alternates(messages) /\ Answered(events, messages)
        /\ events = << >> \/ Ends(events, {"TOOL_RESULT", "INVALID_ACTION"})
        /\ Unended(events, messages)
    BY <2>1 DEF TraceInv, Unended
  <2>7. Chain(events')
    <3>1. events # << >> =>
            /\ e.kind \in Follows(events[Len(events)].kind)
            /\ events[Len(events)].kind # "TOOL_CALL"
      BY <2>4, <2>6 DEF Ends, Follows
    <3> QED
      BY <2>1, <2>4, <2>5, <2>6, <3>1, ChainAppend
  <2>8. Ordered(events', offset' + elapsed')
    <3>1. \A i \in DOMAIN events : events[i].ms <= e.ms
      <4> SUFFICES ASSUME NEW i \in DOMAIN events PROVE events[i].ms <= e.ms
        OBVIOUS
      <4>1. events[i] \in Events
        BY <2>5
      <4>2. events[i].ms \in Nat
        BY <4>1 DEF Events
      <4>3. events[i].ms <= offset + elapsed
        BY <2>6 DEF Ordered
      <4> QED
        BY <4>2, <4>3, <2>2, <2>3, <2>4
    <3>2. e.ms <= Now(d)
      BY <2>3, <2>4
    <3>3. Ordered(Append(events, e), Now(d))
      BY <2>3, <2>4, <2>5, <2>6, <3>1, <3>2, OrderedAppend
    <3> QED
      BY <2>1, <2>3, <3>3
  <2>9. Answered(events', messages')
    BY <2>1, <2>4, <2>5, <2>6, OutputsAppend DEF Answered
  <2>10. ~Ends(events', {"MODEL_OUTPUT"})
    BY <2>1, <2>4, <2>5, EndsAppend
  <2>11. Unended(events', messages')
    <3>1. Turn \in Message
      BY DEF Turn, Message, Content
    <3> QED
      BY <2>1, <2>4, <2>5, <2>6, <3>1, UnendedAppend
  <2>12. \A k \in DOMAIN journal' :
           /\ Entry(journal'[k], events', messages')
           /\ journal'[k].terminated => k = Len(journal') /\ pc' = "done"
    BY <2>1, <2>11 DEF Unended
  <2>13. pending' = NoCall /\ Alternates(messages')
    BY <2>1, <2>6, <1>idle
  <2> QED
    BY <2>1, <2>7, <2>8, <2>9, <2>10, <2>12, <2>13, TracePrimed
<1>4. ASSUME NEW d \in Delays, NEW tokens \in TokenCounts,
             NEW answer \in Answers, SubmitFinal(tokens, d, answer)
      PROVE  TraceInv'
  <2> DEFINE e == Event("FINAL", Now(d), answer, None, None)
             evs == Append(Recorded(tokens, d), e)
             u == WithUsage(usage, 1, 0, 0, tokens, 0)
  <2>1. /\ pc = "generating" /\ Store(Said, evs, u, "final", answer, None)
        /\ elapsed' = elapsed + d
        /\ UNCHANGED <<pending, offset, cancelled, requested>>
    BY <1>4 DEF SubmitFinal
  <2>2. /\ Opened(Recorded(tokens, d), Said, Now(d), offset + (elapsed + d))
        /\ Recorded(tokens, d) \in Seq(Events) /\ Said \in Seq(Message)
        /\ Now(d) \in Nat /\ offset + (elapsed + d) = Now(d)
    BY <2>1, TurnOpens
  <2>3. e \in Events /\ e.kind = "FINAL" /\ e.ms = Now(d)
    BY <2>2 DEF Event, Events, EventKind
  <2> HIDE DEF e
  <2>4. Closed(evs, Said, offset' + elapsed') /\ evs \in Seq(Events)
    BY <2>1, <2>2, <2>3, EventCloses
  <2>5. u \in Usage
    BY InputAssumption, WithUsageType DEF TypeOK
  <2> HIDE DEF evs, u
  <2>6. events' = evs /\ usage' = u
    BY <2>1 DEF Store
  <2>7. u.steps = Steps(evs) /\ "final" # None /\ pending' = NoCall
    BY <2>1, <2>6, <1>charged, <1>idle, InputAssumption DEF TerminationReason
  <2> QED
    BY <2>1, <2>2, <2>4, <2>5, <2>7, StoreTrace
<1>5. ASSUME NEW d \in Delays, NEW tokens \in TokenCounts,
             NEW code \in StepErrorCode, RefuseAction(tokens, d, code)
      PROVE  TraceInv'
  <2> DEFINE e == Event("INVALID_ACTION", Now(d), None, code, None)
             evs == Append(Recorded(tokens, d), e)
             u == WithUsage(usage, 1, 0, 0, tokens, 1)
  <2>1. /\ pc = "generating" /\ Store(Said, evs, u, BudgetReason(u), None, code)
        /\ elapsed' = elapsed + d
        /\ UNCHANGED <<pending, offset, cancelled, requested>>
    BY <1>5 DEF RefuseAction
  <2>2. /\ Opened(Recorded(tokens, d), Said, Now(d), offset + (elapsed + d))
        /\ Recorded(tokens, d) \in Seq(Events) /\ Said \in Seq(Message)
        /\ Now(d) \in Nat /\ offset + (elapsed + d) = Now(d)
    BY <2>1, TurnOpens
  <2>3. e \in Events /\ e.kind = "INVALID_ACTION" /\ e.ms = Now(d)
    BY <2>2 DEF Event, Events, EventKind
  <2> HIDE DEF e
  <2>4. Closed(evs, Said, offset' + elapsed') /\ evs \in Seq(Events)
    BY <2>1, <2>2, <2>3, EventCloses
  <2>5. u \in Usage
    BY InputAssumption, WithUsageType DEF TypeOK
  <2>6. Ends(evs, {"TOOL_RESULT", "INVALID_ACTION"})
    BY <2>2, <2>3, EndsAppend
  <2> HIDE DEF evs, u
  <2>7. events' = evs /\ usage' = u
    BY <2>1 DEF Store
  <2>8. u.steps = Steps(evs) /\ pending' = NoCall
    BY <2>1, <2>7, <1>charged, <1>idle
  <2>9. code # None /\ code \in Content
    BY InputAssumption DEF Content
  <2> QED
    BY <2>1, <2>2, <2>4, <2>5, <2>6, <2>8, <2>9, StoreTrace
<1>6. ASSUME NEW d \in Delays, NEW tokens \in TokenCounts,
             NEW name \in ToolNames, CallTool(tokens, d, name)
      PROVE  TraceInv'
  <2>1. /\ pc = "generating" /\ pc' = "executing"
        /\ events' = Recorded(tokens, d) /\ messages' = Said
        /\ pending' = [name |-> name, ms |-> Now(d)]
        /\ elapsed' = elapsed + d /\ UNCHANGED <<journal, offset>>
    BY <1>6 DEF CallTool
  <2>2. Opened(events', messages', Now(d), offset' + elapsed')
    BY <2>1, TurnOpens
  <2>3. /\ Chain(events') /\ Ordered(events', offset' + elapsed')
        /\ Ends(events', {"MODEL_OUTPUT"})
        /\ events'[Len(events')].ms = Now(d)
        /\ Alternates(messages') /\ Unanswered(events', messages')
        /\ \A k \in DOMAIN journal :
             Entry(journal[k], events', messages') /\ ~journal[k].terminated
    BY <2>2 DEF Opened
  <2>4. pending' # NoCall /\ pending'.ms = Now(d)
    BY <2>1, InputAssumption DEF NoCall
  <2> QED
    BY <2>1, <2>3, <2>4, TracePrimed
<1>7. ASSUME NEW result \in ToolResults(pending.name), ToolReturns(result)
      PROVE  TraceInv'
  <2> DEFINE name == pending.name
             u == WithUsage(usage, 1, 1, PythonSeconds(name, result[2]), 0, 0)
             call == Event("TOOL_CALL", pending.ms, name, None, None)
             answer == Event("TOOL_RESULT", pending.ms, name, result[1],
                             result[2])
             evs == Append(Append(events, call), answer)
  <2>1. /\ pc = "executing"
        /\ Store(messages, evs, u, BudgetReason(u), None, result[1])
        /\ pending' = NoCall
        /\ UNCHANGED <<offset, elapsed, cancelled, requested>>
    BY <1>7 DEF ToolReturns
  <2>2. /\ result[1] \in ResultCode
        /\ result[2] \in Nat \cup {None}
        /\ PythonSeconds(name, result[2]) \in Nat
    BY ToolResultsType
  <2>3. call \in Events /\ answer \in Events
    BY <2>2 DEF Event, Events, EventKind, TypeOK, Call
  <2>4. /\ call.kind = "TOOL_CALL" /\ call.ms = pending.ms
        /\ answer.kind = "TOOL_RESULT" /\ answer.ms = pending.ms
        /\ answer.subject = call.subject
    BY DEF Event
  <2>5. u \in Usage
    BY <2>2, WithUsageType DEF TypeOK
  <2>6. /\ events \in Seq(Events) /\ messages \in Seq(Message)
        /\ offset + elapsed \in Nat
    BY DEF TypeOK
  <2>7. pending # NoCall
    BY <2>1, InputAssumption DEF Accounting, StagesConsistent, NoCall
  <2>8. Opened(events, messages, pending.ms, offset + elapsed)
    BY <2>1, <2>7 DEF TraceInv, Opened
  <2> HIDE DEF call, answer, u
  <2>9. Closed(evs, messages, offset + elapsed)
    BY <2>3, <2>4, <2>6, <2>8, CallCloses
  <2>10. evs \in Seq(Events) /\ Ends(evs, {"TOOL_RESULT", "INVALID_ACTION"})
    <3> DEFINE mid == Append(events, call)
    <3>1. mid \in Seq(Events)
      BY <2>3, <2>6
    <3>2. answer.kind \in {"TOOL_RESULT", "INVALID_ACTION"}
      BY <2>4
    <3> HIDE DEF mid
    <3>3. /\ Append(mid, answer) \in Seq(Events)
          /\ Ends(Append(mid, answer), {"TOOL_RESULT", "INVALID_ACTION"})
      BY <2>3, <3>1, <3>2, EndsAppend
    <3> QED
      BY <3>3 DEF mid
  <2> HIDE DEF evs
  <2>11. events' = evs /\ usage' = u
    BY <2>1 DEF Store
  <2>12. u.steps = Steps(evs)
    BY <2>11, <1>charged
  <2>13. result[1] # None /\ result[1] \in Content
    BY <2>2, InputAssumption DEF Content
  <2>14. Closed(evs, messages, offset' + elapsed')
    BY <2>1, <2>9
  <2> QED
    BY <2>1, <2>5, <2>6, <2>10, <2>12, <2>13, <2>14, StoreTrace
<1>8. CASE Abandon
  BY <1>8, TraceUnchanged DEF Abandon
<1>9. CASE Cancel
  BY <1>9, TraceUnchanged DEF Cancel
<1>10. CASE UNCHANGED vars
  BY <1>10, TraceUnchanged DEF vars
<1> QED
  BY <1>1, <1>2, <1>3, <1>4, <1>5, <1>6, <1>7, <1>8, <1>9, <1>10
     DEF Next, Work, ModelReturns, ToolAnswers, Finished
-----------------------------------------------------------------------------
(* What follows.                                                           *)

LEMMA TraceFollows == TypeOK /\ TraceInv => TraceFaithful
<1> SUFFICES ASSUME TypeOK, TraceInv PROVE TraceFaithful
  OBVIOUS
<1>1. TraceGrammar
  BY DEF TraceInv, TraceGrammar, Chain, Ends
<1>2. TimeMonotone
  BY DEF TraceInv, TimeMonotone, Ordered
<1>3. ConversationAlternates
  <2>1. Outputs(events) \in Nat
    <3>1. CASE events = << >>
      <4>1. {i \in DOMAIN events : events[i].kind \in {"MODEL_OUTPUT"}} = {}
        BY <3>1
      <4> QED
        BY <4>1, FS_EmptySet DEF Outputs, Count
    <3>2. CASE events # << >>
      <4>1. events[Len(events)] \in Events /\ events \in Seq(Events)
        BY <3>2 DEF TypeOK
      <4> QED
        BY <4>1, OutputsAppend
    <3> QED
      BY <3>1, <3>2
  <2>2. Outputs(events) = (Len(messages) - 1) \div 2
    BY <2>1 DEF TraceInv, Unanswered, Answered
  <2>3. pc \in {"turn", "generating"} => Len(messages) % 2 = 0
    BY <2>1 DEF TraceInv, Answered
  <2>4. \A i \in 3 .. Len(messages) :
          messages[i].role = IF i % 2 = 1 THEN "assistant" ELSE "tool"
    BY DEF TraceInv, Alternates
  <2> QED
    BY <2>2, <2>3, <2>4 DEF ConversationAlternates, Outputs
<1>4. JournalFaithful
  BY DEF TraceInv, JournalFaithful, Entry, PrefixOf, Steps
<1> QED
  BY <1>1, <1>2, <1>3, <1>4 DEF TraceFaithful

LEMMA TraceInvariant == Spec => [](TypeOK /\ Accounting /\ TraceInv)
<1>1. Init => TypeOK /\ Accounting /\ TraceInv
  BY TypeInit, AccountingInit, TraceInit
<1>2. TypeOK /\ Accounting /\ TraceInv /\ [Next]_vars
        => (TypeOK /\ Accounting /\ TraceInv)'
  BY TypeNext, AccountingNext, TraceNext
<1> QED
  BY <1>1, <1>2, PTL DEF Spec

\* Whatever is refused, cancelled, failed or abandoned, an episode leaves a
\* trace of whole turns in order of time, the conversation that goes with it
\* and snapshots that were true when taken (environment.py, loop.py).
THEOREM TraceCorrect == Spec => []TraceFaithful
BY TraceInvariant, TraceFollows, PTL
-----------------------------------------------------------------------------
(* The trace against its replay.                                            *)

\* What replay has after some events.
Replayed == [ok : BOOLEAN, previous_ms : Int, usage : Usage,
             final_answer : ToolNames \cup Answers \cup {None}]
Start == [ok |-> TRUE, previous_ms |-> -1, usage |-> NoUsage,
          final_answer |-> None]

\* Every model output says its tokens.
Metered(e) == e.kind = "MODEL_OUTPUT" => e.amount \in Nat

LEMMA StepFields ==
  ASSUME NEW acc \in Replayed,
         NEW t, t = [acc EXCEPT !.usage.steps = acc.usage.steps + 1]
  PROVE  /\ t \in Replayed /\ t.ok = acc.ok
         /\ t.previous_ms = acc.previous_ms
         /\ t.final_answer = acc.final_answer
         /\ t.usage.steps = acc.usage.steps + 1
         /\ t.usage.tool_calls = acc.usage.tool_calls
         /\ t.usage.python_seconds = acc.usage.python_seconds
         /\ t.usage.generated_tokens = acc.usage.generated_tokens
         /\ t.usage.invalid_actions = acc.usage.invalid_actions
<1>1. acc.usage \in Usage
  BY DEF Replayed
<1>2. acc.usage.steps + 1 \in Nat
  BY <1>1 DEF Usage
<1>3. [acc.usage EXCEPT !.steps = acc.usage.steps + 1] \in Usage
  BY <1>1, <1>2 DEF Usage
<1>4. t = [acc EXCEPT !.usage = [acc.usage EXCEPT !.steps = acc.usage.steps + 1]]
  OBVIOUS
<1> QED
  BY <1>1, <1>2, <1>3, <1>4 DEF Replayed, Usage

LEMMA ReplayEventType ==
  ASSUME NEW acc \in Replayed, NEW e \in Events, Metered(e)
  PROVE  /\ ReplayEvent(acc, e) \in Replayed
         /\ ReplayEvent(acc, e).previous_ms = e.ms
<1> DEFINE seconds == IF e.amount = None THEN 0 ELSE e.amount
<1>1. seconds \in Nat /\ e.ms \in Nat /\ e.ms \in Int
      /\ e.subject \in ToolNames \cup Answers \cup {None}
  BY DEF Events
<1>2. /\ acc.usage.steps \in Nat /\ acc.usage.tool_calls \in Nat
      /\ acc.usage.python_seconds \in Nat /\ acc.usage.generated_tokens \in Nat
      /\ acc.usage.invalid_actions \in Nat /\ acc.usage \in Usage
      /\ acc.previous_ms \in Int /\ acc.ok \in BOOLEAN
  BY DEF Replayed, Usage
<1>3. [acc EXCEPT !.ok = @ /\ e.ms >= acc.previous_ms, !.previous_ms = e.ms]
        \in Replayed
  BY <1>1, <1>2 DEF Replayed
<1> DEFINE timed == [acc EXCEPT !.ok = @ /\ e.ms >= acc.previous_ms,
                                !.previous_ms = e.ms]
<1>4. /\ timed.ok \in BOOLEAN /\ timed.previous_ms = e.ms /\ timed.usage = acc.usage
      /\ timed \in Replayed
  BY <1>2, <1>3 DEF Replayed
<1>5. e.kind = "MODEL_OUTPUT" => e.amount \in Nat
  BY DEF Metered
<1>6. CASE e.kind = "MODEL_OUTPUT"
  <2>1. ReplayEvent(acc, e) = [timed EXCEPT !.usage.generated_tokens = @ + e.amount]
    BY <1>6 DEF ReplayEvent
  <2> HIDE DEF timed
  <2> QED
    BY <1>1, <1>2, <1>4, <1>5, <1>6, <2>1 DEF Replayed, Usage
<1>7. CASE e.kind = "TOOL_CALL"
  <2>1. ReplayEvent(acc, e)
          = [timed EXCEPT !.usage.steps = @ + 1, !.usage.tool_calls = @ + 1]
    BY <1>7 DEF ReplayEvent
  <2> DEFINE t == [timed EXCEPT !.usage.steps = @ + 1]
  <2> HIDE DEF timed
  <2>2. t \in Replayed /\ t.previous_ms = e.ms /\ t.usage.tool_calls \in Nat
        /\ t.usage.tool_calls = timed.usage.tool_calls
    BY <1>2, <1>4 DEF Replayed, Usage
  <2>3. ReplayEvent(acc, e) = [t EXCEPT !.usage.tool_calls = @ + 1]
    BY <2>1, <2>2
  <2> HIDE DEF t
  <2> QED
    BY <2>2, <2>3 DEF Replayed, Usage
<1>8. CASE e.kind = "INVALID_ACTION"
  <2>1. ReplayEvent(acc, e)
          = [timed EXCEPT !.usage.steps = @ + 1, !.usage.invalid_actions = @ + 1]
    BY <1>8 DEF ReplayEvent
  <2> DEFINE t == [timed EXCEPT !.usage.steps = @ + 1]
  <2> HIDE DEF timed
  <2>2. t \in Replayed /\ t.previous_ms = e.ms /\ t.usage.invalid_actions \in Nat
        /\ t.usage.invalid_actions = timed.usage.invalid_actions
    BY <1>2, <1>4 DEF Replayed, Usage
  <2>3. ReplayEvent(acc, e) = [t EXCEPT !.usage.invalid_actions = @ + 1]
    BY <2>1, <2>2
  <2> HIDE DEF t
  <2> QED
    BY <2>2, <2>3 DEF Replayed, Usage
<1>9. CASE e.kind = "FINAL"
  <2>1. ReplayEvent(acc, e)
          = [timed EXCEPT !.usage.steps = @ + 1, !.final_answer = e.subject,
                          !.ok = @ /\ e.subject # None]
    BY <1>9 DEF ReplayEvent
  <2> DEFINE t == [timed EXCEPT !.usage.steps = @ + 1]
  <2> HIDE DEF timed
  <2>2. t \in Replayed /\ t.previous_ms = e.ms
    BY <1>2, <1>4 DEF Replayed, Usage
  <2>3. ReplayEvent(acc, e)
          = [t EXCEPT !.final_answer = e.subject, !.ok = @ /\ e.subject # None]
    BY <2>1
  <2> HIDE DEF t
  <2> QED
    BY <1>1, <2>2, <2>3 DEF Replayed
<1>10. CASE e.kind = "TOOL_RESULT" /\ e.subject = Python
  <2>1. ReplayEvent(acc, e)
          = [timed EXCEPT !.usage.python_seconds = @ + seconds]
    BY <1>10 DEF ReplayEvent
  <2> HIDE DEF timed, seconds
  <2> QED
    BY <1>1, <1>2, <1>4, <2>1 DEF Replayed, Usage
<1>11. CASE /\ e.kind \notin {"MODEL_OUTPUT", "TOOL_CALL", "INVALID_ACTION", "FINAL"}
           /\ ~(e.kind = "TOOL_RESULT" /\ e.subject = Python)
  <2>1. ReplayEvent(acc, e) = timed
    BY <1>11 DEF ReplayEvent
  <2> QED
    BY <1>4, <2>1
<1> QED
  BY <1>6, <1>7, <1>8, <1>9, <1>10, <1>11

\* Replay is a run over the events, one ReplayEvent after the other.
LEMMA ReplayRuns ==
  ASSUME NEW evs \in Seq(Events), \A i \in DOMAIN evs : Metered(evs[i])
  PROVE  \E r :
           /\ r \in [0..Len(evs) -> Replayed]
           /\ r[0] = Start
           /\ \A k \in 1..Len(evs) : r[k] = ReplayEvent(r[k - 1], evs[k])
           /\ Replay(evs) = r[Len(evs)]
<1> DEFINE n == Len(evs)
           D == 1..n
           step == [p \in D \X Replayed |-> ReplayEvent(p[2], evs[p[1]])]
           Body(g, s) == IF s = {} THEN Start
                         ELSE ReplayEvent(g[s \ {Max(s)}], evs[Max(s)])
           Iter(i) == i = [s \in SUBSET D |-> Body(i, s)]
           iter == CHOOSE i : Iter(i)
           r == [k \in 0..n |-> iter[1..k]]
<1>1. n \in Nat /\ DOMAIN evs = D
  OBVIOUS
<1>2. Replay(evs) = iter[D]
  BY <1>1, Zenon DEF Replay, FoldLeft, MapThenFoldSet, Start
<1>3. Start \in Replayed
  BY DEF Start, Replayed, Usage, NoUsage
<1>4. step \in [D \X Replayed -> Replayed]
  BY <1>1, ReplayEventType
<1>5. \E g : Iter(g)
  <2>1. PICK g \in [SUBSET D -> Replayed] : IsLeftFold(g, n, Start, step)
    <3> HIDE DEF step, n
    <3> QED
      BY <1>1, <1>3, <1>4, LeftFoldExists
  <2>2. ASSUME NEW s \in SUBSET D
        PROVE  g[s] = Body(g, s)
    <3>1. s # {} => Max(s) \in D /\ s \ {Max(s)} \in SUBSET D
      BY <1>1, MaxIn
    <3> QED
      BY <2>1, <3>1 DEF IsLeftFold
  <2> HIDE DEF Body, step
  <2> QED
    BY <2>1, <2>2
<1>6. Iter(iter)
  <2> HIDE DEF Iter
  <2> QED
    BY <1>5
<1> HIDE DEF iter, step
<1>7. r[0] = Start
  <2>1. 1..0 = {} /\ 1..0 \in SUBSET D
    OBVIOUS
  <2> QED
    BY <1>1, <1>6, <2>1
<1>8. ASSUME NEW k \in 1..n
      PROVE  r[k] = ReplayEvent(r[k - 1], evs[k])
  <2>1. 1..k \in SUBSET D /\ 1..k # {} /\ k \in Nat \ {0} /\ k - 1 \in 0..n
    BY <1>1
  <2>2. Max(1..k) = k /\ (1..k) \ {Max(1..k)} = 1..k - 1
    BY <2>1, MaxUpTo
  <2>3. iter[1..k] = Body(iter, 1..k)
    BY <1>6, <2>1
  <2>4. iter[1..k] = ReplayEvent(iter[1..k - 1], evs[k])
    BY <2>1, <2>2, <2>3
  <2>5. r[k] = iter[1..k] /\ r[k - 1] = iter[1..k - 1]
    BY <2>1
  <2> QED
    BY <2>4, <2>5
<1>9. \A k \in 0..n : r[k] \in Replayed
  <2>1. ASSUME NEW k \in 1..n, r[k - 1] \in Replayed
        PROVE  r[k] \in Replayed
    <3>1. evs[k] \in Events /\ Metered(evs[k])
      BY <1>1
    <3>2. ReplayEvent(r[k - 1], evs[k]) \in Replayed
      <4> HIDE DEF r
      <4> QED
        BY <2>1, <3>1, ReplayEventType
    <3> QED
      BY <1>8, <3>2
  <2> HIDE DEF r, n
  <2> QED
    BY <1>1, <1>3, <1>7, <2>1, RunStays
<1>10. r \in [0..n -> Replayed] /\ Replay(evs) = r[n]
  BY <1>1, <1>2, <1>9
<1> HIDE DEF r
<1> QED
  BY <1>7, <1>8, <1>10

\* One event more.
LEMMA ReplayAppend ==
  ASSUME NEW evs \in Seq(Events), \A i \in DOMAIN evs : Metered(evs[i]),
         NEW e \in Events, Metered(e)
  PROVE  /\ Replay(evs) \in Replayed
         /\ Replay(Append(evs, e)) = ReplayEvent(Replay(evs), e)
<1> DEFINE n == Len(evs)
           more == Append(evs, e)
<1>1. /\ more \in Seq(Events) /\ Len(more) = n + 1 /\ n \in Nat
      /\ \A k \in 1..n : more[k] = evs[k]
      /\ more[n + 1] = e
  OBVIOUS
<1>2. \A i \in DOMAIN more : Metered(more[i])
  <2>1. \A i \in DOMAIN more : i = n + 1 \/ i \in DOMAIN evs
    BY <1>1
  <2> QED
    BY <1>1, <2>1
<1>3. PICK r :
        /\ r \in [0..n -> Replayed]
        /\ r[0] = Start
        /\ \A k \in 1..n : r[k] = ReplayEvent(r[k - 1], evs[k])
        /\ Replay(evs) = r[n]
  BY ReplayRuns
<1> HIDE DEF more
<1>4. PICK q :
        /\ q \in [0..n + 1 -> Replayed]
        /\ q[0] = Start
        /\ \A k \in 1..n + 1 : q[k] = ReplayEvent(q[k - 1], more[k])
        /\ Replay(more) = q[n + 1]
  BY <1>1, <1>2, ReplayRuns
<1>5. \A k \in 0..n : r[k] = q[k]
  <2>1. \A k \in 1..n : r[k - 1] = q[k - 1] => r[k] = q[k]
    BY <1>1, <1>3, <1>4
  <2>2. n \in Nat /\ r[0] = q[0]
    BY <1>1, <1>3, <1>4
  <2> HIDE DEF n
  <2> QED
    BY <2>1, <2>2, RunsAgree
<1>6. r[n] \in Replayed /\ n + 1 \in 1..n + 1 /\ (n + 1) - 1 = n
  BY <1>1, <1>3
<1> QED
  BY <1>1, <1>3, <1>4, <1>5, <1>6 DEF more

\* The trace replays to what was charged and submitted.
Charged(evs, u, answer) ==
  /\ \A i \in DOMAIN evs : Metered(evs[i])
  /\ Replay(evs).ok
  /\ Replay(evs).usage = u
  /\ Replay(evs).final_answer = answer
  /\ Replay(evs).previous_ms = IF evs = << >> THEN -1 ELSE evs[Len(evs)].ms

\* What replay charges for an event is what WithUsage does.
LEMMA ChargedAppend ==
  ASSUME NEW evs \in Seq(Events), NEW e \in Events, Metered(e),
         NEW u \in Usage, NEW answer, Charged(evs, u, answer),
         evs # << >> => evs[Len(evs)].ms <= e.ms
  PROVE  /\ e.kind = "MODEL_OUTPUT" =>
              Charged(Append(evs, e), WithUsage(u, 0, 0, 0, e.amount, 0), answer)
         /\ e.kind = "TOOL_CALL" =>
              Charged(Append(evs, e), WithUsage(u, 1, 1, 0, 0, 0), answer)
         /\ e.kind = "INVALID_ACTION" =>
              Charged(Append(evs, e), WithUsage(u, 1, 0, 0, 0, 1), answer)
         /\ e.kind = "FINAL" /\ e.subject # None =>
              Charged(Append(evs, e), WithUsage(u, 1, 0, 0, 0, 0), e.subject)
         /\ e.kind = "TOOL_RESULT" =>
              Charged(Append(evs, e),
                      WithUsage(u, 0, 0, PythonSeconds(e.subject, e.amount), 0, 0),
                      answer)
         /\ e.kind = "TERMINATION" => Charged(Append(evs, e), u, answer)
<1> DEFINE acc == Replay(evs)
           more == Append(evs, e)
<1>1. /\ more \in Seq(Events) /\ Len(more) = Len(evs) + 1
      /\ more[Len(more)] = e /\ more # << >>
      /\ \A i \in DOMAIN more : more[i] = e \/ (i \in DOMAIN evs /\ more[i] = evs[i])
  OBVIOUS
<1>2. \A i \in DOMAIN more : Metered(more[i])
  BY <1>1 DEF Charged
<1>3. acc \in Replayed /\ Replay(more) = ReplayEvent(acc, e)
  BY ReplayAppend DEF Charged
<1> HIDE DEF more
<1>4. acc.ok /\ acc.usage = u /\ acc.final_answer = answer /\ acc.previous_ms <= e.ms
  <2>1. e.ms \in Nat
    BY DEF Events
  <2> QED
    BY <2>1 DEF Charged
<1>5. Replay(more).previous_ms = e.ms
  BY <1>3, ReplayEventType
<1> HIDE DEF acc
<1> DEFINE timed == [acc EXCEPT !.ok = @ /\ e.ms >= acc.previous_ms,
                                !.previous_ms = e.ms]
<1>6. /\ timed.ok /\ timed.usage = u /\ timed.final_answer = answer
      /\ timed \in Replayed
  <2>1. e.ms \in Nat /\ acc.previous_ms \in Int
    BY <1>3 DEF Events, Replayed
  <2>2. e.ms >= acc.previous_ms /\ acc.ok = TRUE
    BY <1>3, <1>4, <2>1 DEF Replayed
  <2>3. timed = [acc EXCEPT !.ok = TRUE, !.previous_ms = e.ms]
    BY <2>2
  <2> HIDE DEF timed
  <2>4. e.ms \in Int /\ acc \in Replayed
    BY <1>3, <2>1
  <2>6. /\ acc.usage \in Usage
        /\ acc.final_answer \in ToolNames \cup Answers \cup {None}
    BY <2>4 DEF Replayed
  <2>5. /\ timed \in Replayed /\ timed.ok = TRUE
        /\ timed.usage = acc.usage /\ timed.final_answer = acc.final_answer
    BY <2>3, <2>4, <2>6 DEF Replayed
  <2> QED
    BY <1>4, <2>5
<1>7. /\ u.steps \in Nat /\ u.tool_calls \in Nat /\ u.python_seconds \in Nat
      /\ u.generated_tokens \in Nat /\ u.invalid_actions \in Nat
  BY DEF Usage
<1> DEFINE R == ReplayEvent(acc, e)
<1>r. R \in Replayed
  BY <1>3, ReplayEventType
<1>8. ASSUME NEW s \in Nat, NEW c \in Nat, NEW p \in Nat, NEW t \in Nat,
             NEW i \in Nat, NEW a,
             R.ok, R.final_answer = a,
             R.usage.steps = u.steps + s, R.usage.tool_calls = u.tool_calls + c,
             R.usage.python_seconds = u.python_seconds + p,
             R.usage.generated_tokens = u.generated_tokens + t,
             R.usage.invalid_actions = u.invalid_actions + i
      PROVE  Charged(more, WithUsage(u, s, c, p, t, i), a)
  <2> HIDE DEF R
  <2>1. R.usage \in Usage
    BY <1>r DEF Replayed
  <2>2. R.usage = WithUsage(u, s, c, p, t, i)
    BY <1>8, <2>1 DEF WithUsage, Usage
  <2> QED
    BY <1>1, <1>2, <1>3, <1>5, <1>8, <2>2 DEF Charged, R
<1>9. ASSUME e.kind = "MODEL_OUTPUT"
      PROVE  Charged(more, WithUsage(u, 0, 0, 0, e.amount, 0), answer)
  <2>1. ReplayEvent(acc, e) = [timed EXCEPT !.usage.generated_tokens = @ + e.amount]
    BY <1>9 DEF ReplayEvent
  <2>2. R = [timed EXCEPT !.usage.generated_tokens = @ + e.amount]
    BY <2>1
  <2> HIDE DEF timed, R
  <2>3. /\ R.ok /\ R.final_answer = answer
        /\ R.usage.steps = u.steps + 0 /\ R.usage.tool_calls = u.tool_calls + 0
        /\ R.usage.python_seconds = u.python_seconds + 0
        /\ R.usage.generated_tokens = u.generated_tokens + e.amount
        /\ R.usage.invalid_actions = u.invalid_actions + 0
    BY <1>6, <1>7, <1>9, <2>2 DEF Replayed, Usage, Metered
  <2> QED
    BY <1>8, <1>9, <2>3 DEF Metered
<1>10. ASSUME e.kind = "TOOL_CALL"
       PROVE  Charged(more, WithUsage(u, 1, 1, 0, 0, 0), answer)
  <2>1. ReplayEvent(acc, e)
          = [timed EXCEPT !.usage.steps = @ + 1, !.usage.tool_calls = @ + 1]
    BY <1>10 DEF ReplayEvent
  <2> DEFINE t == [timed EXCEPT !.usage.steps = @ + 1]
  <2> HIDE DEF timed
  <2>4. /\ t \in Replayed /\ t.ok = timed.ok
        /\ t.final_answer = timed.final_answer
        /\ t.usage.steps = timed.usage.steps + 1
        /\ t.usage.tool_calls = timed.usage.tool_calls
        /\ t.usage.python_seconds = timed.usage.python_seconds
        /\ t.usage.generated_tokens = timed.usage.generated_tokens
        /\ t.usage.invalid_actions = timed.usage.invalid_actions
    BY <1>6, StepFields
  <2>2. R = [t EXCEPT !.usage.tool_calls = @ + 1]
    BY <2>1, <2>4
  <2> DEFINE v == [t.usage EXCEPT !.tool_calls = @ + 1]
  <2> HIDE DEF t
  <2>5. R.usage = v /\ R.ok = t.ok /\ R.final_answer = t.final_answer
    BY <2>2, <2>4 DEF Replayed
  <2>6. t.usage \in Usage
    BY <2>4 DEF Replayed
  <2>7. /\ v.steps = t.usage.steps + 0
        /\ v.tool_calls = t.usage.tool_calls + 1
        /\ v.python_seconds = t.usage.python_seconds + 0
        /\ v.generated_tokens = t.usage.generated_tokens + 0
        /\ v.invalid_actions = t.usage.invalid_actions + 0
    BY <2>6 DEF Usage
  <2> HIDE DEF v, R
  <2>3. /\ R.ok /\ R.final_answer = answer
        /\ R.usage.steps = u.steps + 1 /\ R.usage.tool_calls = u.tool_calls + 1
        /\ R.usage.python_seconds = u.python_seconds + 0
        /\ R.usage.generated_tokens = u.generated_tokens + 0
        /\ R.usage.invalid_actions = u.invalid_actions + 0
    BY <1>6, <1>7, <2>4, <2>5, <2>7
  <2> QED
    BY <1>8, <1>10, <2>3 DEF Metered
<1>11. ASSUME e.kind = "INVALID_ACTION"
       PROVE  Charged(more, WithUsage(u, 1, 0, 0, 0, 1), answer)
  <2>1. ReplayEvent(acc, e)
          = [timed EXCEPT !.usage.steps = @ + 1, !.usage.invalid_actions = @ + 1]
    BY <1>11 DEF ReplayEvent
  <2> DEFINE t == [timed EXCEPT !.usage.steps = @ + 1]
  <2> HIDE DEF timed
  <2>4. /\ t \in Replayed /\ t.ok = timed.ok
        /\ t.final_answer = timed.final_answer
        /\ t.usage.steps = timed.usage.steps + 1
        /\ t.usage.tool_calls = timed.usage.tool_calls
        /\ t.usage.python_seconds = timed.usage.python_seconds
        /\ t.usage.generated_tokens = timed.usage.generated_tokens
        /\ t.usage.invalid_actions = timed.usage.invalid_actions
    BY <1>6, StepFields
  <2>2. R = [t EXCEPT !.usage.invalid_actions = @ + 1]
    BY <2>1, <2>4
  <2> DEFINE v == [t.usage EXCEPT !.invalid_actions = @ + 1]
  <2> HIDE DEF t
  <2>5. R.usage = v /\ R.ok = t.ok /\ R.final_answer = t.final_answer
    BY <2>2, <2>4 DEF Replayed
  <2>6. t.usage \in Usage
    BY <2>4 DEF Replayed
  <2>7. /\ v.steps = t.usage.steps + 0
        /\ v.tool_calls = t.usage.tool_calls + 0
        /\ v.python_seconds = t.usage.python_seconds + 0
        /\ v.generated_tokens = t.usage.generated_tokens + 0
        /\ v.invalid_actions = t.usage.invalid_actions + 1
    BY <2>6 DEF Usage
  <2> HIDE DEF v, R
  <2>3. /\ R.ok /\ R.final_answer = answer
        /\ R.usage.steps = u.steps + 1 /\ R.usage.tool_calls = u.tool_calls + 0
        /\ R.usage.python_seconds = u.python_seconds + 0
        /\ R.usage.generated_tokens = u.generated_tokens + 0
        /\ R.usage.invalid_actions = u.invalid_actions + 1
    BY <1>6, <1>7, <2>4, <2>5, <2>7
  <2> QED
    BY <1>8, <1>11, <2>3 DEF Metered
<1>12. ASSUME e.kind = "FINAL", e.subject # None
       PROVE  Charged(more, WithUsage(u, 1, 0, 0, 0, 0), e.subject)
  <2>1. ReplayEvent(acc, e)
          = [timed EXCEPT !.usage.steps = @ + 1, !.final_answer = e.subject,
                          !.ok = @ /\ e.subject # None]
    BY <1>12 DEF ReplayEvent
  <2>2. R = [timed EXCEPT !.usage.steps = @ + 1, !.final_answer = e.subject,
                          !.ok = @ /\ e.subject # None]
    BY <2>1
  <2> HIDE DEF timed, R
  <2>3. /\ R.ok /\ R.final_answer = e.subject
        /\ R.usage.steps = u.steps + 1 /\ R.usage.tool_calls = u.tool_calls + 0
        /\ R.usage.python_seconds = u.python_seconds + 0
        /\ R.usage.generated_tokens = u.generated_tokens + 0
        /\ R.usage.invalid_actions = u.invalid_actions + 0
    BY <1>6, <1>7, <1>12, <2>2 DEF Replayed, Usage, Metered
  <2> QED
    BY <1>8, <1>12, <2>3 DEF Metered
<1>13. ASSUME e.kind = "TOOL_RESULT"
       PROVE  Charged(more,
                      WithUsage(u, 0, 0, PythonSeconds(e.subject, e.amount), 0, 0),
                      answer)
  <2> DEFINE seconds == IF e.amount = None THEN 0 ELSE e.amount
             p == PythonSeconds(e.subject, e.amount)
  <2>1. R = IF e.subject = Python
            THEN [timed EXCEPT !.usage.python_seconds = @ + seconds] ELSE timed
    BY <1>13 DEF ReplayEvent
  <2>2. /\ e.subject = Python => p = seconds
        /\ e.subject # Python => p = 0
        /\ seconds \in Nat /\ p \in Nat
    BY DEF PythonSeconds, Events
  <2> HIDE DEF timed, seconds, p, R
  <2>3. /\ R.ok /\ R.final_answer = answer
        /\ R.usage.steps = u.steps + 0 /\ R.usage.tool_calls = u.tool_calls + 0
        /\ R.usage.python_seconds = u.python_seconds + p
        /\ R.usage.generated_tokens = u.generated_tokens + 0
        /\ R.usage.invalid_actions = u.invalid_actions + 0
    <3>1. CASE e.subject = Python
      <4>1. R = [timed EXCEPT !.usage.python_seconds = @ + seconds]
        BY <2>1, <3>1
      <4> QED
        BY <1>6, <1>7, <2>2, <3>1, <4>1 DEF Replayed, Usage
    <3>2. CASE e.subject # Python
      <4>1. R = timed
        BY <2>1, <3>2
      <4> QED
        BY <1>6, <1>7, <2>2, <3>2, <4>1
    <3> QED
      BY <3>1, <3>2
  <2>4. Charged(more, WithUsage(u, 0, 0, p, 0, 0), answer)
    BY <1>8, <2>2, <2>3
  <2> QED
    BY <2>4 DEF p
<1>14. ASSUME e.kind = "TERMINATION"
       PROVE  Charged(more, u, answer)
  <2>1. ReplayEvent(acc, e) = timed
    BY <1>14 DEF ReplayEvent
  <2> QED
    BY <1>1, <1>2, <1>3, <1>5, <1>6, <2>1 DEF Charged
<1> QED
  BY <1>9, <1>10, <1>11, <1>12, <1>13, <1>14 DEF more

\* The inductive invariant: every snapshot was charged as its trace replays,
\* and so is the episode.
ReplayInv ==
  /\ Charged(events, usage, final_answer)
  /\ \A k \in DOMAIN journal :
       Accepted(journal[k].events, journal[k].usage, None, None)

LEMMA ReplayNothing == Charged(<< >>, NoUsage, None)
<1>1. << >> \in Seq(Events) /\ Len(<< >>) = 0 /\ DOMAIN << >> = {}
  OBVIOUS
<1>2. PICK r : r[0] = Start /\ Replay(<< >>) = r[Len(<< >>)]
  BY <1>1, ReplayRuns
<1>3. Replay(<< >>) = Start
  BY <1>1, <1>2
<1> QED
  BY <1>1, <1>3 DEF Charged, Start

\* A turn's output is charged when the trace has it.
LEMMA OutputCharged ==
  ASSUME TypeOK, TraceInv, ReplayInv,
         NEW d \in Delays, NEW tokens \in TokenCounts
  PROVE  /\ Charged(Recorded(tokens, d), Spent(tokens), final_answer)
         /\ Recorded(tokens, d) \in Seq(Events) /\ Spent(tokens) \in Usage
         /\ Recorded(tokens, d) # << >>
         /\ Recorded(tokens, d)[Len(Recorded(tokens, d))].ms = Now(d)
         /\ Now(d) \in Nat /\ tokens \in Nat
         /\ events # << >> => events[Len(events)].ms <= Now(d)
<1> DEFINE e == Event("MODEL_OUTPUT", Now(d), None, None, tokens)
<1>1. /\ Now(d) \in Nat /\ Recorded(tokens, d) \in Seq(Events)
      /\ Spent(tokens) \in Usage
  BY TurnType
<1>2. tokens \in Nat /\ d \in Nat /\ offset \in Nat /\ elapsed \in Nat
  BY InputAssumption DEF TypeOK
<1>3. /\ e \in Events /\ e.kind = "MODEL_OUTPUT" /\ e.amount = tokens
      /\ e.ms = Now(d) /\ Metered(e)
  BY <1>1, <1>2 DEF Event, Events, EventKind, Metered
<1>4. events \in Seq(Events) /\ Ordered(events, offset + elapsed)
      /\ usage \in Usage
  BY DEF TypeOK, TraceInv
<1>5. events # << >> => events[Len(events)].ms <= e.ms
  <2>1. events # << >> =>
          events[Len(events)] \in Events
          /\ events[Len(events)].ms <= offset + elapsed
    BY <1>4, LastIsLatest
  <2>2. events # << >> => events[Len(events)].ms \in Nat
    BY <2>1 DEF Events
  <2> QED
    BY <1>2, <1>3, <2>1, <2>2 DEF Now
<1>6. Recorded(tokens, d) = Append(events, e)
  BY DEF Recorded
<1> HIDE DEF e
<1>7. Charged(Append(events, e), WithUsage(usage, 0, 0, 0, e.amount, 0),
              final_answer)
  BY <1>3, <1>4, <1>5, ChargedAppend DEF ReplayInv
<1>8. Append(events, e) # << >>
      /\ Append(events, e)[Len(Append(events, e))] = e
  BY <1>3, <1>4
<1> QED
  BY <1>1, <1>2, <1>3, <1>5, <1>6, <1>7, <1>8 DEF Spent

\* Storing a charged turn keeps the books and their snapshots.
LEMMA StoreCharged ==
  ASSUME TypeOK, ReplayInv, NEW convo, NEW evs, NEW u, NEW reason, NEW answer,
         NEW observation, Store(convo, evs, u, reason, answer, observation),
         Charged(evs, u, answer)
  PROVE  ReplayInv'
<1> DEFINE next == IF observation # None /\ reason = None
                   THEN Append(convo, Observation(observation)) ELSE convo
           shot == StepSnapshot(next, evs, u, reason)
<1>1. /\ events' = evs /\ usage' = u /\ final_answer' = answer
      /\ journal' = Append(journal, shot)
  BY DEF Store
<1>2. shot.events = evs /\ shot.usage = u
  BY DEF StepSnapshot
<1> HIDE DEF shot
<1>3. Accepted(evs, u, None, None)
  BY InputAssumption DEF Charged, Accepted, TerminationReason
<1>4. journal \in Seq(Snapshot)
  BY DEF TypeOK
<1>5. ASSUME NEW k \in DOMAIN journal'
      PROVE  Accepted(journal'[k].events, journal'[k].usage, None, None)
  <2>1. journal'[k] = shot \/ (k \in DOMAIN journal /\ journal'[k] = journal[k])
    BY <1>1, <1>4
  <2> QED
    BY <1>2, <1>3, <2>1 DEF ReplayInv
<1>6. Charged(events', usage', final_answer')
  BY <1>1
<1> QED
  BY <1>5, <1>6, Zenon DEF ReplayInv, Accepted, Charged

LEMMA ReplayNext ==
  TypeOK /\ Accounting /\ AnswerFromFinal /\ TraceInv /\ ReplayInv /\ [Next]_vars
    => ReplayInv'
<1> SUFFICES ASSUME TypeOK, Accounting, AnswerFromFinal, TraceInv, ReplayInv,
                    [Next]_vars
             PROVE  ReplayInv'
  OBVIOUS
<1> USE DEF envVars
<1>t. usage \in Usage /\ events \in Seq(Events) /\ journal \in Seq(Snapshot)
  BY DEF TypeOK
<1>open. pc \in {"generating", "executing"} => final_answer = None
  BY InputAssumption
     DEF AnswerFromFinal, Accounting, StagesConsistent, TerminationReason
<1>same. ASSUME UNCHANGED <<events, usage, final_answer, journal>>
         PROVE  ReplayInv'
  BY <1>same, Zenon DEF ReplayInv
<1>1. CASE StopCancelled
  BY <1>1, <1>same DEF StopCancelled, Abort
<1>2. CASE Generate
  BY <1>2, <1>same DEF Generate
<1>3. ASSUME NEW d \in Delays, ModelFails(d)
      PROVE  ReplayInv'
  <2> DEFINE e == Event("TERMINATION", Now(d), None, None, None)
  <2>1. events' = Append(events, e) /\ UNCHANGED <<usage, final_answer, journal>>
    BY <1>3 DEF ModelFails, Abort
  <2>2. d \in Nat /\ offset \in Nat /\ elapsed \in Nat
    BY InputAssumption DEF TypeOK
  <2>3. e \in Events /\ e.kind = "TERMINATION" /\ e.ms = Now(d) /\ Metered(e)
    BY <2>2 DEF Event, Events, EventKind, Metered, Now
  <2>4. events # << >> => events[Len(events)].ms <= e.ms
    <3>1. events # << >> =>
            events[Len(events)] \in Events
            /\ events[Len(events)].ms <= offset + elapsed
      BY <1>t, LastIsLatest DEF TraceInv
    <3>2. events # << >> => events[Len(events)].ms \in Nat
      BY <3>1 DEF Events
    <3> QED
      BY <2>2, <2>3, <3>1, <3>2 DEF Now
  <2> HIDE DEF e
  <2>5. Charged(Append(events, e), usage, final_answer)
    BY <1>t, <2>3, <2>4, ChargedAppend DEF ReplayInv
  <2> QED
    BY <2>1, <2>5, Zenon DEF ReplayInv
<1>4. ASSUME NEW d \in Delays, NEW tokens \in TokenCounts,
             NEW answer \in Answers, SubmitFinal(tokens, d, answer)
      PROVE  ReplayInv'
  <2> DEFINE e == Event("FINAL", Now(d), answer, None, None)
             evs == Append(Recorded(tokens, d), e)
             u == WithUsage(usage, 1, 0, 0, tokens, 0)
  <2>1. Store(Said, evs, u, "final", answer, None)
    BY <1>4 DEF SubmitFinal
  <2>2. /\ Charged(Recorded(tokens, d), Spent(tokens), final_answer)
        /\ Recorded(tokens, d) \in Seq(Events) /\ Spent(tokens) \in Usage
        /\ Recorded(tokens, d) # << >>
        /\ Recorded(tokens, d)[Len(Recorded(tokens, d))].ms = Now(d)
        /\ Now(d) \in Nat /\ tokens \in Nat
    BY OutputCharged
  <2>3. /\ e \in Events /\ e.kind = "FINAL" /\ e.ms = Now(d) /\ Metered(e)
        /\ e.subject = answer /\ e.subject # None
    BY <2>2, InputAssumption DEF Event, Events, EventKind, Metered
  <2>4. u = WithUsage(Spent(tokens), 1, 0, 0, 0, 0)
    BY <1>t, <2>2 DEF Spent, WithUsage, Usage
  <2>5. Now(d) <= e.ms
    BY <2>2, <2>3
  <2> HIDE DEF e, u
  <2>6. Charged(evs, u, answer)
    BY <2>2, <2>3, <2>4, <2>5, ChargedAppend
  <2> QED
    BY <2>1, <2>6, StoreCharged
<1>5. ASSUME NEW d \in Delays, NEW tokens \in TokenCounts,
             NEW code \in StepErrorCode, RefuseAction(tokens, d, code)
      PROVE  ReplayInv'
  <2> DEFINE e == Event("INVALID_ACTION", Now(d), None, code, None)
             evs == Append(Recorded(tokens, d), e)
             u == WithUsage(usage, 1, 0, 0, tokens, 1)
  <2>1. Store(Said, evs, u, BudgetReason(u), None, code)
    BY <1>5 DEF RefuseAction
  <2>2. /\ Charged(Recorded(tokens, d), Spent(tokens), final_answer)
        /\ Recorded(tokens, d) \in Seq(Events) /\ Spent(tokens) \in Usage
        /\ Recorded(tokens, d) # << >>
        /\ Recorded(tokens, d)[Len(Recorded(tokens, d))].ms = Now(d)
        /\ Now(d) \in Nat /\ tokens \in Nat
    BY OutputCharged
  <2>3. /\ e \in Events /\ e.kind = "INVALID_ACTION" /\ e.ms = Now(d) /\ Metered(e)
    BY <2>2 DEF Event, Events, EventKind, Metered
  <2>4. u = WithUsage(Spent(tokens), 1, 0, 0, 0, 1)
    BY <1>t, <2>2 DEF Spent, WithUsage, Usage
  <2>5. Now(d) <= e.ms
    BY <2>2, <2>3
  <2> HIDE DEF e, u
  <2>6. Charged(evs, u, final_answer)
    BY <2>2, <2>3, <2>4, <2>5, ChargedAppend
  <2>7. final_answer = None
    BY <1>5, <1>open DEF RefuseAction
  <2> QED
    BY <2>1, <2>6, <2>7, StoreCharged
<1>6. ASSUME NEW d \in Delays, NEW tokens \in TokenCounts,
             NEW name \in ToolNames, CallTool(tokens, d, name)
      PROVE  ReplayInv'
  <2>1. /\ events' = Recorded(tokens, d) /\ usage' = Spent(tokens)
        /\ UNCHANGED <<final_answer, journal>>
    BY <1>6 DEF CallTool
  <2>2. Charged(Recorded(tokens, d), Spent(tokens), final_answer)
    BY OutputCharged
  <2> QED
    BY <2>1, <2>2, Zenon DEF ReplayInv
<1>7. ASSUME NEW result \in ToolResults(pending.name), ToolReturns(result)
      PROVE  ReplayInv'
  <2> DEFINE name == pending.name
             p == PythonSeconds(name, result[2])
             u == WithUsage(usage, 1, 1, p, 0, 0)
             call == Event("TOOL_CALL", pending.ms, name, None, None)
             answer == Event("TOOL_RESULT", pending.ms, name, result[1],
                             result[2])
             mid == Append(events, call)
             evs == Append(mid, answer)
  <2>1. pc = "executing" /\ Store(messages, evs, u, BudgetReason(u), None, result[1])
    BY <1>7 DEF ToolReturns
  <2>2. result[1] \in ResultCode /\ result[2] \in Nat \cup {None} /\ p \in Nat
    BY ToolResultsType
  <2>3. /\ call \in Events /\ answer \in Events /\ Metered(call) /\ Metered(answer)
    BY <2>2 DEF Event, Events, EventKind, TypeOK, Call, Metered
  <2>4. /\ call.kind = "TOOL_CALL" /\ call.ms = pending.ms
        /\ answer.kind = "TOOL_RESULT" /\ answer.ms = pending.ms
        /\ answer.subject = name /\ answer.amount = result[2]
    BY DEF Event
  <2>5. pending.ms \in Nat
    BY DEF TypeOK, Call
  <2>6. events # << >> => events[Len(events)].ms <= call.ms
    BY <2>1, <2>4, <2>5 DEF TraceInv
  <2>7. WithUsage(usage, 1, 1, 0, 0, 0) \in Usage
        /\ u = WithUsage(WithUsage(usage, 1, 1, 0, 0, 0), 0, 0, p, 0, 0)
    <3> HIDE DEF p
    <3> QED
      BY <1>t, <2>2 DEF WithUsage, Usage
  <2> HIDE DEF call, answer, u
  <2>8. Charged(mid, WithUsage(usage, 1, 1, 0, 0, 0), final_answer)
    BY <1>t, <2>3, <2>4, <2>6, ChargedAppend DEF ReplayInv
  <2>9. mid \in Seq(Events) /\ mid[Len(mid)].ms <= answer.ms
    BY <1>t, <2>3, <2>4, <2>5
  <2> HIDE DEF mid
  <2>10. Charged(evs, u, final_answer)
    BY <2>3, <2>4, <2>7, <2>8, <2>9, ChargedAppend
  <2>11. final_answer = None
    BY <2>1, <1>open
  <2> QED
    BY <2>1, <2>10, <2>11, StoreCharged
<1>8. CASE Abandon
  BY <1>8, <1>same DEF Abandon
<1>9. CASE Cancel
  BY <1>9, <1>same DEF Cancel
<1>10. CASE UNCHANGED vars
  BY <1>10, <1>same DEF vars
<1> QED
  BY <1>1, <1>2, <1>3, <1>4, <1>5, <1>6, <1>7, <1>8, <1>9, <1>10
     DEF Next, Work, ModelReturns, ToolAnswers, Finished

\* For every budget and all inputs, what an episode has stored is accepted by
\* replay, whenever it is saved: its usage, its answer and every snapshot.
THEOREM ReplayCorrect == Spec => []ReplayAccepts
<1>1. Init => ReplayInv
  <2> SUFFICES ASSUME Init PROVE ReplayInv
    OBVIOUS
  <2>1. events = << >> /\ usage = NoUsage /\ final_answer = None /\ journal = << >>
    BY DEF Init
  <2> QED
    BY <2>1, ReplayNothing DEF ReplayInv
<1>2. TypeOK /\ Accounting /\ AnswerFromFinal /\ TraceInv /\ ReplayInv /\ [Next]_vars
        => ReplayInv'
  BY ReplayNext
<1>3. ReplayInv => ReplayAccepts
  BY DEF ReplayInv, ReplayAccepts, Charged, Accepted
<1> QED
  BY <1>1, <1>2, <1>3, TraceInvariant, AnswerCorrect, PTL DEF Spec
-----------------------------------------------------------------------------
(* An episode that goes on from a snapshot.                                 *)

\* What every snapshot is: the books of an episode at the time, and where it
\* is not the last one, of an episode that may go on.
Whole(s) ==
  /\ s.usage.steps = Steps(s.events)
  /\ s.usage.tool_calls = Count(s.events, {"TOOL_CALL"})
  /\ s.usage.invalid_actions = Count(s.events, {"INVALID_ACTION"})
  /\ s.usage.steps <= MaxSteps /\ s.usage.tool_calls <= MaxToolCalls
  /\ ~s.terminated =>
       /\ s.usage.steps < MaxSteps
       /\ s.usage.python_seconds > 0 => s.usage.python_seconds < MaxPythonSeconds
       /\ Count(s.events, {"FINAL"}) = 0
       /\ Answered(s.events, s.messages)
       /\ Charged(s.events, s.usage, None)

SnapshotsWhole == \A k \in DOMAIN journal : Whole(journal[k])

Books == TypeOK /\ Accounting /\ AnswerFromFinal /\ TraceInv /\ ReplayInv

\* A step journals nothing, or what the episode then is.
LEMMA StepJournals ==
  ASSUME TypeOK, [Next]_vars
  PROVE  \/ journal' = journal
         \/ /\ journal' = Append(journal,
                                 [messages |-> messages', usage |-> usage',
                                  events |-> events',
                                  terminated |-> termination_reason' # None])
            /\ pc' = IF termination_reason' = None THEN "turn" ELSE "done"
<1> DEFINE Shot == [messages |-> messages', usage |-> usage', events |-> events',
                    terminated |-> termination_reason' # None]
<1>1. ASSUME NEW convo, NEW evs, NEW u, NEW reason, NEW answer, NEW observation,
             Store(convo, evs, u, reason, answer, observation)
      PROVE  /\ journal' = Append(journal, Shot)
             /\ pc' = IF termination_reason' = None THEN "turn" ELSE "done"
  BY <1>1 DEF Store, StepSnapshot
<1> HIDE DEF Shot
<1>2. CASE StopCancelled \/ Generate \/ Abandon \/ Cancel \/ UNCHANGED vars
  BY <1>2 DEF StopCancelled, Abort, Generate, Abandon, Cancel, vars, envVars
<1>3. ASSUME NEW d \in Delays, ModelFails(d)
      PROVE  journal' = journal
  BY <1>3 DEF ModelFails, Abort
<1>4. ASSUME NEW d \in Delays, NEW tokens \in TokenCounts,
             NEW answer \in Answers, SubmitFinal(tokens, d, answer)
      PROVE  /\ journal' = Append(journal, Shot)
             /\ pc' = IF termination_reason' = None THEN "turn" ELSE "done"
  BY <1>1, <1>4 DEF SubmitFinal
<1>5. ASSUME NEW d \in Delays, NEW tokens \in TokenCounts,
             NEW code \in StepErrorCode, RefuseAction(tokens, d, code)
      PROVE  /\ journal' = Append(journal, Shot)
             /\ pc' = IF termination_reason' = None THEN "turn" ELSE "done"
  BY <1>1, <1>5 DEF RefuseAction
<1>6. ASSUME NEW d \in Delays, NEW tokens \in TokenCounts,
             NEW name \in ToolNames, CallTool(tokens, d, name)
      PROVE  journal' = journal
  BY <1>6 DEF CallTool
<1>7. ASSUME NEW result \in ToolResults(pending.name), ToolReturns(result)
      PROVE  /\ journal' = Append(journal, Shot)
             /\ pc' = IF termination_reason' = None THEN "turn" ELSE "done"
  BY <1>1, <1>7 DEF ToolReturns
<1> QED
  BY <1>2, <1>3, <1>4, <1>5, <1>6, <1>7
     DEF Next, Work, ModelReturns, ToolAnswers, Finished, Shot

LEMMA SnapshotsNext ==
  ASSUME TypeOK, SnapshotsWhole, [Next]_vars,
         TypeOK', Accounting', AnswerFromFinal', TraceInv', ReplayInv'
  PROVE  SnapshotsWhole'
<1> DEFINE shot == [messages |-> messages', usage |-> usage', events |-> events',
                    terminated |-> termination_reason' # None]
<1>1. CASE journal' = journal
  BY <1>1 DEF SnapshotsWhole
<1>2. CASE /\ journal' = Append(journal, shot)
           /\ pc' = IF termination_reason' = None THEN "turn" ELSE "done"
  <2>1. /\ shot.messages = messages' /\ shot.usage = usage'
        /\ shot.events = events'
        /\ shot.terminated <=> termination_reason' # None
    OBVIOUS
  <2> HIDE DEF shot
  <2>2. /\ usage'.steps = Steps(events')
        /\ usage'.tool_calls = Count(events', {"TOOL_CALL"})
        /\ usage'.invalid_actions = Count(events', {"INVALID_ACTION"})
        /\ usage'.steps <= MaxSteps /\ usage'.tool_calls <= MaxToolCalls
        /\ termination_reason' = None =>
             /\ usage'.steps < MaxSteps
             /\ usage'.python_seconds > 0 => usage'.python_seconds < MaxPythonSeconds
    BY DEF Accounting, UsageMatchesEvents, BudgetRespected, Steps, Count
  <2>3. termination_reason' = None =>
          Count(events', {"FINAL"}) = 0 /\ final_answer' = None
    BY InputAssumption DEF AnswerFromFinal, Count, TerminationReason
  <2>4. termination_reason' = None => Answered(events', messages')
    BY <1>2 DEF TraceInv, Answered, Outputs, Count
  <2>5. Charged(events', usage', final_answer')
    BY Zenon DEF ReplayInv, Charged
  <2>6. Whole(shot)
    BY <2>1, <2>2, <2>3, <2>4, <2>5 DEF Whole
  <2>7. journal \in Seq(Snapshot)
    BY DEF TypeOK
  <2>8. ASSUME NEW k \in DOMAIN journal'
        PROVE  Whole(journal'[k])
    <3>1. journal'[k] = shot \/ (k \in DOMAIN journal /\ journal'[k] = journal[k])
      BY <1>2, <2>7
    <3> QED
      BY <2>6, <3>1 DEF SnapshotsWhole
  <2> QED
    BY <2>8 DEF SnapshotsWhole, Whole, Steps, Count, Answered, Outputs, Charged
<1> QED
  BY <1>1, <1>2, StepJournals

\* What is true of a trace is true of its beginning.
LEMMA PrefixChain ==
  ASSUME NEW t \in Seq(Events), NEW s \in Seq(Events), PrefixOf(s, t),
         NEW b, Chain(t), Ordered(t, b)
  PROVE  /\ Chain(s)
         /\ s # << >> => Ordered(s, s[Len(s)].ms)
<1>1. /\ Len(s) \in Nat /\ Len(t) \in Nat /\ Len(s) <= Len(t)
      /\ DOMAIN s = 1..Len(s) /\ DOMAIN t = 1..Len(t)
      /\ \A i \in 1..Len(s) : s[i] = t[i]
  BY DEF PrefixOf
<1>2. Chain(s)
  <2>1. s # << >> => t # << >> /\ s[1] = t[1]
    BY <1>1
  <2>2. \A i \in 1..Len(s) - 1 :
          i \in 1..Len(t) - 1 /\ s[i] = t[i] /\ s[i + 1] = t[i + 1]
    BY <1>1
  <2> QED
    BY <2>1, <2>2 DEF Chain
<1>3. ASSUME s # << >>
      PROVE  Ordered(s, s[Len(s)].ms)
  <2>1. \A i, j \in DOMAIN s : i <= j => s[i].ms <= s[j].ms
    BY <1>1 DEF Ordered
  <2>2. Len(s) \in DOMAIN s /\ \A i \in DOMAIN s : i <= Len(s)
    BY <1>1, <1>3
  <2> QED
    BY <2>1, <2>2 DEF Ordered
<1> QED
  BY <1>2, <1>3

\* An arm edits what the last message says, and nothing else.
LEMMA EditedMessages ==
  ASSUME NEW convo \in Seq(Message), convo # << >>, NEW a \in Arms
  PROVE  LET last == Len(convo)
             edited == [convo EXCEPT ![last].content = Rendered(@, a)]
         IN  /\ edited \in Seq(Message) /\ Len(edited) = last
             /\ \A i \in 1..last : edited[i].role = convo[i].role
             /\ \A i \in 1..last - 1 : edited[i] = convo[i]
             /\ a = "F" => edited[last] = convo[last]
<1> DEFINE last == Len(convo)
           m == [convo[last] EXCEPT !.content = Rendered(convo[last].content, a)]
           edited == [convo EXCEPT ![last] = m]
<1>1. last \in DOMAIN convo /\ last \in Nat /\ DOMAIN convo = 1..last
      /\ convo[last] \in Message
  OBVIOUS
<1>2. Rendered(convo[last].content, a) \in Content
      /\ (a = "F" => Rendered(convo[last].content, a) = convo[last].content)
  <2>1. convo[last].content \in Content /\ a \in {"F", "P", "M"}
    BY <1>1, AnchorAssumption DEF Message
  <2> QED
    BY <2>1 DEF Rendered, Content
<1>3. /\ m \in Message /\ m.role = convo[last].role
      /\ a = "F" => m = convo[last]
  <2> DEFINE r == Rendered(convo[last].content, a)
             old == convo[last]
  <2>1. r \in Content /\ (a = "F" => r = old.content) /\ old \in Message
    BY <1>1, <1>2
  <2> HIDE DEF r, old
  <2>2. /\ [old EXCEPT !.content = r] \in Message
        /\ [old EXCEPT !.content = r].role = old.role
        /\ r = old.content => [old EXCEPT !.content = r] = old
    BY <2>1 DEF Message
  <2> QED
    BY <2>1, <2>2 DEF r, old
<1> HIDE DEF m
<1>4. edited = [convo EXCEPT ![last].content = Rendered(@, a)]
  BY DEF m
<1>5. /\ edited \in Seq(Message) /\ Len(edited) = last
      /\ \A i \in 1..last : edited[i] = IF i = last THEN m ELSE convo[i]
  BY <1>1, <1>3
<1> QED
  BY <1>1, <1>3, <1>4, <1>5

LEMMA ResumeStep ==
  ASSUME TypeOK, Accounting, TraceInv, SnapshotsWhole,
         NEW k \in DOMAIN journal, NEW a \in Arms, Resume(k, a)
  PROVE  /\ Books' /\ SnapshotsWhole'
         /\ journal[k] \in Snapshot /\ journal[k].messages # << >>
         /\ Whole(journal[k]) /\ ~journal[k].terminated
<1> DEFINE s == journal[k]
           n == Len(s.messages)
<1>1. /\ s \in Snapshot /\ s.messages \in Seq(Message) /\ s.events \in Seq(Events)
      /\ s.usage \in Usage /\ s.terminated \in BOOLEAN
  <2>1. journal \in Seq(Snapshot)
    BY DEF TypeOK
  <2>2. s \in Snapshot
    BY <2>1
  <2> HIDE DEF s
  <2> QED
    BY <2>2 DEF Snapshot
<1>2. /\ Entry(s, events, messages) /\ Whole(s)
      /\ Chain(events) /\ Ordered(events, offset + elapsed)
      /\ Alternates(messages)
  BY DEF TraceInv, SnapshotsWhole
<1>3. /\ ~s.terminated /\ s.messages[n].role = "tool" /\ pc = "done"
      /\ usage' = s.usage /\ events' = s.events
      /\ termination_reason' = None /\ final_answer' = None
      /\ messages' = [s.messages EXCEPT ![n].content = Rendered(@, a)]
      /\ journal' = << >> /\ offset' = s.events[Len(s.events)].ms
      /\ elapsed' = 0 /\ cancelled' = FALSE
      /\ requested' = Count(s.events, {"TOOL_CALL"}) /\ pc' = "turn"
      /\ pending' = pending /\ anchor' = s /\ arm' = a
  BY DEF Resume, Eligible, InheritedUsage, ClockOffset
<1>4. s.events # << >> /\ s.events[Len(s.events)].kind = "TOOL_RESULT"
  BY DEF Resume, FirstExecError, ExecError
<1>5. /\ Answered(s.events, s.messages) /\ Charged(s.events, s.usage, None)
      /\ s.usage.steps < MaxSteps
      /\ s.usage.python_seconds > 0 => s.usage.python_seconds < MaxPythonSeconds
      /\ Count(s.events, {"FINAL"}) = 0
      /\ s.usage.steps = Steps(s.events)
      /\ s.usage.tool_calls = Count(s.events, {"TOOL_CALL"})
      /\ s.usage.invalid_actions = Count(s.events, {"INVALID_ACTION"})
      /\ s.usage.steps <= MaxSteps /\ s.usage.tool_calls <= MaxToolCalls
  BY <1>2, <1>3 DEF Whole
<1>6. pending = NoCall
  BY <1>3 DEF Accounting, StagesConsistent
<1>7. s.events[Len(s.events)] \in Events
  BY <1>1, <1>4
<1>8. s.messages # << >>
  <2>1. Len(s.messages) = 2 * Outputs(s.events) + 2 /\ Outputs(s.events) \in Nat
    BY <1>1, <1>5, <1>7, OutputsAppend DEF Answered
  <2> QED
    BY <2>1
<1>9. /\ messages' \in Seq(Message) /\ Len(messages') = n
      /\ \A i \in 1..n : messages'[i].role = s.messages[i].role
  BY <1>1, <1>3, <1>8, EditedMessages
<1> HIDE DEF s
<1>10. offset' \in Nat /\ requested' = s.usage.tool_calls /\ requested' \in Nat
  BY <1>1, <1>3, <1>5, <1>7 DEF Events, Usage
<1>11. TypeOK'
  <2>1. << >> \in Seq(Snapshot) /\ 0 \in Nat /\ "turn" \in Stages
    BY DEF Stages
  <2>2. pending \in Call
    BY DEF TypeOK
  <2> QED
    BY <1>1, <1>3, <1>9, <1>10, <2>1, <2>2 DEF TypeOK
<1>12. Accounting'
  <2>1. UsageMatchesEvents'
    BY <1>3, <1>5, UsageNext DEF Steps
  <2>2. StagesConsistent'
    BY <1>3, <1>6 DEF StagesConsistent
  <2>3. BudgetRespected'
    BY <1>3, <1>5 DEF BudgetRespected
  <2>4. RequestsCharged'
    <3>1. s.usage.tool_calls + 0 = s.usage.tool_calls
      BY <1>1 DEF Usage
    <3> QED
      BY <1>3, <1>5, <1>6, <1>10, <3>1 DEF RequestsCharged
  <2> QED
    BY <2>1, <2>2, <2>3, <2>4 DEF Accounting
<1>13. AnswerFromFinal'
  <2>1. None # "final"
    BY InputAssumption DEF TerminationReason
  <2> QED
    BY <1>3, <1>5, <2>1, AnswerPrimed
<1>14. TraceInv'
  <2>1. PrefixOf(s.events, events)
    BY <1>2 DEF Entry
  <2>2. /\ Chain(s.events)
        /\ Ordered(s.events, s.events[Len(s.events)].ms)
    BY <1>1, <1>2, <1>4, <2>1, PrefixChain DEF TypeOK
  <2>3. offset' + elapsed' = s.events[Len(s.events)].ms
    BY <1>3, <1>10
  <2>4. Chain(events') /\ Ordered(events', offset' + elapsed')
    BY <1>3, <2>2, <2>3
  <2>5. Alternates(messages')
    <3>1. PrefixOf(s.messages, messages) /\ n >= 2
      <4>1. Outputs(s.events) \in Nat
        BY <1>1, <1>7, OutputsAppend
      <4> QED
        BY <1>2, <1>5, <4>1 DEF Entry, Answered
    <3>2. \A i \in 1..n : s.messages[i] = messages[i]
      BY <1>1, <3>1 DEF PrefixOf, TypeOK
    <3>3. n <= Len(messages) /\ n \in Nat /\ Len(messages) \in Nat
      BY <1>1, <3>1 DEF PrefixOf, TypeOK
    <3> HIDE DEF n
    <3> QED
      BY <1>2, <1>9, <3>1, <3>2, <3>3 DEF Alternates
  <2>6. Answered(events', messages')
    BY <1>3, <1>5, <1>9 DEF Answered
  <2>7. Ends(events', {"TOOL_RESULT", "INVALID_ACTION"})
        /\ ~Ends(events', {"MODEL_OUTPUT"})
    BY <1>3, <1>4 DEF Ends
  <2>8. DOMAIN journal' = {} /\ pc' = "turn" /\ pending' = NoCall
    BY <1>3, <1>6
  <2> QED
    BY <2>4, <2>5, <2>6, <2>7, <2>8, TracePrimed
<1>15. ReplayInv' /\ SnapshotsWhole'
  <2>1. DOMAIN journal' = {} /\ Charged(events', usage', final_answer')
    BY <1>3, <1>5
  <2> QED
    BY <2>1, Zenon DEF ReplayInv, SnapshotsWhole, Charged
<1> QED
  BY <1>1, <1>2, <1>3, <1>8, <1>11, <1>12, <1>13, <1>14, <1>15 DEF Books, s

\* What a step of an episode adds to.
Grows(evs, convo, u, steps, shots) ==
  /\ PrefixOf(events, evs)
  /\ PrefixOf(messages, convo)
  /\ u.tool_calls >= usage.tool_calls
  /\ u.python_seconds >= usage.python_seconds
  /\ u.generated_tokens >= usage.generated_tokens
  /\ u.invalid_actions >= usage.invalid_actions
  /\ steps \in {0, 1}
  /\ u.steps = usage.steps + steps
  /\ Len(shots) = Len(journal) + steps

LEMMA SpendGrows ==
  ASSUME NEW u \in Usage, NEW s \in Nat, NEW c \in Nat, NEW p \in Nat,
         NEW t \in Nat, NEW i \in Nat, NEW v, v = WithUsage(u, s, c, p, t, i)
  PROVE  /\ v.steps = u.steps + s
         /\ v.tool_calls >= u.tool_calls
         /\ v.python_seconds >= u.python_seconds
         /\ v.generated_tokens >= u.generated_tokens
         /\ v.invalid_actions >= u.invalid_actions
BY DEF WithUsage, Usage

LEMMA StepGrows ==
  ASSUME TypeOK, [Next]_vars
  PROVE  \E steps \in {0, 1} : Grows(events', messages', usage', steps, journal')
<1> USE DEF envVars
<1>t. /\ usage \in Usage /\ events \in Seq(Events) /\ messages \in Seq(Message)
      /\ journal \in Seq(Snapshot)
  BY DEF TypeOK
<1>p. /\ PrefixOf(events, events) /\ PrefixOf(messages, messages)
      /\ \A e \in Events : PrefixOf(events, Append(events, e))
      /\ \A e, f \in Events : PrefixOf(events, Append(Append(events, e), f))
      /\ \A m \in Message : PrefixOf(messages, Append(messages, m))
      /\ \A m, o \in Message : PrefixOf(messages, Append(Append(messages, m), o))
  BY <1>t DEF PrefixOf
<1>u. /\ usage.steps \in Nat /\ usage.tool_calls \in Nat
      /\ usage.python_seconds \in Nat /\ usage.generated_tokens \in Nat
      /\ usage.invalid_actions \in Nat
  BY <1>t DEF Usage
<1>store. ASSUME NEW convo, NEW evs, NEW u, NEW reason, NEW answer, NEW observation,
                 Store(convo, evs, u, reason, answer, observation)
          PROVE  /\ events' = evs /\ usage' = u
                 /\ Len(journal') = Len(journal) + 1
                 /\ \/ messages' = convo
                    \/ /\ observation # None
                       /\ messages' = Append(convo, Observation(observation))
  BY <1>t, <1>store DEF Store
<1>turn. Turn \in Message /\ \A c \in Content : Observation(c) \in Message
  BY DEF Turn, Observation, Message, Content
<1>same. ASSUME UNCHANGED <<events, usage, messages, journal>>
         PROVE  Grows(events', messages', usage', 0, journal')
  BY <1>same, <1>p, <1>t, <1>u DEF Grows
<1>1. CASE StopCancelled \/ Generate \/ Abandon \/ Cancel \/ UNCHANGED vars
  BY <1>1, <1>same DEF StopCancelled, Abort, Generate, Abandon, Cancel, vars
<1>2. ASSUME NEW d \in Delays, ModelFails(d)
      PROVE  Grows(events', messages', usage', 0, journal')
  <2> DEFINE e == Event("TERMINATION", Now(d), None, None, None)
  <2>1. events' = Append(events, e) /\ UNCHANGED <<usage, messages, journal>>
    BY <1>2 DEF ModelFails, Abort
  <2>2. e \in Events
    BY InputAssumption DEF Event, Events, EventKind, Now, TypeOK
  <2> HIDE DEF e
  <2> QED
    BY <1>p, <1>t, <1>u, <2>1, <2>2 DEF Grows
<1> DEFINE Output(d, tokens) == Event("MODEL_OUTPUT", Now(d), None, None, tokens)
<1>out. ASSUME NEW d \in Delays, NEW tokens \in TokenCounts
        PROVE  /\ Output(d, tokens) \in Events /\ tokens \in Nat /\ Now(d) \in Nat
               /\ Recorded(tokens, d) = Append(events, Output(d, tokens))
  BY InputAssumption DEF Recorded, Event, Events, EventKind, Now, TypeOK
<1> HIDE DEF Output
<1>3. ASSUME NEW d \in Delays, NEW tokens \in TokenCounts,
             NEW answer \in Answers, SubmitFinal(tokens, d, answer)
      PROVE  Grows(events', messages', usage', 1, journal')
  <2> DEFINE e == Event("FINAL", Now(d), answer, None, None)
             u == WithUsage(usage, 1, 0, 0, tokens, 0)
  <2>1. Store(Said, Append(Recorded(tokens, d), e), u, "final", answer, None)
    BY <1>3 DEF SubmitFinal
  <2>2. e \in Events
    BY <1>out DEF Event, Events, EventKind
  <2>3. /\ u.steps = usage.steps + 1
        /\ u.tool_calls >= usage.tool_calls
        /\ u.python_seconds >= usage.python_seconds
        /\ u.generated_tokens >= usage.generated_tokens
        /\ u.invalid_actions >= usage.invalid_actions
    BY <1>t, <1>out, SpendGrows
  <2> HIDE DEF e, u
  <2>4. /\ events' = Append(Append(events, Output(d, tokens)), e) /\ usage' = u
        /\ Len(journal') = Len(journal) + 1
        /\ messages' = Append(messages, Turn)
    BY <1>store, <1>out, <2>1 DEF Said
  <2> QED
    BY <1>p, <1>out, <1>turn, <2>2, <2>3, <2>4 DEF Grows
<1>4. ASSUME NEW d \in Delays, NEW tokens \in TokenCounts,
             NEW code \in StepErrorCode, RefuseAction(tokens, d, code)
      PROVE  Grows(events', messages', usage', 1, journal')
  <2> DEFINE e == Event("INVALID_ACTION", Now(d), None, code, None)
             u == WithUsage(usage, 1, 0, 0, tokens, 1)
  <2>1. Store(Said, Append(Recorded(tokens, d), e), u, BudgetReason(u), None, code)
    BY <1>4 DEF RefuseAction
  <2>2. e \in Events /\ Observation(code) \in Message
    BY <1>out, <1>turn DEF Event, Events, EventKind, Content
  <2>3. /\ u.steps = usage.steps + 1
        /\ u.tool_calls >= usage.tool_calls
        /\ u.python_seconds >= usage.python_seconds
        /\ u.generated_tokens >= usage.generated_tokens
        /\ u.invalid_actions >= usage.invalid_actions
    BY <1>t, <1>out, SpendGrows
  <2> HIDE DEF e, u
  <2>4. /\ events' = Append(Append(events, Output(d, tokens)), e) /\ usage' = u
        /\ Len(journal') = Len(journal) + 1
        /\ \/ messages' = Append(messages, Turn)
           \/ messages' = Append(Append(messages, Turn), Observation(code))
    BY <1>store, <1>out, <2>1 DEF Said
  <2> QED
    BY <1>p, <1>out, <1>turn, <2>2, <2>3, <2>4 DEF Grows
<1>5. ASSUME NEW d \in Delays, NEW tokens \in TokenCounts,
             NEW name \in ToolNames, CallTool(tokens, d, name)
      PROVE  Grows(events', messages', usage', 0, journal')
  <2> DEFINE u == WithUsage(usage, 0, 0, 0, tokens, 0)
  <2>1. /\ events' = Append(events, Output(d, tokens)) /\ usage' = u
        /\ messages' = Append(messages, Turn) /\ journal' = journal
    BY <1>5, <1>out DEF CallTool, Spent, Said
  <2>2. /\ u.steps = usage.steps + 0
        /\ u.tool_calls >= usage.tool_calls
        /\ u.python_seconds >= usage.python_seconds
        /\ u.generated_tokens >= usage.generated_tokens
        /\ u.invalid_actions >= usage.invalid_actions
    BY <1>t, <1>out, SpendGrows
  <2> HIDE DEF u
  <2>3. Len(journal') = Len(journal) + 0
    BY <1>t, <2>1
  <2> QED
    BY <1>p, <1>out, <1>turn, <2>1, <2>2, <2>3 DEF Grows
<1>6. ASSUME NEW result \in ToolResults(pending.name), ToolReturns(result)
      PROVE  Grows(events', messages', usage', 1, journal')
  <2> DEFINE name == pending.name
             p == PythonSeconds(name, result[2])
             u == WithUsage(usage, 1, 1, p, 0, 0)
             call == Event("TOOL_CALL", pending.ms, name, None, None)
             answer == Event("TOOL_RESULT", pending.ms, name, result[1],
                             result[2])
  <2>1. Store(messages, Append(Append(events, call), answer), u, BudgetReason(u),
              None, result[1])
    BY <1>6 DEF ToolReturns
  <2>2. result[1] \in ResultCode /\ result[2] \in Nat \cup {None} /\ p \in Nat
    BY ToolResultsType
  <2>3. /\ call \in Events /\ answer \in Events
        /\ Observation(result[1]) \in Message
    BY <2>2, <1>turn DEF Event, Events, EventKind, TypeOK, Call, Content
  <2> HIDE DEF p
  <2>4. /\ u.steps = usage.steps + 1
        /\ u.tool_calls >= usage.tool_calls
        /\ u.python_seconds >= usage.python_seconds
        /\ u.generated_tokens >= usage.generated_tokens
        /\ u.invalid_actions >= usage.invalid_actions
    BY <1>t, <2>2, SpendGrows
  <2> HIDE DEF call, answer, u
  <2>5. /\ events' = Append(Append(events, call), answer) /\ usage' = u
        /\ Len(journal') = Len(journal) + 1
        /\ \/ messages' = messages
           \/ messages' = Append(messages, Observation(result[1]))
    BY <1>store, <2>1
  <2> QED
    BY <1>p, <2>3, <2>4, <2>5 DEF Grows
<1> QED
  BY <1>1, <1>2, <1>3, <1>4, <1>5, <1>6, <1>same
     DEF Next, Work, ModelReturns, ToolAnswers, Finished

\* How a branch and its anchor stand: it has added to the trace, the usage and
\* the conversation, one journal entry for each step charged.
BranchInv ==
  anchor # None =>
    LET n == Len(anchor.messages)
    IN  /\ anchor \in Snapshot /\ n \in 1..Len(messages)
        /\ PrefixOf(anchor.events, events)
        /\ usage.tool_calls >= anchor.usage.tool_calls
        /\ usage.python_seconds >= anchor.usage.python_seconds
        /\ usage.generated_tokens >= anchor.usage.generated_tokens
        /\ usage.invalid_actions >= anchor.usage.invalid_actions
        /\ usage.steps = anchor.usage.steps + Len(journal)
        /\ \A i \in 1..n - 1 : messages[i] = anchor.messages[i]
        /\ messages[n].role = "tool"
        /\ arm = "F" => messages[n] = anchor.messages[n]

LEMMA BranchRuns ==
  ASSUME TypeOK, BranchInv, [Next]_vars, UNCHANGED branchVars, TypeOK'
  PROVE  BranchInv'
<1>1. anchor' = anchor /\ arm' = arm
  BY DEF branchVars
<1>2. CASE anchor = None
  BY <1>1, <1>2 DEF BranchInv
<1>3. CASE anchor # None
  <2> DEFINE n == Len(anchor.messages)
  <2>1. PICK steps \in {0, 1} : Grows(events', messages', usage', steps, journal')
    BY StepGrows
  <2>2. /\ anchor \in Snapshot /\ n \in 1..Len(messages)
        /\ PrefixOf(anchor.events, events)
        /\ usage.tool_calls >= anchor.usage.tool_calls
        /\ usage.python_seconds >= anchor.usage.python_seconds
        /\ usage.generated_tokens >= anchor.usage.generated_tokens
        /\ usage.invalid_actions >= anchor.usage.invalid_actions
        /\ usage.steps = anchor.usage.steps + Len(journal)
        /\ \A i \in 1..n - 1 : messages[i] = anchor.messages[i]
        /\ messages[n].role = "tool"
        /\ arm = "F" => messages[n] = anchor.messages[n]
    BY <1>3 DEF BranchInv
  <2>3. /\ anchor.events \in Seq(Events) /\ anchor.usage \in Usage
        /\ anchor.messages \in Seq(Message)
    BY <2>2 DEF Snapshot
  <2>4. /\ usage \in Usage /\ usage' \in Usage
        /\ events \in Seq(Events) /\ events' \in Seq(Events)
        /\ messages \in Seq(Message) /\ messages' \in Seq(Message)
        /\ Len(journal) \in Nat
    BY DEF TypeOK
  <2>5. PrefixOf(anchor.events, events')
    BY <2>1, <2>2, <2>3, <2>4 DEF Grows, PrefixOf
  <2>6. /\ Len(messages) <= Len(messages')
        /\ \A i \in 1..Len(messages) : messages'[i] = messages[i]
    BY <2>1, <2>4 DEF Grows, PrefixOf
  <2>7. n \in 1..Len(messages') /\ messages'[n] = messages[n]
        /\ \A i \in 1..n - 1 : messages'[i] = messages[i]
    <3>1. Len(messages) \in Nat /\ Len(messages') \in Nat
      BY <2>4
    <3> HIDE DEF n
    <3> QED
      BY <2>2, <2>6, <3>1
  <2>8. /\ usage'.tool_calls >= anchor.usage.tool_calls
        /\ usage'.python_seconds >= anchor.usage.python_seconds
        /\ usage'.generated_tokens >= anchor.usage.generated_tokens
        /\ usage'.invalid_actions >= anchor.usage.invalid_actions
        /\ usage'.steps = anchor.usage.steps + Len(journal')
    <3> DEFINE u == anchor.usage
               v == usage'
    <3>1. /\ v.tool_calls >= usage.tool_calls
          /\ v.python_seconds >= usage.python_seconds
          /\ v.generated_tokens >= usage.generated_tokens
          /\ v.invalid_actions >= usage.invalid_actions
          /\ v.steps = usage.steps + steps /\ steps \in Nat
          /\ Len(journal') = Len(journal) + steps
      BY <2>1 DEF Grows
    <3>2. u \in Usage /\ v \in Usage /\ usage \in Usage
      BY <2>3, <2>4
    <3>3. /\ u.tool_calls \in Nat /\ u.python_seconds \in Nat /\ u.steps \in Nat
          /\ u.generated_tokens \in Nat /\ u.invalid_actions \in Nat
          /\ v.tool_calls \in Nat /\ v.python_seconds \in Nat /\ v.steps \in Nat
          /\ v.generated_tokens \in Nat /\ v.invalid_actions \in Nat
          /\ usage.tool_calls \in Nat /\ usage.python_seconds \in Nat
          /\ usage.generated_tokens \in Nat /\ usage.invalid_actions \in Nat
          /\ usage.steps \in Nat
      <4> HIDE DEF u, v
      <4> QED
        BY <3>2 DEF Usage
    <3>4. /\ v.tool_calls >= u.tool_calls
          /\ v.python_seconds >= u.python_seconds
          /\ v.generated_tokens >= u.generated_tokens
          /\ v.invalid_actions >= u.invalid_actions
          /\ v.steps = u.steps + Len(journal')
      <4>1. /\ usage.tool_calls >= u.tool_calls
            /\ usage.python_seconds >= u.python_seconds
            /\ usage.generated_tokens >= u.generated_tokens
            /\ usage.invalid_actions >= u.invalid_actions
            /\ usage.steps = u.steps + Len(journal)
        BY <2>2
      <4>2. \A x, y, z \in Nat : x >= y /\ y >= z => x >= z
        OBVIOUS
      <4>3. \A x, y, z \in Nat : (x + y) + z = x + (y + z)
        OBVIOUS
      <4> HIDE DEF u, v
      <4>4. v.steps = u.steps + Len(journal')
        BY <2>4, <3>1, <3>3, <4>1, <4>3
      <4> QED
        BY <3>1, <3>3, <4>1, <4>2, <4>4
    <3> QED
      BY <3>4
  <2> QED
    BY <1>1, <2>2, <2>5, <2>7, <2>8 DEF BranchInv
<1> QED
  BY <1>2, <1>3

LEMMA BranchStarts ==
  ASSUME TypeOK, Accounting, TraceInv, SnapshotsWhole,
         NEW k \in DOMAIN journal, NEW a \in Arms, Resume(k, a)
  PROVE  BranchInv'
<1> DEFINE s == journal[k]
           n == Len(s.messages)
           edited == [s.messages EXCEPT ![n].content = Rendered(@, a)]
<1>1. s \in Snapshot /\ s.messages # << >>
  BY ResumeStep
<1>2. /\ s.messages \in Seq(Message) /\ s.events \in Seq(Events)
      /\ s.usage \in Usage /\ n \in Nat \ {0}
  <2> HIDE DEF s
  <2> QED
    BY <1>1 DEF Snapshot
<1>3. /\ s.messages[n].role = "tool"
      /\ usage' = s.usage /\ events' = s.events
      /\ messages' = edited /\ journal' = << >> /\ anchor' = s /\ arm' = a
  BY DEF Resume, InheritedUsage
<1>4. /\ Len(edited) = n
      /\ \A i \in 1..n : edited[i].role = s.messages[i].role
      /\ \A i \in 1..n - 1 : edited[i] = s.messages[i]
      /\ a = "F" => edited[n] = s.messages[n]
  BY <1>1, <1>2, EditedMessages
<1> HIDE DEF s, edited
<1>5. PrefixOf(s.events, s.events)
  BY <1>2 DEF PrefixOf
<1>6. /\ s.usage.steps \in Nat /\ s.usage.tool_calls \in Nat
      /\ s.usage.python_seconds \in Nat /\ s.usage.generated_tokens \in Nat
      /\ s.usage.invalid_actions \in Nat
  BY <1>2 DEF Usage
<1>7. s.usage.steps = s.usage.steps + Len(<< >>)
  BY <1>6
<1>8. n \in 1..Len(edited) /\ edited[n].role = "tool"
  BY <1>2, <1>3, <1>4
<1> QED
  BY <1>1, <1>3, <1>4, <1>5, <1>6, <1>7, <1>8 DEF BranchInv

LEMMA BranchInvariant ==
  BranchSpec => [](Books /\ SnapshotsWhole /\ BranchInv)
<1>1. BranchInit => Books /\ SnapshotsWhole /\ BranchInv
  <2> SUFFICES ASSUME BranchInit PROVE Books /\ SnapshotsWhole /\ BranchInv
    OBVIOUS
  <2>1. Init /\ anchor = None
    BY DEF BranchInit
  <2>2. TypeOK /\ Accounting /\ TraceInv /\ AnswerFromFinal
    BY <2>1, TypeInit, AccountingInit, TraceInit, AnswerInit
  <2>3. /\ events = << >> /\ usage = NoUsage /\ final_answer = None
        /\ journal = << >> /\ DOMAIN journal = {}
    BY <2>1 DEF Init
  <2>4. ReplayInv /\ SnapshotsWhole
    BY <2>3, ReplayNothing DEF ReplayInv, SnapshotsWhole
  <2> QED
    BY <2>1, <2>2, <2>4 DEF Books, BranchInv
<1>2. Books /\ SnapshotsWhole /\ BranchInv /\ [BranchNext]_<<vars, branchVars>>
        => (Books /\ SnapshotsWhole /\ BranchInv)'
  <2> SUFFICES ASSUME Books, SnapshotsWhole, BranchInv,
                      [BranchNext]_<<vars, branchVars>>
               PROVE  (Books /\ SnapshotsWhole /\ BranchInv)'
    OBVIOUS
  <2>1. TypeOK /\ Accounting /\ AnswerFromFinal /\ TraceInv /\ ReplayInv
    BY DEF Books
  <2>2. ASSUME [Next]_vars, UNCHANGED branchVars
        PROVE  (Books /\ SnapshotsWhole /\ BranchInv)'
    <3>1. TypeOK'
      BY <2>1, <2>2, TypeNext
    <3>2. Accounting'
      BY <2>1, <2>2, AccountingNext
    <3>3. AnswerFromFinal'
      BY <2>1, <2>2, AnswerNext DEF Accounting
    <3>4. TraceInv'
      BY <2>1, <2>2, <3>1, <3>2, TraceNext
    <3>5. ReplayInv'
      BY <2>1, <2>2, ReplayNext
    <3>6. SnapshotsWhole'
      BY <2>1, <2>2, <3>1, <3>2, <3>3, <3>4, <3>5, SnapshotsNext
    <3>7. BranchInv'
      BY <2>1, <2>2, <3>1, BranchRuns
    <3> QED
      BY <3>1, <3>2, <3>3, <3>4, <3>5, <3>6, <3>7 DEF Books
  <2>3. CASE Run
    <3>1. Next /\ UNCHANGED branchVars
      BY <2>3 DEF Run, Next
    <3> QED
      BY <2>2, <3>1
  <2>4. ASSUME NEW k \in DOMAIN journal, NEW a \in Arms, Resume(k, a)
        PROVE  (Books /\ SnapshotsWhole /\ BranchInv)'
    BY <2>1, <2>4, ResumeStep, BranchStarts
  <2>5. CASE (Finished /\ UNCHANGED branchVars) \/ UNCHANGED <<vars, branchVars>>
    BY <2>2, <2>5 DEF Finished
  <2> QED
    BY <2>3, <2>4, <2>5 DEF BranchNext
<1> QED
  BY <1>1, <1>2, PTL DEF BranchSpec

\* For every budget, every snapshot it may be resumed from and every arm, a
\* branch keeps the books, the clock and the replay of one episode, adds to
\* its anchor and never samples without a scheduled seed.
THEOREM SeamCorrect == BranchSpec => []SeamInvisible
<1>1. Books /\ SnapshotsWhole /\ BranchInv => SeamInvisible
  <2> SUFFICES ASSUME Books, SnapshotsWhole, BranchInv PROVE SeamInvisible
    OBVIOUS
  <2>1. TypeOK /\ Accounting /\ TraceInv /\ ReplayInv
    BY DEF Books
  <2>2. TimeMonotone /\ Accounting
    BY <2>1, TraceFollows DEF TraceFaithful
  <2>3. ReplayAccepts
    BY <2>1 DEF ReplayInv, ReplayAccepts, Charged, Accepted
  <2> DEFINE n == Len(anchor.messages)
  <2>4. anchor # None =>
          /\ anchor \in Snapshot /\ n \in 1..Len(messages)
          /\ PrefixOf(anchor.events, events)
          /\ usage.tool_calls >= anchor.usage.tool_calls
          /\ usage.python_seconds >= anchor.usage.python_seconds
          /\ usage.generated_tokens >= anchor.usage.generated_tokens
          /\ usage.invalid_actions >= anchor.usage.invalid_actions
          /\ usage.steps = anchor.usage.steps + Len(journal)
          /\ \A i \in 1..n - 1 : messages[i] = anchor.messages[i]
          /\ messages[n].role = "tool"
          /\ arm = "F" => messages[n] = anchor.messages[n]
    BY DEF BranchInv
  <2>5. /\ usage \in Usage /\ messages \in Seq(Message)
        /\ Len(journal) \in Nat
    BY <2>1 DEF TypeOK
  <2>6. anchor # None => anchor.usage \in Usage /\ anchor.messages \in Seq(Message)
    BY <2>4 DEF Snapshot
  <2>7. PrefixInherited
    <3> SUFFICES ASSUME anchor # None
                 PROVE  /\ anchor.events = SubSeq(events, 1, Len(anchor.events))
                        /\ \A c \in DOMAIN usage : usage[c] >= anchor.usage[c]
                        /\ SubSeq(messages, 1, n - 1)
                             = SubSeq(anchor.messages, 1, n - 1)
                        /\ messages[n].role = "tool"
                        /\ arm = "F" => messages[n] = anchor.messages[n]
      BY DEF PrefixInherited
    <3>1. DOMAIN usage = {"steps", "tool_calls", "python_seconds",
                          "generated_tokens", "invalid_actions"}
      BY <2>5 DEF Usage
    <3>2. usage.steps >= anchor.usage.steps
      BY <2>4, <2>5, <2>6 DEF Usage
    <3>3. \A c \in DOMAIN usage : usage[c] >= anchor.usage[c]
      BY <2>4, <3>1, <3>2
    <3>4. SubSeq(messages, 1, n - 1) = SubSeq(anchor.messages, 1, n - 1)
      BY <2>4, <2>5, <2>6
    <3> QED
      BY <2>4, <3>3, <3>4 DEF PrefixOf
  <2>8. SeedsCoverBranch
    <3> SUFFICES ASSUME anchor # None, pc = "generating"
                 PROVE  Len(journal) < SeedSchedule(anchor)
      BY DEF SeedsCoverBranch
    <3>1. usage.steps < MaxSteps
      BY <2>1 DEF Accounting, StagesConsistent, BudgetRespected
    <3>2. /\ MaxSteps \in Nat /\ anchor.usage.steps \in Nat
          /\ usage.steps \in Nat
      BY <2>5, <2>6, BudgetAssumption DEF Usage
    <3> QED
      BY <2>4, <2>5, <3>1, <3>2 DEF SeedSchedule, Positive
  <2> QED
    BY <2>2, <2>3, <2>7, <2>8 DEF SeamInvisible
<1> QED
  BY <1>1, BranchInvariant, PTL
=============================================================================
