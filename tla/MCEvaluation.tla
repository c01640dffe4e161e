----------------------------- MODULE MCEvaluation ---------------------------
(* The evaluation runs together: a behaviour is one of the paired journal,  *)
(* of a sharded arm, or of the rollout-health measurement; the other two    *)
(* keep their initial state.                                                *)
EXTENDS EvalJournal, ArmRun, RolloutHealth

PairedOrNot == {<<"base", "sft">>, <<"sft">>}
Four == <<1, 2, 3, 4>>
SomeLists == {Four, <<1, 2, 3, 5>>, <<2, 1, 3, 4>>}
SomeChannels == [t \in 1..5 |-> IF t = 1 THEN "direct" ELSE "sympy"]
Arm(a, d) == [adapter |-> a, decoding |-> d]
OneConfig == {Arm("sft", "greedy")}

VARIABLE part  \* which of the three this behaviour is about

allVars == <<part, vars, aVars, hVars>>

AllInit ==
  /\ part \in {"journal", "arm", "health"}
  /\ Init
  /\ hInit
  /\ IF part = "arm" THEN aInit
     ELSE aInit /\ mode = "all-tools" /\ list = Frozen

AllNext ==
  /\ UNCHANGED part
  /\ \/ part = "journal" /\ Next /\ UNCHANGED <<aVars, hVars>>
     \/ part = "arm" /\ aNext /\ UNCHANGED <<vars, hVars>>
     \/ part = "health" /\ hNext /\ UNCHANGED <<vars, aVars>>

\* Each part's own fairness (FairSpec, FairArmSpec), while the behaviour is
\* about it.
AllSpec ==
  /\ AllInit
  /\ [][AllNext]_allVars
  /\ WF_vars(part = "journal" /\ Work)
  /\ WF_vars(part = "journal" /\ Start)
  /\ \A s \in Shards :
       /\ WF_aVars(part = "arm" /\ ~Busy(s) /\ IsEmpty(s)
                    /\ \E p \in Procs : Launch(s, p))
       /\ WF_aVars(part = "arm" /\ \E p \in Procs : Step(s, p))
       /\ WF_aVars(part = "arm" /\ ~Complete(s) /\ MoveAside(s))
  /\ WF_aVars(part = "arm" /\ MergeRows(Shards))
  /\ WF_aVars(part = "arm" /\ (MergeSummaries \/ MoveArmAside \/ Measure))

\* An evaluation that is issued again until it is done gets done: the paired
\* one publishes, unless a kill left what no invocation repairs, and the
\* sharded arm is merged and measured.
EventuallyMeasured ==
  EventuallyPublished /\ (part = "arm" => ArmEventuallyMeasured)
=============================================================================
