-------------------------------- MODULE Study -------------------------------
(***************************************************************************)
(* The feedback-recovery study: a run directory in which stage A, stage B  *)
(* or stage C is run (scripts/eval/run_feedback_recovery.py), stage C with *)
(* the snapshots file of an earlier stage B; or the audit sample is drawn  *)
(* from what a stage C left (scripts/analysis/                             *)
(* analyze_feedback_recovery.py).                                          *)
(***************************************************************************)
EXTENDS AuditSample

CONSTANTS
  BranchCounts,  \* how many branches of each arm an audit may find
  NextCodes      \* the codes of their next results it may find

ASSUME BranchAssumption == BranchCounts \subseteq [Arms -> 0..MaxPerArm]

NoBranches == {[arm \in Arms |-> 0]}

Init ==
  /\ CInit
  /\ \/ /\ \/ StageInit("a", None)
           \/ StageInit("b", None)
           \/ \E file \in Snapshots : StageInit("c", file)
        /\ AuditInit(NoBranches, {None})
     \/ StageInit("audit", None) /\ AuditInit(BranchCounts, NextCodes)

Next ==
  \/ StageNext /\ UNCHANGED <<cVars, auditVars>>
  \/ CNext /\ UNCHANGED auditVars
  \/ AuditNext /\ UNCHANGED <<stageVars, starts, cVars>>

Spec == Init /\ [][Next]_<<stageVars, starts, cVars, auditVars>>

\* What the stages leave is about their whole plan, however often they were
\* killed and started again: stages A and B in their summaries, stage C in the
\* log that its integrity check reads.
LogsAreWhole == SummaryIsWhole /\ LogIntact
=============================================================================
