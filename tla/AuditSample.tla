----------------------------- MODULE AuditSample ----------------------------
(***************************************************************************)
(* The branches of stage C a person is to read (scripts/analysis/          *)
(* analyze_feedback_recovery.py, _select_audit_sample): first a few whose  *)
(* next call failed in a rare way, then one of each arm in turn, from a    *)
(* seeded shuffle of the arm, up to a cap.                                 *)
(***************************************************************************)
EXTENDS StageC

CONSTANTS
  AuditBranches,  \* AUDIT_C_BRANCHES
  RareShare,      \* the part of them for rare classes: one in six
  MaxPerArm       \* bound on the branches of an arm

ASSUME AuditAssumption ==
  AuditBranches \in Nat \ {0} /\ RareShare \in Nat \ {0} /\ MaxPerArm \in Nat

\* A branch is its arm and its place in the arm's shuffle.
Branches == Arms \X (1..MaxPerArm)

VARIABLES
  by_arm,  \* how many branches each arm has
  code,    \* the code of the first result after the anchor, None without one
  picked,  \* the branches picked so far
  index,   \* the round, 0 while the rare ones are picked; past the longest
           \* list only whether it is even
  ended    \* the loop is left

auditVars == <<by_arm, code, picked, index, ended>>

Turn3 == <<"F", "P", "M">>  \* the order of the arms within a round

Continuation == {b \in Branches : b[2] <= by_arm[b[1]]}

\* _branch_metrics' next_call_error_class of the result after the anchor.
NextClass(c) ==
  CASE c \in {None, "ok"} -> None
    [] c = "execution_error" -> "E_EXEC"
    [] c = "timeout" -> "E_TIMEOUT"
    [] c = "unavailable" -> "E_INFRA"
    [] OTHER -> "call_form"

Rare == {b \in Continuation : NextClass(code[b]) \in {"call_form", "E_TIMEOUT"}}
-----------------------------------------------------------------------------
AuditInit(counts, codes) ==
  /\ by_arm \in counts
  /\ code \in [Branches -> codes]
  /\ \A b \in Branches \ Continuation : code[b] = None
  /\ picked = {}
  /\ index = 0
  /\ ended = FALSE

\* The rare ones come in the log's order, which is none of the shuffle's.
PickRare ==
  /\ stage = "audit"
  /\ index = 0
  /\ \E S \in SUBSET Rare :
       /\ \/ Cardinality(S) = AuditBranches \div RareShare
          \/ S = Rare /\ Cardinality(S) < AuditBranches \div RareShare
       /\ picked' = S
  /\ index' = 1
  /\ UNCHANGED <<by_arm, code, ended>>

\* Mutant: an arm's whole list is offered at its turn.
OfferAll(arms) == {b \in Continuation : b[1] \in arms} \ picked

\* The branches a round offers to the arms given.
Offer(arms) == {b \in Continuation : b[1] \in arms /\ b[2] = index} \ picked

\* One round of the while loop, which stops in the middle at the cap.  No
\* round takes anything from by_arm, so the loop goes on for as long as there
\* was a branch at all.
Round ==
  /\ stage = "audit"
  /\ index > 0 /\ ~ended
  /\ Cardinality(picked) < AuditBranches
  /\ \E arm \in Arms : by_arm[arm] > 0
  /\ LET first(n) == picked \cup Offer({Turn3[i] : i \in 1..n})
         full == {n \in 1..3 : Cardinality(first(n)) >= AuditBranches}
     IN  picked' = first(IF full = {} THEN 3 ELSE Min(full))
  /\ index' = IF index <= MaxPerArm + 1 THEN index + 1 ELSE index - 1
  /\ UNCHANGED <<by_arm, code, ended>>

Leave ==
  /\ stage = "audit"
  /\ index > 0 /\ ~ended
  /\ \/ Cardinality(picked) >= AuditBranches
     \/ \A arm \in Arms : by_arm[arm] = 0
  /\ ended' = TRUE
  /\ UNCHANGED <<by_arm, code, picked, index>>

AuditNext == PickRare \/ Round \/ Leave
-----------------------------------------------------------------------------
\* No arm is favoured: at any time an arm has more picked branches than
\* another only by one, and by its rare ones, unless the other has no branch
\* left; and never more than the cap are picked.
AuditIsFair ==
  LET of(arm) == {b \in picked : b[1] = arm}
  IN  stage = "audit" /\ index > 0 =>
        /\ Cardinality(picked) <= AuditBranches
        /\ \A a, b \in Arms :
             \/ Cardinality(of(a)) <= Cardinality(of(b)) + 1
                                       + Cardinality(of(a) \cap Rare)
             \/ {c \in Continuation : c[1] = b} \subseteq picked
=============================================================================
