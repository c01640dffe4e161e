------------------------------- MODULE MCSolver -----------------------------
(* Model-checking instance of Solver: a query for the workflow, and one    *)
(* whose score is on the edge that floating point decides.                 *)
EXTENDS Solver

MCAsked ==
  {[type |-> "proof", keywords |-> 1, history |-> 0, tokens |-> "short"],
   [type |-> "reasoning", keywords |-> 1, history |-> 0, tokens |-> "threshold"]}
=============================================================================
