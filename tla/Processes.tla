------------------------------ MODULE Processes -----------------------------
(* The calls into other processes: a behaviour is one of the symbolic       *)
(* worker's, or one tool call; the other part is idle.                      *)
EXTENDS SymbolicWorker, ToolCall

VARIABLE part  \* which of the two this behaviour is about

AllInit ==
  /\ part \in {"worker", "tool"}
  /\ Init
  /\ IF part = "tool" THEN tInit
     ELSE /\ tool = "other" /\ args = "good" /\ caller = "idle" /\ program = "none"
          /\ child = "none" /\ size = "small" /\ pipe = "empty" /\ held = Nil
          /\ kills = 0 /\ result = Nil

AllNext ==
  /\ UNCHANGED part
  /\ \/ part = "worker" /\ Next /\ UNCHANGED tVars
     \/ part = "tool" /\ tNext /\ UNCHANGED vars

\* Each part's own fairness (FairSpec, FairToolSpec).
AllSpec ==
  /\ AllInit /\ [][AllNext]_<<part, vars, tVars>>
  /\ WF_vars(part = "worker" /\ ParentStep)
  /\ SF_vars(part = "worker" /\ StartupDeadline)
  /\ SF_vars(part = "worker" /\ Deadline)
  /\ WF_tVars(part = "tool" /\ Parent)
  /\ WF_tVars(part = "tool" /\ (Compute \/ Flush))

\* What a call leaves behind: a worker that the object let go is gone or has
\* been signalled, and a tool call's child has ended (_restart, _reset,
\* _ensure_worker, _shutdown; _run_isolated, lines 57-59).
NothingLeftRunning == NoOrphan /\ NoChildLeft

\* Every call comes back, to the comparator and to a tool, whatever the other
\* process does; but for a result that was cut off in the pipe (HalfRead).
CallsReturn == CompareReturns /\ CallReturns
=============================================================================
