---------------------------- MODULE AtomicCompare ---------------------------
(***************************************************************************)
(* What SymbolicWorker.compare promises its caller: a call is answered     *)
(* once, by a verdict on its own pair or by a failure of the comparator,   *)
(* or is left by an exception.  There are no workers, pipes or timers here. *)
(***************************************************************************)
EXTENDS Integers, Sequences

CONSTANTS Verdicts, Failures, None

VARIABLES
  asked,   \* asked[id]: does all the evidence agree that the two are equal
  open,    \* a call of compare is under way
  answer   \* what the last call returned, and whose verdict that was

vars == <<asked, open, answer>>

Last == Len(asked)
NoAnswer == [request |-> None, from |-> None, status |-> None]

Init ==
  /\ asked = << >>
  /\ open = FALSE
  /\ answer = NoAnswer

Call(agree) ==
  /\ ~open
  /\ asked' = Append(asked, agree)
  /\ open' = TRUE
  /\ UNCHANGED answer

\* The call returns the verdict on its pair, "correct" only if it is.
Judge(verdict) ==
  /\ open
  /\ verdict = "correct" => asked[Last]
  /\ answer' = [request |-> Last, from |-> Last, status |-> verdict]
  /\ open' = FALSE
  /\ UNCHANGED asked

\* No verdict is to be had; the caller is told how that came.
Fail(failure) ==
  /\ open
  /\ answer' = [request |-> Last, from |-> None, status |-> failure]
  /\ open' = FALSE
  /\ UNCHANGED asked

\* An exception from outside leaves compare, or close.
Leave ==
  /\ answer' = NoAnswer
  /\ open' = FALSE
  /\ UNCHANGED asked

Next ==
  \/ \E agree \in BOOLEAN : Call(agree)
  \/ \E verdict \in Verdicts : Judge(verdict)
  \/ \E failure \in Failures : Fail(failure)
  \/ Leave

Spec == Init /\ [][Next]_vars
=============================================================================
