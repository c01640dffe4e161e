--------------------------- MODULE BoundedEpisode ---------------------------
(***************************************************************************)
(* What an episode promises to whoever runs it, without turns, tools,      *)
(* traces or clocks: a bounded number of charged steps, some of them tool  *)
(* calls, and one end.  AgentEpisode implements it.                        *)
(***************************************************************************)
EXTENDS Integers

CONSTANTS MaxSteps, MaxToolCalls, Answers, None

VARIABLES phase,   \* "running", "ended" (a trajectory exists) or "lost"
          steps,   \* charged so far
          calls,   \* charged tool calls
          answer   \* what was submitted

vars == <<phase, steps, calls, answer>>

Init ==
  /\ phase = "running"
  /\ steps = 0
  /\ calls = 0
  /\ answer = None

\* A step that submits nothing; the last one ends the episode.
Charge(cost) ==
  /\ phase = "running"
  /\ steps < MaxSteps
  /\ calls + cost <= MaxToolCalls
  /\ steps' = steps + 1
  /\ calls' = calls + cost
  /\ phase' \in {"running", "ended"}
  /\ steps' = MaxSteps => phase' = "ended"
  /\ UNCHANGED answer

Submit(a) ==
  /\ phase = "running"
  /\ steps < MaxSteps
  /\ steps' = steps + 1
  /\ phase' = "ended"
  /\ answer' = a
  /\ UNCHANGED calls

\* Stopped from outside, with a reason or without a trajectory.
Stop(how) ==
  /\ phase = "running"
  /\ phase' = how
  /\ UNCHANGED <<steps, calls, answer>>

Next ==
  \/ \E cost \in {0, 1} : Charge(cost)
  \/ \E a \in Answers : Submit(a)
  \/ \E how \in {"ended", "lost"} : Stop(how)

Spec == Init /\ [][Next]_vars
=============================================================================
