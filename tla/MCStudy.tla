------------------------------ MODULE MCStudy -------------------------------
(* TLC instances of the feedback-recovery study: a run directory in which    *)
(* stage A, stage B or stage C is run.  Stage C gets a snapshots file of an  *)
(* earlier stage B.  Or the audit sample is drawn from what stage C left.    *)
EXTENDS Study

CONSTANTS t1, t2

TwoTasks == <<t1, t2>>

Turn(c, long, time) == [code |-> c, cut |-> long, seconds |-> time]
Ok == Turn("ok", FALSE, 1)
Fails == Turn("execution_error", FALSE, 1)
Final == Turn("final", FALSE, 0)

\* What a rollout may be: an answer with and without a call; an error early,
\* with and without time left for a branch; one in the last step, and one
\* before a generation that failed; a turn cut for its length; a refused call
\* and a sandbox that is away.
MCTrajectories ==
  {[turns |-> <<Ok, Final>>, end |-> "final", correct |-> TRUE],
   [turns |-> <<Final>>, end |-> "final", correct |-> FALSE],
   [turns |-> <<Fails, Ok, Final>>, end |-> "final", correct |-> TRUE],
   [turns |-> <<Turn("execution_error", FALSE, 5), Final>>, end |-> "final",
    correct |-> FALSE],
   [turns |-> <<Turn("invalid_arguments", FALSE, 0), Fails>>,
    end |-> "model_error", correct |-> FALSE],
   [turns |-> <<Ok, Ok, Ok, Turn("output_limit", FALSE, 1)>>,
    end |-> "max_steps", correct |-> FALSE],
   [turns |-> <<Turn("parse_error", TRUE, 0), Final>>, end |-> "final",
    correct |-> FALSE],
   [turns |-> <<Turn("unavailable", FALSE, 1), Final>>, end |-> "final",
    correct |-> TRUE]}

Place(t) == IF t = t1 THEN 1 ELSE 2

\* The second sample of the first task comes first, the rest in order.
MCOrderKey ==
  [a \in AnchorIds |->
     IF a.task = t1 /\ a.sample = 2 THEN a.step
     ELSE 100 * Place(a.task) + 10 * a.sample + a.step]

MCArmOrder ==
  [a \in AnchorIds |-> IF a.task = t1 THEN <<"F", "P", "M">>
                       ELSE <<"M", "F", "P">>]

\* A first anchor that an arm decides, a second that none does.
MCSolved ==
  {s \in Samples : s.anchor.task = t2 \/ s.arm = "M"}

Anchor(t) == [task |-> t, sample |-> 1, step |-> 1]

\* None is selected, one is, two are; stage B was killed in the second line.
MCSnapshots ==
  {None, << >>, <<Anchor(t1), Anchor(t2)>>, <<Anchor(t1), Torn>>}

MCCounts == [Arms -> 0..MaxPerArm]
MCCodes == {None, "timeout"}
=============================================================================
