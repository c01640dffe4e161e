---------------------------- MODULE PrefixResume ----------------------------
(***************************************************************************)
(* Re-entering an episode from a journal snapshot: first_exec_error_       *)
(* snapshot and build_candidate (recovery/anchors.py) pick the anchor,     *)
(* run_continuation (recovery/resume.py) edits its last observation for    *)
(* one arm and runs AgentLoop again on a ProductMathEnv that inherits the  *)
(* anchor's state.  The branch is an AgentEpisode that does not start at   *)
(* the beginning; everything an episode promises has to survive the seam.  *)
(***************************************************************************)
EXTENDS TraceReplay

CONSTANTS
  Arms,                       \* arms.Arm: "F", "P" and "M"
  MinRemainingSteps,          \* MIN_REMAINING_STEPS
  MinRemainingToolCalls,      \* MIN_REMAINING_TOOL_CALLS
  MinRemainingPythonSeconds   \* MIN_REMAINING_PYTHON_SECONDS

ASSUME AnchorAssumption ==
  /\ Arms \subseteq {"F", "P", "M"}
  /\ MinRemainingSteps \in Nat \ {0}
  /\ MinRemainingToolCalls \in Nat
  /\ MinRemainingPythonSeconds \in Nat

VARIABLES
  anchor,   \* the snapshot the branch re-entered, None before
  arm       \* the arm of the branch, None before

branchVars == <<anchor, arm>>
-----------------------------------------------------------------------------
Positive(n) == IF n > 0 THEN n ELSE 0

\* classify_tool_result = E_EXEC on the last event of the snapshot.
ExecError(s) ==
  /\ s.events # << >>
  /\ LET last == s.events[Len(s.events)]
     IN  last.kind = "TOOL_RESULT" /\ last.code = "execution_error"

\* The index of first_exec_error_snapshot, as a set of at most one element.
FirstExecError ==
  {k \in DOMAIN journal :
     ExecError(journal[k]) /\ \A j \in 1 .. k - 1 : ~ExecError(journal[j])}

\* build_candidate's pool rules.
Eligible(s) ==
  /\ ~s.terminated
  /\ Positive(MaxSteps - s.usage.steps) >= MinRemainingSteps
  /\ Positive(MaxToolCalls - s.usage.tool_calls) >= MinRemainingToolCalls
  /\ Positive(MaxPythonSeconds - s.usage.python_seconds)
       >= MinRemainingPythonSeconds

\* Mutant: every arm gets the hint.
RenderedHinted(original, a) == "hinted"

\* render_arm_observation: F is verbatim, P appends the hint, M replaces all.
\* What is edited is always the report of an execution error.
Rendered(original, a) ==
  CASE a = "F" -> original
    [] a = "P" -> "hinted"
    [] a = "M" -> "marker"

\* Mutant: the schedule stops short of the last turns.
SeedScheduleShort(s) == Positive(MaxSteps - s.usage.steps - 1)

\* generation_seed is scheduled for turns 0 .. remaining_steps.
SeedSchedule(s) == Positive(MaxSteps - s.usage.steps) + 1

\* Mutants: a fresh budget for the branch; a clock that starts again.
InheritedUsageFresh(s) == NoUsage
ClockOffsetZero(s) == 0

\* What the branch's environment and clock start from.
InheritedUsage(s) == s.usage
ClockOffset(s) == s.events[Len(s.events)].ms

\* run_continuation, and the head of AgentLoop.run with prefix_messages: the
\* source run is over, its journal is in memory, and the branch starts with
\* the anchor's state, an edited conversation, a new journal and a clock that
\* continues after the anchor's last event.  No cancellation event is passed.
Resume(k, a) ==
  LET s == journal[k]
      last == Len(s.messages)
  IN  /\ pc = "done"
      /\ anchor = None
      /\ k \in FirstExecError
      /\ Eligible(s)
      /\ s.messages[last].role = "tool"
      /\ anchor' = s
      /\ arm' = a
      /\ usage' = InheritedUsage(s)
      /\ events' = s.events
      /\ termination_reason' = None
      /\ final_answer' = None
      /\ messages' = [s.messages EXCEPT ![last].content = Rendered(@, a)]
      /\ journal' = << >>
      /\ offset' = ClockOffset(s)
      /\ elapsed' = 0
      /\ cancelled' = FALSE
      /\ requested' = Count(s.events, {"TOOL_CALL"})
      /\ pc' = "turn"
      /\ UNCHANGED pending

BranchInit == Init /\ anchor = None /\ arm = None

\* Both runs are AgentLoop.run; only the first one has a cancellation event.
Run ==
  /\ Work \/ (anchor = None /\ Cancel)
  /\ UNCHANGED branchVars

BranchNext ==
  \/ Run
  \/ \E k \in DOMAIN journal, a \in Arms : Resume(k, a)
  \/ Finished /\ UNCHANGED branchVars

BranchSpec == BranchInit /\ [][BranchNext]_<<vars, branchVars>>
-----------------------------------------------------------------------------
\* A branch owns nothing but its suffix: the trace starts with the anchor's
\* events, no counter is below the anchor's, and the conversation is the
\* anchor's but for the content of its last observation, which arm F leaves
\* verbatim (build_prefix_messages).
PrefixInherited ==
  anchor # None =>
    LET n == Len(anchor.messages)
    IN  /\ anchor.events = SubSeq(events, 1, Len(anchor.events))
        /\ \A c \in DOMAIN usage : usage[c] >= anchor.usage[c]
        /\ SubSeq(messages, 1, n - 1) = SubSeq(anchor.messages, 1, n - 1)
        /\ messages[n].role = "tool"
        /\ arm = "F" => messages[n] = anchor.messages[n]

\* Every generation of a branch has a scheduled seed: turn_index, the number
\* of steps the run has journalled, stays inside the schedule, so no arm ever
\* samples unseeded (AgentLoop.run falls back to the unseeded config).
SeedsCoverBranch ==
  anchor # None /\ pc = "generating" => Len(journal) < SeedSchedule(anchor)

\* The seam does not show: a branch keeps the books and the clock of one
\* episode, its inherited part included, so that its budget is what the source
\* had left and append_event never sees time go back; replay accepts the
\* whole, and the seeds last to its end (run_continuation).
SeamInvisible ==
  /\ PrefixInherited /\ Accounting /\ TimeMonotone
  /\ ReplayAccepts /\ SeedsCoverBranch
=============================================================================
