----------------------------- MODULE TraceReplay ----------------------------
(***************************************************************************)
(* replay (agent/replay.py): the offline check every stored trajectory has *)
(* to pass, run here on the trace of the live episode in every state.      *)
(* Replay recomputes the usage from the events alone, with its own rules;  *)
(* the environment charges it as it goes.  The two must never disagree.    *)
(***************************************************************************)
EXTENDS AgentEpisode, SequencesExt

\* One iteration of the loop over the events: `ok` is lost where replay
\* raises TraceReplayError.
ReplayEvent(acc, e) ==
  LET timed == [acc EXCEPT !.ok = @ /\ e.ms >= acc.previous_ms,
                           !.previous_ms = e.ms]
      seconds == IF e.amount = None THEN 0 ELSE e.amount
  IN  CASE e.kind = "MODEL_OUTPUT" ->
             [timed EXCEPT !.usage.generated_tokens = @ + e.amount]
        [] e.kind = "TOOL_CALL" ->
             [timed EXCEPT !.usage.steps = @ + 1, !.usage.tool_calls = @ + 1]
        [] e.kind = "INVALID_ACTION" ->
             [timed EXCEPT !.usage.steps = @ + 1,
                           !.usage.invalid_actions = @ + 1]
        [] e.kind = "FINAL" ->
             [timed EXCEPT !.usage.steps = @ + 1, !.final_answer = e.subject,
                           !.ok = @ /\ e.subject # None]
        [] e.kind = "TOOL_RESULT" /\ e.subject = Python ->
             [timed EXCEPT !.usage.python_seconds = @ + seconds]
        [] OTHER -> timed

Replay(evs) ==
  FoldLeft(ReplayEvent,
           [ok |-> TRUE, previous_ms |-> -1, usage |-> NoUsage,
            final_answer |-> None],
           evs)

\* A trajectory with these parts is returned by replay rather than rejected.
Accepted(evs, u, reason, answer) ==
  LET r == Replay(evs)
  IN  /\ r.ok
      /\ r.usage = u
      /\ reason = "final" => r.final_answer = answer

\* The trace the episode has stored replays to the usage it was charged and
\* the answer it submitted, at every point where it may be saved: live, after
\* an abort, after an exception, and in every journal snapshot.
ReplayAccepts ==
  /\ Accepted(events, usage, termination_reason, final_answer)
  /\ \A k \in DOMAIN journal :
       Accepted(journal[k].events, journal[k].usage, None, None)
=============================================================================
