--------------------------- MODULE MCAgentEpisode ---------------------------
(* TLC instances of AgentEpisode. *)
EXTENDS TraceReplay
=============================================================================
