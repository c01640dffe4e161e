--------------------------- MODULE MCPrefixResume ---------------------------
(* TLC instances of PrefixResume. *)
EXTENDS PrefixResume
=============================================================================
