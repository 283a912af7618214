---------------------------- MODULE MCAgentRunner ----------------------------
(* Small instances of AgentRunner. *)
EXTENDS AgentRunner

CONSTANTS a1, a2

=============================================================================
