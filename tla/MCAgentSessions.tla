--------------------------- MODULE MCAgentSessions ---------------------------
(* Small instances of AgentSessions for TLC. *)
EXTENDS AgentSessions, TLC

SubagentSymmetry == Permutations(Subagents)

IdSymmetry == Permutations(Ids)
=============================================================================
