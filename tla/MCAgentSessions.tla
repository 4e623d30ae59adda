-------------------------- MODULE MCAgentSessions --------------------------
(* Small instances of AgentSessions. *)
EXTENDS AgentSessions, TLC

CONSTANTS h1, h2, s1, s2, s3

MCBudget == {1, 2}
Symmetry == Permutations(Handle) \cup Permutations(Sid)
=============================================================================
