--------------------------- MODULE MCAgentRenewal ---------------------------
(***************************************************************************)
(* AgentRenewal for TLC: the agent is configured with one of two servers, *)
(* or with both, so that there is one to fail over to.  Back-off goroutines*)
(* are interchangeable, and so are health checks.                          *)
(***************************************************************************)
EXTENDS AgentRenewal, TLC

CONSTANTS s1, s2, g1, g2, g3, c1, c2, c3

Interchangeable == Permutations(Retries) \cup Permutations(Checks)
=============================================================================
