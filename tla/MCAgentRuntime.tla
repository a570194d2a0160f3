--------------------------- MODULE MCAgentRuntime ---------------------------
(* AgentRuntime for TLC.  Callers of send() and client objects are           *)
(* interchangeable.                                                          *)
EXTENDS AgentRuntime, TLC

Symmetry == Permutations(Sender) \cup Permutations(Client)
=============================================================================
