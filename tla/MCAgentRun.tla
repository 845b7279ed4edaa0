----------------------------- MODULE MCAgentRun -----------------------------
(* AgentRun on small instances: turns, POSTs and readers are               *)
(* interchangeable.                                                        *)
EXTENDS AgentRun, TLC

Symmetry == Permutations(Turns) \cup Permutations(Posts) \cup Permutations(Readers)
=============================================================================
