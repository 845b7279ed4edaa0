---------------------------- MODULE MCThreadGit ----------------------------
(* ThreadGitWorkflow on small instances: requests and operations are       *)
(* interchangeable.                                                        *)
EXTENDS ThreadGitWorkflow, TLC

Symmetry == Permutations(Requests) \cup Permutations(OpIds)
=============================================================================
