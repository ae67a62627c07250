--------------------------- MODULE MCMcpApprovals ---------------------------
(* Runs and keys are interchangeable. *)
EXTENDS McpApprovals, TLC

Symmetry == Permutations(Runs) \cup Permutations(Keys)
=============================================================================
