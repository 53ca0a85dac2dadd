-------------------------- MODULE MCWorkflowVersions --------------------------
(***************************************************************************)
(* One workflow that may grow two further versions.                        *)
(***************************************************************************)
EXTENDS WorkflowVersions, TLC

Symmetry == Permutations(Requests) \cup Permutations(Definitions)
=============================================================================
