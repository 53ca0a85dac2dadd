---------------------------- MODULE MCDeployments ----------------------------
(***************************************************************************)
(* One workflow that is a draft elsewhere or lives in production.          *)
(***************************************************************************)
EXTENDS Deployments, TLC

Symmetry == Permutations(Requests) \cup Permutations(Deployments)
=============================================================================
