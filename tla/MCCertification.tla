--------------------------- MODULE MCCertification ---------------------------
(***************************************************************************)
(* One tool, one agent that may hold it, one workflow of that agent.       *)
(***************************************************************************)
EXTENDS Certification, TLC

CONSTANTS t1, a1, f1

EvaluationsAreAlike == Permutations(Evaluations)

UsesAll == [w \in Workflows |-> Agents]
=============================================================================
