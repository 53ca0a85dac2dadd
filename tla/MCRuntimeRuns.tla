---------------------------- MODULE MCRuntimeRuns ----------------------------
(***************************************************************************)
(* Instances of RuntimeRuns for TLC.                                       *)
(***************************************************************************)
EXTENDS RuntimeRuns

CONSTANTS c1, c2, w1, w2, q1, q2, q3, k1

\* Hook lists a deployment may carry.
ManifestPause == <<"pause_for_review">>
ManifestPauseTwice == <<"pause_for_review", "escalate">>
ManifestMixed == <<"pause_for_review", "block", "continue">>
=============================================================================
