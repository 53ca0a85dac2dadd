----------------------------- MODULE MCKnowledge -----------------------------
(***************************************************************************)
(* A knowledge base that holds one document, or two when requests race.    *)
(***************************************************************************)
EXTENDS Knowledge
=============================================================================
