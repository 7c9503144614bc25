----------------------------- MODULE MCPipeline -----------------------------
(***************************************************************************)
(* Values for model-checking Pipeline.                                     *)
(***************************************************************************)
EXTENDS Pipeline, TLC

CONSTANTS u1, u2, w1, w2, e1, e2, a, b, outline

\* Pages are alike, and so are the contents that have a passage.
PageSymmetry == Permutations({u1, u2}) \cup Permutations({a, b})
=============================================================================
