----------------------------- MODULE MCUIStream -----------------------------
(* Instance of UIStream for TLC: two tools whose ids are used again in      *)
(* every step.                                                              *)
EXTENDS UIStream

ToolSymmetry == Permutations(ToolIDs)
=============================================================================
