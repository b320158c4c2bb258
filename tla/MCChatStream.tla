---------------------------- MODULE MCChatStream ----------------------------
(* Instance of ChatStream for TLC: a run with two tools, and clients that   *)
(* ask for usage or do not.                                                 *)
EXTENDS ChatStream, TLC

ToolSymmetry == Permutations(ToolIDs)
=============================================================================
