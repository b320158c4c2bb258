--------------------------- MODULE MCEventStream ---------------------------
(* Instance of EventStream for TLC: one subscriber, one run. *)
EXTENDS EventStream, TLC

CONSTANTS s1, r1

MCSessionOf == (r1 :> s1)
=============================================================================
