----------------------------- MODULE MCRunStore -----------------------------
(* Instance of RunStore for TLC: two runs of one session, one after or      *)
(* beside the other.                                                        *)
EXTENDS RunStore, TLC

CONSTANTS s1, r1, r2,
          MaxEvents  \* bound on the length of a stream that is appended to

MCSessionOf == (r1 :> s1) @@ (r2 :> s1)

MCNext == /\ StoreNext
          /\ \A r \in Runs : Len(events'[r]) > Len(events[r]) => Len(events[r]) < MaxEvents

MCSpec == StoreInit /\ [][MCNext]_storeVars

RunSymmetry == Permutations({r1, r2})
=============================================================================
