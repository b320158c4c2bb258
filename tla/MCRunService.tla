---------------------------- MODULE MCRunService ----------------------------
(* Instances of RunService for TLC: one session; runs, calls and instances  *)
(* are interchangeable.                                                     *)
EXTENDS RunService, TLC

CONSTANT s1

MCSessionOf == [r \in Runs |-> s1]

Symmetry == Permutations(Runs) \cup Permutations(Calls) \cup Permutations(Instances)

\* Where commands are sent again, how often is left open; the length of a stream that is
\* appended to is bounded instead.
MaxEntries == 3

MCNext == /\ Next
          /\ \A r \in Runs : Len(events'[r]) > Len(events[r]) => Len(events[r]) < MaxEntries

MCSpec == Init /\ [][MCNext]_vars
=============================================================================
