---------------------------- MODULE RunLifecycle ----------------------------
(***************************************************************************)
(* What einoai promises about one run, whatever Redis, the service and its *)
(* clients do: a run is created once, works while it is active, and ends   *)
(* with exactly one seal, a log entry that nothing follows and that names  *)
(* the outcome recorded as the status.  A sealed run never changes again;  *)
(* it can only be forgotten (deleted or expired), and a forgotten run is   *)
(* never created a second time.                                            *)
(***************************************************************************)
EXTENDS Naturals, Sequences

CONSTANTS Runs,     \* run ids
          Notes,    \* log entries that leave a run active
          Seals,    \* log entries that end a run
          Outcome   \* [Seals -> Outcomes], the status a seal stands for

Outcomes == {"completed", "cancelled", "failed"}
Active   == {"queued", "running"}

VARIABLES status,   \* [Runs -> Active \cup Outcomes \cup {"none"}]
          log,      \* [Runs -> Seq(Notes \cup Seals)]
          born      \* the run ids ever used

vars == <<status, log, born>>

Init == /\ status = [r \in Runs |-> "none"]
        /\ log = [r \in Runs |-> <<>>]
        /\ born = {}

Create(r) == /\ r \notin born
             /\ born' = born \cup {r}
             /\ status' = [status EXCEPT ![r] = "queued"]
             /\ UNCHANGED log

Start(r) == /\ status[r] \in Active
            /\ status' = [status EXCEPT ![r] = "running"]
            /\ UNCHANGED <<log, born>>

Record(r, e) == /\ status[r] \in Active
                /\ log' = [log EXCEPT ![r] = Append(@, e)]
                /\ UNCHANGED <<status, born>>

Seal(r, f) == /\ status[r] \in Active
              /\ status' = [status EXCEPT ![r] = Outcome[f]]
              /\ log' = [log EXCEPT ![r] = Append(@, f)]
              /\ UNCHANGED born

\* The status of the runs in S and the logs of the runs in L are dropped.
Forget(S, L) ==
    /\ status' = [r \in Runs |-> IF r \in S THEN "none" ELSE status[r]]
    /\ log' = [r \in Runs |-> IF r \in L THEN <<>> ELSE log[r]]
    /\ UNCHANGED born

Next == \/ \E r \in Runs : \/ Create(r)
                           \/ Start(r)
                           \/ \E e \in Notes : Record(r, e)
                           \/ \E f \in Seals : Seal(r, f)
        \/ \E S, L \in SUBSET Runs : Forget(S, L)

Spec == Init /\ [][Next]_vars
=============================================================================
