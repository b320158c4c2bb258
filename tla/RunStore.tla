------------------------------ MODULE RunStore ------------------------------
(***************************************************************************)
(* The Redis side of einoai (store_redis.go).  Per session one pointer,    *)
(* chat:sessions:<s>:current_run; per run a hash ...:meta that carries the *)
(* status and a stream ...:events.  Each Lua script and each single Redis  *)
(* command is one atomic action; a Go method made of several commands is   *)
(* several actions, taken one after the other by the callers in            *)
(* RunService.                                                             *)
(*                                                                         *)
(* A script action takes the reply its caller sees.  With "lost" in Faults *)
(* the caller may see "unavailable", whether or not the script ran.        *)
(*                                                                         *)
(* The redis client sends a command again, after a while, when no answer   *)
(* came.  The first execution may have happened, and others' commands run  *)
(* between the two, so each execution is an action of its own.  Of a       *)
(* script that tests the run's status the second execution is one more     *)
(* call of it; initRun does not test it, and repeats itself as InitAgain.  *)
(***************************************************************************)
EXTENDS Naturals, Sequences, FiniteSets

CONSTANTS Sessions, Runs,
          SessionOf,   \* [Runs -> Sessions], the session a run id is drawn for
          NoRun,       \* reply of GET for a pointer that does not exist
          Reasons,     \* finish reasons agents report
          Expires,     \* TRUE iff redisTTL > 0
          Faults       \* subset of {"lost", "resend", "reinit"}: answers are lost;
                       \* commands are sent again, other than initRun; initRun is

Terminal     == {"completed", "cancelled", "failed"}
ActiveStatus == {"queued", "running"}
ToolReasons  == {"tool_calls", "tool-calls"}

ASSUME StoreAssumption ==
    /\ SessionOf \in [Runs -> Sessions]
    /\ NoRun \notin Runs
    /\ Expires \in BOOLEAN
    /\ Faults \subseteq {"lost", "resend", "reinit"}

\* Each run is put in place by one execution of initRun: what most of what Redis promises
\* about runs that have ended depends on.
InitOnce == "reinit" \notin Faults

\* Mutant: "error" is not told apart from a normal end.
StatusOfNoError(reason) ==
    IF reason \in {"cancelled", "canceled"} THEN "cancelled" ELSE "completed"

\* Mutant: the finish reason itself is stored as the status.
StatusOfRaw(reason) == reason

\* appendFinish: the status a finish reason stands for.
StatusOf(reason) == CASE reason \in {"cancelled", "canceled"} -> "cancelled"
                      [] reason = "error" -> "failed"
                      [] OTHER -> "completed"

Plain(type)    == [type |-> type, reason |-> ""]
Finish(reason) == [type |-> "finish", reason |-> reason]

\* A finish event for tool calls ends a step of the agent, any other one ends
\* the run.
TerminalReasons == (Reasons \cup {"stop", "cancelled", "error"}) \ ToolReasons
Seals == {Finish(reason) : reason \in TerminalReasons}
Notes == {Plain(t) : t \in {"run_created", "run_started", "message", "error"}}
           \cup {Finish(reason) : reason \in Reasons \cap ToolReasons}
Events == Notes \cup Seals

MetaKey(r)    == <<"meta", r>>
EventsKey(r)  == <<"events", r>>
CurrentKey(s) == <<"current_run", s>>

VARIABLES meta,      \* [Runs -> status, or "none" when there is no hash]
          current,   \* [Sessions -> Runs \cup {NoRun}]
          events,    \* [Runs -> Seq(Events)], <<>> when there is no stream
          lagging,   \* runs whose stream is due to expire before their hash
          issued     \* run ids that were used so far

storeVars == <<meta, current, events, lagging, issued>>

StoreTypeOK == /\ meta \in [Runs -> ActiveStatus \cup Terminal \cup {"none"}]
               /\ current \in [Sessions -> Runs \cup {NoRun}]
               /\ events \in [Runs -> Seq(Events)]
               /\ lagging \in SUBSET Runs
               /\ issued \in SUBSET Runs

StoreInit == /\ meta = [r \in Runs |-> "none"]
             /\ current = [s \in Sessions |-> NoRun]
             /\ events = [r \in Runs |-> <<>>]
             /\ lagging = {}
             /\ issued = {}

-----------------------------------------------------------------------------
(* Replies *)

Lost == IF "lost" \in Faults THEN {"unavailable"} ELSE {}

\* Replies to a script that ran.
Reply(answer) == {answer} \cup Lost

NotSent(reply) == reply \in Lost /\ UNCHANGED storeVars

\* The existence and status tests appendEvent and finishRun start with.
Rejected(r, reply) ==
    /\ \/ meta[r] = "none" /\ reply \in {"missing"} \cup Lost
       \/ meta[r] \in Terminal /\ reply \in {"terminal"} \cup Lost
    /\ UNCHANGED storeVars

-----------------------------------------------------------------------------
(* Scripts *)

\* Mutant: no test of the pointer.
InitRunUnchecked(r, reply) ==
    /\ r \notin issued /\ reply = "ok"
    /\ issued' = issued \cup {r}
    /\ meta' = [meta EXCEPT ![r] = "queued"]
    /\ current' = [current EXCEPT ![SessionOf[r]] = r]
    /\ UNCHANGED <<events, lagging>>

\* The id is new; one that is turned away is dropped and never seen again.
InitRun(r, reply) ==
    LET s == SessionOf[r] IN
    /\ r \notin issued
    /\ \/ current[s] # NoRun /\ reply \in {"active"} \cup Lost /\ UNCHANGED storeVars
       \/ /\ current[s] = NoRun
          /\ reply \in Reply("ok")
          /\ issued' = issued \cup {r}
          /\ meta' = [meta EXCEPT ![r] = "queued"]
          /\ current' = [current EXCEPT ![s] = r]
          /\ UNCHANGED <<events, lagging>>
       \/ NotSent(reply)

\* A later execution of an initRun that took effect: only the pointer is tested, so that
\* a run that has ended or was deleted meanwhile is queued again.
InitAgain(r, reply) ==
    LET s == SessionOf[r] IN
    /\ "reinit" \in Faults
    /\ r \in issued
    /\ \/ current[s] # NoRun /\ reply \in Reply("active") /\ UNCHANGED storeVars
       \/ /\ current[s] = NoRun
          /\ reply \in Reply("ok")
          /\ meta' = [meta EXCEPT ![r] = "queued"]
          /\ current' = [current EXCEPT ![s] = r]
          /\ lagging' = lagging \cup {r}
          /\ UNCHANGED <<events, issued>>

\* Mutant: no test of the status that is there.
SetRunStatusLate(r, reply) ==
    /\ meta[r] # "none" /\ reply = "ok"
    /\ meta' = [meta EXCEPT ![r] = "running"]
    /\ UNCHANGED <<current, events, lagging, issued>>

\* Mutant: no EXISTS test, so that HSET creates the hash.
SetRunStatusMissing(r, reply) ==
    /\ meta[r] \notin Terminal /\ reply = "ok"
    /\ meta' = [meta EXCEPT ![r] = "running"]
    /\ UNCHANGED <<current, events, lagging, issued>>

\* The only status the service sets with this script is "running".
SetRunStatus(r, reply) ==
    \/ /\ meta[r] \in ActiveStatus
       /\ reply \in Reply("ok")
       /\ meta' = [meta EXCEPT ![r] = "running"]
       /\ lagging' = lagging \cup {r}
       /\ UNCHANGED <<current, events, issued>>
    \/ Rejected(r, reply)
    \/ NotSent(reply)

\* Mutant: no test of the status.
AppendEventLate(r, e, reply) ==
    /\ meta[r] # "none" /\ reply = "ok"
    /\ events' = [events EXCEPT ![r] = Append(@, e)]
    /\ UNCHANGED <<meta, current, lagging, issued>>

AppendEvent(r, e, reply) ==
    \/ /\ meta[r] \in ActiveStatus
       /\ reply \in Reply("ok")
       /\ events' = [events EXCEPT ![r] = Append(@, e)]
       /\ lagging' = lagging \ {r}
       /\ UNCHANGED <<meta, current, issued>>
    \/ Rejected(r, reply)
    \/ NotSent(reply)

\* Mutant: the pointer is left to a later call.
FinishRunKeepsPointer(r, reason, reply) ==
    /\ meta[r] \in ActiveStatus /\ reply = "ok"
    /\ events' = [events EXCEPT ![r] = Append(@, Finish(reason))]
    /\ meta' = [meta EXCEPT ![r] = StatusOf(reason)]
    /\ UNCHANGED <<current, lagging, issued>>

\* Mutant: the status is set in a script of its own, without the event.
FinishRunNoEvent(r, reason, reply) ==
    /\ meta[r] \in ActiveStatus /\ reply = "ok"
    /\ meta' = [meta EXCEPT ![r] = StatusOf(reason)]
    /\ UNCHANGED <<current, events, lagging, issued>>

FinishRun(r, reason, reply) ==
    \/ /\ meta[r] \in ActiveStatus
       /\ reply \in Reply("ok")
       /\ events' = [events EXCEPT ![r] = Append(@, Finish(reason))]
       /\ meta' = [meta EXCEPT ![r] = StatusOf(reason)]
       /\ current' = [s \in Sessions |->
                        IF s = SessionOf[r] /\ current[s] = r
                          THEN NoRun ELSE current[s]]
       /\ lagging' = lagging \ {r}
       /\ UNCHANGED issued
    \/ Rejected(r, reply)
    \/ NotSent(reply)

ClearCurrentRunIfMatches(s, r) ==
    /\ current' = [current EXCEPT ![s] = IF @ = r THEN NoRun ELSE @]
    /\ UNCHANGED <<meta, events, lagging, issued>>

-----------------------------------------------------------------------------
(* Keys *)

KeysOf(s) == {CurrentKey(s)} \cup
             UNION {{MetaKey(r), EventsKey(r)} : r \in {q \in Runs : SessionOf[q] = s}}

\* The keys of session s that exist: what SCAN can find.
Existing(s) ==
    {k \in KeysOf(s) : \/ k = CurrentKey(s) /\ current[s] # NoRun
                       \/ \E r \in Runs : \/ k = MetaKey(r) /\ meta[r] # "none"
                                          \/ k = EventsKey(r) /\ events[r] # <<>>}

\* DEL of the keys in K, one command.
Del(K) ==
    /\ meta' = [r \in Runs |-> IF MetaKey(r) \in K THEN "none" ELSE meta[r]]
    /\ events' = [r \in Runs |-> IF EventsKey(r) \in K THEN <<>> ELSE events[r]]
    /\ current' = [s \in Sessions |->
                     IF CurrentKey(s) \in K THEN NoRun ELSE current[s]]
    /\ lagging' = {r \in lagging : EventsKey(r) \notin K}
    /\ UNCHANGED issued

\* Every script that refreshes the expiry of a key of an active run refreshes
\* the hash and the pointer together, so that they expire in the same
\* millisecond; the stream expires with them, or earlier when setRunStatus
\* refreshed the others last.  What a deletion left behind expires alone.
Expire ==
    /\ Expires
    /\ \/ \E r \in Runs :
            \/ meta[r] # "none" /\ Del({MetaKey(r), EventsKey(r)} \cup
                    (IF current[SessionOf[r]] = r THEN {CurrentKey(SessionOf[r])} ELSE {}))
            \/ /\ events[r] # <<>> /\ (r \in lagging \/ meta[r] = "none")
               /\ Del({EventsKey(r)})
       \/ \E s \in Sessions : /\ current[s] # NoRun /\ meta[current[s]] = "none"
                              /\ Del({CurrentKey(s)})

-----------------------------------------------------------------------------
(* Whatever order the callers send their commands in *)

Replies == {"ok", "active", "missing", "terminal", "unavailable"}

Script(r, reply) ==
    \/ InitRun(r, reply) \/ InitAgain(r, reply)
    \/ SetRunStatus(r, reply)
    \/ \E e \in Notes : AppendEvent(r, e, reply)
    \/ \E reason \in TerminalReasons : FinishRun(r, reason, reply)

StoreNext == \/ \E r \in Runs, reply \in Replies : Script(r, reply)
             \/ \E s \in Sessions :
                  \/ \E r \in Runs : ClearCurrentRunIfMatches(s, r)
                  \/ \E K \in SUBSET KeysOf(s) : Del(K)
             \/ Expire

StoreSpec == StoreInit /\ [][StoreNext]_storeVars

-----------------------------------------------------------------------------
(* Properties *)

\* The current_run pointer of a session never names a run that has ended: the
\* script that ends a run removes the pointer in the same step, so GetRun and
\* CreateRun never find a terminal run behind it (store_redis.go finishRun).
PointerNotTerminal ==
    \A s \in Sessions : current[s] # NoRun => meta[current[s]] \notin Terminal

\* A stream and its status tell the same story: a terminal finish event is the
\* last event of its stream, it names the outcome the hash records, and a run
\* that has ended has such an event, unless one of the two keys is gone.
\* Subscribers take the outcome from the event, GetRunByID from the hash.  An initRun that
\* is sent again breaks it (InitOnce), and the next two.
SealedByOutcome ==
    \A r \in Runs :
      LET n == Len(events[r]) IN
      /\ \A i \in 1..n : events[r][i] \in Seals =>
           i = n /\ meta[r] \in {"none", StatusOf(events[r][i].reason)}
      /\ meta[r] \in Terminal /\ n > 0 => events[r][n] \in Seals

\* "Terminal states are irreversible": no call, late or repeated, changes the
\* status of a run that has ended or extends its stream; deletion and expiry
\* are the only ways out (README, REFACTOR_NOTES; the tests of each script).
TerminalIrreversible ==
    [][\A r \in Runs : meta[r] \in Terminal =>
         /\ meta'[r] \in {meta[r], "none"}
         /\ events'[r] \in {events[r], <<>>}]_storeVars

\* A run whose hash is gone stays gone: a worker that outlives DeleteSession or
\* the expiry of its run neither brings the hash back nor writes to a stream
\* (the EXISTS test every script starts with).  LifecycleSpec says it too.
ForgottenStaysForgotten ==
    [][\A r \in issued : meta[r] = "none" =>
         /\ meta'[r] = "none"
         /\ events'[r] \in {events[r], <<>>}]_storeVars

\* Redis, driven by any callers, keeps the promises of RunLifecycle.
Lifecycle == INSTANCE RunLifecycle
               WITH Outcome <- [f \in Seals |-> StatusOf(f.reason)],
                    status <- meta, log <- events, born <- issued

LifecycleSpec == Lifecycle!Spec
=============================================================================
