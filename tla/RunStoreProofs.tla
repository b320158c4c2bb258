--------------------------- MODULE RunStoreProofs ---------------------------
(***************************************************************************)
(* Proofs about RunStore for any sets of sessions and runs, any agent      *)
(* reasons, with and without expiry and faults.                            *)
(***************************************************************************)
EXTENDS RunStore, TLAPS

\* A pointer names a run that was created, in the session it was created for, and an
\* id that was not drawn yet has left no trace.
PointerOwned ==
    \A s \in Sessions : current[s] # NoRun => SessionOf[current[s]] = s /\ current[s] \in issued
FreshUnused  == \A r \in Runs \ issued : meta[r] = "none" /\ events[r] = <<>>

\* Streams and statuses agree unless a late initRun puts an ended run back.
Sealed == InitOnce => SealedByOutcome

\* The inductive invariant: without PointerOwned ending a run would not be known
\* to clear every pointer at it, without FreshUnused InitRun could queue a run
\* whose stream already holds a seal.
IInv == StoreTypeOK /\ PointerNotTerminal /\ Sealed /\ PointerOwned /\ FreshUnused

-----------------------------------------------------------------------------
(* Facts about the data *)

\* Every finish reason stands for a terminal status.
LEMMA StatusOfTerminal == ASSUME NEW reason PROVE StatusOf(reason) \in Terminal
BY DEF StatusOf, Terminal

\* A log entry cannot both leave a run active and end it.
LEMMA NotesAreNotSeals == Notes \cap Seals = {}
<1>1. SUFFICES ASSUME NEW e \in Notes, NEW f \in Seals, e = f PROVE FALSE
  OBVIOUS
<1>2. f.type = "finish" /\ f.reason \notin ToolReasons
  BY DEF Seals, Finish, TerminalReasons
<1>3. e.type = "finish" => e.reason \in ToolReasons
  <2>1. CASE \E t \in {"run_created", "run_started", "message", "error"} : e = Plain(t)
    <3>1. PICK t \in {"run_created", "run_started", "message", "error"} : e = Plain(t)
      BY <2>1
    <3>2. e.type = t
      BY <3>1 DEF Plain
    <3> QED BY <3>2
  <2>2. CASE \E reason \in Reasons \cap ToolReasons : e = Finish(reason)
    BY <2>2 DEF Finish
  <2> QED BY <2>1, <2>2 DEF Notes
<1> QED BY <1>1, <1>2, <1>3

LEMMA FinishIsSeal ==
  ASSUME NEW reason \in TerminalReasons
  PROVE  Finish(reason) \in Seals /\ Finish(reason).reason = reason
BY DEF Seals, Finish

LEMMA InitIInv == StoreInit => IInv
BY StoreAssumption DEF StoreAssumption, StoreInit, IInv, StoreTypeOK, PointerNotTerminal, Sealed,
   SealedByOutcome, PointerOwned, FreshUnused

-----------------------------------------------------------------------------
(* One lemma per operation *)

LEMMA UnchangedIInv == IInv /\ UNCHANGED storeVars => IInv'
BY DEF IInv, StoreTypeOK, PointerNotTerminal, Sealed, SealedByOutcome, PointerOwned,
   FreshUnused, storeVars

LEMMA InitRunIInv ==
  ASSUME IInv, NEW r \in Runs, NEW reply, InitRun(r, reply)
  PROVE  IInv'
<1> USE StoreAssumption DEF StoreAssumption
<1>1. CASE UNCHANGED storeVars
  BY <1>1, UnchangedIInv
<1>2. CASE /\ issued' = issued \cup {r} /\ UNCHANGED <<events, lagging>>
           /\ meta' = [meta EXCEPT ![r] = "queued"]
           /\ current' = [current EXCEPT ![SessionOf[r]] = r]
  <2>1. meta[r] = "none" /\ events[r] = <<>>
    BY DEF InitRun, IInv, FreshUnused
  <2>2. StoreTypeOK'
    BY <1>2 DEF IInv, StoreTypeOK, ActiveStatus
  <2>3. PointerNotTerminal' /\ PointerOwned'
    BY <1>2 DEF IInv, StoreTypeOK, PointerNotTerminal, PointerOwned, Terminal
  <2>4. Sealed'
    BY <1>2, <2>1 DEF IInv, StoreTypeOK, Sealed, SealedByOutcome, Terminal
  <2>5. FreshUnused'
    BY <1>2 DEF IInv, StoreTypeOK, FreshUnused
  <2> QED BY <2>2, <2>3, <2>4, <2>5 DEF IInv
<1> QED BY <1>1, <1>2 DEF InitRun, NotSent

LEMMA InitAgainIInv ==
  ASSUME IInv, NEW r \in Runs, NEW reply, InitAgain(r, reply)
  PROVE  IInv'
<1> USE StoreAssumption DEF StoreAssumption
<1>1. CASE UNCHANGED storeVars
  BY <1>1, UnchangedIInv
<1>2. CASE /\ lagging' = lagging \cup {r} /\ UNCHANGED <<events, issued>>
           /\ meta' = [meta EXCEPT ![r] = "queued"]
           /\ current' = [current EXCEPT ![SessionOf[r]] = r]
  <2>1. r \in issued /\ ~ InitOnce
    BY DEF InitAgain, InitOnce
  <2>2. StoreTypeOK'
    BY <1>2 DEF IInv, StoreTypeOK, ActiveStatus
  <2>3. PointerNotTerminal' /\ PointerOwned'
    BY <1>2, <2>1 DEF IInv, StoreTypeOK, PointerNotTerminal, PointerOwned, Terminal
  <2>4. Sealed'
    BY <2>1 DEF Sealed
  <2>5. FreshUnused'
    BY <1>2, <2>1 DEF IInv, StoreTypeOK, FreshUnused
  <2> QED BY <2>2, <2>3, <2>4, <2>5 DEF IInv
<1> QED BY <1>1, <1>2 DEF InitAgain

LEMMA SetRunStatusIInv ==
  ASSUME IInv, NEW r \in Runs, NEW reply, SetRunStatus(r, reply)
  PROVE  IInv'
<1> USE StoreAssumption DEF StoreAssumption
<1>1. CASE UNCHANGED storeVars
  BY <1>1, UnchangedIInv
<1>2. CASE /\ meta[r] \in ActiveStatus
           /\ meta' = [meta EXCEPT ![r] = "running"]
           /\ lagging' = lagging \cup {r}
           /\ UNCHANGED <<current, events, issued>>
  <2>1. StoreTypeOK'
    BY <1>2 DEF IInv, StoreTypeOK, ActiveStatus
  <2>2. PointerNotTerminal'
    BY <1>2 DEF IInv, StoreTypeOK, PointerNotTerminal, Terminal
  <2>3. Sealed'
    <3>1. InitOnce => \A i \in 1..Len(events[r]) : events[r][i] \notin Seals
      BY <1>2, StatusOfTerminal DEF IInv, Sealed, SealedByOutcome, ActiveStatus, Terminal
    <3> QED BY <1>2, <3>1 DEF IInv, StoreTypeOK, Sealed, SealedByOutcome, Terminal
  <2>4. PointerOwned' /\ FreshUnused'
    BY <1>2 DEF IInv, StoreTypeOK, PointerOwned, FreshUnused, ActiveStatus
  <2> QED BY <2>1, <2>2, <2>3, <2>4 DEF IInv
<1> QED BY <1>1, <1>2 DEF SetRunStatus, Rejected, NotSent

\* A log to which notes are added while its run is active stays free of seals.
LEMMA ActiveHasNoSeal ==
  ASSUME IInv, InitOnce, NEW r \in Runs, meta[r] \in ActiveStatus
  PROVE  \A i \in 1..Len(events[r]) : events[r][i] \notin Seals
BY StatusOfTerminal DEF IInv, Sealed, SealedByOutcome, ActiveStatus, Terminal

LEMMA AppendEventIInv ==
  ASSUME IInv, NEW r \in Runs, NEW e \in Notes, NEW reply, AppendEvent(r, e, reply)
  PROVE  IInv'
<1>1. CASE UNCHANGED storeVars
  BY <1>1, UnchangedIInv
<1>2. CASE /\ meta[r] \in ActiveStatus
           /\ events' = [events EXCEPT ![r] = Append(@, e)]
           /\ lagging' = lagging \ {r}
           /\ UNCHANGED <<meta, current, issued>>
  <2> DEFINE log == Append(events[r], e)
  <2>1. events[r] \in Seq(Events) /\ e \in Events /\ e \notin Seals
    BY NotesAreNotSeals DEF IInv, StoreTypeOK, Events
  <2>2. log \in Seq(Events) /\ events' = [events EXCEPT ![r] = log]
    BY <1>2, <2>1
  <2>3. InitOnce => \A i \in 1..Len(log) : log[i] \notin Seals
    BY <1>2, <2>1, ActiveHasNoSeal
  <2> HIDE DEF log
  <2>4. StoreTypeOK'
    BY <1>2, <2>2 DEF IInv, StoreTypeOK
  <2>5. Sealed'
    BY <1>2, <2>2, <2>3 DEF IInv, StoreTypeOK, Sealed, SealedByOutcome, ActiveStatus, Terminal
  <2>6. PointerNotTerminal' /\ PointerOwned'
    BY <1>2 DEF IInv, PointerNotTerminal, PointerOwned
  <2>7. FreshUnused'
    BY <1>2, <2>2 DEF IInv, StoreTypeOK, FreshUnused, ActiveStatus
  <2> QED BY <2>4, <2>5, <2>6, <2>7 DEF IInv
<1> QED BY <1>1, <1>2 DEF AppendEvent, Rejected, NotSent

LEMMA FinishRunIInv ==
  ASSUME IInv, NEW r \in Runs, NEW reason \in TerminalReasons, NEW reply,
         FinishRun(r, reason, reply)
  PROVE  IInv'
<1> USE StoreAssumption DEF StoreAssumption
<1>1. CASE UNCHANGED storeVars
  BY <1>1, UnchangedIInv
<1>2. CASE /\ meta[r] \in ActiveStatus
           /\ events' = [events EXCEPT ![r] = Append(@, Finish(reason))]
           /\ meta' = [meta EXCEPT ![r] = StatusOf(reason)]
           /\ current' = [s \in Sessions |->
                            IF s = SessionOf[r] /\ current[s] = r
                              THEN NoRun ELSE current[s]]
           /\ lagging' = lagging \ {r}
           /\ UNCHANGED issued
  <2>1. /\ StatusOf(reason) \in Terminal
        /\ Finish(reason) \in Seals /\ Finish(reason) \in Events
        /\ Finish(reason).reason = reason
    BY StatusOfTerminal, FinishIsSeal DEF Events
  <2>2. StoreTypeOK'
    BY <1>2, <2>1 DEF IInv, StoreTypeOK
  <2>3. PointerNotTerminal' /\ PointerOwned'
    BY <1>2 DEF IInv, StoreTypeOK, PointerNotTerminal, PointerOwned
  <2>4. Sealed'
    <3>1. SUFFICES ASSUME InitOnce, NEW q \in Runs
                   PROVE  LET n == Len(events'[q]) IN
                          /\ \A i \in 1..n : events'[q][i] \in Seals =>
                               i = n /\ meta'[q] \in {"none", StatusOf(events'[q][i].reason)}
                          /\ meta'[q] \in Terminal /\ n > 0 => events'[q][n] \in Seals
      BY DEF Sealed, SealedByOutcome
    <3>2. CASE q = r
      <4>1. \A i \in 1..Len(events[r]) : events[r][i] \notin Seals
        BY <1>2, <3>1, ActiveHasNoSeal
      <4> QED BY <1>2, <2>1, <3>2, <4>1 DEF IInv, StoreTypeOK
    <3>3. CASE q # r
      BY <1>2, <3>1, <3>3 DEF IInv, StoreTypeOK, Sealed, SealedByOutcome
    <3> QED BY <3>2, <3>3
  <2>5. FreshUnused'
    BY <1>2 DEF IInv, StoreTypeOK, FreshUnused, ActiveStatus
  <2> QED BY <2>2, <2>3, <2>4, <2>5 DEF IInv
<1> QED BY <1>1, <1>2 DEF FinishRun, Rejected, NotSent

LEMMA ClearIInv ==
  ASSUME IInv, NEW s \in Sessions, NEW r \in Runs, ClearCurrentRunIfMatches(s, r)
  PROVE  IInv'
BY DEF ClearCurrentRunIfMatches, IInv, StoreTypeOK, PointerNotTerminal, Sealed,
   SealedByOutcome, PointerOwned, FreshUnused

LEMMA DelIInv ==
  ASSUME IInv, NEW K, Del(K)
  PROVE  IInv'
<1> USE StoreAssumption DEF StoreAssumption
<1>1. StoreTypeOK'
  BY DEF Del, IInv, StoreTypeOK
<1>2. PointerNotTerminal' /\ PointerOwned'
  BY DEF Del, IInv, StoreTypeOK, PointerNotTerminal, PointerOwned, Terminal
<1>3. Sealed'
  BY DEF Del, IInv, StoreTypeOK, Sealed, SealedByOutcome, Terminal
<1>4. FreshUnused'
  BY DEF Del, IInv, StoreTypeOK, FreshUnused
<1> QED BY <1>1, <1>2, <1>3, <1>4 DEF IInv

-----------------------------------------------------------------------------
(* Safety *)

LEMMA StepIInv == IInv /\ [StoreNext]_storeVars => IInv'
<1>1. SUFFICES ASSUME IInv, StoreNext PROVE IInv'
  BY UnchangedIInv
<1>2. CASE \E r \in Runs, reply \in Replies : Script(r, reply)
  BY <1>1, <1>2, InitRunIInv, InitAgainIInv, SetRunStatusIInv, AppendEventIInv, FinishRunIInv
     DEF Script
<1>3. CASE \E s \in Sessions, r \in Runs : ClearCurrentRunIfMatches(s, r)
  BY <1>1, <1>3, ClearIInv
<1>4. CASE \E K : Del(K)
  BY <1>1, <1>4, DelIInv
<1> QED BY <1>1, <1>2, <1>3, <1>4 DEF StoreNext, Expire

LEMMA StoreInvariant == StoreSpec => []IInv
BY InitIInv, StepIInv, PTL DEF StoreSpec

\* The store keeps its types, whatever calls come in and however they fail.
THEOREM StoreTypes == StoreSpec => []StoreTypeOK
BY StoreInvariant, PTL DEF IInv

\* The pointer of a session never names a run that has ended.
THEOREM StorePointer == StoreSpec => []PointerNotTerminal
BY StoreInvariant, PTL DEF IInv

\* While no initRun is sent again, a stream is sealed by the outcome its hash records,
\* and by nothing else.
THEOREM StoreSealed == ASSUME InitOnce PROVE StoreSpec => []SealedByOutcome
<1>1. IInv => SealedByOutcome
  BY DEF IInv, Sealed
<1> QED BY <1>1, StoreInvariant, PTL

-----------------------------------------------------------------------------
(* What a step may never do *)

\* A script that finds no active hash changes no status and no stream, unless it is a
\* late initRun.
LEMMA InactiveUntouched ==
  ASSUME IInv, NEW q \in Runs, meta[q] \notin ActiveStatus, q \in issued,
         NEW r \in Runs, NEW reply, Script(r, reply)
  PROVE  \/ meta'[q] = meta[q] /\ events'[q] = events[q]
         \/ q = r /\ InitAgain(q, reply)
<1>1. CASE InitRun(r, reply)
  BY <1>1 DEF InitRun, NotSent, IInv, StoreTypeOK, storeVars
<1>2. CASE SetRunStatus(r, reply)
  BY <1>2 DEF SetRunStatus, Rejected, NotSent, IInv, StoreTypeOK, storeVars
<1>3. CASE \E e \in Notes : AppendEvent(r, e, reply)
  BY <1>3 DEF AppendEvent, Rejected, NotSent, IInv, StoreTypeOK, storeVars
<1>4. CASE \E reason \in TerminalReasons : FinishRun(r, reason, reply)
  BY <1>4 DEF FinishRun, Rejected, NotSent, IInv, StoreTypeOK, storeVars
<1>5. CASE InitAgain(r, reply) /\ q # r
  BY <1>5 DEF InitAgain, IInv, StoreTypeOK, storeVars
<1> QED BY <1>1, <1>2, <1>3, <1>4, <1>5 DEF Script

\* Every other step keeps the status and the stream of a run, or removes them.
LEMMA OtherStepsRemove ==
  ASSUME IInv, NEW q \in Runs, StoreNext,
         ~ \E r \in Runs, reply \in Replies : Script(r, reply)
  PROVE  meta'[q] \in {meta[q], "none"} /\ events'[q] \in {events[q], <<>>}
<1>1. CASE \E s \in Sessions, r \in Runs : ClearCurrentRunIfMatches(s, r)
  BY <1>1 DEF ClearCurrentRunIfMatches
<1>2. CASE \E K : Del(K)
  BY <1>2 DEF Del
<1> QED BY <1>1, <1>2 DEF StoreNext, Expire

\* An id that was drawn stays drawn.
LEMMA IssuedGrows == [StoreNext]_storeVars => issued \subseteq issued'
<1>1. ASSUME NEW r \in Runs, NEW reply, Script(r, reply) PROVE issued \subseteq issued'
  BY <1>1 DEF Script, InitRun, InitAgain, SetRunStatus, AppendEvent, FinishRun, Rejected, NotSent, storeVars
<1> QED BY <1>1 DEF StoreNext, Expire, ClearCurrentRunIfMatches, Del, storeVars

\* Nothing but a late initRun brings back a run that has ended or was removed: any other
\* step, whatever is lost or sent again, keeps its status and its stream or removes them.
THEOREM StoreOnlyInitRevives ==
  StoreSpec => [][\A q \in issued : meta[q] \notin ActiveStatus =>
                    \/ /\ meta'[q] \in {meta[q], "none"}
                       /\ events'[q] \in {events[q], <<>>}
                    \/ \E reply \in Replies : InitAgain(q, reply)]_storeVars
<1>1. ASSUME IInv, [StoreNext]_storeVars, NEW q \in issued, meta[q] \notin ActiveStatus
      PROVE  \/ meta'[q] \in {meta[q], "none"} /\ events'[q] \in {events[q], <<>>}
             \/ \E reply \in Replies : InitAgain(q, reply)
  <2>1. q \in Runs
    BY <1>1 DEF IInv, StoreTypeOK
  <2>2. CASE \E r \in Runs, reply \in Replies : Script(r, reply)
    BY <1>1, <2>1, <2>2, InactiveUntouched
  <2>3. CASE StoreNext /\ ~ \E r \in Runs, reply \in Replies : Script(r, reply)
    BY <1>1, <2>1, <2>3, OtherStepsRemove
  <2> QED BY <1>1, <2>2, <2>3 DEF storeVars
<1>2. IInv /\ [StoreNext]_storeVars =>
        [\A q \in issued : meta[q] \notin ActiveStatus =>
           \/ /\ meta'[q] \in {meta[q], "none"}
              /\ events'[q] \in {events[q], <<>>}
           \/ \E reply \in Replies : InitAgain(q, reply)]_storeVars
  BY <1>1
<1> QED BY <1>2, InitIInv, StepIInv, PTL DEF StoreSpec

\* While no initRun is sent again, a terminal status is final and seals its stream,
\* whatever late or repeated call comes in.
THEOREM StoreTerminalIrreversible == ASSUME InitOnce PROVE StoreSpec => TerminalIrreversible
<1>1. ASSUME IInv, [StoreNext]_storeVars, NEW q \in Runs, meta[q] \in Terminal
      PROVE  meta'[q] \in {meta[q], "none"} /\ events'[q] \in {events[q], <<>>}
  <2>1. meta[q] \notin ActiveStatus /\ q \in issued
    BY <1>1 DEF IInv, FreshUnused, Terminal, ActiveStatus
  <2> QED BY <1>1, <2>1, InactiveUntouched, OtherStepsRemove DEF storeVars, InitOnce, InitAgain
<1>2. IInv /\ [StoreNext]_storeVars =>
        [\A r \in Runs : meta[r] \in Terminal =>
           /\ meta'[r] \in {meta[r], "none"}
           /\ events'[r] \in {events[r], <<>>}]_storeVars
  BY <1>1
<1> QED BY <1>2, InitIInv, StepIInv, PTL DEF StoreSpec, TerminalIrreversible

\* While no initRun is sent again, a run whose hash is gone is neither brought back nor
\* written to.
THEOREM StoreForgotten == ASSUME InitOnce PROVE StoreSpec => ForgottenStaysForgotten
<1>1. ASSUME IInv, [StoreNext]_storeVars, NEW q \in issued, meta[q] = "none"
      PROVE  meta'[q] = "none" /\ events'[q] \in {events[q], <<>>}
  <2>1. meta[q] \notin ActiveStatus /\ q \in Runs
    BY <1>1 DEF IInv, StoreTypeOK, ActiveStatus
  <2> QED BY <1>1, <2>1, InactiveUntouched, OtherStepsRemove DEF storeVars, InitOnce, InitAgain
<1>2. IInv /\ [StoreNext]_storeVars =>
        [\A r \in issued : meta[r] = "none" =>
           /\ meta'[r] = "none"
           /\ events'[r] \in {events[r], <<>>}]_storeVars
  BY <1>1
<1> QED BY <1>2, InitIInv, StepIInv, PTL DEF StoreSpec, ForgottenStaysForgotten

-----------------------------------------------------------------------------
(* Implementation *)

LEMMA InitRefines == StoreInit => Lifecycle!Init
BY DEF StoreInit, Lifecycle!Init

\* Every script is a step of a run's life, or a stutter when it is turned away.
LEMMA ScriptRefines ==
  ASSUME InitOnce, IInv, NEW r \in Runs, NEW reply, Script(r, reply)
  PROVE  [Lifecycle!Next]_(Lifecycle!vars)
<1> USE DEF Lifecycle!vars, ActiveStatus, Lifecycle!Active
<1>1. CASE InitRun(r, reply) /\ ~ UNCHANGED storeVars
  <2>1. Lifecycle!Create(r)
    BY <1>1 DEF InitRun, NotSent, Lifecycle!Create
  <2> QED BY <2>1 DEF Lifecycle!Next
<1>2. CASE UNCHANGED storeVars
  BY <1>2 DEF storeVars
<1>3. CASE SetRunStatus(r, reply) /\ ~ UNCHANGED storeVars
  <2>1. Lifecycle!Start(r)
    BY <1>3 DEF SetRunStatus, Rejected, NotSent, Lifecycle!Start
  <2> QED BY <2>1 DEF Lifecycle!Next
<1>4. ASSUME NEW e \in Notes, AppendEvent(r, e, reply), ~ UNCHANGED storeVars
      PROVE  Lifecycle!Next
  <2>1. Lifecycle!Record(r, e)
    BY <1>4 DEF AppendEvent, Rejected, NotSent, Lifecycle!Record
  <2> QED BY <2>1 DEF Lifecycle!Next
<1>5. ASSUME NEW reason \in TerminalReasons, FinishRun(r, reason, reply),
             ~ UNCHANGED storeVars
      PROVE  Lifecycle!Next
  <2>1. Finish(reason) \in Seals /\ Finish(reason).reason = reason
    BY FinishIsSeal
  <2>2. Lifecycle!Seal(r, Finish(reason))
    BY <1>5, <2>1 DEF FinishRun, Rejected, NotSent, Lifecycle!Seal
  <2> QED BY <2>1, <2>2 DEF Lifecycle!Next
<1>6. ~ InitAgain(r, reply)
  BY DEF InitOnce, InitAgain
<1> QED BY <1>1, <1>2, <1>3, <1>4, <1>5, <1>6 DEF Script

LEMMA DelRefines == ASSUME NEW K, Del(K) PROVE Lifecycle!Next
<1> DEFINE S == {r \in Runs : MetaKey(r) \in K}
           L == {r \in Runs : EventsKey(r) \in K}
<1>1. Lifecycle!Forget(S, L)
  BY DEF Del, Lifecycle!Forget
<1> QED BY <1>1 DEF Lifecycle!Next

\* The store implements the life of a run that RunLifecycle describes, while no initRun is
\* sent again.
THEOREM StoreRefinesLifecycle == ASSUME InitOnce PROVE StoreSpec => LifecycleSpec
<1>1. ASSUME IInv, [StoreNext]_storeVars PROVE [Lifecycle!Next]_(Lifecycle!vars)
  <2>1. CASE \E r \in Runs, reply \in Replies : Script(r, reply)
    BY <1>1, <2>1, ScriptRefines
  <2>2. CASE \E s \in Sessions, r \in Runs : ClearCurrentRunIfMatches(s, r)
    BY <2>2 DEF ClearCurrentRunIfMatches, Lifecycle!vars
  <2>3. CASE \E K : Del(K)
    BY <2>3, DelRefines
  <2>4. CASE UNCHANGED storeVars
    BY <2>4 DEF storeVars, Lifecycle!vars
  <2> QED BY <1>1, <2>1, <2>2, <2>3, <2>4 DEF StoreNext, Expire
<1> QED BY <1>1, InitRefines, InitIInv, StepIInv, PTL DEF StoreSpec, LifecycleSpec, Lifecycle!Spec

=============================================================================
