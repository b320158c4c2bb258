-------------------------- MODULE RunServiceProofs --------------------------
(***************************************************************************)
(* Proofs about RunService for any sets of instances, calls, sessions and  *)
(* runs, in four parts:                                                    *)
(*   - its types, and that it drives Redis only as RunStore allows, so     *)
(*     that what is proved of the store holds of the whole service;        *)
(*   - its goroutines: a run is executed at most once, and a session has   *)
(*     at most one active run;                                             *)
(*   - the outcome of runs: what Redis said of a run stays true,           *)
(*     OnCompleted is only called for runs that Redis holds, or last held, *)
(*     as completed, and OnTerminated reports the outcome Redis recorded   *)
(*     and leaves no end unreported;                                       *)
(*   - what workers and deletions leave behind: a worker that has returned *)
(*     leaves no active run, and a deletion leaves neither hash nor stream *)
(*     of a run of its instance that it found.                             *)
(***************************************************************************)
EXTENDS RunService, RunStoreProofs

-----------------------------------------------------------------------------
(* What a caller may conclude from the reply of a script *)

LEMMA InitReply ==
  ASSUME NEW r \in Runs, NEW reply, InitRun(r, reply)
  PROVE  /\ r \notin issued
         /\ reply \in {"ok", "active", "unavailable"}
         /\ reply = "ok" => r \in issued'
         /\ r \in issued' => meta' = [meta EXCEPT ![r] = "queued"]
BY DEF InitRun, Reply, Lost, NotSent, storeVars

LEMMA AgainReply ==
  ASSUME NEW r \in Runs, NEW reply, InitAgain(r, reply)
  PROVE  /\ r \in issued /\ ~ InitOnce
         /\ reply \in {"ok", "active", "unavailable"}
         /\ reply = "ok" => meta' = [meta EXCEPT ![r] = "queued"]
BY DEF InitAgain, InitOnce, Reply, Lost

LEMMA SetReply ==
  ASSUME NEW r \in Runs, NEW reply, SetRunStatus(r, reply)
  PROVE  /\ reply \in {"ok", "missing", "terminal", "unavailable"}
         /\ reply = "ok" => meta[r] \in ActiveStatus /\ meta' = [meta EXCEPT ![r] = "running"]
         /\ reply \in {"missing", "terminal"} => meta[r] \in {"none"} \cup Terminal
         /\ reply = "unavailable" => "lost" \in Faults
BY DEF SetRunStatus, Reply, Lost, Rejected, NotSent

LEMMA AppendReply ==
  ASSUME NEW r \in Runs, NEW e, NEW reply, AppendEvent(r, e, reply)
  PROVE  /\ reply \in {"ok", "missing", "terminal", "unavailable"}
         /\ meta' = meta
         /\ reply = "ok" => meta[r] \in ActiveStatus
         /\ reply \in {"missing", "terminal"} => meta[r] \in {"none"} \cup Terminal
         /\ reply = "unavailable" => "lost" \in Faults
BY DEF AppendEvent, Reply, Lost, Rejected, NotSent, storeVars

LEMMA FinishReply ==
  ASSUME NEW r \in Runs, NEW reason, NEW reply, FinishRun(r, reason, reply), IInv
  PROVE  /\ reply \in {"ok", "missing", "terminal", "unavailable"}
         /\ reply = "ok" => meta[r] \in ActiveStatus /\ meta'[r] = StatusOf(reason)
         /\ reply \in {"missing", "terminal"} => meta'[r] \in {"none"} \cup Terminal
         /\ reply = "unavailable" => "lost" \in Faults
         /\ \A q \in Runs \ {r} : meta'[q] = meta[q]
BY StatusOfTerminal
   DEF FinishRun, Reply, Lost, Rejected, NotSent, storeVars, IInv, StoreTypeOK

-----------------------------------------------------------------------------
(* What a goroutine and a call rely on *)

\* A goroutine has an instance and a run that was created; it appends an event that
\* leaves the run active, and ends it with one that does not.
WorkerKnows ==
    \A r \in Runs :
      LET w == worker[r] IN
      /\ w.pc # "absent" => w.inst \in Instances /\ r \in issued
      /\ w.pc \in {"check", "note"} => w.entry \in Notes
      /\ w.pc = "finish" => w.entry \in Seals

Locals == <<ctx, registry, hooks>>

LEMMA PointsOfWorker ==
  {"setRunning", "startedCheck", "leave", "started", "loop", "agent", "failed", "check", "finish",
   "ended", "note", "errorCheck", "finishCancelled", "report", "finishFailed", "error",
   "reportCheck", "fallback", "gone", "enter", "absent", "crashed"} \subseteq Points
BY DEF Points, Running, Streaming

\* The run's goroutine keeps what it knows and goes to pc.
Keeps(r, pc) ==
    /\ worker' \in [Runs -> Goroutine]
    /\ \A q \in Runs \ {r} : worker'[q] = worker[q]
    /\ worker'[r].pc = pc /\ worker'[r].inst = worker[r].inst
    /\ worker'[r].entry = worker[r].entry /\ worker'[r].outcome = worker[r].outcome
    /\ worker'[r].finished = worker[r].finished

\* A goroutine that is replaced by k.
LEMMA Replaced ==
  ASSUME WorkerTypeOK, NEW r \in Runs, NEW k \in Goroutine, worker' = [worker EXCEPT ![r] = k]
  PROVE  /\ worker' \in [Runs -> Goroutine] /\ worker'[r] = k
         /\ \A q \in Runs \ {r} : worker'[q] = worker[q]
BY DEF WorkerTypeOK

LEMMA GotoEffect ==
  ASSUME WorkerTypeOK, NEW r \in Runs, NEW pc \in Points, Goto(r, pc)
  PROVE  Keeps(r, pc) /\ worker'[r].err = worker[r].err
<1> DEFINE k == [worker[r] EXCEPT !.pc = pc]
<1>1. worker[r] \in Goroutine
  BY DEF WorkerTypeOK
<1>2. k \in Goroutine
  BY <1>1 DEF Goroutine
<1>3. /\ k.pc = pc /\ k.inst = worker[r].inst /\ k.entry = worker[r].entry
      /\ k.outcome = worker[r].outcome /\ k.finished = worker[r].finished
      /\ k.err = worker[r].err
  BY <1>1 DEF Goroutine
<1>4. worker' = [worker EXCEPT ![r] = k]
  BY DEF Goto
<1> HIDE DEF k
<1> QED BY <1>2, <1>3, <1>4, Replaced DEF Keeps

LEMMA FailEffect ==
  ASSUME WorkerTypeOK, NEW r \in Runs, NEW err \in Errors, Fail(r, err)
  PROVE  Keeps(r, "failed") /\ worker'[r].err = err
<1> DEFINE k == [worker[r] EXCEPT !.pc = "failed", !.err = err]
<1>1. "failed" \in Points /\ worker[r] \in Goroutine
  BY PointsOfWorker DEF WorkerTypeOK
<1>2. k \in Goroutine
  BY <1>1 DEF Goroutine
<1>3. /\ k.pc = "failed" /\ k.inst = worker[r].inst /\ k.entry = worker[r].entry
      /\ k.outcome = worker[r].outcome /\ k.finished = worker[r].finished /\ k.err = err
  BY <1>1 DEF Goroutine
<1>4. worker' = [worker EXCEPT ![r] = k]
  BY DEF Fail
<1> HIDE DEF k
<1> QED BY <1>2, <1>3, <1>4, Replaced DEF Keeps

\* What an agent yields is a note or ends the run.
LEMMA AgentEntry ==
  ASSUME NEW e \in {Plain("message")} \cup {Finish(reason) : reason \in Reasons}
  PROVE  e \in Events /\ (e \in Notes \/ e \in Seals)
<1>1. CASE e = Plain("message")
  BY <1>1 DEF Events, Notes
<1>2. ASSUME NEW reason \in Reasons, e = Finish(reason)
      PROVE  e \in Notes \/ e \in Seals
  BY <1>2 DEF Notes, Seals, TerminalReasons
<1> QED BY <1>1, <1>2 DEF Events

\* The effect of a step of a goroutine on the goroutines.
GoroutineStep(r) ==
    /\ worker' \in [Runs -> Goroutine]
    /\ \A q \in Runs \ {r} : worker'[q] = worker[q]
    /\ worker[r].pc # "absent"
    /\ worker'[r].inst = worker[r].inst
    /\ worker'[r].pc # "absent"
    /\ worker'[r].pc \in {"check", "note"} => worker'[r].entry \in Notes
    /\ worker'[r].pc = "finish" => worker'[r].entry \in Seals

LEMMA GoStep ==
  ASSUME WorkerTypeOK, WorkerKnows, NEW r \in Runs,
         NEW pc \in Points \ {"absent", "check", "note", "finish"}, Goto(r, pc),
         worker[r].pc # "absent"
  PROVE  GoroutineStep(r)
BY GotoEffect DEF GoroutineStep, Keeps

LEMMA FailStep ==
  ASSUME WorkerTypeOK, WorkerKnows, NEW r \in Runs, NEW err \in Errors, Fail(r, err),
         worker[r].pc # "absent"
  PROVE  GoroutineStep(r)
BY FailEffect DEF GoroutineStep, Keeps

LEMMA WorkerGoroutine ==
  ASSUME IInv, WorkerTypeOK, WorkerKnows, NEW r \in Runs, WorkerStep(r)
  PROVE  GoroutineStep(r)
<1> USE DEF At, Checkpoint
<1>1. CASE \/ Checkpoint(r, "enter", "setRunning") \/ Checkpoint(r, "startedCheck", "started")
           \/ Checkpoint(r, "reportCheck", "report") \/ Ended(r)
           \/ SetRunning(r) \/ AppendStarted(r) \/ AgentEnd(r) \/ StreamFailed(r)
           \/ ErrorCheck(r) \/ AppendError(r) \/ EndedMalformed(r) \/ Fallback(r)
           \/ Report(r) \/ Leave(r)
  BY <1>1, GoStep, PointsOfWorker
     DEF Ended, EndedMalformed, SetRunning, AppendStarted, AgentEnd, StreamFailed, ErrorCheck, AppendError,
         Fallback, Report, Leave
<1>2. CASE LoopCheck(r)
  <2>1. ctx[r] # "live" => ctx[r] \in Errors
    BY DEF WorkerTypeOK, Errors
  <2> QED BY <1>2, <2>1, GoStep, FailStep, PointsOfWorker DEF LoopCheck
<1>3. CASE AppendCheck(r)
  <2>1. CASE Goto(r, "leave")
    BY <1>3, <2>1, GoStep, PointsOfWorker DEF AppendCheck
  <2>2. CASE Goto(r, "note")
    <3>1. Keeps(r, "note")
      BY <2>2, GotoEffect, PointsOfWorker
    <3> QED BY <1>3, <3>1 DEF AppendCheck, WorkerKnows, Keeps, GoroutineStep
  <2> QED BY <1>3, <2>1, <2>2 DEF AppendCheck
<1>4. CASE ContextEnded(r, "note") \/ ContextEnded(r, "finish")
  <2>1. ctx[r] # "live" => ctx[r] \in Errors
    BY DEF WorkerTypeOK, Errors
  <2> QED BY <1>4, <2>1, FailStep DEF ContextEnded
<1>5. CASE AppendNote(r)
  <2> DEFINE e == worker[r].entry
             finished == worker[r].finished \/ (e.type = "finish" /\ e.reason # "tool_calls")
             k == [worker[r] EXCEPT !.pc = "loop", !.finished = finished]
  <2>1. PICK reply \in Replies :
          /\ AppendEvent(r, e, reply)
          /\ IF reply = "ok" THEN worker' = [worker EXCEPT ![r] = k] ELSE Fail(r, reply)
    BY <1>5 DEF AppendNote
  <2>2. CASE reply # "ok"
    <3>1. reply \in Errors
      BY <2>1, <2>2, AppendReply DEF Errors
    <3> QED BY <1>5, <2>1, <2>2, <3>1, FailStep DEF AppendNote
  <2>3. CASE reply = "ok"
    <3>1. finished \in BOOLEAN /\ "loop" \in Points /\ worker[r] \in Goroutine
      BY PointsOfWorker DEF WorkerTypeOK, Goroutine
    <3> HIDE DEF finished
    <3>2. k \in Goroutine /\ k.pc = "loop" /\ k.inst = worker[r].inst
      BY <3>1 DEF Goroutine
    <3> QED BY <1>5, <2>1, <2>3, <3>2, Replaced DEF AppendNote, GoroutineStep
  <2> QED BY <2>2, <2>3
<1>6. CASE AppendFinish(r)
  <2> DEFINE k == [worker[r] EXCEPT !.pc = "loop", !.finished = TRUE]
  <2>1. PICK reply \in Replies :
          /\ FinishRun(r, worker[r].entry.reason, reply)
          /\ IF reply = "ok" THEN worker' = [worker EXCEPT ![r] = k] ELSE Fail(r, reply)
    BY <1>6 DEF AppendFinish
  <2>2. CASE reply # "ok"
    <3>1. reply \in Errors
      BY <2>1, <2>2, FinishReply DEF Errors
    <3> QED BY <1>6, <2>1, <2>2, <3>1, FailStep DEF AppendFinish
  <2>3. CASE reply = "ok"
    <3>1. "loop" \in Points /\ worker[r] \in Goroutine
      BY PointsOfWorker DEF WorkerTypeOK
    <3>2. k \in Goroutine /\ k.pc = "loop" /\ k.inst = worker[r].inst
      BY <3>1 DEF Goroutine
    <3> QED BY <1>6, <2>1, <2>3, <3>2, Replaced DEF AppendFinish, GoroutineStep
  <2> QED BY <2>2, <2>3
<1>7. ASSUME NEW status \in Terminal, worker[r].pc # "absent",
             worker' = [worker EXCEPT ![r] = [@ EXCEPT !.pc = "report", !.outcome = status]]
      PROVE  GoroutineStep(r)
  <2> DEFINE k == [worker[r] EXCEPT !.pc = "report", !.outcome = status]
  <2>1. "report" \in Points /\ worker[r] \in Goroutine
    BY PointsOfWorker DEF WorkerTypeOK
  <2>2. k \in Goroutine /\ k.pc = "report" /\ k.inst = worker[r].inst
    BY <2>1 DEF Goroutine
  <2> QED BY <1>7, <2>2, Replaced DEF GoroutineStep
<1>8. CASE FinishCancelled(r) \/ FinishFailed(r)
  BY <1>7, <1>8, GoStep, PointsOfWorker DEF FinishCancelled, FinishFailed, Terminal
<1>9. CASE AgentMessage(r)
  <2>1. PICK e \in {Plain("message")} \cup {Finish(reason) : reason \in Reasons} :
          worker' = [worker EXCEPT ![r] = [@ EXCEPT !.entry = e, !.left = worker[r].left - 1,
                      !.pc = IF e \in Notes THEN "check" ELSE "finish"]]
    BY <1>9 DEF AgentMessage
  <2> DEFINE pc == IF e \in Notes THEN "check" ELSE "finish"
             left == worker[r].left - 1
             k == [worker[r] EXCEPT !.entry = e, !.left = left, !.pc = pc]
  <2>2. e \in Events /\ (e \in Notes \/ e \in Seals)
    BY AgentEntry
  <2>3. worker[r] \in Goroutine /\ pc \in Points
    BY PointsOfWorker DEF WorkerTypeOK
  <2>4. left \in 0..AgentEvents
    <3>1. worker[r].left \in 0..AgentEvents /\ worker[r].left > 0
      BY <1>9, <2>3 DEF AgentMessage, Goroutine
    <3> QED BY <3>1, WorkerAssumption DEF WorkerAssumption
  <2>5. pc = "check" => e \in Notes
    OBVIOUS
  <2>6. pc = "finish" => e \notin Notes
    OBVIOUS
  <2>7. pc \in {"check", "finish"}
    OBVIOUS
  <2>8. worker' = [worker EXCEPT ![r] = k]
    BY <2>1
  <2> HIDE DEF pc, left
  <2>9. k \in Goroutine
    BY <2>2, <2>3, <2>4 DEF Goroutine
  <2>10. k.inst = worker[r].inst /\ k.entry = e /\ k.pc = pc
    BY <2>3 DEF Goroutine
  <2> HIDE DEF k
  <2> QED BY <1>9, <2>2, <2>5, <2>6, <2>7, <2>8, <2>9, <2>10, Replaced DEF AgentMessage, GoroutineStep
<1>10. CASE AgentError(r)
  <2>1. {"agent", "cancelled"} \subseteq Errors /\ (ctx[r] # "live" => ctx[r] \in Errors)
    BY DEF WorkerTypeOK, Errors
  <2> QED BY <1>10, <2>1, FailStep DEF AgentError
<1>11. CASE WatchRunLifecycle(r) \/ Timeout(r)
  <2>1. worker[r].pc \in Running /\ worker' = worker
    BY <1>11 DEF WatchRunLifecycle, Timeout, Running
  <2> QED BY <2>1 DEF GoroutineStep, WorkerTypeOK, WorkerKnows, Running, Streaming
<1>12. CASE Unanswered(r)
  <2>1. worker[r].pc \in Running /\ worker' = worker
    BY <1>12 DEF Unanswered, workerVars, Running, Streaming
  <2> QED BY <2>1 DEF GoroutineStep, WorkerTypeOK, WorkerKnows, Running, Streaming
<1> QED BY <1>1, <1>2, <1>3, <1>4, <1>5, <1>6, <1>8, <1>9, <1>10, <1>11, <1>12
        DEF WorkerStep, OwnStep, AgentStep
\* Only the hooks, the return of executeRun, the watcher and the timer touch more than
\* the goroutine and Redis.
LEMMA WorkerLocals ==
  ASSUME NEW r \in Runs, WorkerStep(r),
         ~ (Report(r) \/ Leave(r) \/ WatchRunLifecycle(r) \/ Timeout(r))
  PROVE  UNCHANGED Locals
BY DEF WorkerStep, OwnStep, AgentStep, Locals, Ended, Checkpoint, SetRunning, AppendStarted,
   LoopCheck, AppendCheck, ContextEnded, AppendNote, AppendFinish, StreamFailed,
   FinishCancelled, ErrorCheck, AppendError, FinishFailed, EndedMalformed, Fallback,
   AgentMessage, AgentError, AgentEnd, Unanswered, workerVars, registry, hooks

LEMMA WorkerTypes ==
  ASSUME IInv, WorkerTypeOK, WorkerKnows, NEW r \in Runs, WorkerStep(r)
  PROVE  WorkerTypeOK'
<1>1. worker' \in [Runs -> Goroutine]
  BY WorkerGoroutine DEF GoroutineStep
<1>2. CASE UNCHANGED Locals
  BY <1>1, <1>2 DEF WorkerTypeOK, Locals, registry, hooks
<1>3. CASE Report(r)
  <2>1. worker[r].outcome \in Terminal \cup {"none"}
    BY DEF WorkerTypeOK, Goroutine
  <2> QED BY <1>1, <1>3, <2>1 DEF Report, WorkerTypeOK, registry, Terminal
<1>4. CASE Leave(r)
  BY <1>1, <1>4 DEF Leave, WorkerTypeOK, hooks, cancel
<1>5. CASE WatchRunLifecycle(r)
  BY <1>1, <1>5 DEF WatchRunLifecycle, WorkerTypeOK, hooks, registry, cancel
<1>6. CASE Timeout(r)
  BY <1>1, <1>6 DEF Timeout, WorkerTypeOK, hooks, registry
<1> QED BY <1>2, <1>3, <1>4, <1>5, <1>6, WorkerLocals

LEMMA WorkerStillKnows ==
  ASSUME IInv, WorkerTypeOK, WorkerKnows, NEW r \in Runs, WorkerStep(r), issued \subseteq issued'
  PROVE  WorkerKnows'
BY WorkerGoroutine DEF GoroutineStep, WorkerKnows

-----------------------------------------------------------------------------
(* The service drives the store *)

LEMMA ScriptIs ==
  ASSUME NEW r \in Runs, NEW reply \in Replies,
         \/ SetRunStatus(r, reply) \/ InitRun(r, reply) \/ InitAgain(r, reply)
         \/ \E e \in Notes : AppendEvent(r, e, reply)
         \/ \E reason \in TerminalReasons : FinishRun(r, reason, reply)
  PROVE  \E again \in Replies : Script(r, again)
BY DEF Script

LEMMA ScriptDrives ==
  ASSUME NEW r \in Runs, \E reply \in Replies : Script(r, reply) PROVE StoreNext
BY DEF StoreNext

LEMMA PlainNotes ==
  /\ Plain("run_created") \in Notes /\ Plain("run_started") \in Notes
  /\ Plain("message") \in Notes /\ Plain("error") \in Notes
BY DEF Notes

LEMMA OwnReasons == {"stop", "cancelled", "error"} \subseteq TerminalReasons
BY DEF TerminalReasons, ToolReasons

\* The reason of a seal is a reason that ends a run.
LEMMA SealReason == ASSUME NEW e \in Seals PROVE e.reason \in TerminalReasons
BY DEF Seals, Finish

\* A goroutine sends Redis scripts about its own run only.
LEMMA WorkerScripts ==
  ASSUME WorkerKnows, NEW r \in Runs, WorkerStep(r)
  PROVE  (\E reply \in Replies : Script(r, reply)) \/ UNCHANGED storeVars
<1>1. CASE Local
  BY <1>1 DEF Local
<1>2. CASE SetRunning(r)
  BY <1>2, ScriptIs DEF SetRunning
<1>3. CASE AppendStarted(r) \/ AppendError(r)
  BY <1>3, ScriptIs, PlainNotes DEF AppendStarted, AppendError
<1>4. CASE AppendNote(r)
  <2>1. worker[r].entry \in Notes
    BY <1>4 DEF AppendNote, At, WorkerKnows
  <2> QED BY <1>4, <2>1, ScriptIs DEF AppendNote
<1>5. CASE AppendFinish(r)
  <2>1. worker[r].entry.reason \in TerminalReasons
    BY <1>5, SealReason DEF AppendFinish, At, WorkerKnows
  <2> QED BY <1>5, <2>1, ScriptIs DEF AppendFinish
<1>6. CASE FinishCancelled(r) \/ FinishFailed(r)
  BY <1>6, OwnReasons, ScriptIs DEF FinishCancelled, FinishFailed
<1>7. CASE Fallback(r)
  BY <1>7, OwnReasons, ScriptIs DEF Fallback
<1>8. CASE Unanswered(r)
  <2>1. /\ At(r, "note") => worker[r].entry \in Notes
        /\ At(r, "finish") => worker[r].entry.reason \in TerminalReasons
    BY SealReason DEF At, WorkerKnows
  <2> QED BY <1>8, <2>1, PlainNotes, OwnReasons, ScriptIs DEF Unanswered
<1>9. \/ Local \/ SetRunning(r) \/ AppendStarted(r) \/ AppendError(r) \/ AppendNote(r)
      \/ AppendFinish(r) \/ FinishCancelled(r) \/ FinishFailed(r) \/ Fallback(r)
      \/ Unanswered(r)
  BY DEF WorkerStep, EndedMalformed, OwnStep, AgentStep, Ended, Checkpoint, LoopCheck, AppendCheck,
     ContextEnded, StreamFailed, ErrorCheck, Report, Leave, AgentMessage, AgentError, AgentEnd,
     WatchRunLifecycle, Timeout
<1> QED BY <1>1, <1>2, <1>3, <1>4, <1>5, <1>6, <1>7, <1>8, <1>9

LEMMA WorkerDrives ==
  ASSUME WorkerKnows, NEW r \in Runs, WorkerStep(r)
  PROVE  [StoreNext]_storeVars
BY WorkerScripts DEF StoreNext

-----------------------------------------------------------------------------
(* Calls *)

\* The program points at which a call acts on a run.
Targeted == {"getMeta", "dropPointer", "clearPointer", "initAgain", "runCreated", "register",
             "rollback", "rollbackKeys", "markDeleted", "cancelLocal", "readTarget", "cancelDirect",
             "returnRun"}

\* The operations that pass through a program point.
OpsAt(pc) ==
    CASE pc = "ready" -> {"none"}
      [] pc = "lock" -> {"create", "delete"}
      [] pc \in InLookup -> {"create", "get", "delete"}
      [] pc \in {"initRun", "initAgain", "runCreated", "register", "rollback", "rollbackKeys"} ->
           {"create"}
      [] pc \in {"markDeleted", "scan", "nextBatch", "delBatch"} -> {"delete"}
      [] pc = "cancelLocal" -> {"delete", "cancel"}
      [] pc \in {"readTarget", "cancelDirect"} -> {"cancel"}
      [] pc = "returnRun" -> {"create", "get"}
      [] pc = "return" -> {"create", "get", "delete", "cancel"}
      [] pc = "done" -> {"none", "create", "get", "delete", "cancel"}

\* A call that was made has an instance and a session, its keys are keys of that session,
\* and it only acts on runs of that session.
CallOK(k) ==
    /\ k.op \in OpsAt(k.pc)
    /\ k.op # "none" => k.inst \in Instances /\ k.sess \in Sessions
    /\ k.op # "none" => k.todo \cup k.batch \cup k.found \subseteq KeysOf(k.sess)
    /\ k.op = "none" => k.todo \cup k.batch \cup k.found = {}
    /\ k.pc \in Targeted => k.run \in Runs /\ SessionOf[k.run] = k.sess

CallsOK == \A c \in Calls : CallOK(call[c])

\* A call only acts on a run that was created.
TargetsIssued == \A c \in Calls : call[c].pc \in Targeted => call[c].run \in issued

CallTyped == call \in [Calls -> CallState]

\* The effect of a step of a call on the calls.
CallMoved(c) ==
    \E k \in CallState :
      /\ call' = [call EXCEPT ![c] = k]
      /\ CallOK(k)
      /\ k.pc \in Targeted => k.run \in issued'

LEMMA PointsOfCall ==
  {"ready", "lock", "getPointer", "getMeta", "dropPointer", "clearPointer", "initRun", "initAgain",
   "runCreated", "register", "rollback", "rollbackKeys", "markDeleted", "cancelLocal", "scan", "nextBatch",
   "delBatch", "readTarget", "cancelDirect", "return", "returnRun", "done"} \subseteq Points_C
BY DEF Points_C, InLookup

LEMMA EnterMoves ==
  ASSUME CallTyped, NEW c \in Calls, CallOK(call[c]), TargetsIssued, issued \subseteq issued',
         NEW pc \in Points_C, Enter(c, pc), call[c].op \in OpsAt(pc),
         pc \in Targeted => call[c].pc \in Targeted
  PROVE  CallMoved(c)
<1> DEFINE k == [call[c] EXCEPT !.pc = pc]
<1>1. call[c] \in CallState
  BY DEF CallTyped
<1>2. k \in CallState
  BY <1>1 DEF CallState
<1>3. /\ k.pc = pc /\ k.op = call[c].op /\ k.inst = call[c].inst /\ k.sess = call[c].sess
      /\ k.run = call[c].run /\ k.todo = call[c].todo /\ k.batch = call[c].batch
      /\ k.found = call[c].found
  BY <1>1 DEF CallState
<1>4. call' = [call EXCEPT ![c] = k]
  BY DEF Enter, CallTyped
<1> HIDE DEF k
<1>5. CallOK(k)
  BY <1>3 DEF CallOK
<1>6. k.pc \in Targeted => k.run \in issued'
  BY <1>3 DEF TargetsIssued
<1> QED BY <1>2, <1>4, <1>5, <1>6 DEF CallMoved
\* getCurrentRun never sends a call to a run it did not find.
LEMMA AfterLookupFits ==
  ASSUME NEW c \in Calls, call[c].op \in {"create", "get", "delete"},
         NEW found \in {"absent", "terminal", "active"}
  PROVE  /\ AfterLookup(c, found) \in Points_C
         /\ call[c].op \in OpsAt(AfterLookup(c, found))
         /\ found = "absent" => AfterLookup(c, found) \notin Targeted
<1>1. CASE call[c].op = "create"
  BY <1>1, PointsOfCall DEF AfterLookup, OpsAt, Targeted, InLookup
<1>2. CASE call[c].op = "get"
  BY <1>2, PointsOfCall DEF AfterLookup, OpsAt, Targeted, InLookup
<1>3. CASE call[c].op = "delete"
  BY <1>3, PointsOfCall DEF AfterLookup, OpsAt, Targeted, InLookup
<1> QED BY <1>1, <1>2, <1>3

CallAction(c) ==
    StartCall(c) \/ StartCancel(c) \/ CallStep(c) \/ Abandon(c) \/ CallUnanswered(c)

\* The reply of initRun sends a call on to a run that was created, or away from it.
LEMMA AnsweredMoves ==
  ASSUME CallTyped, NEW c \in Calls, CallOK(call[c]), call[c].op = "create",
         NEW r \in Runs, SessionOf[r] = call[c].sess,
         NEW reply, Answered(c, r, reply), reply = "ok" => r \in issued'
  PROVE  CallMoved(c)
<1> DEFINE w == call[c]
           refused == (reply = "active")
           pc == CASE reply = "ok" -> "runCreated"
                   [] reply = "active" -> "getPointer"
                   [] OTHER -> "return"
           k == [call[c] EXCEPT !.run = r, !.refused = refused, !.pc = pc]
<1>1. /\ pc \in {"runCreated", "getPointer", "return"}
      /\ pc = "runCreated" => r \in issued'
  OBVIOUS
<1>2. pc \in Points_C /\ w \in CallState
  BY <1>1, PointsOfCall DEF CallTyped
<1>3. refused \in BOOLEAN
  OBVIOUS
<1>4. call' = [call EXCEPT ![c] = k]
  BY DEF Answered
<1> HIDE DEF refused, pc
<1>5. k \in CallState
  BY <1>2, <1>3 DEF CallState
<1>6. /\ k.pc = pc /\ k.op = w.op /\ k.inst = w.inst /\ k.sess = w.sess /\ k.run = r
      /\ k.todo = w.todo /\ k.batch = w.batch /\ k.found = w.found
  BY <1>2 DEF CallState
<1> HIDE DEF k
<1>7. w.op \in OpsAt(pc) /\ (pc \in Targeted => pc = "runCreated")
  BY <1>1 DEF OpsAt, InLookup, Targeted
<1>8. CallOK(k)
  BY <1>6, <1>7 DEF CallOK
<1> QED BY <1>1, <1>4, <1>5, <1>6, <1>7, <1>8 DEF CallMoved

LEMMA CallMoves ==
  ASSUME IInv, TypeOK, CallsOK, TargetsIssued, NEW c \in Calls, issued \subseteq issued',
         CallAction(c)
  PROVE  CallMoved(c)
<1> DEFINE w == call[c]
<1>0. CallTyped /\ CallOK(w) /\ w \in CallState
  BY DEF TypeOK, CallTyped, CallsOK
<1> USE DEF In
<1>1. CASE StartCall(c)
  <2>1. PICK op \in Ops \ {"cancel"}, i \in Instances, s \in Sessions :
          call' = [call EXCEPT ![c] = [@ EXCEPT !.op = op, !.inst = i, !.sess = s,
                     !.pc = IF op = "get" THEN "getPointer" ELSE "lock"]]
    BY <1>1 DEF StartCall
  <2> DEFINE pc == IF op = "get" THEN "getPointer" ELSE "lock"
             k == [call[c] EXCEPT !.op = op, !.inst = i, !.sess = s, !.pc = pc]
  <2>2. pc \in Points_C /\ pc \notin Targeted /\ op \in OpsAt(pc) /\ op # "none"
    BY PointsOfCall, ServiceAssumption DEF ServiceAssumption, Targeted, OpsAt, InLookup
  <2>3. w.op = "none"
    <3>1. w.pc = "ready"
      BY <1>1 DEF StartCall
    <3> QED BY <1>0, <3>1 DEF CallOK, OpsAt, InLookup
  <2> HIDE DEF pc
  <2>4. k \in CallState
    BY <1>0, <2>2 DEF CallState
  <2>5. /\ k.pc = pc /\ k.op = op /\ k.inst = i /\ k.sess = s
        /\ k.todo = w.todo /\ k.batch = w.batch /\ k.found = w.found
    BY <1>0 DEF CallState
  <2>6. call' = [call EXCEPT ![c] = k]
    BY <2>1 DEF pc
  <2> HIDE DEF k
  <2>7. CallOK(k)
    BY <1>0, <2>2, <2>3, <2>5 DEF CallOK
  <2> QED BY <2>2, <2>4, <2>5, <2>6, <2>7 DEF CallMoved
<1>2. CASE StartCancel(c)
  <2>1. PICK i \in Instances, r \in known :
          call' = [call EXCEPT ![c] = [@ EXCEPT !.op = "cancel", !.inst = i,
                     !.sess = SessionOf[r], !.run = r, !.pc = "readTarget"]]
    BY <1>2 DEF StartCancel
  <2> DEFINE s == SessionOf[r]
             k == [call[c] EXCEPT !.op = "cancel", !.inst = i, !.sess = s, !.run = r,
                                  !.pc = "readTarget"]
  <2>2. r \in Runs /\ r \in issued /\ s \in Sessions /\ "cancel" \in Ops
    BY <1>2, StoreAssumption DEF StartCancel, TypeOK, StoreTypeOK, StoreAssumption
  <2>3. "readTarget" \in Points_C /\ w.op = "none"
    <3>1. w.pc = "ready"
      BY <1>2 DEF StartCancel
    <3> QED BY <1>0, <3>1, PointsOfCall DEF CallOK, OpsAt, InLookup
  <2>4. call' = [call EXCEPT ![c] = k] /\ SessionOf[r] = s
    BY <2>1
  <2> HIDE DEF s
  <2>5. k \in CallState
    BY <1>0, <2>2, <2>3 DEF CallState
  <2>6. /\ k.pc = "readTarget" /\ k.op = "cancel" /\ k.inst = i /\ k.sess = s /\ k.run = r
        /\ k.todo = w.todo /\ k.batch = w.batch /\ k.found = w.found
    BY <1>0 DEF CallState
  <2> HIDE DEF k
  <2>7. CallOK(k)
    BY <1>0, <2>2, <2>3, <2>4, <2>6 DEF CallOK, OpsAt, InLookup
  <2> QED BY <2>2, <2>4, <2>5, <2>6, <2>7 DEF CallMoved
<1>3. CASE GetPointer(c)
  <2> DEFINE run == Pointer(c)
             pc == IF run = NoRun THEN AfterLookup(c, "absent") ELSE "getMeta"
             k == [call[c] EXCEPT !.run = run, !.pc = pc]
  <2>1. w.op \in {"create", "get", "delete"} /\ w.sess \in Sessions
    BY <1>0, <1>3 DEF GetPointer, CallOK, OpsAt, InLookup
  <2>2. run \in Runs \cup {NoRun}
    BY <2>1 DEF Pointer, TypeOK, StoreTypeOK
  <2>3. run # NoRun => run \in Runs /\ run \in issued /\ SessionOf[run] = w.sess
    BY <2>1, <2>2 DEF Pointer, IInv, PointerOwned
  <2>4. pc \in Points_C /\ w.op \in OpsAt(pc) /\ (pc \in Targeted => run # NoRun)
    BY <2>1, AfterLookupFits, PointsOfCall DEF OpsAt, InLookup
  <2>5. call' = [call EXCEPT ![c] = k]
    BY <1>3 DEF GetPointer
  <2> HIDE DEF run, pc
  <2>6. k \in CallState
    BY <1>0, <2>2, <2>4 DEF CallState
  <2>7. /\ k.pc = pc /\ k.op = w.op /\ k.inst = w.inst /\ k.sess = w.sess /\ k.run = run
        /\ k.todo = w.todo /\ k.batch = w.batch /\ k.found = w.found
    BY <1>0 DEF CallState
  <2> HIDE DEF k
  <2>8. CallOK(k)
    BY <1>0, <2>1, <2>3, <2>4, <2>7 DEF CallOK
  <2> QED BY <2>3, <2>4, <2>5, <2>6, <2>7, <2>8 DEF CallMoved
<1>4. CASE CallInitRun(c)
  <2>1. PICK r \in Runs, reply \in Replies :
          /\ SessionOf[r] = w.sess
          /\ InitRun(r, reply)
          /\ \/ Answered(c, r, reply)
             \/ r \in issued' /\ call' = [call EXCEPT ![c] = [@ EXCEPT !.run = r, !.pc = "initAgain"]]
    BY <1>4 DEF CallInitRun
  <2>2. w.op = "create"
    BY <1>0, <1>4 DEF CallInitRun, CallOK, OpsAt, InLookup
  <2>3. CASE Answered(c, r, reply)
    BY <1>0, <2>1, <2>2, <2>3, InitReply, AnsweredMoves
  <2>4. CASE r \in issued' /\ call' = [call EXCEPT ![c] = [@ EXCEPT !.run = r, !.pc = "initAgain"]]
    <3> DEFINE k == [call[c] EXCEPT !.run = r, !.pc = "initAgain"]
    <3>1. k \in CallState
      BY <1>0, PointsOfCall DEF CallState
    <3>2. /\ k.pc = "initAgain" /\ k.op = w.op /\ k.inst = w.inst /\ k.sess = w.sess /\ k.run = r
          /\ k.todo = w.todo /\ k.batch = w.batch /\ k.found = w.found
      BY <1>0 DEF CallState
    <3>3. call' = [call EXCEPT ![c] = k]
      BY <2>4
    <3> HIDE DEF k
    <3>4. CallOK(k)
      BY <1>0, <2>1, <2>2, <3>2 DEF CallOK, OpsAt, InLookup
    <3> QED BY <2>4, <3>1, <3>2, <3>3, <3>4 DEF CallMoved
  <2> QED BY <2>1, <2>3, <2>4
<1>8. CASE CallInitAgain(c)
  <2>1. PICK reply \in Replies : InitAgain(w.run, reply) /\ Answered(c, w.run, reply)
    BY <1>8 DEF CallInitAgain
  <2>2. w.op = "create" /\ w.run \in Runs /\ SessionOf[w.run] = w.sess
    BY <1>0, <1>8 DEF CallInitAgain, CallOK, OpsAt, InLookup, Targeted
  <2>3. w.run \in issued'
    BY <2>1, <2>2, AgainReply
  <2> QED BY <1>0, <2>1, <2>2, <2>3, AnsweredMoves
<1>9. CASE CallUnanswered(c)
  <2>1. call' = [call EXCEPT ![c] = w]
    BY <1>0, <1>9 DEF CallUnanswered, CallTyped
  <2>2. w.pc \in Targeted => w.run \in issued'
    BY DEF TargetsIssued
  <2> QED BY <1>0, <2>1, <2>2 DEF CallMoved
<1>5. ASSUME NEW pc \in {"nextBatch", "delBatch"}, NEW todo \in SUBSET KeysOf(w.sess),
             NEW batch \in SUBSET KeysOf(w.sess), NEW found \in SUBSET KeysOf(w.sess),
             w.op = "delete",
             call' = [call EXCEPT ![c] = [@ EXCEPT !.pc = pc, !.todo = todo, !.batch = batch,
                                                   !.found = found]]
      PROVE  CallMoved(c)
  <2> DEFINE k == [call[c] EXCEPT !.pc = pc, !.todo = todo, !.batch = batch, !.found = found]
  <2>1. pc \in Points_C /\ w.op \in OpsAt(pc) /\ pc \notin Targeted
    BY <1>5, PointsOfCall DEF OpsAt, InLookup, Targeted
  <2>2. w.sess \in Sessions
    BY <1>0, <1>5 DEF CallOK
  <2>3. KeysOf(w.sess) \subseteq UNION {KeysOf(s) : s \in Sessions}
    BY <2>2
  <2>4. k \in CallState
    BY <1>0, <2>1, <2>3 DEF CallState
  <2>5. /\ k.pc = pc /\ k.op = w.op /\ k.inst = w.inst /\ k.sess = w.sess /\ k.run = w.run
        /\ k.todo = todo /\ k.batch = batch /\ k.found = found
    BY <1>0 DEF CallState
  <2>6. call' = [call EXCEPT ![c] = k]
    BY <1>5
  <2> HIDE DEF k
  <2>7. CallOK(k)
    BY <1>0, <1>5, <2>1, <2>5 DEF CallOK
  <2> QED BY <2>1, <2>4, <2>5, <2>6, <2>7 DEF CallMoved
<1>6. CASE ScanStart(c) \/ ScanBatch(c) \/ DelBatch(c)
  <2>1. w.pc \in {"scan", "nextBatch", "delBatch"}
    BY <1>6 DEF ScanStart, ScanBatch, DelBatch
  <2>2. w.op = "delete"
    BY <1>0, <2>1 DEF CallOK, OpsAt, InLookup
  <2>3. /\ w.todo \in SUBSET KeysOf(w.sess) /\ w.batch \in SUBSET KeysOf(w.sess)
        /\ w.found \in SUBSET KeysOf(w.sess)
    BY <1>0, <2>2 DEF CallOK
  <2>4. Existing(w.sess) \in SUBSET KeysOf(w.sess)
    BY DEF Existing
  <2>5. CASE ScanStart(c)
    <3>1. [w EXCEPT !.pc = "nextBatch", !.todo = Existing(w.sess), !.found = Existing(w.sess)]
            = [w EXCEPT !.pc = "nextBatch", !.todo = Existing(w.sess), !.batch = w.batch,
                        !.found = Existing(w.sess)]
      BY <1>0 DEF CallState
    <3> QED BY <1>5, <2>2, <2>3, <2>4, <2>5, <3>1 DEF ScanStart
  <2>6. CASE ScanBatch(c)
    <3>1. PICK K \in SUBSET Existing(w.sess) :
            call' = [call EXCEPT ![c] = [@ EXCEPT !.pc = "delBatch", !.batch = K,
                                                  !.todo = w.todo \ K]]
      BY <2>6 DEF ScanBatch
    <3>2. [w EXCEPT !.pc = "delBatch", !.batch = K, !.todo = w.todo \ K]
            = [w EXCEPT !.pc = "delBatch", !.todo = w.todo \ K, !.batch = K, !.found = w.found]
      BY <1>0 DEF CallState
    <3>3. K \in SUBSET KeysOf(w.sess) /\ w.todo \ K \in SUBSET KeysOf(w.sess)
      BY <2>3, <2>4
    <3> QED BY <1>5, <2>2, <2>3, <3>1, <3>2, <3>3
  <2>7. CASE DelBatch(c)
    <3>1. [w EXCEPT !.pc = "nextBatch", !.batch = {}]
            = [w EXCEPT !.pc = "nextBatch", !.todo = w.todo, !.batch = {}, !.found = w.found]
      BY <1>0 DEF CallState
    <3>2. call' = [call EXCEPT ![c] = [@ EXCEPT !.pc = "nextBatch", !.batch = {}]]
      BY <2>7 DEF DelBatch
    <3>3. {} \in SUBSET KeysOf(w.sess)
      OBVIOUS
    <3>4. call' = [call EXCEPT ![c] = [@ EXCEPT !.pc = "nextBatch", !.todo = w.todo,
                                                !.batch = {}, !.found = w.found]]
      BY <3>1, <3>2
    <3> QED BY <1>5, <2>2, <2>3, <3>3, <3>4
  <2> QED BY <1>6, <2>5, <2>6, <2>7
<1>7. CASE \/ Lock(c) \/ GetMeta(c) \/ DropPointer(c) \/ ClearPointer(c) \/ AppendCreated(c)
           \/ Rollback(c) \/ RollbackKeys(c) \/ Register(c) \/ MarkRunDeleted(c)
           \/ CancelLocal(c) \/ ScanEnd(c) \/ ReadTarget(c) \/ CancelDirect(c)
           \/ Return(c) \/ Abandon(c)
  <2>1. PICK pc : Enter(c, pc) /\ pc \in Points_C /\ w.op \in OpsAt(pc)
                    /\ (pc \in Targeted => w.pc \in Targeted)
    <3> DEFINE Fits(pc) == /\ pc \in Points_C /\ w.op \in OpsAt(pc)
                           /\ pc \in Targeted => w.pc \in Targeted
    <3> USE DEF OpsAt, InLookup, Targeted
    <3>1. CASE Lock(c)
      <4>1. Fits("getPointer")
        BY <1>0, <3>1, PointsOfCall DEF Lock, CallOK
      <4> QED BY <3>1, <4>1 DEF Lock
    <3>2. CASE GetMeta(c)
      <4> DEFINE found == Found(w.run)
                 pc == IF found = "absent" THEN "dropPointer" ELSE AfterLookup(c, found)
      <4>1. w.pc = "getMeta" /\ w.op \in {"create", "get", "delete"}
        BY <1>0, <3>2 DEF GetMeta, CallOK
      <4>2. found \in {"absent", "terminal", "active"}
        BY DEF Found
      <4>3. pc \in Points_C /\ w.op \in OpsAt(pc)
        BY <4>1, <4>2, AfterLookupFits, PointsOfCall
      <4>4. w.pc \in Targeted
        BY <4>1
      <4> QED BY <3>2, <4>3, <4>4 DEF GetMeta
    <3>3. CASE DropPointer(c) \/ ClearPointer(c)
      <4>1. w.pc \in {"dropPointer", "clearPointer"} /\ w.op \in {"create", "get", "delete"}
        BY <1>0, <3>3 DEF DropPointer, ClearPointer, CallOK
      <4>2. Fits(AfterLookup(c, "absent"))
        BY <4>1, AfterLookupFits
      <4>3. CASE DropPointer(c)
        BY <4>2, <4>3 DEF DropPointer
      <4>4. CASE ClearPointer(c)
        <5>1. w.op = "create" => Fits("initRun")
          BY PointsOfCall
        <5>2. Fits("return")
          BY <4>1, PointsOfCall
        <5> QED BY <4>4, <5>1, <5>2 DEF ClearPointer
      <4> QED BY <3>3, <4>3, <4>4
    <3>4. CASE AppendCreated(c) \/ Rollback(c) \/ RollbackKeys(c) \/ Register(c)
      <4>1. /\ w.pc \in {"runCreated", "rollback", "rollbackKeys", "register"}
            /\ w.op = "create"
        BY <1>0, <3>4 DEF AppendCreated, Rollback, RollbackKeys, Register, CallOK
      <4>2. Fits("register") /\ Fits("rollback") /\ Fits("rollbackKeys") /\ Fits("returnRun")
              /\ Fits("return")
        BY <4>1, PointsOfCall
      <4> HIDE DEF Fits
      <4>3. \E pc : Enter(c, pc) /\ Fits(pc)
        BY <3>4, <4>2 DEF AppendCreated, Rollback, RollbackKeys, Register
      <4> QED BY <4>3 DEF Fits
    <3>5. CASE MarkRunDeleted(c) \/ CancelLocal(c) \/ ScanEnd(c)
      <4>1. \/ w.pc \in {"markDeleted", "nextBatch"} /\ w.op = "delete"
            \/ w.pc = "cancelLocal" /\ w.op \in {"delete", "cancel"}
        BY <1>0, <3>5 DEF MarkRunDeleted, CancelLocal, ScanEnd, CallOK
      <4>2. /\ w.pc = "markDeleted" => Fits("cancelLocal")
            /\ w.op = "delete" => Fits("scan")
            /\ w.op = "cancel" => Fits("cancelDirect")
            /\ Fits("return")
        BY <4>1, PointsOfCall
      <4> HIDE DEF Fits
      <4>3. \E pc : Enter(c, pc) /\ Fits(pc)
        BY <3>5, <4>1, <4>2 DEF MarkRunDeleted, CancelLocal, ScanEnd
      <4> QED BY <4>3 DEF Fits
    <3>6. CASE ReadTarget(c) \/ CancelDirect(c)
      <4>1. w.pc \in {"readTarget", "cancelDirect"} /\ w.op = "cancel"
        BY <1>0, <3>6 DEF ReadTarget, CancelDirect, CallOK
      <4>2. Fits("cancelLocal") /\ Fits("return")
        BY <4>1, PointsOfCall
      <4> HIDE DEF Fits
      <4>3. \E pc : Enter(c, pc) /\ Fits(pc)
        BY <3>6, <4>2 DEF ReadTarget, CancelDirect
      <4> QED BY <4>3 DEF Fits
    <3>7. CASE Return(c) \/ Abandon(c)
      <4>1. w.pc \notin {"ready", "done"} /\ w.op \in {"create", "get", "delete", "cancel"}
        BY <1>0, <3>7 DEF Return, Abandon, CallOK
      <4>2. Fits("done") /\ Fits("return")
        BY <4>1, PointsOfCall
      <4> HIDE DEF Fits
      <4>3. \E pc : Enter(c, pc) /\ Fits(pc)
        BY <3>7, <4>2 DEF Return, Abandon
      <4> QED BY <4>3 DEF Fits
    <3> QED BY <1>7, <3>1, <3>2, <3>3, <3>4, <3>5, <3>6, <3>7
  <2> QED BY <1>0, <2>1, EnterMoves
<1> QED BY <1>1, <1>2, <1>3, <1>4, <1>6, <1>7, <1>8, <1>9 DEF CallAction, CallStep
\* A deletion names keys of one session.
LEMMA DelDrives == ASSUME NEW s \in Sessions, NEW K \in SUBSET KeysOf(s), Del(K) PROVE StoreNext
BY DEF StoreNext

LEMMA CallDrives ==
  ASSUME CallsOK, NEW c \in Calls, CallAction(c)
  PROVE  [StoreNext]_storeVars
<1> DEFINE w == call[c]
<1> USE DEF In
<1>0. CallOK(w)
  BY DEF CallsOK
<1>1. CASE Local
  BY <1>1 DEF Local
<1>2. CASE CallInitRun(c)
  BY <1>2, ScriptIs, ScriptDrives DEF CallInitRun
<1>3. CASE AppendCreated(c)
  <2>1. w.run \in Runs
    BY <1>0, <1>3 DEF AppendCreated, CallOK, Targeted
  <2> QED BY <1>3, <2>1, PlainNotes, ScriptIs, ScriptDrives DEF AppendCreated
<1>4. CASE CancelDirect(c)
  <2>1. w.run \in Runs
    BY <1>0, <1>4 DEF CancelDirect, CallOK, Targeted
  <2> QED BY <1>4, <2>1, OwnReasons, ScriptIs, ScriptDrives DEF CancelDirect
<1>8. CASE \E reply \in Replies : In(c, "initAgain") /\ InitAgain(w.run, reply)
  <2>1. w.run \in Runs
    BY <1>0, <1>8 DEF CallOK, Targeted
  <2> QED BY <1>8, <2>1, ScriptIs, ScriptDrives
<1>5. CASE w.pc \in {"clearPointer", "rollback"} /\ ClearCurrentRunIfMatches(w.sess, w.run)
  <2>1. w.pc \in {"clearPointer", "rollback"}
    BY <1>5
  <2>2. w.run \in Runs /\ w.op # "none"
    BY <1>0, <2>1 DEF CallOK, Targeted, OpsAt, InLookup
  <2>3. w.sess \in Sessions
    BY <1>0, <2>2 DEF CallOK
  <2> QED BY <1>5, <2>2, <2>3 DEF StoreNext
<1>6. CASE \/ In(c, "dropPointer") /\ Del({CurrentKey(w.sess)})
           \/ In(c, "rollbackKeys") /\ Del({MetaKey(w.run), EventsKey(w.run)})
           \/ In(c, "delBatch") /\ Del(w.batch)
  <2>1. w.pc \in {"dropPointer", "rollbackKeys", "delBatch"}
    BY <1>6
  <2>2. w.op # "none"
    BY <1>0, <2>1 DEF CallOK, OpsAt, InLookup
  <2>3. w.sess \in Sessions /\ w.batch \subseteq KeysOf(w.sess)
    BY <1>0, <2>2 DEF CallOK
  <2>4. CASE Del({CurrentKey(w.sess)})
    BY <2>3, <2>4, DelDrives DEF KeysOf
  <2>5. CASE In(c, "rollbackKeys") /\ Del({MetaKey(w.run), EventsKey(w.run)})
    <3>1. w.run \in Runs /\ SessionOf[w.run] = w.sess
      BY <1>0, <2>5 DEF CallOK, Targeted
    <3>2. {MetaKey(w.run), EventsKey(w.run)} \in SUBSET KeysOf(w.sess)
      BY <3>1 DEF KeysOf
    <3> QED BY <2>3, <2>5, <3>2, DelDrives
  <2>6. CASE Del(w.batch)
    BY <2>3, <2>6, DelDrives
  <2> QED BY <1>6, <2>4, <2>5, <2>6
<1>7. CASE CallUnanswered(c)
  <2>1. In(c, "runCreated") \/ In(c, "cancelDirect") => w.run \in Runs
    BY <1>0 DEF CallOK, Targeted
  <2>2. ASSUME NEW reply \in Replies,
               \/ In(c, "runCreated") /\ AppendEvent(w.run, Plain("run_created"), reply)
               \/ In(c, "cancelDirect") /\ FinishRun(w.run, "cancelled", reply)
        PROVE  [StoreNext]_storeVars
    BY <2>1, <2>2, PlainNotes, OwnReasons, ScriptIs, ScriptDrives
  <2> QED BY <1>5, <1>6, <1>7, <1>8, <2>2 DEF CallUnanswered
<1>9. CASE CallInitAgain(c) \/ ClearPointer(c) \/ (Rollback(c) /\ ~ Local)
  BY <1>5, <1>8, <1>9 DEF CallInitAgain, ClearPointer, Rollback
<1>10. CASE (DropPointer(c) \/ RollbackKeys(c) \/ DelBatch(c)) /\ ~ Local
  BY <1>6, <1>10 DEF DropPointer, RollbackKeys, DelBatch
<1>11. \/ Local \/ CallInitRun(c) \/ AppendCreated(c) \/ CancelDirect(c) \/ ClearPointer(c)
       \/ Rollback(c) \/ DropPointer(c) \/ RollbackKeys(c) \/ DelBatch(c)
       \/ CallInitAgain(c) \/ CallUnanswered(c)
  BY DEF CallAction, CallStep, StartCall, StartCancel, Lock, GetPointer, GetMeta, Register,
     MarkRunDeleted, CancelLocal, ScanStart, ScanBatch, ScanEnd, ReadTarget, Return, Abandon
<1> QED BY <1>1, <1>2, <1>3, <1>4, <1>7, <1>9, <1>10, <1>11

-----------------------------------------------------------------------------
(* Steps *)

\* What a step does, as the proofs below look at it: a call or a goroutine acts, a key
\* expires, an instance dies, or nothing happens.
LEMMA Steps ==
  ASSUME [Next]_vars
  PROVE  \/ /\ Recorded
            /\ \/ \E c \in Calls : CallAction(c) /\ UNCHANGED crashes
               \/ \E r \in Runs : WorkerStep(r) /\ UNCHANGED <<callVars, crashes>>
               \/ Expire /\ UNCHANGED <<workerVars, callVars, crashes>>
               \/ \E i \in Instances : Crash(i)
         \/ UNCHANGED vars
BY DEF Next, Step, Quiet, CallAction

LEMMA ServiceDrives ==
  ASSUME WorkerKnows, CallsOK, [Next]_vars
  PROVE  [StoreNext]_storeVars
<1>1. CASE \E c \in Calls : CallAction(c)
  BY <1>1, CallDrives
<1>2. CASE \E r \in Runs : WorkerStep(r)
  BY <1>2, WorkerDrives
<1>3. CASE Expire
  BY <1>3 DEF StoreNext
<1>4. CASE \E i \in Instances : Crash(i)
  BY <1>4 DEF Crash, Local
<1>5. CASE UNCHANGED vars
  BY <1>5 DEF vars
<1> QED BY <1>1, <1>2, <1>3, <1>4, <1>5, Steps
-----------------------------------------------------------------------------
(* Type correctness *)

\* The inductive invariant of the service: what Redis holds is as RunStore promises, and
\* what goroutines and calls remember fits it.
SInv == IInv /\ TypeOK /\ WorkerKnows /\ CallsOK /\ TargetsIssued

LEMMA InitSInv == Init => SInv
<1> SUFFICES ASSUME Init PROVE SInv
  OBVIOUS
<1>1. IInv
  BY InitIInv DEF Init
<1>2. WorkerTypeOK /\ WorkerKnows
  <2>1. "absent" \in Points /\ AgentEvents \in 0..AgentEvents
    BY PointsOfWorker, WorkerAssumption DEF WorkerAssumption
  <2> QED BY <2>1 DEF Init, WorkerInit, WorkerTypeOK, WorkerKnows, Goroutine
<1>3. call \in [Calls -> CallState] /\ CallsOK /\ TargetsIssued
  <2>1. "ready" \in Points_C /\ "none" \in OpsAt("ready") /\ "ready" \notin Targeted
    BY PointsOfCall DEF OpsAt, InLookup, Targeted
  <2> QED BY <2>1 DEF Init, CallState, CallsOK, CallOK, TargetsIssued
<1>4. TypeOK
  <2>1. 0 \in 0..MaxCrashes
    BY ServiceAssumption DEF ServiceAssumption
  <2> QED BY <1>1, <1>2, <1>3, <2>1 DEF TypeOK, Init, IInv
<1> QED BY <1>1, <1>2, <1>3, <1>4 DEF SInv

\* The calls after a step of one of them.
LEMMA CallsAfter ==
  ASSUME TypeOK, CallsOK, TargetsIssued, NEW c \in Calls, issued \subseteq issued', CallMoved(c)
  PROVE  CallTyped' /\ CallsOK' /\ TargetsIssued'
<1>1. PICK k \in CallState : /\ call' = [call EXCEPT ![c] = k]
                             /\ CallOK(k)
                             /\ k.pc \in Targeted => k.run \in issued'
  BY DEF CallMoved
<1>2. call'[c] = k /\ \A d \in Calls \ {c} : call'[d] = call[d]
  BY <1>1 DEF TypeOK
<1> QED BY <1>1, <1>2 DEF TypeOK, CallTyped, CallsOK, TargetsIssued

\* The goroutines and the registry after a step of a call.
LEMMA WorkersAfterCall ==
  ASSUME SInv, NEW c \in Calls, CallAction(c), issued \subseteq issued'
  PROVE  WorkerTypeOK' /\ WorkerKnows'
<1> DEFINE w == call[c]
<1> USE DEF In
<1>0. CallOK(w) /\ WorkerTypeOK /\ WorkerKnows
  BY DEF SInv, CallsOK, TypeOK
<1>1. CASE UNCHANGED workerVars
  BY <1>0, <1>1 DEF WorkerTypeOK, WorkerKnows, workerVars
<1>2. CASE Register(c) \/ MarkRunDeleted(c) \/ CancelLocal(c)
  <2>1. w.pc \in {"register", "markDeleted", "cancelLocal"}
    BY <1>2 DEF Register, MarkRunDeleted, CancelLocal
  <2>2. w.run \in Runs /\ w.op # "none"
    BY <1>0, <2>1 DEF CallOK, Targeted, OpsAt, InLookup
  <2>3. w.inst \in Instances /\ w.run \in issued'
    BY <1>0, <2>1, <2>2 DEF CallOK, SInv, TargetsIssued, Targeted
  <2>4. CASE MarkRunDeleted(c)
    BY <1>0, <2>2, <2>3, <2>4 DEF MarkRunDeleted, WorkerTypeOK, WorkerKnows, hooks
  <2>5. CASE CancelLocal(c)
    BY <1>0, <2>2, <2>3, <2>5 DEF CancelLocal, WorkerTypeOK, WorkerKnows, hooks, registry, cancel
  <2>6. CASE Register(c)
    <3> DEFINE k == [worker[w.run] EXCEPT !.pc = "enter", !.inst = w.inst]
    <3>1. worker[w.run] \in Goroutine /\ "enter" \in Points
      BY <1>0, <2>2, PointsOfWorker DEF WorkerTypeOK
    <3>2. k \in Goroutine
      BY <2>3, <3>1 DEF Goroutine
    <3>3. k.pc = "enter" /\ k.inst = w.inst
      BY <3>1 DEF Goroutine
    <3>4. worker' = [worker EXCEPT ![w.run] = k]
      BY <2>6 DEF Register
    <3> HIDE DEF k
    <3>5. /\ worker' \in [Runs -> Goroutine] /\ worker'[w.run] = k
          /\ \A q \in Runs \ {w.run} : worker'[q] = worker[q]
      BY <1>0, <2>2, <3>2, <3>4, Replaced
    <3>6. WorkerKnows'
      BY <1>0, <2>3, <3>3, <3>5 DEF WorkerKnows
    <3>7. WorkerTypeOK'
      BY <1>0, <2>2, <2>3, <2>6, <3>5 DEF Register, WorkerTypeOK, hooks
    <3> QED BY <3>6, <3>7
  <2> QED BY <1>2, <2>4, <2>5, <2>6
<1>3. UNCHANGED workerVars \/ Register(c) \/ MarkRunDeleted(c) \/ CancelLocal(c)
  BY DEF CallAction, CallStep, StartCall, StartCancel, Lock, GetPointer, GetMeta, DropPointer,
     ClearPointer, CallInitRun, CallInitAgain, AppendCreated, Rollback, RollbackKeys, ScanStart,
     ScanBatch, DelBatch, ScanEnd, ReadTarget, CancelDirect, Return, Abandon, CallUnanswered
<1> QED BY <1>1, <1>2, <1>3

\* The locks, and the ids that were returned, after a step of a call.
LEMMA LocksAfterCall ==
  ASSUME SInv, NEW c \in Calls, CallAction(c), issued \subseteq issued'
  PROVE  lock' \in [Instances -> [Sessions -> Calls \cup {Free}]] /\ known' \subseteq issued'
<1> DEFINE w == call[c]
<1> USE DEF In
<1>0. /\ CallOK(w) /\ known \subseteq issued
      /\ lock \in [Instances -> [Sessions -> Calls \cup {Free}]]
  BY DEF SInv, CallsOK, TypeOK
<1>1. CASE UNCHANGED <<lock, known>>
  BY <1>0, <1>1
<1>2. CASE Lock(c)
  <2>1. w.inst \in Instances /\ w.sess \in Sessions
    BY <1>0, <1>2 DEF Lock, CallOK, OpsAt, InLookup
  <2> QED BY <1>0, <1>2, <2>1 DEF Lock
<1>3. CASE Return(c)
  <2>1. w.pc = "returnRun" => w.run \in issued
    BY DEF SInv, TargetsIssued, Targeted
  <2> QED BY <1>0, <1>3, <2>1 DEF Return
<1>4. UNCHANGED <<lock, known>> \/ Lock(c) \/ Return(c)
  BY DEF CallAction, CallStep, StartCall, StartCancel, GetPointer, GetMeta, DropPointer,
     ClearPointer, CallInitRun, CallInitAgain, AppendCreated, Rollback, RollbackKeys, Register,
     MarkRunDeleted, CancelLocal, ScanStart, ScanBatch, DelBatch, ScanEnd, ReadTarget, CancelDirect,
     Abandon, CallUnanswered
<1> QED BY <1>1, <1>2, <1>3, <1>4
\* What is left when an instance has died.
LEMMA AfterCrash ==
  ASSUME SInv, NEW i \in Instances, Crash(i)
  PROVE  /\ WorkerTypeOK' /\ WorkerKnows' /\ CallTyped' /\ CallsOK' /\ TargetsIssued'
         /\ lock' \in [Instances -> [Sessions -> Calls \cup {Free}]]
         /\ UNCHANGED <<known, issued>> /\ crashes' \in 0..MaxCrashes
<1>0. /\ WorkerTypeOK /\ WorkerKnows /\ CallsOK /\ TargetsIssued /\ CallTyped
      /\ lock \in [Instances -> [Sessions -> Calls \cup {Free}]]
      /\ UNCHANGED <<known, issued>> /\ crashes \in 0..MaxCrashes
  BY DEF SInv, TypeOK, CallTyped, Crash, Local, storeVars
<1>1. "crashed" \in Points /\ "done" \in Points_C
  BY PointsOfWorker, PointsOfCall
<1>2. worker' \in [Runs -> Goroutine] /\ WorkerKnows'
  <2>1. ASSUME NEW r \in Runs
        PROVE  /\ [worker[r] EXCEPT !.pc = "crashed"] \in Goroutine
               /\ [worker[r] EXCEPT !.pc = "crashed"].pc = "crashed"
               /\ [worker[r] EXCEPT !.pc = "crashed"].inst = worker[r].inst
    <3>1. worker[r] \in Goroutine
      BY <1>0 DEF WorkerTypeOK
    <3> QED BY <1>1, <3>1 DEF Goroutine
  <2>2. \A r \in Runs :
          \/ worker'[r] = worker[r]
          \/ worker[r].pc \in Running /\ worker'[r] = [worker[r] EXCEPT !.pc = "crashed"]
    BY DEF Crash
  <2>3. worker' \in [Runs -> Goroutine]
    BY <1>0, <2>1, <2>2 DEF Crash, WorkerTypeOK
  <2>4. "absent" \notin Running
    BY DEF Running, Streaming
  <2> QED BY <1>0, <2>1, <2>2, <2>3, <2>4 DEF WorkerKnows
<1>3. WorkerTypeOK'
  BY <1>0, <1>2 DEF Crash, WorkerTypeOK, hooks
<1>4. CallTyped' /\ CallsOK' /\ TargetsIssued'
  <2>1. \A c \in Calls :
          LET k == [call[c] EXCEPT !.pc = "done"] IN
          /\ k \in CallState /\ k.pc = "done" /\ k.op = call[c].op /\ k.inst = call[c].inst
          /\ k.sess = call[c].sess /\ k.todo = call[c].todo /\ k.batch = call[c].batch
          /\ k.found = call[c].found
    BY <1>0, <1>1 DEF CallTyped, CallState
  <2>2. \A c \in Calls : call'[c] \in {call[c], [call[c] EXCEPT !.pc = "done"]}
    BY DEF Crash
  <2>3. CallTyped'
    BY <1>0, <2>1, <2>2 DEF Crash, CallTyped
  <2>4. \A c \in Calls : call[c].op \in OpsAt("done")
    BY <1>0, ServiceAssumption DEF CallTyped, CallState, OpsAt, InLookup, ServiceAssumption
  <2>5. "done" \notin Targeted
    BY DEF Targeted
  <2>6. CallsOK'
    <3>1. SUFFICES ASSUME NEW c \in Calls PROVE CallOK(call'[c])
      BY DEF CallsOK, CallOK
    <3>2. CallOK(call[c])
      BY <1>0 DEF CallsOK
    <3>3. CASE call'[c] = call[c]
      BY <3>2, <3>3
    <3>4. CASE call'[c] = [call[c] EXCEPT !.pc = "done"]
      <4> DEFINE k == [call[c] EXCEPT !.pc = "done"]
      <4>1. /\ k.pc = "done" /\ k.op = call[c].op /\ k.inst = call[c].inst
            /\ k.sess = call[c].sess /\ k.todo = call[c].todo /\ k.batch = call[c].batch
            /\ k.found = call[c].found
        BY <2>1
      <4>2. k.op \in OpsAt(k.pc) /\ k.pc \notin Targeted
        BY <2>4, <2>5, <4>1
      <4> HIDE DEF k
      <4>3. CallOK(k)
        BY <3>2, <4>1, <4>2 DEF CallOK
      <4> QED BY <3>4, <4>3 DEF k
    <3> QED BY <2>2, <3>3, <3>4
  <2>7. TargetsIssued'
    BY <1>0, <2>1, <2>2, <2>5 DEF TargetsIssued
  <2> QED BY <2>3, <2>6, <2>7
<1>5. lock' \in [Instances -> [Sessions -> Calls \cup {Free}]]
  BY <1>0 DEF Crash
<1>6. crashes' \in 0..MaxCrashes
  BY <1>0, ServiceAssumption DEF Crash, ServiceAssumption
<1> QED BY <1>0, <1>2, <1>3, <1>4, <1>5, <1>6

LEMMA StepSInv == SInv /\ [Next]_vars => SInv'
<1> SUFFICES ASSUME SInv, [Next]_vars PROVE SInv'
  OBVIOUS
<1>1. IInv /\ TypeOK /\ WorkerKnows /\ CallsOK /\ TargetsIssued /\ CallTyped /\ WorkerTypeOK
  BY DEF SInv, TypeOK, CallTyped
<1>2. [StoreNext]_storeVars
  BY <1>1, ServiceDrives
<1>3. IInv' /\ StoreTypeOK'
  BY <1>1, <1>2, StepIInv DEF IInv
<1>4. issued \subseteq issued'
  BY <1>2, IssuedGrows
<1>5. CASE UNCHANGED vars
  BY <1>1, <1>3, <1>5
     DEF SInv, TypeOK, WorkerTypeOK, WorkerKnows, CallsOK, TargetsIssued, vars, workerVars,
         callVars, storeVars
<1>6. CASE Recorded
  <2>1. verdict' \in [Runs -> Terminal \cup {"none"}]
    BY <1>1, <1>6 DEF Recorded, TypeOK
  <2>2. ASSUME NEW c \in Calls, CallAction(c), UNCHANGED crashes PROVE SInv'
    <3>1. CallTyped' /\ CallsOK' /\ TargetsIssued'
      BY <1>1, <1>4, <2>2, CallMoves, CallsAfter
    <3>2. WorkerTypeOK' /\ WorkerKnows'
      BY <1>4, <2>2, WorkersAfterCall
    <3>3. lock' \in [Instances -> [Sessions -> Calls \cup {Free}]] /\ known' \subseteq issued'
      BY <1>4, <2>2, LocksAfterCall
    <3> QED BY <1>1, <1>3, <2>1, <2>2, <3>1, <3>2, <3>3 DEF SInv, TypeOK, CallTyped
  <2>3. ASSUME NEW r \in Runs, WorkerStep(r), UNCHANGED <<callVars, crashes>> PROVE SInv'
    <3>1. WorkerTypeOK' /\ WorkerKnows'
      BY <1>1, <1>4, <2>3, WorkerTypes, WorkerStillKnows
    <3>2. TargetsIssued' /\ CallsOK' /\ known' \subseteq issued'
      BY <1>1, <1>4, <2>3 DEF TargetsIssued, CallsOK, TypeOK, callVars
    <3> QED BY <1>1, <1>3, <2>1, <2>3, <3>1, <3>2 DEF SInv, TypeOK, callVars
  <2>4. CASE Expire /\ UNCHANGED <<workerVars, callVars, crashes>>
    <3>1. WorkerTypeOK' /\ WorkerKnows'
      BY <1>1, <1>4, <2>4 DEF WorkerTypeOK, WorkerKnows, workerVars
    <3>2. TargetsIssued' /\ CallsOK' /\ known' \subseteq issued'
      BY <1>1, <1>4, <2>4 DEF TargetsIssued, CallsOK, TypeOK, callVars
    <3> QED BY <1>1, <1>3, <2>1, <2>4, <3>1, <3>2 DEF SInv, TypeOK, callVars
  <2>5. ASSUME NEW i \in Instances, Crash(i) PROVE SInv'
    BY <1>1, <1>3, <2>1, <2>5, AfterCrash DEF SInv, TypeOK, CallTyped
  <2> QED BY <2>2, <2>3, <2>4, <2>5, <1>5, Steps
<1> QED BY <1>5, <1>6, Steps

LEMMA ServiceInvariant == Spec => []SInv
BY InitSInv, StepSInv, PTL DEF Spec

\* The service keeps its types: no goroutine, call, lock or registry leaves the states
\* the code has names for, whatever is lost, sent twice, expires or crashes.
THEOREM ServiceTypes == Spec => []TypeOK
BY ServiceInvariant, PTL DEF SInv

-----------------------------------------------------------------------------
(* The store under the service *)

\* However calls, goroutines, expiry and crashes interleave on any number of instances,
\* Redis is only driven as RunStore allows: no command of the service reaches it with a
\* run of another session, an event that does not fit, or keys that are not its own.
THEOREM ServiceDrivesStore == Spec => StoreSpec
<1>1. Init => StoreInit
  BY DEF Init
<1>2. SInv /\ [Next]_vars => [StoreNext]_storeVars
  BY ServiceDrives DEF SInv
<1> QED BY <1>1, <1>2, ServiceInvariant, PTL DEF Spec, StoreSpec

\* What is proved of Redis therefore holds while the service runs: a pointer never names
\* a run that has ended, and while no initRun is sent again, a stream is sealed by the
\* outcome its hash records.
THEOREM ServiceSealed == Spec => []PointerNotTerminal /\ (InitOnce => []SealedByOutcome)
<1>1. Spec => []PointerNotTerminal
  BY ServiceDrivesStore, StorePointer
<1>2. InitOnce => (Spec => []SealedByOutcome)
  BY ServiceDrivesStore, StoreSealed
<1> QED BY <1>1, <1>2

\* While no initRun is sent again, a terminal status is irreversible, and a run that is
\* gone stays gone, whatever late calls and goroutines of the service do.
THEOREM ServiceIrreversible ==
  ASSUME InitOnce PROVE Spec => TerminalIrreversible /\ ForgottenStaysForgotten
BY ServiceDrivesStore, StoreTerminalIrreversible, StoreForgotten

\* While no initRun is sent again, the composition of service, goroutines and Redis
\* implements the life of a run that RunLifecycle describes.
THEOREM ServiceRefinesLifecycle == ASSUME InitOnce PROVE Spec => LifecycleSpec
BY ServiceDrivesStore, StoreRefinesLifecycle

-----------------------------------------------------------------------------
(* Runs that have ended *)

\* Unless initRun is sent again, a run that is not active does not become active, or end,
\* again.
LEMMA InactiveStays ==
  ASSUME InitOnce, IInv, [StoreNext]_storeVars, NEW q \in issued, meta[q] \notin ActiveStatus
  PROVE  meta'[q] \in {meta[q], "none"} /\ meta'[q] \notin ActiveStatus
<1>1. q \in Runs
  BY DEF IInv, StoreTypeOK
<1>2. meta'[q] \in {meta[q], "none"}
  BY <1>1, InactiveUntouched, OtherStepsRemove DEF storeVars, InitOnce, InitAgain
<1> QED BY <1>2 DEF ActiveStatus

-----------------------------------------------------------------------------
(* One goroutine per run *)

\* The program points between initRun and the start of the worker.
Starting == {"initAgain", "runCreated", "register"}

\* A run that is being created has no goroutine yet, and one call that creates it.
FreshKept ==
    \A c \in Calls :
      call[c].pc \in Starting =>
        /\ worker[call[c].run].pc = "absent"
        /\ \A d \in Calls \ {c} : call[d].pc \in Starting => call[d].run # call[c].run

LEMMA InitFresh == Init => FreshKept
BY DEF Init, FreshKept, Starting

-----------------------------------------------------------------------------
(* How calls come to the points at which they write *)

\* The program points at which a call of CreateRun or GetRun holds on to a run.
Holding == {"initAgain", "runCreated", "register", "rollback", "rollbackKeys", "getMeta",
            "dropPointer", "clearPointer"}

\* What lies behind a step of a call to a point of Holding with the run it had before.
Source(c, pc) ==
    LET r == call[c].run IN
    /\ pc \notin {"initAgain", "getMeta"}
    /\ pc = "runCreated" => In(c, "initAgain") /\ InitAgain(r, "ok")
    /\ pc = "register" => In(c, "runCreated")
    /\ pc = "rollback" => /\ In(c, "runCreated")
                          /\ \E reply \in Replies \ {"ok"} :
                               AppendEvent(r, Plain("run_created"), reply)
    /\ pc = "rollbackKeys" => In(c, "rollback")
    /\ pc = "dropPointer" => In(c, "getMeta") /\ meta[r] = "none"
    /\ pc = "clearPointer" => In(c, "getMeta") /\ meta[r] \in Terminal

CallSource(c) ==
    LET k == call'[c] IN
    \/ k.pc \notin Holding
    \/ k.pc = "runCreated" /\ k.run \in Runs /\ InitRun(k.run, "ok")
    \/ /\ k.pc = "initAgain" /\ k.run \in Runs /\ k.run \in issued' /\ ~ InitOnce
       /\ \E reply \in Replies : InitRun(k.run, reply)
    \/ k = call[c] /\ CallUnanswered(c)
    \/ k.pc = "getMeta" /\ k.run = Pointer(c) /\ k.run # NoRun /\ call[c].sess \in Sessions
    \/ k.run = call[c].run /\ Source(c, k.pc)

LEMMA EnterEffect ==
  ASSUME CallTyped, NEW c \in Calls, NEW pc \in Points_C, Enter(c, pc)
  PROVE  /\ call'[c].pc = pc /\ call'[c].run = call[c].run
         /\ \A d \in Calls \ {c} : call'[d] = call[d]
<1> DEFINE k == [call[c] EXCEPT !.pc = pc]
<1>1. call[c] \in CallState
  BY DEF CallTyped
<1>2. k.pc = pc /\ k.run = call[c].run
  BY <1>1 DEF CallState
<1>3. call' = [call EXCEPT ![c] = k]
  BY DEF Enter
<1> HIDE DEF k
<1> QED BY <1>2, <1>3 DEF CallTyped

LEMMA CallSources ==
  ASSUME SInv, NEW c \in Calls, CallAction(c)
  PROVE  CallSource(c)
<1> DEFINE w == call[c]
<1>0. CallTyped /\ CallOK(w) /\ w \in CallState
  BY DEF SInv, TypeOK, CallTyped, CallsOK
<1> USE DEF In
<1>1. CASE StartCall(c)
  <2>1. PICK op \in Ops \ {"cancel"}, i \in Instances, s \in Sessions :
          call' = [call EXCEPT ![c] = [@ EXCEPT !.op = op, !.inst = i, !.sess = s,
                     !.pc = IF op = "get" THEN "getPointer" ELSE "lock"]]
    BY <1>1 DEF StartCall
  <2> DEFINE pc == IF op = "get" THEN "getPointer" ELSE "lock"
             k == [call[c] EXCEPT !.op = op, !.inst = i, !.sess = s, !.pc = pc]
  <2>2. pc \notin Holding
    BY DEF Holding
  <2>3. call'[c] = k
    BY <1>0, <2>1 DEF CallTyped
  <2> HIDE DEF pc
  <2>4. k.pc = pc
    BY <1>0 DEF CallState
  <2> QED BY <2>2, <2>3, <2>4 DEF CallSource
<1>2. CASE StartCancel(c)
  <2>1. PICK i \in Instances, r \in known :
          call' = [call EXCEPT ![c] = [@ EXCEPT !.op = "cancel", !.inst = i,
                     !.sess = SessionOf[r], !.run = r, !.pc = "readTarget"]]
    BY <1>2 DEF StartCancel
  <2> DEFINE k == [call[c] EXCEPT !.op = "cancel", !.inst = i, !.sess = SessionOf[r], !.run = r,
                                  !.pc = "readTarget"]
  <2>2. call'[c] = k
    BY <1>0, <2>1 DEF CallTyped
  <2>3. k.pc = "readTarget"
    BY <1>0 DEF CallState
  <2> QED BY <2>2, <2>3 DEF CallSource, Holding
<1>3. CASE GetPointer(c)
  <2> DEFINE run == Pointer(c)
             pc == IF run = NoRun THEN AfterLookup(c, "absent") ELSE "getMeta"
             k == [call[c] EXCEPT !.run = run, !.pc = pc]
  <2>1. w.op \in {"create", "get", "delete"} /\ w.sess \in Sessions
    BY <1>0, <1>3 DEF GetPointer, CallOK, OpsAt, InLookup
  <2>2. pc \notin Holding \/ (pc = "getMeta" /\ run # NoRun)
    BY <2>1 DEF AfterLookup, Holding
  <2>3. call'[c] = k
    BY <1>0, <1>3 DEF CallTyped, GetPointer
  <2> HIDE DEF run, pc
  <2>4. k.pc = pc /\ k.run = run
    BY <1>0 DEF CallState
  <2> HIDE DEF k
  <2> QED BY <2>1, <2>2, <2>3, <2>4 DEF CallSource, run
<1>12. ASSUME NEW r \in Runs, NEW reply, Answered(c, r, reply)
       PROVE  /\ call'[c].pc \notin Holding \/ (call'[c].pc = "runCreated" /\ reply = "ok")
              /\ call'[c].run = r
  <2> DEFINE refused == (reply = "active")
             pc == CASE reply = "ok" -> "runCreated"
                     [] reply = "active" -> "getPointer"
                     [] OTHER -> "return"
             k == [call[c] EXCEPT !.run = r, !.refused = refused, !.pc = pc]
  <2>2. pc \notin Holding \/ (pc = "runCreated" /\ reply = "ok")
    <3>1. CASE reply = "ok"
      BY <3>1
    <3>2. CASE reply = "active"
      BY <3>2 DEF Holding
    <3>3. CASE reply \notin {"ok", "active"}
      BY <3>3 DEF Holding
    <3> QED BY <3>1, <3>2, <3>3
  <2>3. call'[c] = k
    BY <1>0, <1>12 DEF CallTyped, Answered
  <2> HIDE DEF refused, pc
  <2>4. k.pc = pc /\ k.run = r
    BY <1>0 DEF CallState
  <2> QED BY <2>2, <2>3, <2>4
<1>4. CASE CallInitRun(c)
  <2>1. PICK r \in Runs, reply \in Replies :
          /\ InitRun(r, reply)
          /\ \/ Answered(c, r, reply)
             \/ /\ ~ InitOnce /\ r \in issued'
                /\ call' = [call EXCEPT ![c] = [@ EXCEPT !.run = r, !.pc = "initAgain"]]
    BY <1>4 DEF CallInitRun, InitOnce
  <2>2. CASE Answered(c, r, reply)
    BY <1>12, <2>1, <2>2 DEF CallSource
  <2>3. CASE /\ ~ InitOnce /\ r \in issued'
             /\ call' = [call EXCEPT ![c] = [@ EXCEPT !.run = r, !.pc = "initAgain"]]
    <3> DEFINE k == [call[c] EXCEPT !.run = r, !.pc = "initAgain"]
    <3>1. k.pc = "initAgain" /\ k.run = r
      BY <1>0 DEF CallState
    <3>2. call'[c] = k
      BY <1>0, <2>3 DEF CallTyped
    <3> HIDE DEF k
    <3> QED BY <2>1, <2>3, <3>1, <3>2 DEF CallSource
  <2> QED BY <2>1, <2>2, <2>3
<1>13. CASE CallInitAgain(c)
  <2>1. PICK reply \in Replies : InitAgain(w.run, reply) /\ Answered(c, w.run, reply)
    BY <1>13 DEF CallInitAgain
  <2>2. w.pc = "initAgain" /\ w.run \in Runs
    BY <1>0, <1>13 DEF CallInitAgain, CallOK, Targeted
  <2> QED BY <1>12, <2>1, <2>2 DEF CallSource, Source
<1>14. CASE CallUnanswered(c)
  BY <1>14 DEF CallUnanswered, CallSource
<1>5. CASE ScanStart(c) \/ ScanBatch(c) \/ DelBatch(c)
  <2>1. ASSUME NEW k, NEW pc \in {"nextBatch", "delBatch"}, call' = [call EXCEPT ![c] = k],
               k.pc = pc
        PROVE  CallSource(c)
    BY <1>0, <2>1 DEF CallTyped, CallSource, Holding
  <2>2. CASE ScanStart(c)
    <3> DEFINE keys == Existing(w.sess)
               k == [w EXCEPT !.pc = "nextBatch", !.todo = keys, !.found = keys]
    <3>1. k.pc = "nextBatch"
      BY <1>0 DEF CallState
    <3>2. call' = [call EXCEPT ![c] = k]
      BY <2>2 DEF ScanStart
    <3> QED BY <2>1, <3>1, <3>2
  <2>3. CASE ScanBatch(c)
    <3>1. PICK K : call' = [call EXCEPT ![c] = [@ EXCEPT !.pc = "delBatch", !.batch = K,
                                                         !.todo = call[c].todo \ K]]
      BY <2>3 DEF ScanBatch
    <3> DEFINE todo == call[c].todo \ K
               k == [w EXCEPT !.pc = "delBatch", !.batch = K, !.todo = todo]
    <3>2. k.pc = "delBatch"
      BY <1>0 DEF CallState
    <3> QED BY <2>1, <3>1, <3>2
  <2>4. CASE DelBatch(c)
    <3> DEFINE k == [w EXCEPT !.pc = "nextBatch", !.batch = {}]
    <3>1. k.pc = "nextBatch"
      BY <1>0 DEF CallState
    <3>2. call' = [call EXCEPT ![c] = k]
      BY <2>4 DEF DelBatch
    <3> QED BY <2>1, <3>1, <3>2
  <2> QED BY <1>5, <2>2, <2>3, <2>4
<1>6. ASSUME \E pc \in Points_C : Enter(c, pc) /\ (pc \notin Holding \/ Source(c, pc))
      PROVE  CallSource(c)
  BY <1>0, <1>6, EnterEffect DEF CallSource
<1>7. CASE GetMeta(c)
  <2> DEFINE found == Found(w.run)
             pc == IF found = "absent" THEN "dropPointer" ELSE AfterLookup(c, found)
  <2>1. w.pc = "getMeta" /\ w.op \in {"create", "get", "delete"} /\ w.run \in Runs
    BY <1>0, <1>7 DEF GetMeta, CallOK, OpsAt, InLookup, Targeted
  <2>2. w.run # NoRun
    BY <2>1, StoreAssumption DEF StoreAssumption
  <2>3. /\ found \in {"absent", "terminal", "active"}
        /\ found = "absent" => meta[w.run] = "none"
        /\ found = "terminal" => meta[w.run] \in Terminal
    BY <2>2 DEF Found
  <2>4. pc \in Points_C
    BY <2>1, <2>3, AfterLookupFits, PointsOfCall
  <2>5. pc \in Holding => \/ pc = "dropPointer" /\ found = "absent"
                          \/ pc = "clearPointer" /\ found = "terminal"
    BY <2>1, <2>3 DEF AfterLookup, Holding
  <2>6. Enter(c, pc)
    BY <1>7 DEF GetMeta
  <2> HIDE DEF pc, found
  <2>7. pc \notin Holding \/ Source(c, pc)
    BY <2>1, <2>3, <2>5 DEF Source
  <2> QED BY <1>6, <2>4, <2>6, <2>7
<1>8. CASE AppendCreated(c)
  <2>1. PICK reply \in Replies :
          /\ AppendEvent(w.run, Plain("run_created"), reply)
          /\ Enter(c, IF reply = "ok" THEN "register" ELSE "rollback")
    BY <1>8 DEF AppendCreated
  <2>2. w.pc = "runCreated"
    BY <1>8 DEF AppendCreated
  <2>3. CASE reply = "ok"
    BY <1>6, <2>1, <2>2, <2>3, PointsOfCall DEF Source
  <2>4. CASE reply # "ok"
    BY <1>6, <2>1, <2>2, <2>4, PointsOfCall DEF Source
  <2> QED BY <2>3, <2>4
<1>9. CASE Rollback(c)
  <2>1. Source(c, "rollbackKeys") /\ "return" \notin Holding
    BY <1>9 DEF Rollback, Source, Holding
  <2> QED BY <1>6, <1>9, <2>1, PointsOfCall DEF Rollback
<1>10. CASE DropPointer(c)
  <2>1. w.op \in {"create", "get", "delete"}
    BY <1>0, <1>10 DEF DropPointer, CallOK, OpsAt, InLookup
  <2>2. AfterLookup(c, "absent") \in Points_C \ Holding
    BY <2>1, PointsOfCall DEF AfterLookup, Holding
  <2> QED BY <1>6, <1>10, <2>2 DEF DropPointer
<1>11. CASE \/ Lock(c) \/ ClearPointer(c) \/ RollbackKeys(c) \/ Register(c) \/ MarkRunDeleted(c)
            \/ CancelLocal(c) \/ ScanEnd(c) \/ ReadTarget(c) \/ CancelDirect(c) \/ Return(c)
            \/ Abandon(c)
  <2> DEFINE Quiet_C == {"getPointer", "initRun", "return", "returnRun", "cancelLocal", "scan",
                         "cancelDirect", "done"}
  <2>1. \A pc \in Quiet_C : pc \in Points_C /\ pc \notin Holding
    BY PointsOfCall DEF Holding
  <2>2. \E pc \in Quiet_C : Enter(c, pc)
    BY <1>11 DEF Lock, ClearPointer, RollbackKeys, Register, MarkRunDeleted, CancelLocal, ScanEnd,
       ReadTarget, CancelDirect, Return, Abandon
  <2> QED BY <1>6, <2>1, <2>2
<1> QED BY <1>1, <1>2, <1>3, <1>4, <1>5, <1>7, <1>8, <1>9, <1>10, <1>11, <1>13, <1>14
        DEF CallAction, CallStep

-----------------------------------------------------------------------------
(* A run is started once *)

LEMMA OthersStay ==
  ASSUME SInv, NEW c \in Calls, CallAction(c), issued \subseteq issued'
  PROVE  \A d \in Calls \ {c} : call'[d] = call[d]
<1>1. CallMoved(c)
  BY CallMoves DEF SInv
<1> QED BY <1>1 DEF CallMoved, SInv, TypeOK

\* The goroutines after a step of a call.
LEMMA StartsOne ==
  ASSUME SInv, NEW c \in Calls, CallAction(c)
  PROVE  \/ worker' = worker
         \/ /\ Register(c)
            /\ \A r \in Runs \ {call[c].run} : worker'[r] = worker[r]
<1>1. worker' = worker \/ Register(c)
  BY DEF CallAction, CallStep, StartCall, StartCancel, Lock, GetPointer, GetMeta,
     DropPointer, ClearPointer, CallInitRun, CallInitAgain, AppendCreated, Rollback, RollbackKeys,
     MarkRunDeleted, CancelLocal, ScanStart, ScanBatch, DelBatch, ScanEnd, ReadTarget,
     CancelDirect, Return, Abandon, CallUnanswered, workerVars
<1> QED BY <1>1 DEF Register, SInv, TypeOK, WorkerTypeOK

LEMMA FreshAfterCall ==
  ASSUME SInv, FreshKept, NEW c \in Calls, CallAction(c), issued \subseteq issued'
  PROVE  FreshKept'
<1>0. WorkerKnows /\ WorkerTypeOK /\ TargetsIssued /\ Starting \subseteq Targeted
  BY DEF SInv, TypeOK, Starting, Targeted
<1>1. \A d \in Calls \ {c} : call'[d] = call[d]
  BY OthersStay
<1>2. call'[c].pc \in Starting =>
        \/ call'[c].run \in Runs \ issued
        \/ call[c].pc \in Starting /\ call'[c].run = call[c].run
  BY CallSources, InitReply DEF CallSource, Source, Starting, Holding, In
<1>3. ASSUME NEW d \in Calls, call'[d].pc \in Starting PROVE worker'[call'[d].run].pc = "absent"
  <2> DEFINE r == call'[d].run
  <2>1. worker[r].pc = "absent" /\ r \in Runs
    BY <1>0, <1>1, <1>2, <1>3 DEF FreshKept, Starting, WorkerKnows, SInv, CallsOK, CallOK, Targeted
  <2>2. CASE worker' = worker
    BY <2>1, <2>2
  <2>3. CASE Register(c) /\ \A q \in Runs \ {call[c].run} : worker'[q] = worker[q]
    <3>1. call[c].pc = "register" /\ call'[c].pc = "returnRun"
      BY <2>3, EnterEffect, PointsOfCall DEF Register, In, SInv, TypeOK, CallTyped
    <3>2. d # c /\ call[d].pc \in Starting
      BY <1>1, <1>3, <3>1 DEF Starting
    <3>3. r # call[c].run
      BY <1>1, <3>1, <3>2 DEF FreshKept, Starting
    <3> QED BY <2>1, <2>3, <3>3
  <2> QED BY <2>2, <2>3, StartsOne
<1>4. ASSUME NEW d \in Calls, NEW e \in Calls \ {d},
             call'[d].pc \in Starting, call'[e].pc \in Starting
      PROVE  call'[d].run # call'[e].run
  <2>1. ASSUME NEW a \in Calls \ {c}, call'[a].pc \in Starting, call'[c].pc \in Starting
        PROVE  call'[a].run # call'[c].run
    <3>1. call[a].pc \in Starting /\ call'[a] = call[a] /\ call[a].run \in issued
      BY <1>0, <1>1, <2>1 DEF TargetsIssued
    <3> QED BY <1>2, <2>1, <3>1 DEF FreshKept, Starting
  <2> QED BY <1>1, <1>4, <2>1 DEF FreshKept
<1> QED BY <1>3, <1>4 DEF FreshKept

LEMMA StepFresh == SInv /\ FreshKept /\ [Next]_vars => FreshKept'
<1> SUFFICES ASSUME SInv, FreshKept, [Next]_vars PROVE FreshKept'
  OBVIOUS
<1>1. issued \subseteq issued'
  BY ServiceDrives, IssuedGrows DEF SInv
<1>2. ASSUME NEW c \in Calls, CallAction(c) PROVE FreshKept'
  BY <1>1, <1>2, FreshAfterCall
<1>3. ASSUME NEW q \in Runs, WorkerStep(q), UNCHANGED callVars PROVE FreshKept'
  <2>1. worker[q].pc # "absent" /\ \A r \in Runs \ {q} : worker'[r] = worker[r]
    BY <1>3, WorkerGoroutine DEF GoroutineStep, SInv, TypeOK
  <2>2. \A c \in Calls : call[c].pc \in Starting => call[c].run \in Runs
    BY DEF SInv, CallsOK, CallOK, Targeted, Starting
  <2> QED BY <1>3, <2>1, <2>2 DEF FreshKept, callVars
<1>4. ASSUME NEW i \in Instances, Crash(i) PROVE FreshKept'
  <2>1. \A c \in Calls : call'[c].pc \in Starting => call'[c] = call[c]
    <3> SUFFICES ASSUME NEW c \in Calls, call'[c] = [call[c] EXCEPT !.pc = "done"]
                 PROVE  call'[c].pc \notin Starting
      BY <1>4 DEF Crash
    <3>1. call[c] \in CallState
      BY DEF SInv, TypeOK
    <3> QED BY <3>1 DEF CallState, Starting
  <2>2. \A r \in Runs : worker[r].pc = "absent" => worker'[r] = worker[r]
    BY <1>4 DEF Crash, Running, Streaming
  <2>3. \A c \in Calls : call[c].pc \in Starting => call[c].run \in Runs
    BY DEF SInv, CallsOK, CallOK, Targeted, Starting
  <2> QED BY <2>1, <2>2, <2>3 DEF FreshKept
<1>5. CASE UNCHANGED <<workerVars, callVars>>
  BY <1>5 DEF FreshKept, workerVars, callVars
<1> QED BY <1>2, <1>3, <1>4, <1>5, Steps DEF vars

\* A run is executed once: the call that registers it finds no goroutine of it on any
\* instance, and no other call is about to start one.
THEOREM ExecutedOnce ==
  Spec => [](\A c \in Calls : call[c].pc = "register" => worker[call[c].run].pc = "absent")
<1>1. FreshKept => \A c \in Calls : call[c].pc = "register" => worker[call[c].run].pc = "absent"
  BY DEF FreshKept, Starting
<1> QED BY <1>1, InitFresh, StepFresh, ServiceInvariant, PTL DEF Spec

-----------------------------------------------------------------------------
(* One active run *)

\* What Redis holds of a run stays: no call deletes, no key expires, no lost reply makes
\* CreateRun undo what it did, and nobody cancels a run that CreateRun has not started,
\* whose id only GetRun could have told.
KeysStay ==
    /\ "delete" \notin Ops /\ ~ ({"get", "cancel"} \subseteq Ops)
    /\ ~ Expires /\ "lost" \notin Faults

\* The pointer of a session names its active run, and a run that was created is found.
PointerKept ==
    /\ \A r \in issued : meta[r] # "none"
    /\ \A r \in Runs : meta[r] \in ActiveStatus => current[SessionOf[r]] = r

\* No call takes anything away from an active run: initRun's run is active until its
\* worker is started, a pointer is only cleared for a run that has ended.
CallsHarmless ==
    \A c \in Calls :
      /\ call[c].pc \notin {"rollback", "rollbackKeys", "dropPointer"}
      /\ call[c].pc \in Starting => meta[call[c].run] \in ActiveStatus
      /\ call[c].pc = "clearPointer" => meta[call[c].run] \in Terminal

\* The points of a call whose run a client knows, or will know.
Public == {"returnRun", "readTarget", "cancelLocal", "cancelDirect"}

\* Without GetRun, a client only learns the id of a run that has a goroutine.
StartedKnown ==
    "get" \notin Ops =>
      /\ \A r \in known : worker[r].pc # "absent"
      /\ \A c \in Calls : call[c].pc \in Public => worker[call[c].run].pc # "absent"

LEMMA InitOneActive == Init => PointerKept /\ CallsHarmless /\ StartedKnown
BY DEF Init, StoreInit, PointerKept, CallsHarmless, StartedKnown, Public, Starting, ActiveStatus

\* How a call comes to a public point.
LEMMA PublicSources ==
  ASSUME KeysStay, "get" \notin Ops, SInv, NEW c \in Calls, CallAction(c), call'[c].pc \in Public
  PROVE  \/ call'[c].run \in known
         \/ call'[c].run = call[c].run /\ (Register(c) \/ call[c].pc \in Public)
<1> DEFINE w == call[c]
<1>0. CallTyped /\ CallOK(w) /\ w \in CallState /\ w.op \in {"none", "create", "cancel"}
  <2>1. CallTyped /\ CallOK(w) /\ w \in CallState
    BY DEF SInv, TypeOK, CallTyped, CallsOK
  <2>2. w.op \in Ops \cup {"none"}
    BY <2>1 DEF CallState
  <2> QED BY <2>1, <2>2, ServiceAssumption DEF KeysStay, ServiceAssumption
<1> USE DEF In
<1>1. w.pc \notin {"markDeleted", "scan", "nextBatch", "delBatch"}
  BY <1>0 DEF CallOK, OpsAt, InLookup
<1>2. CASE StartCall(c)
  <2>1. PICK op \in Ops \ {"cancel"}, i \in Instances, s \in Sessions :
          call' = [call EXCEPT ![c] = [@ EXCEPT !.op = op, !.inst = i, !.sess = s,
                     !.pc = IF op = "get" THEN "getPointer" ELSE "lock"]]
    BY <1>2 DEF StartCall
  <2> DEFINE pc == IF op = "get" THEN "getPointer" ELSE "lock"
             k == [call[c] EXCEPT !.op = op, !.inst = i, !.sess = s, !.pc = pc]
  <2>2. pc \notin Public
    BY DEF Public
  <2>3. call'[c] = k
    BY <1>0, <2>1 DEF CallTyped
  <2> HIDE DEF pc
  <2>4. k.pc = pc
    BY <1>0 DEF CallState
  <2> QED BY <2>2, <2>3, <2>4
<1>3. CASE StartCancel(c)
  <2>1. PICK i \in Instances, r \in known :
          call' = [call EXCEPT ![c] = [@ EXCEPT !.op = "cancel", !.inst = i,
                     !.sess = SessionOf[r], !.run = r, !.pc = "readTarget"]]
    BY <1>3 DEF StartCancel
  <2> DEFINE k == [call[c] EXCEPT !.op = "cancel", !.inst = i, !.sess = SessionOf[r], !.run = r,
                                  !.pc = "readTarget"]
  <2>2. call'[c] = k
    BY <1>0, <2>1 DEF CallTyped
  <2>3. k.run = r
    BY <1>0 DEF CallState
  <2> QED BY <2>2, <2>3
<1>4. CASE GetPointer(c)
  <2> DEFINE run == Pointer(c)
             pc == IF run = NoRun THEN AfterLookup(c, "absent") ELSE "getMeta"
             k == [call[c] EXCEPT !.run = run, !.pc = pc]
  <2>1. call'[c] = k
    BY <1>0, <1>4 DEF GetPointer, CallTyped
  <2>2. w.op = "create"
    BY <1>0, <1>4 DEF GetPointer, CallOK, OpsAt, InLookup
  <2>3. pc \notin Public
    BY <2>2 DEF AfterLookup, Public
  <2> HIDE DEF pc
  <2>4. k.pc = pc
    BY <1>0 DEF CallState
  <2> QED BY <2>1, <2>3, <2>4
<1>5. CASE GetMeta(c) \/ DropPointer(c)
  <2>1. w.op = "create"
    BY <1>0, <1>5 DEF GetMeta, DropPointer, CallOK, OpsAt, InLookup
  <2>2. PICK pc \in Points_C \ Public : Enter(c, pc)
    BY <1>5, <2>1, PointsOfCall DEF GetMeta, DropPointer, AfterLookup, Public, Found
  <2> QED BY <1>0, <2>2, EnterEffect
<1>10. ASSUME NEW r, NEW reply, Answered(c, r, reply) PROVE call'[c].pc \notin Public
  <2> DEFINE pc == CASE reply = "ok" -> "runCreated"
                     [] reply = "active" -> "getPointer"
                     [] OTHER -> "return"
             refused == (reply = "active")
             k == [call[c] EXCEPT !.run = r, !.refused = refused, !.pc = pc]
  <2>1. pc \notin Public
    BY DEF Public
  <2>2. call'[c] = k
    BY <1>0, <1>10 DEF CallTyped, Answered
  <2> HIDE DEF pc, refused
  <2>3. k.pc = pc
    BY <1>0 DEF CallState
  <2> QED BY <2>1, <2>2, <2>3
<1>6. CASE CallInitRun(c)
  <2>1. PICK r \in Runs, reply \in Replies :
          \/ Answered(c, r, reply)
          \/ call' = [call EXCEPT ![c] = [@ EXCEPT !.run = r, !.pc = "initAgain"]]
    BY <1>6 DEF CallInitRun
  <2>2. CASE call' = [call EXCEPT ![c] = [@ EXCEPT !.run = r, !.pc = "initAgain"]]
    <3> DEFINE k == [call[c] EXCEPT !.run = r, !.pc = "initAgain"]
    <3>1. k.pc = "initAgain"
      BY <1>0 DEF CallState
    <3>2. call'[c] = k
      BY <1>0, <2>2 DEF CallTyped
    <3> HIDE DEF k
    <3> QED BY <3>1, <3>2 DEF Public
  <2> QED BY <1>10, <2>1, <2>2
<1>11. CASE CallInitAgain(c)
  BY <1>10, <1>11 DEF CallInitAgain
<1>12. CASE CallUnanswered(c)
  BY <1>12 DEF CallUnanswered
<1>7. CASE Register(c)
  BY <1>0, <1>7, EnterEffect, PointsOfCall DEF Register
<1>8. CASE ReadTarget(c) \/ CancelLocal(c) \/ CancelDirect(c)
  <2>1. \E pc \in Points_C : Enter(c, pc)
    BY <1>8, PointsOfCall DEF ReadTarget, CancelLocal, CancelDirect
  <2> QED BY <1>0, <1>8, <2>1, EnterEffect DEF ReadTarget, CancelLocal, CancelDirect, Public
<1>9. CASE \/ Lock(c) \/ ClearPointer(c) \/ AppendCreated(c) \/ Rollback(c) \/ RollbackKeys(c)
           \/ Return(c) \/ Abandon(c)
  <2>1. PICK pc \in Points_C \ Public : Enter(c, pc)
    BY <1>9, PointsOfCall DEF Lock, ClearPointer, AppendCreated, Rollback, RollbackKeys, Return,
       Abandon, Public
  <2> QED BY <1>0, <2>1, EnterEffect
<1> QED BY <1>1, <1>2, <1>3, <1>4, <1>5, <1>6, <1>7, <1>8, <1>9, <1>11, <1>12
        DEF CallAction, CallStep, MarkRunDeleted, ScanStart, ScanBatch, DelBatch, ScanEnd

LEMMA StepStarted == KeysStay /\ SInv /\ StartedKnown /\ [Next]_vars => StartedKnown'
<1> SUFFICES ASSUME KeysStay, SInv, StartedKnown, [Next]_vars, "get" \notin Ops
             PROVE  StartedKnown'
  BY DEF StartedKnown
<1>0. /\ \A r \in known : r \in Runs /\ worker[r].pc # "absent"
      /\ \A c \in Calls : call[c].pc \in Public =>
             call[c].run \in Runs /\ worker[call[c].run].pc # "absent"
  <2>1. known \subseteq Runs
    BY DEF SInv, TypeOK, StoreTypeOK
  <2> QED BY <2>1 DEF StartedKnown, SInv, CallsOK, CallOK, Targeted, Public
<1>1. issued \subseteq issued'
  BY ServiceDrives, IssuedGrows DEF SInv
<1>2. ASSUME NEW c \in Calls, CallAction(c) PROVE StartedKnown'
  <2>0. Register(c) => call[c].run \in Runs /\ worker'[call[c].run].pc # "absent"
    <3> SUFFICES ASSUME Register(c) PROVE call[c].run \in Runs /\ worker'[call[c].run].pc # "absent"
      OBVIOUS
    <3> DEFINE k == [worker[call[c].run] EXCEPT !.pc = "enter", !.inst = call[c].inst]
    <3>1. call[c].run \in Runs
      BY DEF Register, In, SInv, CallsOK, CallOK, Targeted
    <3>2. worker[call[c].run] \in Goroutine
      BY <3>1 DEF SInv, TypeOK, WorkerTypeOK
    <3>3. k.pc = "enter"
      BY <3>2 DEF Goroutine
    <3>4. worker'[call[c].run] = k
      BY <3>1 DEF Register, SInv, TypeOK, WorkerTypeOK
    <3> HIDE DEF k
    <3> QED BY <3>1, <3>3, <3>4
  <2>1. \A r \in Runs : worker[r].pc # "absent" => worker'[r].pc # "absent"
    BY <1>2, <2>0, StartsOne
  <2>3. \A r \in known' : worker'[r].pc # "absent"
    <3>1. known' = known \/ (call[c].pc = "returnRun" /\ known' = known \cup {call[c].run})
      BY <1>2 DEF CallAction, CallStep, StartCall, StartCancel, Lock, GetPointer, GetMeta,
         DropPointer, ClearPointer, CallInitRun, CallInitAgain, AppendCreated, Rollback,
         RollbackKeys, Register, MarkRunDeleted, CancelLocal, ScanStart, ScanBatch, DelBatch,
         ScanEnd, ReadTarget, CancelDirect, Return, Abandon, CallUnanswered
    <3> QED BY <1>0, <2>1, <3>1 DEF Public
  <2>4. \A d \in Calls \ {c} : call'[d] = call[d]
    BY <1>1, <1>2, OthersStay
  <2>5. call'[c].pc \in Public => worker'[call'[c].run].pc # "absent"
    BY <1>0, <1>2, <2>0, <2>1, PublicSources
  <2> QED BY <1>0, <2>1, <2>3, <2>4, <2>5 DEF StartedKnown
<1>3. ASSUME NEW q \in Runs, WorkerStep(q), UNCHANGED callVars PROVE StartedKnown'
  <2>1. worker'[q].pc # "absent" /\ \A r \in Runs \ {q} : worker'[r] = worker[r]
    BY <1>3, WorkerGoroutine DEF GoroutineStep, SInv, TypeOK
  <2> QED BY <1>0, <1>3, <2>1 DEF StartedKnown, callVars
<1>4. ASSUME NEW i \in Instances, Crash(i) PROVE StartedKnown'
  <2>1. \A c \in Calls : call'[c].pc \in Public => call'[c] = call[c]
    <3> SUFFICES ASSUME NEW c \in Calls, call'[c] = [call[c] EXCEPT !.pc = "done"]
                 PROVE  call'[c].pc \notin Public
      BY <1>4 DEF Crash
    <3>1. call[c] \in CallState
      BY DEF SInv, TypeOK
    <3> QED BY <3>1 DEF CallState, Public
  <2>2. \A r \in Runs : worker[r].pc # "absent" => worker'[r].pc # "absent"
    <3> SUFFICES ASSUME NEW r \in Runs, worker'[r] = [worker[r] EXCEPT !.pc = "crashed"]
                 PROVE  worker'[r].pc # "absent"
      BY <1>4 DEF Crash
    <3>1. worker[r] \in Goroutine
      BY DEF SInv, TypeOK, WorkerTypeOK
    <3> QED BY <3>1 DEF Goroutine
  <2> QED BY <1>0, <1>4, <2>1, <2>2 DEF StartedKnown, Crash
<1>5. CASE UNCHANGED <<workerVars, callVars>>
  BY <1>0, <1>5 DEF StartedKnown, workerVars, callVars
<1> QED BY <1>2, <1>3, <1>4, <1>5, Steps DEF vars

\* A script changes the status of its own run only.
LEMMA ScriptOwn ==
  ASSUME IInv, NEW r \in Runs, NEW reply, Script(r, reply)
  PROVE  \A q \in Runs \ {r} : meta'[q] = meta[q]
<1>1. CASE InitRun(r, reply)
  BY <1>1 DEF InitRun, NotSent, IInv, StoreTypeOK, storeVars
<1>2. CASE SetRunStatus(r, reply)
  BY <1>2 DEF SetRunStatus, Rejected, NotSent, IInv, StoreTypeOK, storeVars
<1>3. CASE \E e \in Notes : AppendEvent(r, e, reply)
  BY <1>3 DEF AppendEvent, Rejected, NotSent, storeVars
<1>4. CASE \E reason \in TerminalReasons : FinishRun(r, reason, reply)
  BY <1>4 DEF FinishRun, Rejected, NotSent, IInv, StoreTypeOK, storeVars
<1>5. CASE InitAgain(r, reply)
  BY <1>5 DEF InitAgain, IInv, StoreTypeOK, storeVars
<1> QED BY <1>1, <1>2, <1>3, <1>4, <1>5 DEF Script

\* Scripts keep the pointer at the active run.
LEMMA ScriptPointer ==
  ASSUME IInv, PointerKept, NEW r \in Runs, NEW reply, Script(r, reply)
  PROVE  PointerKept'
<1>0. SessionOf \in [Runs -> Sessions]
  BY StoreAssumption DEF StoreAssumption
<1>1. CASE UNCHANGED storeVars
  BY <1>1 DEF PointerKept, storeVars
<1>2. CASE /\ current[SessionOf[r]] = NoRun /\ issued' \in {issued, issued \cup {r}}
           /\ meta' = [meta EXCEPT ![r] = "queued"]
           /\ current' = [current EXCEPT ![SessionOf[r]] = r]
  <2>1. \A q \in Runs : SessionOf[q] = SessionOf[r] => meta[q] \notin ActiveStatus
    BY <1>2, StoreAssumption DEF PointerKept, StoreAssumption
  <2> QED BY <1>0, <1>2, <2>1 DEF PointerKept, IInv, StoreTypeOK, ActiveStatus
<1>3. CASE /\ meta[r] \in ActiveStatus /\ meta' = [meta EXCEPT ![r] = "running"]
           /\ UNCHANGED <<current, issued>>
  BY <1>3 DEF PointerKept, IInv, StoreTypeOK, ActiveStatus
<1>4. CASE UNCHANGED <<meta, current, issued>>
  BY <1>4 DEF PointerKept
<1>5. ASSUME NEW reason, meta[r] \in ActiveStatus, meta' = [meta EXCEPT ![r] = StatusOf(reason)],
             current' = [s \in Sessions |->
                           IF s = SessionOf[r] /\ current[s] = r THEN NoRun ELSE current[s]],
             UNCHANGED issued
      PROVE  PointerKept'
  <2>1. StatusOf(reason) \notin ActiveStatus /\ StatusOf(reason) # "none"
    BY StatusOfTerminal DEF Terminal, ActiveStatus
  <2> QED BY <1>0, <1>5, <2>1 DEF PointerKept, IInv, StoreTypeOK
<1>6. CASE InitRun(r, reply)
  BY <1>1, <1>2, <1>6 DEF InitRun, NotSent
<1>7. CASE SetRunStatus(r, reply)
  BY <1>1, <1>3, <1>7 DEF SetRunStatus, Rejected, NotSent
<1>8. CASE \E e \in Notes : AppendEvent(r, e, reply)
  BY <1>1, <1>4, <1>8 DEF AppendEvent, Rejected, NotSent
<1>9. CASE \E reason \in TerminalReasons : FinishRun(r, reason, reply)
  BY <1>1, <1>5, <1>9 DEF FinishRun, Rejected, NotSent
<1>10. CASE InitAgain(r, reply)
  BY <1>1, <1>2, <1>10 DEF InitAgain
<1> QED BY <1>6, <1>7, <1>8, <1>9, <1>10 DEF Script

\* No script but initRun touches a run that has ended.
LEMMA EndedRejects ==
  ASSUME NEW r \in Runs, meta[r] \in Terminal, NEW reply
  PROVE  /\ SetRunStatus(r, reply) => UNCHANGED storeVars
         /\ \A e : AppendEvent(r, e, reply) => UNCHANGED storeVars
         /\ \A reason : FinishRun(r, reason, reply) => UNCHANGED storeVars
BY DEF SetRunStatus, AppendEvent, FinishRun, Rejected, NotSent, Terminal, ActiveStatus

LEMMA WorkerLeavesEnded ==
  ASSUME NEW r \in Runs, meta[r] \in Terminal, WorkerStep(r)
  PROVE  UNCHANGED storeVars
<1>1. CASE Local
  BY <1>1 DEF Local
<1>2. CASE \/ SetRunning(r) \/ AppendStarted(r) \/ AppendError(r) \/ AppendNote(r)
           \/ AppendFinish(r) \/ FinishCancelled(r) \/ FinishFailed(r) \/ Fallback(r)
           \/ Unanswered(r)
  BY <1>2, EndedRejects DEF SetRunning, AppendStarted, AppendError, AppendNote, AppendFinish,
     FinishCancelled, FinishFailed, Fallback, Unanswered
<1>3. \/ Local \/ SetRunning(r) \/ AppendStarted(r) \/ AppendError(r) \/ AppendNote(r)
      \/ AppendFinish(r) \/ FinishCancelled(r) \/ FinishFailed(r) \/ Fallback(r)
      \/ Unanswered(r)
  BY DEF WorkerStep, EndedMalformed, OwnStep, AgentStep, Ended, Checkpoint, LoopCheck, AppendCheck,
     ContextEnded, StreamFailed, ErrorCheck, Report, Leave, AgentMessage, AgentError, AgentEnd,
     WatchRunLifecycle, Timeout
<1> QED BY <1>1, <1>2, <1>3

\* Clearing the pointer at a run that has ended keeps it too.
LEMMA ClearPointerKeeps ==
  ASSUME IInv, PointerKept, NEW s \in Sessions, NEW r \in Runs, meta[r] \in Terminal,
         ClearCurrentRunIfMatches(s, r)
  PROVE  PointerKept'
BY DEF ClearCurrentRunIfMatches, PointerKept, IInv, StoreTypeOK, Terminal, ActiveStatus

\* What a call may do to Redis in this setting.
LEMMA CallWrites ==
  ASSUME KeysStay, SInv, CallsHarmless, PointerKept, NEW c \in Calls, CallAction(c)
  PROVE  \/ UNCHANGED storeVars
         \/ \E r \in Runs \ issued, reply \in Replies : InitRun(r, reply)
         \/ call[c].run \in Runs /\ \E reply \in Replies : AppendEvent(call[c].run, Plain("run_created"), reply)
         \/ \E s \in Sessions, r \in Runs : meta[r] \in Terminal /\ ClearCurrentRunIfMatches(s, r)
         \/ /\ call[c].pc = "cancelDirect" /\ call[c].run \in Runs
            /\ \E reply \in Replies : FinishRun(call[c].run, "cancelled", reply)
<1> USE DEF In
<1> DEFINE w == call[c]
<1>0. w \in CallState /\ CallOK(w) /\ w.op \in {"none", "create", "get", "cancel"}
  <2>1. w \in CallState /\ CallOK(w)
    BY DEF SInv, TypeOK, CallsOK
  <2>2. w.op \in Ops \cup {"none"}
    BY <2>1 DEF CallState
  <2> QED BY <2>1, <2>2, ServiceAssumption DEF KeysStay, ServiceAssumption
<1>1. w.pc \notin {"markDeleted", "scan", "nextBatch", "delBatch"}
  BY <1>0 DEF CallOK, OpsAt, InLookup
<1>2. w.pc \notin {"rollback", "rollbackKeys", "dropPointer"}
  BY DEF CallsHarmless
<1>3. CASE ClearPointer(c)
  <2>1. w.pc = "clearPointer" /\ ClearCurrentRunIfMatches(w.sess, w.run)
    BY <1>3 DEF ClearPointer
  <2>2. w.run \in Runs /\ w.op # "none"
    BY <1>0, <2>1 DEF CallOK, Targeted, OpsAt, InLookup
  <2>3. w.sess \in Sessions /\ meta[w.run] \in Terminal
    BY <1>0, <2>1, <2>2 DEF CallOK, CallsHarmless
  <2> QED BY <2>1, <2>2, <2>3
<1>4. CASE CallInitRun(c)
  BY <1>4, InitReply DEF CallInitRun
<1>5. CASE AppendCreated(c)
  BY <1>0, <1>5 DEF AppendCreated, CallOK, Targeted
<1>6. CASE Local
  BY <1>6 DEF Local
<1>7. CASE CancelDirect(c)
  BY <1>0, <1>7 DEF CancelDirect, CallOK, Targeted
\* The pointer at the run is there: another initRun of it is turned away.
<1>8. ASSUME w.pc = "initAgain", NEW reply \in Replies, InitAgain(w.run, reply)
      PROVE  UNCHANGED storeVars
  <2>1. w.run \in Runs /\ meta[w.run] \in ActiveStatus
    BY <1>0, <1>8 DEF CallOK, Targeted, CallsHarmless, Starting
  <2>2. current[SessionOf[w.run]] # NoRun
    BY <2>1, StoreAssumption DEF PointerKept, StoreAssumption
  <2> QED BY <1>8, <2>2 DEF InitAgain
<1>9. CASE CallInitAgain(c)
  BY <1>8, <1>9 DEF CallInitAgain
<1>10. CASE CallUnanswered(c)
  <2>1. CASE w.pc = "initAgain" /\ \E reply \in Replies : InitAgain(w.run, reply)
    BY <1>8, <2>1
  <2>2. CASE w.pc = "clearPointer" /\ ClearCurrentRunIfMatches(w.sess, w.run)
    <3>1. w.run \in Runs /\ w.op # "none"
      BY <1>0, <2>2 DEF CallOK, Targeted, OpsAt, InLookup
    <3>2. w.sess \in Sessions /\ meta[w.run] \in Terminal
      BY <1>0, <2>2, <3>1 DEF CallOK, CallsHarmless
    <3> QED BY <2>2, <3>1, <3>2
  <2> QED BY <1>0, <1>1, <1>2, <1>10, <2>1, <2>2 DEF CallUnanswered, CallOK, Targeted
<1> QED BY <1>1, <1>2, <1>3, <1>4, <1>5, <1>6, <1>7, <1>9, <1>10
        DEF CallAction, CallStep, StartCall, StartCancel, Lock, GetPointer, GetMeta, DropPointer,
            Rollback, RollbackKeys, Register, MarkRunDeleted, CancelLocal, ScanStart, ScanBatch,
            DelBatch, ScanEnd, ReadTarget, Return, Abandon

\* A call leaves the status of every run that was created as it is, unless it cancels it.
LEMMA CallMeta ==
  ASSUME KeysStay, SInv, CallsHarmless, PointerKept, NEW c \in Calls, CallAction(c)
  PROVE  /\ PointerKept'
         /\ \A r \in issued : \/ meta'[r] = meta[r]
                              \/ /\ call[c].pc = "cancelDirect" /\ call[c].run = r
                                 /\ meta[r] \notin Terminal
<1>0. IInv /\ issued \subseteq Runs
  BY DEF SInv, IInv, StoreTypeOK
<1>1. CASE UNCHANGED storeVars
  BY <1>1 DEF storeVars, PointerKept
<1>2. ASSUME NEW r \in Runs \ issued, NEW reply \in Replies, InitRun(r, reply)
      PROVE  PointerKept' /\ \A q \in issued : meta'[q] = meta[q]
  <2>1. Script(r, reply)
    BY <1>2 DEF Script
  <2> QED BY <1>0, <1>2, <2>1, ScriptPointer, ScriptOwn
<1>3. ASSUME NEW r \in Runs, NEW reply \in Replies, AppendEvent(r, Plain("run_created"), reply)
      PROVE  PointerKept' /\ \A q \in issued : meta'[q] = meta[q]
  <2>1. Script(r, reply)
    BY <1>3, PlainNotes DEF Script
  <2> QED BY <1>0, <1>3, <2>1, ScriptPointer, AppendReply
<1>4. ASSUME NEW s \in Sessions, NEW r \in Runs, meta[r] \in Terminal,
             ClearCurrentRunIfMatches(s, r)
      PROVE  PointerKept' /\ \A q \in issued : meta'[q] = meta[q]
  BY <1>0, <1>4, ClearPointerKeeps DEF ClearCurrentRunIfMatches
<1>5. ASSUME call[c].pc = "cancelDirect", NEW r \in Runs, r = call[c].run, NEW reply \in Replies,
             FinishRun(r, "cancelled", reply)
      PROVE  /\ PointerKept' /\ \A q \in issued \ {r} : meta'[q] = meta[q]
             /\ meta[r] \in Terminal => meta' = meta
  <2>1. Script(r, reply)
    BY <1>5, OwnReasons DEF Script
  <2> QED BY <1>0, <1>5, <2>1, ScriptPointer, ScriptOwn, EndedRejects DEF storeVars
<1> QED BY <1>1, <1>2, <1>3, <1>4, <1>5, CallWrites

\* The parts are inductive together.
SessionKept == FreshKept /\ PointerKept /\ CallsHarmless /\ StartedKnown

LEMMA StepSession ==
  ASSUME KeysStay, SInv, SessionKept, [Next]_vars
  PROVE  SessionKept'
<1>0. /\ FreshKept /\ PointerKept /\ CallsHarmless /\ FreshKept' /\ StartedKnown'
      /\ IInv /\ IInv' /\ [StoreNext]_storeVars /\ TargetsIssued /\ WorkerKnows /\ WorkerTypeOK
  BY StepFresh, StepStarted, ServiceDrives, StepIInv DEF SessionKept, SInv, TypeOK
<1>1. issued \subseteq issued' /\ issued \subseteq Runs
  BY <1>0, IssuedGrows DEF IInv, StoreTypeOK
  \* What a call holds on to stays, once the store has kept its part.
<1>2. ASSUME PointerKept', NEW c \in Calls, call'[c] = call[c],
             call[c].pc \in Starting \cup {"clearPointer"} =>
               meta'[call[c].run] = meta[call[c].run]
      PROVE  /\ call'[c].pc \notin {"rollback", "rollbackKeys", "dropPointer"}
             /\ call'[c].pc \in Starting => meta'[call'[c].run] \in ActiveStatus
             /\ call'[c].pc = "clearPointer" => meta'[call'[c].run] \in Terminal
  BY <1>0, <1>2 DEF CallsHarmless
<1>3. ASSUME NEW c \in Calls, CallAction(c) PROVE SessionKept'
  <2>1. /\ PointerKept'
        /\ \A r \in issued : \/ meta'[r] = meta[r]
                             \/ /\ call[c].pc = "cancelDirect" /\ call[c].run = r
                                /\ meta[r] \notin Terminal
    BY <1>0, <1>3, CallMeta
  \* Nobody cancels a run that is about to be started.
  <2>0. \A d \in Calls : call[d].pc \in Starting => meta'[call[d].run] = meta[call[d].run]
    <3>1. call[c].pc = "cancelDirect" => worker[call[c].run].pc # "absent"
      <4> SUFFICES ASSUME call[c].pc = "cancelDirect" PROVE "get" \notin Ops
        BY DEF SessionKept, StartedKnown, Public
      <4>1. call[c].op = "cancel" /\ call[c].op \in Ops \cup {"none"}
        BY DEF SInv, TypeOK, CallState, CallsOK, CallOK, OpsAt, InLookup
      <4> QED BY <4>1 DEF KeysStay
    <3> QED BY <1>0, <2>1, <3>1 DEF FreshKept, Starting, TargetsIssued, Targeted
  <2>2. \A d \in Calls \ {c} : call'[d] = call[d]
    BY <1>1, <1>3, OthersStay
  <2>3. \A d \in Calls : call[d].pc \in Targeted => call[d].run \in issued
    BY <1>0 DEF TargetsIssued
  <2>6. \A d \in Calls : call[d].pc = "clearPointer" => meta'[call[d].run] = meta[call[d].run]
    BY <1>0, <2>1, <2>3 DEF CallsHarmless, Targeted
  <2>4. /\ call'[c].pc \notin {"rollback", "rollbackKeys", "dropPointer"}
        /\ call'[c].pc \in Starting => meta'[call'[c].run] \in ActiveStatus
        /\ call'[c].pc = "clearPointer" => meta'[call'[c].run] \in Terminal
    <3>1. CASE call'[c].pc \notin Holding
      BY <3>1 DEF Holding, Starting
    <3>2. CASE call'[c].pc = "runCreated" /\ call'[c].run \in Runs /\ InitRun(call'[c].run, "ok")
      BY <1>0, <3>2, InitReply DEF IInv, StoreTypeOK, ActiveStatus
    <3>3. CASE call'[c].pc = "getMeta"
      BY <3>3 DEF Starting
    <3>5. ASSUME NEW reply \in Replies, call'[c].run \in Runs, InitRun(call'[c].run, reply),
                 call'[c].pc = "initAgain", call'[c].run \in issued'
          PROVE  meta'[call'[c].run] \in ActiveStatus
      BY <1>0, <3>5, InitReply DEF IInv, StoreTypeOK, ActiveStatus
    <3>6. CASE call'[c] = call[c]
      BY <1>2, <2>0, <2>1, <2>6, <3>6
    <3>4. CASE call'[c].run = call[c].run /\ Source(c, call'[c].pc)
      <4> DEFINE r == call[c].run
      <4>1. call[c].pc \in {"runCreated", "getMeta"} => r \in issued /\ r \in Runs
        BY <1>1, <2>3 DEF Targeted
      <4>2. call'[c].pc # "rollback"
        <5> SUFFICES ASSUME NEW reply \in Replies \ {"ok"}, call[c].pc = "runCreated",
                            AppendEvent(r, Plain("run_created"), reply)
                     PROVE  FALSE
          BY <3>4 DEF Source, In
        <5>1. meta[r] \in ActiveStatus
          BY <1>0 DEF CallsHarmless, Starting
        <5>2. reply \in {"missing", "terminal"}
          BY <4>1, AppendReply DEF KeysStay
        <5> QED BY <4>1, <5>1, <5>2, AppendReply DEF ActiveStatus, Terminal
      <4>3. call'[c].pc # "rollbackKeys"
        BY <1>0, <3>4 DEF Source, In, CallsHarmless
      <4>4. call'[c].pc # "dropPointer"
        BY <1>0, <3>4, <4>1 DEF Source, In, PointerKept
      <4>5. call'[c].pc = "clearPointer" => meta'[r] \in Terminal
        BY <2>1, <3>4, <4>1 DEF Source, In
      <4>6. call'[c].pc # "runCreated"
        <5> SUFFICES ASSUME call[c].pc = "initAgain", InitAgain(r, "ok") PROVE FALSE
          BY <3>4 DEF Source, In
        <5>1. r \in Runs /\ meta[r] \in ActiveStatus
          BY <1>0, <1>1, <2>3 DEF CallsHarmless, Starting, Targeted
        <5>2. current[SessionOf[r]] # NoRun
          BY <1>0, <5>1, StoreAssumption DEF PointerKept, StoreAssumption
        <5> QED BY <5>2 DEF InitAgain, Reply, Lost, KeysStay
      <4>7. call'[c].pc = "register" => meta'[r] \in ActiveStatus
        BY <1>0, <2>1, <3>4, <4>1 DEF Source, In, CallsHarmless, Starting
      <4> QED BY <3>4, <4>2, <4>3, <4>4, <4>5, <4>6, <4>7 DEF Starting, Source
    <3> QED BY <1>3, <3>1, <3>2, <3>3, <3>4, <3>5, <3>6, CallSources DEF CallSource
  <2>5. CallsHarmless'
    BY <1>2, <2>0, <2>1, <2>2, <2>4, <2>6 DEF CallsHarmless
  <2> QED BY <1>0, <2>1, <2>5 DEF SessionKept
<1>4. ASSUME NEW q \in Runs, WorkerStep(q), UNCHANGED callVars PROVE SessionKept'
  <2>1. PointerKept' /\ \A r \in Runs \ {q} : meta'[r] = meta[r]
    <3>1. CASE UNCHANGED storeVars
      BY <1>0, <3>1 DEF PointerKept, storeVars
    <3>2. ASSUME NEW reply \in Replies, Script(q, reply)
          PROVE  PointerKept' /\ \A r \in Runs \ {q} : meta'[r] = meta[r]
      BY <1>0, <3>2, ScriptPointer, ScriptOwn
    <3> QED BY <1>0, <1>4, <3>1, <3>2, WorkerScripts
  <2>2. worker[q].pc # "absent"
    BY <1>0, <1>4, WorkerGoroutine DEF GoroutineStep
  <2>3. \A c \in Calls : call[c].pc \in Starting => call[c].run \in Runs \ {q}
    BY <1>0, <1>1, <2>2 DEF FreshKept, Starting, TargetsIssued, Targeted
  <2>5. \A c \in Calls : call[c].pc = "clearPointer" => meta'[call[c].run] = meta[call[c].run]
    <3> SUFFICES ASSUME NEW c \in Calls, call[c].pc = "clearPointer"
                 PROVE  meta'[call[c].run] = meta[call[c].run]
      OBVIOUS
    <3>1. call[c].run \in Runs /\ meta[call[c].run] \in Terminal
      BY <1>0, <1>1 DEF CallsHarmless, TargetsIssued, Targeted
    <3> QED BY <1>4, <2>1, <3>1, WorkerLeavesEnded DEF storeVars
  <2>4. CallsHarmless'
    BY <1>2, <1>4, <2>1, <2>3, <2>5 DEF CallsHarmless, callVars
  <2> QED BY <1>0, <2>1, <2>4 DEF SessionKept
<1>5. ASSUME NEW i \in Instances, Crash(i) PROVE SessionKept'
  <2>1. UNCHANGED storeVars
    BY <1>5 DEF Crash, Local
  <2>2. \A c \in Calls : call'[c] = call[c] \/ call'[c].pc = "done"
    <3> SUFFICES ASSUME NEW c \in Calls, call'[c] = [call[c] EXCEPT !.pc = "done"]
                 PROVE  call'[c].pc = "done"
      BY <1>5 DEF Crash
    <3>1. call[c] \in CallState
      BY DEF SInv, TypeOK
    <3> QED BY <3>1 DEF CallState
  <2> QED BY <1>0, <2>1, <2>2 DEF SessionKept, PointerKept, CallsHarmless, Starting, storeVars
<1>6. CASE UNCHANGED vars
  BY <1>0, <1>6 DEF SessionKept, PointerKept, CallsHarmless, vars, callVars, storeVars
<1>7. ~ Expire
  BY DEF KeysStay, Expire
<1> QED BY <1>3, <1>4, <1>5, <1>6, <1>7, Steps

\* A session has at most one active run, however many instances create runs in it and look
\* them up or cancel them, with resent scripts, failing agents, timeouts, callers that leave
\* and crashes.  Deletions, expiry, lost replies, and cancelling what GetRun has found break
\* it: a lookup then drops the pointer of the next run (MCTwoActive.cfg).
THEOREM OneRunPerSession ==
  ASSUME KeysStay
  PROVE  Spec => []OneActiveRun
<1>1. Init => SessionKept
  BY InitFresh, InitOneActive DEF SessionKept
<1>2. SInv /\ SessionKept /\ [Next]_vars => SessionKept'
  BY StepSession
<1>3. SessionKept => OneActiveRun
  BY DEF SessionKept, PointerKept, OneActiveRun
<1> QED BY <1>1, <1>2, <1>3, ServiceInvariant, PTL DEF Spec

-----------------------------------------------------------------------------
(* The verdict *)

\* The history of the verdicts is what Redis holds, or held before it forgot the run.
VerdictKept ==
    \A r \in Runs :
      /\ verdict[r] # "none" => r \in issued /\ meta[r] \in {verdict[r], "none"}
      /\ meta[r] \in Terminal => verdict[r] = meta[r]

LEMMA InitVerdict == Init => VerdictKept
BY DEF Init, StoreInit, VerdictKept, Terminal

\* What a step does to the verdicts.
LEMMA StepVerdict ==
  ASSUME InitOnce, SInv, VerdictKept, [Next]_vars
  PROVE  VerdictKept' /\ \A r \in Runs : verdict[r] # "none" => verdict'[r] = verdict[r]
<1>1. IInv /\ [StoreNext]_storeVars
  BY ServiceDrives DEF SInv
<1>2. issued \subseteq issued' /\ IInv'
  BY <1>1, IssuedGrows, StepIInv
<1>3. CASE UNCHANGED vars
  BY <1>3 DEF vars, storeVars, VerdictKept
<1>4. CASE Recorded
  <2>1. SUFFICES ASSUME NEW r \in Runs
                 PROVE  /\ verdict'[r] # "none" => r \in issued' /\ meta'[r] \in {verdict'[r], "none"}
                        /\ meta'[r] \in Terminal => verdict'[r] = meta'[r]
                        /\ verdict[r] # "none" => verdict'[r] = verdict[r]
    BY DEF VerdictKept
  <2>2. verdict'[r] = IF meta'[r] \in Terminal THEN meta'[r] ELSE verdict[r]
    BY <1>4 DEF Recorded
  <2>3. verdict[r] \in Terminal \cup {"none"} /\ "none" \notin Terminal
    BY DEF SInv, TypeOK, Terminal
  <2>4. meta'[r] \in Terminal => r \in issued'
    BY <1>2, <2>3 DEF IInv, FreshUnused
  <2>5. CASE verdict[r] # "none"
    <3>1. r \in issued /\ meta[r] \in {verdict[r], "none"}
      BY <2>5 DEF VerdictKept
    <3>2. meta[r] \notin ActiveStatus
      BY <2>3, <2>5, <3>1 DEF Terminal, ActiveStatus
    <3>3. meta'[r] \in {meta[r], "none"}
      BY <1>1, <3>1, <3>2, InactiveStays
    <3> QED BY <1>2, <2>2, <2>3, <2>5, <3>1, <3>3
  <2>6. CASE verdict[r] = "none"
    BY <2>2, <2>3, <2>4, <2>6
  <2> QED BY <2>5, <2>6
<1> QED BY <1>3, <1>4, Steps

\* While no initRun is sent again, the verdict on a run is final: no call, no goroutine, no
\* crash and no expiry lets a second outcome of the same run appear, in any order of
\* service calls.
THEOREM VerdictFinal ==
  ASSUME InitOnce
  PROVE  Spec => [][\A r \in Runs : verdict[r] # "none" => verdict'[r] = verdict[r]]_vars
<1>1. SInv /\ VerdictKept /\ [Next]_vars => VerdictKept'
  BY StepVerdict
<1>2. SInv /\ VerdictKept /\ [Next]_vars =>
        [\A r \in Runs : verdict[r] # "none" => verdict'[r] = verdict[r]]_vars
  BY StepVerdict
<1> QED BY <1>1, <1>2, InitVerdict, ServiceInvariant, PTL DEF Spec

-----------------------------------------------------------------------------
(* OnCompleted *)

\* The reasons that README names: agents that end well report none of these.
PlainReasons == Reasons \cap {"cancelled", "canceled", "error", "tool-calls"} = {}

\* A goroutine that will report, or has reported, its run as completed unless it fails.
Entitled(r) ==
    \/ worker[r].finished
    \/ worker[r].pc = "reportCheck"
    \/ worker[r].pc = "report" /\ worker[r].outcome = "none"
    \/ r \in completed

\* The finish a goroutine stores is one its agent reported.
Reported(r) ==
    /\ worker[r].pc = "finish" => worker[r].entry.reason \in Reasons
    /\ worker[r].outcome # "completed"

CompletedKept ==
    \A r \in Runs : Reported(r) /\ (Entitled(r) => verdict[r] = "completed")

\* Without the alias, a note is not taken for the end of a run.
LEMMA NoteIsNoFinish ==
  ASSUME "tool-calls" \notin Reasons, NEW e \in Notes
  PROVE  ~ (e.type = "finish" /\ e.reason # "tool_calls")
<1>1. CASE \E t \in {"run_created", "run_started", "message", "error"} : e = Plain(t)
  <2>1. PICK t \in {"run_created", "run_started", "message", "error"} : e = Plain(t)
    BY <1>1
  <2>2. e.type = t
    BY <2>1 DEF Plain
  <2> QED BY <2>2
<1>2. CASE \E reason \in Reasons \cap ToolReasons : e = Finish(reason)
  <2>1. PICK reason \in Reasons \cap ToolReasons : e = Finish(reason)
    BY <1>2
  <2>2. e.reason = reason
    BY <2>1 DEF Finish
  <2> QED BY <2>1, <2>2 DEF ToolReasons
<1> QED BY <1>1, <1>2 DEF Notes

\* An agent's finish that ends a run completes it.
LEMMA AgentCompletes ==
  ASSUME PlainReasons, NEW reason \in Reasons PROVE StatusOf(reason) = "completed"
BY DEF PlainReasons, StatusOf

\* A step of a goroutine that stays as it is, and adds nobody to the completed runs.
Humble(r) ==
    /\ completed' \subseteq completed
    /\ worker'[r].outcome \in {worker[r].outcome, "cancelled", "failed"}
    /\ worker'[r].finished => worker[r].finished
    /\ worker'[r].pc \notin {"reportCheck", "finish"}
    /\ worker'[r].pc = "report" =>
         worker'[r].outcome # "none" \/ worker[r].pc = "reportCheck"

LEMMA HumbleKeeps ==
  ASSUME NEW r \in Runs, Reported(r), Humble(r)
  PROVE  Reported(r)' /\ (Entitled(r)' => Entitled(r))
BY DEF Reported, Entitled, Humble

LEMMA GoHumbly ==
  ASSUME WorkerTypeOK, NEW r \in Runs, NEW pc \in Points \ {"reportCheck", "finish", "report"},
         Goto(r, pc), completed' = completed
  PROVE  Humble(r)
BY GotoEffect DEF Humble, Keeps

LEMMA FailHumbly ==
  ASSUME WorkerTypeOK, NEW r \in Runs, NEW err \in Errors, Fail(r, err), completed' = completed
  PROVE  Humble(r)
BY FailEffect DEF Humble, Keeps

LEMMA WorkerEntitled ==
  ASSUME PlainReasons, IInv, WorkerTypeOK, WorkerKnows, NEW r \in Runs, WorkerStep(r), Recorded,
         Reported(r)
  PROVE  Reported(r)' /\ (Entitled(r)' => Entitled(r) \/ verdict'[r] = "completed")
<1> USE DEF At, Checkpoint
<1> DEFINE w == worker[r]
<1>1. CASE \/ Checkpoint(r, "enter", "setRunning") \/ Checkpoint(r, "startedCheck", "started")
           \/ SetRunning(r) \/ AppendStarted(r) \/ AgentEnd(r) \/ StreamFailed(r)
           \/ ErrorCheck(r) \/ AppendError(r) \/ Leave(r) \/ AppendCheck(r)
           \/ EndedMalformed(r)
  <2>1. Humble(r)
    BY <1>1, GoHumbly, PointsOfWorker
       DEF SetRunning, AppendStarted, AgentEnd, StreamFailed, ErrorCheck, AppendError, Leave,
           AppendCheck, EndedMalformed, hooks
  <2> QED BY <2>1, HumbleKeeps
<1>2. CASE LoopCheck(r) \/ ContextEnded(r, "note") \/ ContextEnded(r, "finish") \/ AgentError(r)
  <2>1. {"agent", "cancelled"} \subseteq Errors /\ (ctx[r] # "live" => ctx[r] \in Errors)
    BY DEF WorkerTypeOK, Errors
  <2>2. Humble(r)
    BY <1>2, <2>1, GoHumbly, FailHumbly, PointsOfWorker
       DEF LoopCheck, ContextEnded, AgentError, hooks
  <2> QED BY <2>2, HumbleKeeps
<1>3. CASE Ended(r)
  <2>1. CASE Goto(r, "reportCheck")
    <3>1. worker[r].finished /\ completed' = completed
      BY <1>3, <2>1, GotoEffect, PointsOfWorker DEF Ended, hooks, Keeps
    <3>2. Keeps(r, "reportCheck")
      BY <2>1, GotoEffect, PointsOfWorker
    <3> QED BY <3>1, <3>2 DEF Keeps, Reported, Entitled
  <2>2. CASE Goto(r, "leave") \/ Goto(r, "fallback")
    <3>1. Humble(r)
      BY <1>3, <2>2, GoHumbly, PointsOfWorker DEF Ended, hooks
    <3> QED BY <3>1, HumbleKeeps
  <2> QED BY <1>3, <2>1, <2>2 DEF Ended
<1>4. CASE Checkpoint(r, "reportCheck", "report")
  <2>1. CASE Goto(r, "report")
    BY <1>4, <2>1, GotoEffect, PointsOfWorker DEF Keeps, Reported, Entitled, hooks
  <2>2. CASE Goto(r, "leave")
    BY <1>4, <2>2, GoHumbly, HumbleKeeps, PointsOfWorker DEF hooks
  <2> QED BY <1>4, <2>1, <2>2
<1>5. CASE Report(r)
  <2>1. Keeps(r, "leave") /\ w.outcome # "completed" /\ w.pc = "report"
    BY <1>5, GotoEffect, PointsOfWorker DEF Report, Reported
  <2>2. r \in completed' => r \in completed \/ w.outcome = "none"
    BY <1>5, <2>1 DEF Report
  <2> QED BY <2>1, <2>2 DEF Keeps, Reported, Entitled
<1>6. CASE FinishCancelled(r) \/ FinishFailed(r)
  <2>1. ASSUME NEW status \in {"cancelled", "failed"}, completed' = completed,
               worker' = [worker EXCEPT ![r] = [@ EXCEPT !.pc = "report", !.outcome = status]]
        PROVE  Humble(r)
    <3> DEFINE k == [worker[r] EXCEPT !.pc = "report", !.outcome = status]
    <3>1. "report" \in Points /\ worker[r] \in Goroutine
      BY PointsOfWorker DEF WorkerTypeOK
    <3>2. k \in Goroutine
      BY <3>1 DEF Goroutine, Terminal
    <3>3. k.pc = "report" /\ k.outcome = status /\ k.finished = worker[r].finished
      BY <3>1 DEF Goroutine
    <3>4. worker' = [worker EXCEPT ![r] = k]
      BY <2>1
    <3> HIDE DEF k
    <3> QED BY <2>1, <3>2, <3>3, <3>4, Replaced DEF Humble
  <2>2. Humble(r)
    BY <1>6, <2>1, GoHumbly, PointsOfWorker DEF FinishCancelled, FinishFailed, hooks
  <2> QED BY <2>2, HumbleKeeps
<1>7. CASE Fallback(r)
  <2>1. CASE Goto(r, "leave") \/ Goto(r, "errorCheck")
    BY <1>7, <2>1, GoHumbly, HumbleKeeps, PointsOfWorker DEF Fallback, hooks
  <2>2. ASSUME FinishRun(r, "stop", "ok"), Goto(r, "reportCheck")
        PROVE  Reported(r)' /\ verdict'[r] = "completed"
    <3>1. meta'[r] = "completed"
      BY <2>2, FinishReply DEF StatusOf
    <3>2. verdict'[r] = "completed"
      BY <3>1 DEF Recorded, Terminal
    <3>3. Keeps(r, "reportCheck")
      BY <2>2, GotoEffect, PointsOfWorker
    <3> QED BY <3>2, <3>3 DEF Keeps, Reported
  <2>3. \/ Goto(r, "leave") \/ Goto(r, "errorCheck")
        \/ FinishRun(r, "stop", "ok") /\ Goto(r, "reportCheck")
    <3>2. ASSUME NEW reply \in Replies, FinishRun(r, "stop", reply),
                 Goto(r, CASE reply = "ok" -> "reportCheck"
                           [] reply = "terminal" -> "leave"
                           [] OTHER -> "errorCheck")
          PROVE  \/ Goto(r, "leave") \/ Goto(r, "errorCheck")
                 \/ FinishRun(r, "stop", "ok") /\ Goto(r, "reportCheck")
      <4>1. CASE reply = "ok"
        BY <3>2, <4>1
      <4>2. CASE reply = "terminal"
        BY <3>2, <4>2
      <4>3. CASE reply \notin {"ok", "terminal"}
        BY <3>2, <4>3
      <4> QED BY <4>1, <4>2, <4>3
    <3> QED BY <1>7, <3>2 DEF Fallback
  <2> QED BY <2>1, <2>2, <2>3
<1>8. CASE AppendNote(r)
  <2> DEFINE e == worker[r].entry
             finished == worker[r].finished \/ (e.type = "finish" /\ e.reason # "tool_calls")
             k == [worker[r] EXCEPT !.pc = "loop", !.finished = finished]
  <2>1. PICK reply \in Replies :
          /\ AppendEvent(r, e, reply)
          /\ IF reply = "ok" THEN worker' = [worker EXCEPT ![r] = k] ELSE Fail(r, reply)
    BY <1>8 DEF AppendNote
  <2>2. CASE reply # "ok"
    <3>1. reply \in Errors
      BY <2>1, <2>2, AppendReply DEF Errors
    <3> QED BY <1>8, <2>1, <2>2, <3>1, FailHumbly, HumbleKeeps DEF AppendNote, hooks
  <2>3. CASE reply = "ok"
    <3>1. "loop" \in Points /\ worker[r] \in Goroutine /\ finished \in BOOLEAN
      BY PointsOfWorker DEF WorkerTypeOK, Goroutine
    <3>2. finished => worker[r].finished
      <4>1. e \in Notes
        BY <1>8 DEF AppendNote, WorkerKnows
      <4> QED BY <4>1, NoteIsNoFinish DEF PlainReasons
    <3>3. worker' = [worker EXCEPT ![r] = k]
      BY <2>1, <2>3
    <3> HIDE DEF finished
    <3>4. k \in Goroutine
      BY <3>1 DEF Goroutine
    <3>5. k.pc = "loop" /\ k.outcome = worker[r].outcome /\ k.finished = finished
      BY <3>1 DEF Goroutine
    <3> HIDE DEF k
    <3>6. Humble(r)
      BY <1>8, <3>2, <3>3, <3>4, <3>5, Replaced DEF AppendNote, hooks, Humble
    <3> QED BY <3>6, HumbleKeeps
  <2> QED BY <2>2, <2>3
<1>9. CASE AppendFinish(r)
  <2> DEFINE k == [worker[r] EXCEPT !.pc = "loop", !.finished = TRUE]
  <2>1. PICK reply \in Replies :
          /\ FinishRun(r, worker[r].entry.reason, reply)
          /\ IF reply = "ok" THEN worker' = [worker EXCEPT ![r] = k] ELSE Fail(r, reply)
    BY <1>9 DEF AppendFinish
  <2>2. CASE reply # "ok"
    <3>1. reply \in Errors
      BY <2>1, <2>2, FinishReply DEF Errors
    <3> QED BY <1>9, <2>1, <2>2, <3>1, FailHumbly, HumbleKeeps DEF AppendFinish, hooks
  <2>3. CASE reply = "ok"
    <3>1. meta'[r] = "completed"
      <4>1. worker[r].entry.reason \in Reasons
        BY <1>9 DEF AppendFinish, Reported
      <4> QED BY <2>1, <2>3, <4>1, FinishReply, AgentCompletes
    <3>2. verdict'[r] = "completed"
      BY <3>1 DEF Recorded, Terminal
    <3>3. "loop" \in Points /\ worker[r] \in Goroutine
      BY PointsOfWorker DEF WorkerTypeOK
    <3>4. k \in Goroutine
      BY <3>3 DEF Goroutine
    <3>5. k.pc = "loop" /\ k.outcome = worker[r].outcome
      BY <3>3 DEF Goroutine
    <3>6. worker' = [worker EXCEPT ![r] = k]
      BY <2>1, <2>3
    <3> HIDE DEF k
    <3> QED BY <3>2, <3>4, <3>5, <3>6, Replaced DEF Reported
  <2> QED BY <2>2, <2>3
<1>10. CASE AgentMessage(r)
  <2>1. PICK e \in {Plain("message")} \cup {Finish(reason) : reason \in Reasons} :
          worker' = [worker EXCEPT ![r] = [@ EXCEPT !.entry = e, !.left = worker[r].left - 1,
                      !.pc = IF e \in Notes THEN "check" ELSE "finish"]]
    BY <1>10 DEF AgentMessage
  <2> DEFINE pc == IF e \in Notes THEN "check" ELSE "finish"
             left == worker[r].left - 1
             k == [worker[r] EXCEPT !.entry = e, !.left = left, !.pc = pc]
  <2>2. pc \in {"check", "finish"} /\ (pc = "finish" => e.reason \in Reasons)
    BY PlainNotes DEF Finish
  <2>3. worker[r] \in Goroutine
    BY DEF WorkerTypeOK
  <2>4. worker' = [worker EXCEPT ![r] = k]
    BY <2>1
  <2> HIDE DEF pc, left
  <2>5. /\ k.entry = e /\ k.pc = pc /\ k.outcome = worker[r].outcome
        /\ k.finished = worker[r].finished
    BY <2>3 DEF Goroutine
  <2> HIDE DEF k
  <2>6. worker'[r] = k /\ completed' = completed
    BY <1>10, <2>4 DEF WorkerTypeOK, AgentMessage, hooks
  <2> QED BY <2>2, <2>5, <2>6 DEF Reported, Entitled
<1>11. CASE WatchRunLifecycle(r) \/ Timeout(r) \/ Unanswered(r)
  BY <1>11 DEF WatchRunLifecycle, Timeout, Unanswered, workerVars, hooks, Reported, Entitled
<1> QED BY <1>1, <1>2, <1>3, <1>4, <1>5, <1>6, <1>7, <1>8, <1>9, <1>10, <1>11
        DEF WorkerStep, OwnStep, AgentStep

LEMMA InitCompleted == Init => CompletedKept
<1> SUFFICES ASSUME Init, NEW r \in Runs
             PROVE  Reported(r) /\ (Entitled(r) => verdict[r] = "completed")
  BY DEF CompletedKept
<1>1. /\ worker[r].pc = "absent" /\ worker[r].outcome = "none" /\ worker[r].finished = FALSE
      /\ completed = {}
  BY DEF Init, WorkerInit
<1> QED BY <1>1 DEF Reported, Entitled

\* What the other actors do to a goroutine leaves its entitlement alone.
LEMMA OthersEntitled ==
  ASSUME SInv, NEW r \in Runs, Reported(r),
         \/ \E c \in Calls : CallAction(c)
         \/ Expire /\ UNCHANGED workerVars
         \/ \E i \in Instances : Crash(i)
         \/ \E q \in Runs \ {r} : WorkerStep(q)
  PROVE  Reported(r)' /\ (Entitled(r)' => Entitled(r))
<1>0. WorkerTypeOK /\ WorkerKnows /\ IInv
  BY DEF SInv, TypeOK
<1>1. ASSUME worker'[r] = worker[r], r \in completed' => r \in completed
      PROVE  Reported(r)' /\ (Entitled(r)' => Entitled(r))
  BY <1>1 DEF Reported, Entitled
<1>2. ASSUME NEW pc \in {"enter", "crashed"}, completed' = completed,
             worker'[r].pc = pc, worker'[r].outcome = worker[r].outcome,
             worker'[r].finished = worker[r].finished
      PROVE  Reported(r)' /\ (Entitled(r)' => Entitled(r))
  BY <1>2 DEF Reported, Entitled
<1>3. ASSUME NEW c \in Calls, CallAction(c)
      PROVE  Reported(r)' /\ (Entitled(r)' => Entitled(r))
  <2>1. completed' = completed
    BY <1>3 DEF CallAction, CallStep, StartCall, StartCancel, Lock, GetPointer, GetMeta,
       DropPointer, ClearPointer, CallInitRun, CallInitAgain, AppendCreated, Rollback, RollbackKeys, Register,
       MarkRunDeleted, CancelLocal, ScanStart, ScanBatch, DelBatch, ScanEnd, ReadTarget,
       CancelDirect, Return, Abandon, CallUnanswered, workerVars, hooks
  <2>2. CASE worker' = worker
    BY <1>1, <2>1, <2>2
  <2>3. CASE Register(c)
    <3>1. CASE call[c].run # r
      <4>1. worker'[r] = worker[r]
        BY <1>0, <2>3, <3>1 DEF Register, WorkerTypeOK
      <4> QED BY <1>1, <2>1, <4>1
    <3>2. CASE call[c].run = r
      <4> DEFINE k == [worker[r] EXCEPT !.pc = "enter", !.inst = call[c].inst]
      <4>1. worker[r] \in Goroutine
        BY <1>0 DEF WorkerTypeOK
      <4>2. k.pc = "enter" /\ k.outcome = worker[r].outcome /\ k.finished = worker[r].finished
        BY <4>1 DEF Goroutine
      <4>3. worker'[r] = k
        BY <1>0, <2>3, <3>2 DEF Register, WorkerTypeOK
      <4> HIDE DEF k
      <4> QED BY <1>2, <2>1, <4>2, <4>3
    <3> QED BY <3>1, <3>2
  <2>4. worker' = worker \/ Register(c)
    BY <1>3 DEF CallAction, CallStep, StartCall, StartCancel, Lock, GetPointer, GetMeta,
       DropPointer, ClearPointer, CallInitRun, CallInitAgain, AppendCreated, Rollback, RollbackKeys,
       MarkRunDeleted, CancelLocal, ScanStart, ScanBatch, DelBatch, ScanEnd, ReadTarget,
       CancelDirect, Return, Abandon, CallUnanswered, workerVars
  <2> QED BY <2>2, <2>3, <2>4
<1>4. CASE Expire /\ UNCHANGED workerVars
  BY <1>1, <1>4 DEF workerVars
<1>5. ASSUME NEW i \in Instances, Crash(i)
      PROVE  Reported(r)' /\ (Entitled(r)' => Entitled(r))
  <2> DEFINE k == [worker[r] EXCEPT !.pc = "crashed"]
  <2>1. worker[r] \in Goroutine
    BY <1>0 DEF WorkerTypeOK
  <2>2. k.pc = "crashed" /\ k.outcome = worker[r].outcome /\ k.finished = worker[r].finished
    BY <2>1 DEF Goroutine
  <2>3. worker'[r] \in {worker[r], k} /\ completed' = completed
    BY <1>5 DEF Crash, hooks
  <2> HIDE DEF k
  <2> QED BY <1>1, <1>2, <2>2, <2>3
<1>6. ASSUME NEW q \in Runs \ {r}, WorkerStep(q)
      PROVE  Reported(r)' /\ (Entitled(r)' => Entitled(r))
  <2>1. worker'[r] = worker[r]
    BY <1>0, <1>6, WorkerGoroutine DEF GoroutineStep
  <2>2. r \in completed' => r \in completed
    <3>1. CASE Report(q)
      BY <1>6, <3>1 DEF Report
    <3>2. CASE Leave(q) \/ WatchRunLifecycle(q) \/ Timeout(q)
      BY <3>2 DEF Leave, WatchRunLifecycle, Timeout, hooks
    <3>3. CASE UNCHANGED Locals
      BY <3>3 DEF Locals, hooks
    <3> QED BY <1>6, <3>1, <3>2, <3>3, WorkerLocals
  <2> QED BY <1>1, <2>1, <2>2
<1> QED BY <1>3, <1>4, <1>5, <1>6

LEMMA StepCompleted ==
  ASSUME InitOnce, PlainReasons, SInv, VerdictKept, CompletedKept, [Next]_vars
  PROVE  CompletedKept'
<1>0. WorkerTypeOK /\ WorkerKnows /\ IInv
  BY DEF SInv, TypeOK
<1>1. SUFFICES ASSUME NEW r \in Runs
               PROVE  Reported(r)' /\ (Entitled(r)' => verdict'[r] = "completed")
  BY DEF CompletedKept
<1>2. Reported(r) /\ (Entitled(r) => verdict[r] = "completed")
  BY DEF CompletedKept
<1>3. verdict[r] = "completed" => verdict'[r] = "completed"
  BY StepVerdict
<1>4. CASE WorkerStep(r) /\ Recorded
  BY <1>0, <1>2, <1>3, <1>4, WorkerEntitled
<1>5. CASE \/ \E c \in Calls : CallAction(c)
           \/ Expire /\ UNCHANGED workerVars
           \/ \E i \in Instances : Crash(i)
           \/ \E q \in Runs \ {r} : WorkerStep(q)
  BY <1>2, <1>3, <1>5, OthersEntitled
<1>6. CASE UNCHANGED vars
  BY <1>2, <1>6 DEF vars, workerVars, Reported, Entitled
<1> QED BY <1>4, <1>5, <1>6, Steps

\* OnCompleted is only called for a run that Redis holds, or last held, as completed,
\* with lost replies, agents that fail after their finish, timeouts, cancellations,
\* deletions, expiry and crashes anywhere, and any script but initRun sent again.  An agent
\* that reports one of the excluded reasons breaks it.
THEOREM OnCompletedIsTrue ==
  ASSUME InitOnce, PlainReasons
  PROVE  Spec => []CompletedMeansCompleted
<1>1. SInv /\ VerdictKept /\ [Next]_vars => VerdictKept'
  BY StepVerdict
<1>2. SInv /\ VerdictKept /\ CompletedKept /\ [Next]_vars => CompletedKept'
  BY StepCompleted
<1>3. SInv /\ CompletedKept => CompletedMeansCompleted
  BY DEF CompletedKept, CompletedMeansCompleted, Entitled, SInv, TypeOK, WorkerTypeOK
<1> QED BY <1>1, <1>2, <1>3, InitVerdict, InitCompleted, ServiceInvariant, PTL DEF Spec

-----------------------------------------------------------------------------
(* OnTerminated *)

\* Only its own worker ends a run, which is put in place once: nobody cancels or deletes it.
Unmolested == KeysStay /\ InitOnce /\ "cancel" \notin Ops /\ PlainReasons

Working == {"enter", "setRunning", "startedCheck", "started", "loop", "agent", "check", "note",
            "finish", "failed", "errorCheck", "error", "ended", "fallback"} \cup
           {"finishFailed", "finishCancelled"}
Parting == {"finishCancelled", "report", "leave", "gone", "crashed"}
Erring  == {"failed", "errorCheck", "error", "finishFailed"} \cup Parting

\* A goroutine that nobody stops fails only because of its agent or its timer, or because
\* it wrote after its own finish; until it has stored a finish its run is active, or has
\* been ended by a script of its own that was not answered.
Undeterred(r) ==
    LET w == worker[r] IN
    /\ w.pc = "finishCancelled" => w.err = "cancelled"
    /\ w.pc \notin Parting => ctx[r] \in {"live", "timedout"}
    /\ w.err \in {"", "agent", "cancelled", "terminal", "timedout"}
    /\ w.err = "timedout" \/ ctx[r] = "timedout" => Timed # {}
    /\ w.err # "" => w.pc \in Erring
    /\ w.err \in {"agent", "cancelled"} /\ w.finished => "lateError" \in AgentMay
    /\ w.pc \in {"errorCheck", "error", "finishFailed"} => w.err \notin {"terminal", "cancelled"}
    /\ w.pc \in Working /\ ~ w.finished /\ w.err # "terminal" =>
         \/ meta[r] \in ActiveStatus
         \/ /\ "resend" \in Faults
            /\ \/ w.pc \in {"finish", "fallback"} \/ w.err = "timedout"
               \/ w.pc = "finishFailed" /\ meta[r] = "failed"
               \/ w.pc = "finishCancelled" /\ meta[r] = "cancelled"
    /\ w.pc \notin Parting \cup {"absent"} => meta[r] # "cancelled"

\* The outcome a goroutine remembers, or has reported, is what Redis recorded.
Truthful(r) ==
    /\ worker[r].outcome # "none" =>
         verdict[r] = worker[r].outcome /\ worker[r].pc \in {"report", "leave", "gone", "crashed"}
    /\ terminated[r] # "none" => terminated[r] = verdict[r]

LEMMA InitReport == Init => \A r \in Runs : Undeterred(r) /\ Truthful(r)
<1> SUFFICES ASSUME Init, NEW r \in Runs PROVE Undeterred(r) /\ Truthful(r)
  OBVIOUS
<1>1. /\ worker[r].pc = "absent" /\ worker[r].finished = FALSE /\ worker[r].err = ""
      /\ worker[r].outcome = "none" /\ ctx[r] = "live" /\ terminated[r] = "none" /\ meta[r] = "none"
  BY DEF Init, WorkerInit, StoreInit
<1> QED BY <1>1 DEF Undeterred, Truthful, Working, Erring, Parting

-----------------------------------------------------------------------------
(* The steps of a goroutine, field by field *)

\* The goroutine of r goes to pc with these values.
Becomes(r, pc, err, outcome, finished) ==
    LET w == worker'[r] IN
    w.pc = pc /\ w.err = err /\ w.outcome = outcome /\ w.finished = finished

Same(r, pc) == Becomes(r, pc, worker[r].err, worker[r].outcome, worker[r].finished)

LEMMA GotoBecomes ==
  ASSUME WorkerTypeOK, NEW r \in Runs, NEW pc \in Points, Goto(r, pc) PROVE Same(r, pc)
BY GotoEffect DEF Keeps, Same, Becomes

LEMMA FailBecomes ==
  ASSUME WorkerTypeOK, NEW r \in Runs, NEW err \in Errors, Fail(r, err)
  PROVE  Becomes(r, "failed", err, worker[r].outcome, worker[r].finished)
BY FailEffect DEF Keeps, Becomes

LEMMA NoteBecomes ==
  ASSUME "tool-calls" \notin Reasons, WorkerTypeOK, WorkerKnows, NEW r \in Runs, AppendNote(r)
  PROVE  \E reply \in Replies :
           /\ AppendEvent(r, worker[r].entry, reply)
           /\ reply = "ok" => Same(r, "loop")
           /\ reply # "ok" => Becomes(r, "failed", reply, worker[r].outcome, worker[r].finished)
<1> DEFINE e == worker[r].entry
           finished == worker[r].finished \/ (e.type = "finish" /\ e.reason # "tool_calls")
           k == [worker[r] EXCEPT !.pc = "loop", !.finished = finished]
<1>1. PICK reply \in Replies :
        /\ AppendEvent(r, e, reply)
        /\ IF reply = "ok" THEN worker' = [worker EXCEPT ![r] = k] ELSE Fail(r, reply)
  BY DEF AppendNote
<1>2. CASE reply # "ok"
  <2>1. reply \in Errors
    BY <1>1, <1>2, AppendReply DEF Errors
  <2> QED BY <1>1, <1>2, <2>1, FailBecomes
<1>3. CASE reply = "ok"
  <2>1. worker[r] \in Goroutine
    BY DEF WorkerTypeOK
  <2>2. finished <=> worker[r].finished
    <3>1. e \in Notes
      BY DEF AppendNote, At, WorkerKnows
    <3> QED BY <3>1, NoteIsNoFinish
  <2>3. finished = worker[r].finished
    BY <2>1, <2>2 DEF Goroutine
  <2>4. worker'[r] = k
    BY <1>1, <1>3 DEF WorkerTypeOK
  <2> HIDE DEF finished
  <2>5. /\ k.pc = "loop" /\ k.err = worker[r].err /\ k.outcome = worker[r].outcome
        /\ k.finished = finished
    BY <2>1 DEF Goroutine
  <2> HIDE DEF k
  <2>6. Same(r, "loop")
    BY <2>3, <2>4, <2>5 DEF Same, Becomes
  <2> QED BY <1>1, <1>3, <2>6
<1> QED BY <1>2, <1>3

LEMMA FinishBecomes ==
  ASSUME IInv, WorkerTypeOK, NEW r \in Runs, AppendFinish(r)
  PROVE  \E reply \in Replies :
           /\ FinishRun(r, worker[r].entry.reason, reply)
           /\ reply = "ok" => Becomes(r, "loop", worker[r].err, worker[r].outcome, TRUE)
           /\ reply # "ok" => Becomes(r, "failed", reply, worker[r].outcome, worker[r].finished)
<1> DEFINE k == [worker[r] EXCEPT !.pc = "loop", !.finished = TRUE]
<1>1. PICK reply \in Replies :
        /\ FinishRun(r, worker[r].entry.reason, reply)
        /\ IF reply = "ok" THEN worker' = [worker EXCEPT ![r] = k] ELSE Fail(r, reply)
  BY DEF AppendFinish
<1>2. CASE reply # "ok"
  <2>1. reply \in Errors
    BY <1>1, <1>2, FinishReply DEF Errors
  <2> QED BY <1>1, <1>2, <2>1, FailBecomes
<1>3. CASE reply = "ok"
  <2>1. worker[r] \in Goroutine /\ worker'[r] = k
    BY <1>1, <1>3 DEF WorkerTypeOK
  <2>2. /\ k.pc = "loop" /\ k.err = worker[r].err /\ k.outcome = worker[r].outcome
        /\ k.finished = TRUE
    BY <2>1 DEF Goroutine
  <2> HIDE DEF k
  <2>3. Becomes(r, "loop", worker[r].err, worker[r].outcome, TRUE)
    BY <2>1, <2>2 DEF Becomes
  <2> QED BY <1>1, <1>3, <2>3
<1> QED BY <1>2, <1>3

LEMMA OutcomeBecomes ==
  ASSUME WorkerTypeOK, NEW r \in Runs, NEW status \in Terminal,
         worker' = [worker EXCEPT ![r] = [@ EXCEPT !.pc = "report", !.outcome = status]]
  PROVE  Becomes(r, "report", worker[r].err, status, worker[r].finished)
<1> DEFINE k == [worker[r] EXCEPT !.pc = "report", !.outcome = status]
<1>1. worker[r] \in Goroutine /\ worker'[r] = k
  BY DEF WorkerTypeOK
<1>2. /\ k.pc = "report" /\ k.err = worker[r].err /\ k.outcome = status
      /\ k.finished = worker[r].finished
  BY <1>1 DEF Goroutine
<1> HIDE DEF k
<1> QED BY <1>1, <1>2 DEF Becomes

LEMMA MessageBecomes ==
  ASSUME WorkerTypeOK, NEW r \in Runs, AgentMessage(r)
  PROVE  Same(r, "check") \/ Same(r, "finish")
<1>1. PICK e : worker' = [worker EXCEPT ![r] = [@ EXCEPT !.entry = e, !.left = worker[r].left - 1,
                            !.pc = IF e \in Notes THEN "check" ELSE "finish"]]
  BY DEF AgentMessage
<1> DEFINE pc == IF e \in Notes THEN "check" ELSE "finish"
           left == worker[r].left - 1
           k == [worker[r] EXCEPT !.entry = e, !.left = left, !.pc = pc]
<1>2. pc \in {"check", "finish"}
  OBVIOUS
<1>3. worker[r] \in Goroutine /\ worker'[r] = k
  BY <1>1 DEF WorkerTypeOK
<1> HIDE DEF pc, left
<1>4. /\ k.pc = pc /\ k.err = worker[r].err /\ k.outcome = worker[r].outcome
      /\ k.finished = worker[r].finished
  BY <1>3 DEF Goroutine
<1> HIDE DEF k
<1> QED BY <1>2, <1>3, <1>4 DEF Same, Becomes

LEMMA FallbackGoes ==
  ASSUME NEW r \in Runs, Fallback(r)
  PROVE  \E reply \in Replies :
           /\ FinishRun(r, "stop", reply)
           /\ reply = "ok" => Goto(r, "reportCheck")
           /\ reply = "terminal" => Goto(r, "leave")
           /\ reply \notin {"ok", "terminal"} => Goto(r, "errorCheck")
<1>1. ASSUME NEW reply \in Replies,
             FinishRun(r, "stop", reply),
             Goto(r, CASE reply = "ok" -> "reportCheck"
                       [] reply = "terminal" -> "leave"
                       [] OTHER -> "errorCheck")
      PROVE  /\ reply = "ok" => Goto(r, "reportCheck")
             /\ reply = "terminal" => Goto(r, "leave")
             /\ reply \notin {"ok", "terminal"} => Goto(r, "errorCheck")
  <2>1. CASE reply = "ok"
    BY <1>1, <2>1
  <2>2. CASE reply = "terminal"
    BY <1>1, <2>2
  <2>3. CASE reply \notin {"ok", "terminal"}
    BY <1>1, <2>3
  <2> QED BY <2>1, <2>2, <2>3
<1> QED BY <1>1 DEF Fallback

\* Without lost replies, a script says "missing" only of a run that is gone, and ends or
\* extends a run that is active.
LEMMA PlainReplies ==
  ASSUME "lost" \notin Faults, NEW r \in Runs, NEW reply
  PROVE  /\ SetRunStatus(r, reply) /\ meta[r] \in ActiveStatus => reply = "ok"
         /\ \A e : AppendEvent(r, e, reply) =>
              /\ meta[r] \in ActiveStatus => reply = "ok"
              /\ reply = "missing" => meta[r] = "none"
         /\ \A reason : FinishRun(r, reason, reply) =>
              /\ reply = "missing" => meta[r] = "none"
              /\ meta[r] \in ActiveStatus =>
                   reply = "ok" /\ meta' = [meta EXCEPT ![r] = StatusOf(reason)]
BY DEF SetRunStatus, AppendEvent, FinishRun, Rejected, NotSent, Reply, Lost, ActiveStatus, Terminal

-----------------------------------------------------------------------------
(* A goroutine is undeterred *)

\* A step that goes to pc and leaves the rest of what matters alone.
LEMMA SameUndeterred ==
  ASSUME NEW r \in Runs, Undeterred(r), NEW pc, Same(r, pc),
         UNCHANGED <<meta, ctx>>,
         pc # "finishCancelled",
         worker[r].err # "" => pc \in Erring,
         pc \in {"errorCheck", "error", "finishFailed"} =>
           worker[r].err \notin {"terminal", "cancelled"},
         worker[r].pc \notin {"absent", "gone", "crashed"},
         worker[r].pc \in Parting => pc \in Parting,
         pc \in Working =>
           worker[r].pc \in Working \ {"finish", "fallback", "finishFailed", "finishCancelled"}
  PROVE  Undeterred(r)'
BY DEF Undeterred, Same, Becomes

LEMMA WorkerUndeterred ==
  ASSUME Unmolested, SInv, PointerKept, NEW r \in Runs, Undeterred(r), Reported(r), WorkerStep(r)
  PROVE  Undeterred(r)'
<1> USE DEF At, Checkpoint, Parting
<1> DEFINE w == worker[r]
<1>0. /\ WorkerTypeOK /\ WorkerKnows /\ IInv /\ r \in issued /\ meta[r] # "none"
      /\ w.pc \notin {"absent", "gone", "crashed"}
      /\ "lost" \notin Faults /\ PlainReasons
  <2>1. WorkerTypeOK /\ WorkerKnows /\ IInv
    BY DEF SInv, TypeOK
  <2>2. w.pc \notin {"absent", "gone", "crashed"}
    BY DEF WorkerStep, OwnStep, AgentStep, Ended, SetRunning, AppendStarted, LoopCheck, AppendCheck,
       ContextEnded, AppendNote, AppendFinish, StreamFailed, FinishCancelled, ErrorCheck,
       AppendError, FinishFailed, EndedMalformed, Fallback, Report, Leave, AgentMessage, AgentError,
       AgentEnd, WatchRunLifecycle, Timeout, Unanswered, Running, Streaming
  <2>3. r \in issued
    BY <2>1, <2>2 DEF WorkerKnows
  <2> QED BY <2>1, <2>2, <2>3 DEF PointerKept, Unmolested, KeysStay
<1>1. /\ w.pc \notin Parting => ctx[r] \in {"live", "timedout"} /\ meta[r] # "cancelled"
      /\ meta[r] # "none"
      /\ w.pc \notin Erring => w.err = ""
      /\ w.err \in {"", "agent", "cancelled", "terminal", "timedout"}
      /\ w.err = "timedout" \/ ctx[r] = "timedout" => Timed # {}
  BY <1>0 DEF Undeterred
<1>2. CASE \/ Checkpoint(r, "enter", "setRunning") \/ Checkpoint(r, "startedCheck", "started")
           \/ Checkpoint(r, "reportCheck", "report") \/ Ended(r)
           \/ AgentEnd(r) \/ ErrorCheck(r) \/ AppendCheck(r)
  <2>1. UNCHANGED <<meta, ctx>>
    BY <1>2 DEF Ended, AgentEnd, ErrorCheck, AppendCheck, Local, storeVars
  <2>2. w.pc \in {"enter", "startedCheck", "ended", "agent", "errorCheck", "check", "reportCheck"}
    BY <1>2 DEF Ended, AgentEnd, ErrorCheck, AppendCheck
  <2>3. \/ \E pc \in {"setRunning", "started", "reportCheck", "fallback", "ended", "note"} :
             w.pc \in Working \ {"finish", "fallback"} /\ w.pc \notin Erring /\ Goto(r, pc)
        \/ Goto(r, "leave") \/ Goto(r, "report")
        \/ w.pc = "errorCheck" /\ (Goto(r, "error") \/ Goto(r, "finishFailed"))
    BY <1>2 DEF Ended, AgentEnd, ErrorCheck, AppendCheck, Working, Erring
  <2>4. ASSUME NEW pc \in {"setRunning", "started", "reportCheck", "fallback", "ended", "note"},
               w.pc \in Working \ {"finish", "fallback"}, w.pc \notin Erring, Goto(r, pc)
        PROVE  Undeterred(r)'
    BY <1>0, <1>1, <2>1, <2>4, GotoBecomes, SameUndeterred, PointsOfWorker DEF Erring
  <2>5. CASE Goto(r, "leave") \/ Goto(r, "report")
    BY <1>0, <1>1, <2>1, <2>5, GotoBecomes, SameUndeterred, PointsOfWorker DEF Erring, Working
  <2>6. CASE w.pc = "errorCheck" /\ (Goto(r, "error") \/ Goto(r, "finishFailed"))
    <3>1. w.err \notin {"terminal", "cancelled"} /\ w.pc \in Working
      BY <2>6 DEF Undeterred, Working
    <3> QED BY <1>0, <1>1, <2>1, <2>6, <3>1, GotoBecomes, SameUndeterred, PointsOfWorker DEF Erring
  <2> QED BY <2>3, <2>4, <2>5, <2>6
<1>3. CASE SetRunning(r)
  <2>1. PICK reply \in Replies :
          /\ SetRunStatus(r, reply)
          /\ Goto(r, IF reply = "ok" THEN "startedCheck" ELSE "leave")
    BY <1>3 DEF SetRunning
  <2>2. ctx' = ctx
    BY <1>3 DEF SetRunning
  <2>3. CASE reply = "ok"
    <3>1. Same(r, "startedCheck")
      BY <1>0, <2>1, <2>3, GotoBecomes, PointsOfWorker
    <3>2. meta'[r] = "running"
      BY <1>0, <2>1, <2>3, SetReply DEF IInv, StoreTypeOK
    <3> QED BY <1>1, <1>3, <2>2, <3>1, <3>2
            DEF SetRunning, Undeterred, Same, Becomes, ActiveStatus, Erring
  <2>4. CASE reply # "ok"
    <3>1. Same(r, "leave")
      BY <1>0, <2>1, <2>4, GotoBecomes, PointsOfWorker
    <3>2. meta' = meta
      BY <1>0, <2>1, <2>4, SetReply DEF SetRunStatus, Reply, Lost, Rejected, NotSent, storeVars
    <3> QED BY <1>0, <1>1, <2>2, <3>1, <3>2, SameUndeterred DEF Erring, Working
  <2> QED BY <2>3, <2>4
<1>4. CASE AppendStarted(r) \/ AppendError(r)
  <2>1. UNCHANGED <<meta, ctx>>
    BY <1>0, <1>4, AppendReply DEF AppendStarted, AppendError
  <2>2. \/ w.pc = "started" /\ (Goto(r, "loop") \/ Goto(r, "leave"))
        \/ /\ w.pc = "error" /\ w.err \notin {"terminal", "cancelled"}
           /\ Goto(r, "finishFailed")
    BY <1>4 DEF AppendStarted, AppendError, Undeterred
  <2> QED BY <1>0, <1>1, <2>1, <2>2, GotoBecomes, SameUndeterred, PointsOfWorker
          DEF Working, Erring
<1>5. CASE LoopCheck(r) /\ Goto(r, "agent")
  <2>1. w.pc = "loop" /\ UNCHANGED <<meta, ctx>>
    BY <1>5 DEF LoopCheck, Local, storeVars
  <2> QED BY <1>0, <1>1, <1>5, <2>1, GotoBecomes, SameUndeterred, PointsOfWorker
          DEF Working, Erring
<1>6. ASSUME NEW err \in {"agent", "cancelled", "timedout"}, Fail(r, err),
             UNCHANGED <<meta, ctx>>, w.pc \in {"loop", "agent", "note", "finish"},
             err # "timedout" => w.pc = "agent" /\ (w.finished => "lateError" \in AgentMay),
             err = "timedout" => Timed # {}, w.err = ""
      PROVE  Undeterred(r)'
  <2>1. Becomes(r, "failed", err, w.outcome, w.finished)
    BY <1>0, <1>6, FailBecomes DEF Errors
  <2> QED BY <1>1, <1>6, <2>1 DEF Becomes, Undeterred, Working, Erring
<1>7. CASE \/ LoopCheck(r) /\ ~ Goto(r, "agent")
           \/ AgentError(r)
           \/ ContextEnded(r, "note") \/ ContextEnded(r, "finish")
  <2>2. /\ w.pc \in {"loop", "agent", "note", "finish"} /\ w.pc \notin Erring
        /\ UNCHANGED <<meta, ctx>>
    BY <1>7 DEF LoopCheck, ContextEnded, AgentError, Local, storeVars, Erring
  <2>1. \/ \E err \in {"agent", "cancelled"} :
             Fail(r, err) /\ w.pc = "agent" /\ (w.finished => "lateError" \in AgentMay)
        \/ Fail(r, "timedout") /\ ctx[r] = "timedout"
    BY <1>1, <1>7, <2>2 DEF LoopCheck, ContextEnded, AgentError
  <2> QED BY <1>1, <1>6, <2>1, <2>2
<1>8. CASE Timeout(r)
  <2>1. UNCHANGED <<meta, worker>> /\ ctx'[r] = "timedout" /\ Timed # {}
    BY <1>0, <1>8 DEF Timeout, Local, storeVars, WorkerTypeOK
  <2> QED BY <2>1 DEF Undeterred
<1>9. CASE AgentMessage(r)
  <2>1. w.pc = "agent" /\ UNCHANGED <<meta, ctx>>
    BY <1>9 DEF AgentMessage, Local, storeVars
  <2> QED BY <1>0, <1>1, <1>9, <2>1, MessageBecomes, SameUndeterred DEF Working, Erring
<1>10. CASE AppendNote(r)
  <2>1. PICK reply \in Replies :
          /\ AppendEvent(r, w.entry, reply)
          /\ reply = "ok" => Same(r, "loop")
          /\ reply # "ok" => Becomes(r, "failed", reply, w.outcome, w.finished)
    BY <1>0, <1>10, NoteBecomes DEF PlainReasons
  <2>2. w.pc = "note" /\ UNCHANGED <<meta, ctx>>
    BY <1>10, <2>1, AppendReply DEF AppendNote
  <2>3. CASE reply = "ok"
    BY <1>0, <1>1, <2>1, <2>2, <2>3, SameUndeterred DEF Working, Erring
  <2>4. CASE reply # "ok"
    <3>1. reply = "terminal"
      BY <1>0, <2>1, <2>4, AppendReply, PlainReplies
    <3> QED BY <1>1, <2>1, <2>2, <3>1 DEF Becomes, Undeterred, Erring
  <2> QED BY <2>3, <2>4
<1>11. CASE AppendFinish(r)
  <2>1. PICK reply \in Replies :
          /\ FinishRun(r, w.entry.reason, reply)
          /\ reply = "ok" => Becomes(r, "loop", w.err, w.outcome, TRUE)
          /\ reply # "ok" => Becomes(r, "failed", reply, w.outcome, w.finished)
    BY <1>0, <1>11, FinishBecomes
  <2>2. w.pc = "finish" /\ ctx' = ctx /\ w.entry.reason \in Reasons
    BY <1>11 DEF AppendFinish, Reported
  <2>3. meta'[r] # "cancelled"
    <3>1. StatusOf(w.entry.reason) # "cancelled"
      BY <1>0, <2>2, AgentCompletes
    <3>2. meta[r] # "cancelled"
      BY <1>1, <2>2
    <3> QED BY <1>0, <2>1, <3>1, <3>2
            DEF FinishRun, Rejected, NotSent, storeVars, IInv, StoreTypeOK
  <2>4. CASE reply = "ok"
    BY <1>1, <2>1, <2>2, <2>3, <2>4 DEF Becomes, Undeterred, Erring
  <2>5. CASE reply # "ok"
    <3>1. reply = "terminal"
      BY <1>0, <2>1, <2>5, FinishReply, PlainReplies
    <3> QED BY <1>1, <2>1, <2>2, <2>3, <3>1 DEF Becomes, Undeterred, Erring
  <2> QED BY <2>4, <2>5
<1>12. CASE StreamFailed(r)
  <2>1. w.pc = "failed" /\ UNCHANGED <<meta, ctx>>
    BY <1>12 DEF StreamFailed, Local, storeVars
  <2>2. CASE w.err = "cancelled" /\ Goto(r, "finishCancelled")
    <3>1. Same(r, "finishCancelled")
      BY <1>0, <2>2, GotoBecomes, PointsOfWorker
    <3> QED BY <1>1, <2>1, <2>2, <3>1 DEF Same, Becomes, Undeterred, Working, Erring
  <2>3. CASE \/ Goto(r, "leave")
             \/ w.err \notin {"terminal", "cancelled"} /\ Goto(r, "errorCheck")
    BY <1>0, <1>1, <2>1, <2>3, GotoBecomes, SameUndeterred, PointsOfWorker DEF Working, Erring
  <2> QED BY <1>12, <2>2, <2>3 DEF StreamFailed
<1>13. CASE FinishFailed(r)
  <2>2. ctx' = ctx
    BY <1>13 DEF FinishFailed
  <2>3. Same(r, "leave") \/ Becomes(r, "report", w.err, "failed", w.finished)
    BY <1>0, <1>13, GotoBecomes, OutcomeBecomes, PointsOfWorker DEF FinishFailed, Terminal
  <2> QED BY <1>0, <1>1, <2>2, <2>3 DEF Same, Becomes, Undeterred, Working, Erring
<1>14. CASE Fallback(r)
  <2>1. w.pc = "fallback" /\ ctx' = ctx
    BY <1>14 DEF Fallback
  <2>3. ASSUME NEW reply \in Replies, FinishRun(r, "stop", reply),
               reply = "ok" => Goto(r, "reportCheck"),
               reply = "terminal" => Goto(r, "leave"),
               reply \notin {"ok", "terminal"} => Goto(r, "errorCheck")
        PROVE  Undeterred(r)'
    <3>1. reply \in {"ok", "terminal"}
      BY <1>0, <2>3, FinishReply, PlainReplies
    <3>2. Same(r, "reportCheck") \/ Same(r, "leave")
      BY <1>0, <2>3, <3>1, GotoBecomes, PointsOfWorker
    <3>3. meta'[r] # "cancelled"
      <4>1. StatusOf("stop") = "completed"
        BY DEF StatusOf
      <4>2. meta[r] # "cancelled"
        BY <1>1, <2>1
      <4> QED BY <1>0, <2>3, <4>1, <4>2
              DEF FinishRun, Rejected, NotSent, storeVars, IInv, StoreTypeOK
    <3> QED BY <1>1, <2>1, <3>2, <3>3 DEF Same, Becomes, Undeterred, Working, Erring
  <2> QED BY <1>14, <2>3, FallbackGoes
<1>15. CASE Report(r)
  <2>1. w.pc = "report" /\ Goto(r, "leave") /\ UNCHANGED <<meta, ctx>>
    BY <1>15 DEF Report, Local, storeVars
  <2> QED BY <1>0, <1>1, <2>1, GotoBecomes, SameUndeterred, PointsOfWorker DEF Working, Erring
<1>16. CASE Leave(r)
  <2>1. Same(r, "gone") /\ meta' = meta
    BY <1>0, <1>16, GotoBecomes, PointsOfWorker DEF Leave, Local, storeVars
  <2>2. ctx'[r] = "timedout" => ctx[r] = "timedout"
    BY <1>0, <1>16 DEF Leave, cancel, WorkerTypeOK
  <2> QED BY <1>1, <2>1, <2>2 DEF Same, Becomes, Undeterred, Working, Erring
<1>17. CASE FinishCancelled(r)
  <2>1. w.pc = "finishCancelled" /\ ctx' = ctx
    BY <1>17 DEF FinishCancelled
  <2>2. Becomes(r, "report", w.err, "cancelled", w.finished)
    BY <1>0, <1>17, OutcomeBecomes DEF FinishCancelled, Terminal
  <2> QED BY <1>1, <2>1, <2>2 DEF Becomes, Undeterred, Working, Erring
<1>18. CASE WatchRunLifecycle(r)
  <2>1. w.pc \in Parting /\ UNCHANGED <<meta, worker>> /\ ctx'[r] = "cancelled"
    BY <1>0, <1>1, <1>18 DEF WatchRunLifecycle, cancel, Local, storeVars, WorkerTypeOK
  <2> QED BY <2>1 DEF Undeterred
<1>19. CASE EndedMalformed(r)
  <2>1. w.pc = "ended" /\ UNCHANGED <<meta, ctx>> /\ Goto(r, "errorCheck")
    BY <1>19 DEF EndedMalformed, Local, storeVars
  <2> QED BY <1>0, <1>1, <2>1, GotoBecomes, SameUndeterred, PointsOfWorker DEF Working, Erring
<1>20. CASE Unanswered(r)
  <2>1. "resend" \in Faults /\ UNCHANGED <<worker, ctx>>
    BY <1>20 DEF Unanswered, workerVars
  <2>2. ASSUME NEW reply \in Replies, NEW reason, FinishRun(r, reason, reply)
        PROVE  meta'[r] \in {meta[r], StatusOf(reason)}
    BY <1>0, <2>2 DEF FinishRun, Rejected, NotSent, storeVars, IInv, StoreTypeOK
  <2>3. CASE w.pc = "setRunning" /\ \E reply \in Replies : SetRunStatus(r, reply)
    <3>1. meta'[r] = meta[r] \/ meta'[r] = "running"
      BY <1>0, <2>3 DEF SetRunStatus, Rejected, NotSent, storeVars, IInv, StoreTypeOK
    <3> QED BY <1>1, <2>1, <2>3, <3>1 DEF Undeterred, Erring, ActiveStatus
  <2>4. CASE /\ w.pc \in {"started", "note", "error"}
             /\ \E e : \E reply \in Replies : AppendEvent(r, e, reply)
    <3>1. meta' = meta
      BY <2>4, AppendReply
    <3> QED BY <2>1, <3>1 DEF Undeterred
  <2>5. CASE \/ /\ w.pc = "finish"
                /\ \E reply \in Replies : FinishRun(r, w.entry.reason, reply)
             \/ w.pc = "fallback" /\ \E reply \in Replies : FinishRun(r, "stop", reply)
    <3>1. StatusOf("stop") = "completed" /\ (w.pc = "finish" => StatusOf(w.entry.reason) = "completed")
      BY <1>0, AgentCompletes DEF StatusOf, Reported
    <3>2. meta[r] # "cancelled" /\ w.pc \in {"finish", "fallback"}
      BY <1>1, <2>5
    <3>3. \/ w.pc = "finish" /\ meta'[r] \in {meta[r], StatusOf(w.entry.reason)}
          \/ meta'[r] \in {meta[r], StatusOf("stop")}
      BY <2>2, <2>5
    <3>4. meta'[r] # "cancelled"
      BY <3>1, <3>2, <3>3
    <3> QED BY <1>1, <2>1, <3>2, <3>4 DEF Undeterred, Erring
  <2>6. CASE w.pc = "finishCancelled" /\ \E reply \in Replies : FinishRun(r, "cancelled", reply)
    <3>1. meta'[r] \in {meta[r], "cancelled"}
      BY <2>2, <2>6 DEF StatusOf
    <3> QED BY <2>1, <2>6, <3>1 DEF Undeterred
  <2>7. CASE w.pc = "finishFailed" /\ \E reply \in Replies : FinishRun(r, "error", reply)
    <3>1. meta'[r] \in {meta[r], "failed"}
      BY <2>2, <2>7 DEF StatusOf
    <3> QED BY <1>1, <2>1, <2>7, <3>1 DEF Undeterred
  <2> QED BY <1>20, <2>3, <2>4, <2>5, <2>6, <2>7 DEF Unanswered
<1> QED BY <1>2, <1>3, <1>4, <1>5, <1>7, <1>8, <1>9, <1>10, <1>11, <1>12, <1>13, <1>14, <1>15,
           <1>16, <1>17, <1>18, <1>19, <1>20
        DEF WorkerStep, OwnStep, AgentStep

-----------------------------------------------------------------------------
(* The other actors *)

\* What calls and other goroutines do to a run: they start its goroutine.
Others(r) == (\E c \in Calls : CallAction(c)) \/ (\E q \in Runs \ {r} : WorkerStep(q))

Spared(r) ==
    /\ ctx'[r] = ctx[r] /\ terminated'[r] = terminated[r]
    /\ \A i \in Instances : deletedRuns'[i] \subseteq deletedRuns[i]
    /\ \/ /\ worker'[r] = worker[r]
          /\ worker[r].pc # "absent" => meta'[r] = meta[r]
       \/ worker[r].pc = "absent" /\ Same(r, "enter") /\ meta'[r] \in ActiveStatus

LEMMA CallSpares ==
  ASSUME KeysStay, "cancel" \notin Ops, SInv, SessionKept, NEW r \in Runs, NEW c \in Calls,
         CallAction(c)
  PROVE  Spared(r)
<1>0. /\ WorkerKnows /\ WorkerTypeOK /\ FreshKept /\ PointerKept /\ CallsHarmless
      /\ call[c] \in CallState /\ CallOK(call[c])
  BY DEF SInv, TypeOK, CallsOK, SessionKept
<1>1. call[c].pc \notin {"markDeleted", "cancelLocal", "cancelDirect"}
  <2>1. call[c].op \in {"none", "create", "get"}
    BY <1>0, ServiceAssumption DEF CallState, KeysStay, ServiceAssumption
  <2> QED BY <1>0, <2>1 DEF CallOK, OpsAt, InLookup
<1>2. \A q \in issued : meta'[q] = meta[q]
  BY <1>0, <1>1, CallMeta
<1>3. worker[r].pc # "absent" => meta'[r] = meta[r]
  BY <1>0, <1>2 DEF WorkerKnows
<1>4. CASE Register(c)
  <2>1. call[c].pc = "register" /\ call[c].run \in Runs
    BY <1>0, <1>4 DEF Register, In, CallOK, Targeted
  <2>2. UNCHANGED <<ctx, terminated>> /\ \A i \in Instances : deletedRuns'[i] \subseteq deletedRuns[i]
    BY <1>0, <1>4 DEF Register, hooks, WorkerTypeOK
  <2>3. CASE call[c].run # r
    BY <1>0, <1>3, <1>4, <2>2, <2>3 DEF Register, WorkerTypeOK, Spared
  <2>4. CASE call[c].run = r
    <3> DEFINE k == [worker[r] EXCEPT !.pc = "enter", !.inst = call[c].inst]
    <3>1. worker[r] \in Goroutine
      BY <1>0 DEF WorkerTypeOK
    <3>2. /\ k.pc = "enter" /\ k.err = worker[r].err /\ k.outcome = worker[r].outcome
          /\ k.finished = worker[r].finished
      BY <3>1 DEF Goroutine
    <3>3. worker'[r] = k
      BY <1>0, <1>4, <2>4 DEF Register, WorkerTypeOK
    <3> HIDE DEF k
    <3>4. worker[r].pc = "absent" /\ meta[r] \in ActiveStatus
      BY <1>0, <2>1, <2>4 DEF FreshKept, CallsHarmless, Starting
    <3>5. meta'[r] = meta[r]
      BY <1>4 DEF Register, Local, storeVars
    <3> QED BY <2>2, <3>2, <3>3, <3>4, <3>5 DEF Spared, Same, Becomes
  <2> QED BY <2>3, <2>4
<1>5. CASE ~ Register(c)
  <2>1. UNCHANGED workerVars
    BY <1>1, <1>5 DEF CallAction, CallStep, StartCall, StartCancel, Lock, GetPointer, GetMeta,
       DropPointer, ClearPointer, CallInitRun, CallInitAgain, AppendCreated, Rollback, RollbackKeys,
       MarkRunDeleted, CancelLocal, ScanStart, ScanBatch, DelBatch, ScanEnd, ReadTarget,
       CancelDirect, Return, Abandon, CallUnanswered, In
  <2> QED BY <1>3, <2>1 DEF workerVars, Spared
<1> QED BY <1>4, <1>5

LEMMA WorkerSpares ==
  ASSUME SInv, NEW r \in Runs, NEW q \in Runs \ {r}, WorkerStep(q)
  PROVE  Spared(r)
<1>0. WorkerKnows /\ WorkerTypeOK /\ IInv
  BY DEF SInv, TypeOK
<1>1. worker'[r] = worker[r]
  BY <1>0, WorkerGoroutine DEF GoroutineStep
<1>2. meta'[r] = meta[r]
  BY <1>0, WorkerScripts, ScriptOwn DEF storeVars
<1>3. /\ ctx'[r] = ctx[r] /\ terminated'[r] = terminated[r]
      /\ \A i \in Instances : deletedRuns'[i] \subseteq deletedRuns[i]
  <2>1. CASE Report(q)
    BY <1>0, <2>1 DEF Report, registry, WorkerTypeOK
  <2>2. CASE Leave(q)
    BY <1>0, <2>2 DEF Leave, hooks, cancel, WorkerTypeOK
  <2>3. CASE WatchRunLifecycle(q) \/ Timeout(q)
    BY <1>0, <2>3 DEF WatchRunLifecycle, Timeout, hooks, registry, cancel, WorkerTypeOK
  <2>4. CASE UNCHANGED Locals
    BY <2>4 DEF Locals, hooks, registry
  <2> QED BY <2>1, <2>2, <2>3, <2>4, WorkerLocals
<1> QED BY <1>1, <1>2, <1>3 DEF Spared

LEMMA OthersSpare ==
  ASSUME KeysStay, "cancel" \notin Ops, SInv, SessionKept, NEW r \in Runs, Others(r)
  PROVE  Spared(r)
BY CallSpares, WorkerSpares DEF Others

\* A crash stops a goroutine where it is.
LEMMA CrashStops ==
  ASSUME SInv, NEW r \in Runs, NEW i \in Instances, Crash(i)
  PROVE  /\ UNCHANGED <<meta, ctx, terminated>>
         /\ \A j \in Instances : deletedRuns'[j] \subseteq deletedRuns[j]
         /\ worker'[r] = worker[r] \/ (worker[r].pc # "absent" /\ Same(r, "crashed"))
<1> DEFINE k == [worker[r] EXCEPT !.pc = "crashed"]
<1>1. worker[r] \in Goroutine
  BY DEF SInv, TypeOK, WorkerTypeOK
<1>2. /\ k.pc = "crashed" /\ k.err = worker[r].err /\ k.outcome = worker[r].outcome
      /\ k.finished = worker[r].finished
  BY <1>1 DEF Goroutine
<1>3. worker'[r] = worker[r] \/ (worker[r].pc # "absent" /\ worker'[r] = k)
  BY DEF Crash, Running, Streaming
<1>4. \A j \in Instances : deletedRuns'[j] \subseteq deletedRuns[j]
  BY DEF Crash, SInv, TypeOK, WorkerTypeOK
<1> HIDE DEF k
<1> QED BY <1>2, <1>3, <1>4 DEF Crash, Local, storeVars, hooks, Same, Becomes

LEMMA StepUndeterred ==
  ASSUME Unmolested, SInv, SessionKept, CompletedKept, NEW r \in Runs, Undeterred(r), [Next]_vars
  PROVE  Undeterred(r)'
<1>1. CASE WorkerStep(r)
  BY <1>1, WorkerUndeterred DEF SessionKept, CompletedKept
<1>2. CASE Others(r)
  <2>1. Spared(r)
    BY <1>2, OthersSpare DEF Unmolested
  <2>2. CASE worker'[r] = worker[r]
    BY <2>1, <2>2 DEF Spared, Undeterred, Working, Parting, Same, Becomes
  <2>3. CASE worker[r].pc = "absent" /\ Same(r, "enter") /\ meta'[r] \in ActiveStatus
    BY <2>1, <2>3 DEF Spared, Undeterred, Same, Becomes, Working, Erring, Parting, ActiveStatus
  <2> QED BY <2>1, <2>2, <2>3 DEF Spared
<1>3. ASSUME NEW i \in Instances, Crash(i) PROVE Undeterred(r)'
  <2>1. UNCHANGED <<meta, ctx>>
    BY <1>3, CrashStops
  <2>2. CASE worker'[r] = worker[r]
    BY <2>1, <2>2 DEF Undeterred, Working
  <2>3. CASE worker[r].pc # "absent" /\ Same(r, "crashed")
    BY <2>1, <2>3 DEF Undeterred, Same, Becomes, Working, Erring, Parting
  <2> QED BY <1>3, <2>2, <2>3, CrashStops
<1>4. CASE UNCHANGED vars
  BY <1>4 DEF vars, workerVars, storeVars, Undeterred
<1>5. ~ Expire
  BY DEF Unmolested, KeysStay, Expire
<1> QED BY <1>1, <1>2, <1>3, <1>4, <1>5, Steps DEF Others

-----------------------------------------------------------------------------
(* What a goroutine reports is true *)

\* Only the ends that write "cancelled" or "error" themselves choose an outcome.
LEMMA OutcomeStays ==
  ASSUME SInv, NEW r \in Runs, WorkerStep(r), ~ FinishCancelled(r), ~ FinishFailed(r)
  PROVE  worker'[r].outcome = worker[r].outcome
<1> USE DEF At, Checkpoint
<1>0. WorkerTypeOK /\ WorkerKnows /\ IInv
  BY DEF SInv, TypeOK
<1>1. ASSUME NEW pc \in Points, Goto(r, pc) PROVE worker'[r].outcome = worker[r].outcome
  BY <1>0, <1>1, GotoBecomes DEF Same, Becomes
<1>2. ASSUME NEW err \in Errors, Fail(r, err) PROVE worker'[r].outcome = worker[r].outcome
  BY <1>0, <1>2, FailBecomes DEF Becomes
<1>3. CASE \/ Checkpoint(r, "enter", "setRunning") \/ Checkpoint(r, "startedCheck", "started")
           \/ Checkpoint(r, "reportCheck", "report") \/ Ended(r)
           \/ SetRunning(r) \/ AppendStarted(r) \/ AgentEnd(r) \/ StreamFailed(r)
           \/ ErrorCheck(r) \/ AppendError(r) \/ Fallback(r) \/ Report(r) \/ Leave(r)
           \/ AppendCheck(r) \/ EndedMalformed(r)
  BY <1>1, <1>3, PointsOfWorker
     DEF Ended, SetRunning, AppendStarted, AgentEnd, StreamFailed, ErrorCheck, AppendError,
         EndedMalformed, Fallback, Report, Leave, AppendCheck
<1>4. CASE LoopCheck(r) \/ ContextEnded(r, "note") \/ ContextEnded(r, "finish") \/ AgentError(r)
  <2>1. {"agent", "cancelled"} \subseteq Errors /\ (ctx[r] # "live" => ctx[r] \in Errors)
    BY <1>0 DEF WorkerTypeOK, Errors
  <2> QED BY <1>1, <1>2, <1>4, <2>1, PointsOfWorker DEF LoopCheck, ContextEnded, AgentError
<1>5. CASE AppendNote(r)
  <2> DEFINE e == worker[r].entry
             finished == worker[r].finished \/ (e.type = "finish" /\ e.reason # "tool_calls")
             k == [worker[r] EXCEPT !.pc = "loop", !.finished = finished]
  <2>1. PICK reply \in Replies :
          /\ AppendEvent(r, e, reply)
          /\ IF reply = "ok" THEN worker' = [worker EXCEPT ![r] = k] ELSE Fail(r, reply)
    BY <1>5 DEF AppendNote
  <2>2. reply # "ok" => reply \in Errors
    BY <2>1, AppendReply DEF Errors
  <2>3. CASE worker' = [worker EXCEPT ![r] = k]
    <3> HIDE DEF finished
    <3>1. worker[r] \in Goroutine /\ worker'[r] = k
      BY <1>0, <2>3 DEF WorkerTypeOK
    <3> QED BY <3>1 DEF Goroutine
  <2> QED BY <1>2, <2>1, <2>2, <2>3
<1>6. CASE AppendFinish(r)
  <2>1. PICK reply \in Replies :
           /\ FinishRun(r, worker[r].entry.reason, reply)
           /\ reply = "ok" => Becomes(r, "loop", worker[r].err, worker[r].outcome, TRUE)
           /\ reply # "ok" => Becomes(r, "failed", reply, worker[r].outcome, worker[r].finished)
    BY <1>0, <1>6, FinishBecomes
  <2> QED BY <2>1 DEF Becomes
<1>7. CASE AgentMessage(r)
  BY <1>0, <1>7, MessageBecomes DEF Same, Becomes
<1>8. CASE WatchRunLifecycle(r) \/ Timeout(r) \/ Unanswered(r)
  BY <1>8 DEF WatchRunLifecycle, Timeout, Unanswered, workerVars
<1> QED BY <1>3, <1>4, <1>5, <1>6, <1>7, <1>8 DEF WorkerStep, OwnStep, AgentStep

LEMMA WorkerTruthful ==
  ASSUME Unmolested, Timed = {}, "lateError" \notin AgentMay, SInv, PointerKept, VerdictKept, NEW r \in Runs,
         Undeterred(r), Truthful(r), Reported(r), Entitled(r) => verdict[r] = "completed", WorkerStep(r), Recorded,
         verdict[r] # "none" => verdict'[r] = verdict[r]
  PROVE  Truthful(r)'
<1> DEFINE w == worker[r]
<1>0. /\ WorkerTypeOK /\ WorkerKnows /\ IInv /\ w \in Goroutine
      /\ verdict[r] \in Terminal \cup {"none"} /\ terminated[r] \in Terminal \cup {"none"}
      /\ "none" \notin Terminal
  BY DEF SInv, TypeOK, WorkerTypeOK, Terminal
  \* The script of an end that nobody else has ended leaves the run with its status.
<1>4. ASSUME NEW reason, NEW reply \in Replies, FinishRun(r, reason, reply),
             meta[r] \in ActiveStatus \cup {StatusOf(reason)}, StatusOf(reason) \in Terminal
      PROVE  meta'[r] = StatusOf(reason)
  <2>1. CASE meta[r] \in ActiveStatus
    <3>1. meta' = [meta EXCEPT ![r] = StatusOf(reason)]
      BY <1>4, <2>1, PlainReplies DEF Unmolested, KeysStay
    <3> QED BY <1>0, <3>1 DEF IInv, StoreTypeOK
  <2>2. CASE meta[r] \in Terminal
    BY <1>4, <2>2, EndedRejects DEF storeVars, Terminal, ActiveStatus
  <2> QED BY <1>4, <2>1, <2>2
<1>1. CASE Report(r)
  <2>1. w.pc = "report" /\ Same(r, "leave")
    BY <1>0, <1>1, GotoBecomes, PointsOfWorker DEF Report, At
  <2>2. terminated'[r] = verdict[r] /\ verdict[r] # "none"
    <3>1. CASE w.outcome = "none"
      BY <1>0, <1>1, <2>1, <3>1 DEF Report, Entitled, Terminal, WorkerTypeOK
    <3>2. CASE w.outcome # "none"
      BY <1>0, <1>1, <2>1, <3>2 DEF Report, Truthful, WorkerTypeOK, Goroutine
    <3> QED BY <3>1, <3>2
  <2> QED BY <2>1, <2>2 DEF Truthful, Same, Becomes
<1>2. CASE FinishFailed(r)
  <2>1. PICK reply \in Replies : FinishRun(r, "error", reply)
    BY <1>2 DEF FinishFailed
  <2>2. w.pc = "finishFailed" /\ terminated' = terminated
    BY <1>2 DEF FinishFailed, At, hooks
  <2>3. CASE w.err = ""
    <3>1. Same(r, "leave")
      BY <1>0, <1>2, <2>3, GotoBecomes, PointsOfWorker DEF FinishFailed
    <3> QED BY <1>0, <2>2, <3>1 DEF Truthful, Same, Becomes
  <2>4. CASE w.err # ""
    <3>1. Becomes(r, "report", w.err, "failed", w.finished)
      BY <1>0, <1>2, <2>4, OutcomeBecomes DEF FinishFailed, Terminal
    <3>2. w.err = "agent"
      BY <2>2, <2>4 DEF Undeterred
    <3>3. meta[r] \in ActiveStatus \cup {"failed"}
      BY <2>2, <3>2 DEF Undeterred, Working
    <3>4. meta'[r] = "failed"
      BY <1>4, <2>1, <3>3 DEF StatusOf, Terminal
    <3>5. verdict'[r] = "failed"
      BY <3>4 DEF Recorded, Terminal
    <3> QED BY <1>0, <2>2, <3>1, <3>5 DEF Truthful, Becomes
  <2> QED BY <2>3, <2>4
<1>5. CASE FinishCancelled(r)
  <2>1. PICK reply \in Replies : FinishRun(r, "cancelled", reply)
    BY <1>5 DEF FinishCancelled
  <2>2. w.pc = "finishCancelled" /\ terminated' = terminated
    BY <1>5 DEF FinishCancelled, At, hooks
  <2>3. Becomes(r, "report", w.err, "cancelled", w.finished)
    BY <1>0, <1>5, OutcomeBecomes DEF FinishCancelled, Terminal
  <2>4. meta[r] \in ActiveStatus \cup {"cancelled"}
    BY <2>2 DEF Undeterred, Working
  <2>5. meta'[r] = "cancelled"
    BY <1>4, <2>1, <2>4 DEF StatusOf, Terminal
  <2>6. verdict'[r] = "cancelled"
    BY <2>5 DEF Recorded, Terminal
  <2> QED BY <1>0, <2>2, <2>3, <2>6 DEF Truthful, Becomes
<1>3. CASE ~ Report(r) /\ ~ FinishFailed(r) /\ ~ FinishCancelled(r)
  <2>2. worker'[r].outcome = w.outcome
    BY <1>3, OutcomeStays
  <2>3. terminated'[r] = terminated[r]
    <3>1. CASE Leave(r) \/ WatchRunLifecycle(r) \/ Timeout(r)
      BY <3>1 DEF Leave, WatchRunLifecycle, Timeout, hooks
    <3>2. CASE UNCHANGED Locals
      BY <3>2 DEF Locals, hooks
    <3> QED BY <1>3, <3>1, <3>2, WorkerLocals
  <2>4. w.pc \in {"report", "leave", "gone", "crashed"} => worker'[r].pc \in {"report", "leave", "gone"}
    <3>1. CASE Leave(r)
      BY <1>0, <3>1, GotoBecomes, PointsOfWorker DEF Leave, Same, Becomes
    <3>2. CASE WatchRunLifecycle(r) \/ Timeout(r) \/ Unanswered(r)
      BY <3>2 DEF WatchRunLifecycle, Timeout, Unanswered, workerVars, At, Running, Streaming
    <3>3. CASE w.pc \notin {"report", "leave", "gone", "crashed"}
      BY <3>3
    <3> QED BY <1>3, <3>1, <3>2, <3>3
            DEF WorkerStep, OwnStep, AgentStep, At, Checkpoint, Ended, SetRunning, AppendStarted,
                LoopCheck, AppendCheck, ContextEnded, AppendNote, AppendFinish, StreamFailed,
                FinishCancelled, ErrorCheck, AppendError, FinishFailed, EndedMalformed,
                Fallback, AgentMessage, AgentError, AgentEnd
  <2> QED BY <1>0, <2>2, <2>3, <2>4 DEF Truthful, Goroutine
<1> QED BY <1>1, <1>2, <1>3, <1>5

LEMMA StepTruthful ==
  ASSUME Unmolested, Timed = {}, "lateError" \notin AgentMay, SInv, SessionKept, VerdictKept,
         CompletedKept, NEW r \in Runs, Undeterred(r), Truthful(r), [Next]_vars
  PROVE  Truthful(r)'
<1>1. verdict[r] # "none" => verdict'[r] = verdict[r]
  BY StepVerdict DEF Unmolested
<1>2. /\ "none" \notin Terminal /\ terminated[r] \in Terminal \cup {"none"}
      /\ worker[r].outcome \in Terminal \cup {"none"}
  BY DEF SInv, TypeOK, WorkerTypeOK, Goroutine, Terminal
<1>3. CASE WorkerStep(r) /\ Recorded
  BY <1>1, <1>3, WorkerTruthful DEF SessionKept, CompletedKept
<1>4. ASSUME terminated'[r] = terminated[r], NEW pc, worker'[r] = worker[r] \/ Same(r, pc),
             Same(r, pc) => worker[r].pc = "absent" \/ pc = "crashed"
      PROVE  Truthful(r)'
  BY <1>1, <1>2, <1>4 DEF Truthful, Same, Becomes
<1>5. CASE Others(r)
  <2>1. Spared(r)
    BY <1>5, OthersSpare DEF Unmolested
  <2> QED BY <1>4, <2>1 DEF Spared
<1>6. ASSUME NEW i \in Instances, Crash(i) PROVE Truthful(r)'
  BY <1>4, <1>6, CrashStops
<1>7. CASE UNCHANGED vars
  BY <1>7 DEF vars, workerVars, Truthful
<1>8. ~ Expire
  BY DEF Unmolested, KeysStay, Expire
<1> QED BY <1>3, <1>5, <1>6, <1>7, <1>8, Steps DEF Others

\* OnTerminated reports the outcome that Redis recorded, with scripts other than initRun
\* sent again, agents that fail or give up before their finish, callers that leave and
\* crashes.  Where the run is ended from outside, or by a timer, or the agent fails after
\* its finish, the goroutine may report what it tried to write (MCLateCancel.cfg,
\* MCLateError.cfg).
THEOREM ReportsAreTrue ==
  ASSUME Unmolested, Timed = {}, "lateError" \notin AgentMay
  PROVE  Spec => []ReportAgrees
<1> DEFINE Kept == \A r \in Runs : Undeterred(r) /\ Truthful(r)
<1>1. Init => SessionKept
  BY InitFresh, InitOneActive DEF SessionKept
<1>2. SInv /\ SessionKept /\ [Next]_vars => SessionKept'
  BY StepSession DEF Unmolested
<1>3. SInv /\ VerdictKept /\ [Next]_vars => VerdictKept'
  BY StepVerdict DEF Unmolested
<1>4. SInv /\ VerdictKept /\ CompletedKept /\ [Next]_vars => CompletedKept'
  BY StepCompleted DEF Unmolested
<1>5. SInv /\ SessionKept /\ VerdictKept /\ CompletedKept /\ Kept /\ [Next]_vars => Kept'
  BY StepUndeterred, StepTruthful
<1>6. Kept => ReportAgrees
  BY DEF ReportAgrees, Truthful
<1>7. Init => Kept
  BY InitReport
<1> HIDE DEF Kept
<1> QED BY <1>1, <1>2, <1>3, <1>4, <1>5, <1>6, <1>7, InitVerdict, InitCompleted,
           ServiceInvariant, PTL DEF Spec

-----------------------------------------------------------------------------
(* Every end is reported *)

\* Every script is sent once, and agents end well-formed and with their finish.
WellBehaved == "resend" \notin Faults /\ AgentMay \cap {"malformed", "overrun"} = {}

AfterFinish == {"loop", "agent", "failed", "errorCheck", "error", "finishFailed", "ended",
                "finishCancelled", "reportCheck", "report", "leave", "gone", "crashed"}

\* A goroutine does not come to its end without a word: it does not write after its own
\* finish, does not fail without an error, and nobody marks its run as deleted.
Told(r) ==
    LET w == worker[r] IN
    /\ w.err # "terminal"
    /\ w.finished => w.pc \in AfterFinish
    /\ w.pc \in {"failed", "errorCheck", "error", "finishFailed"} => w.err # ""
    /\ w.pc \in {"leave", "gone"} => terminated[r] # "none"
    /\ \A i \in Instances : r \notin deletedRuns[i]

LEMMA InitTold == Init => \A r \in Runs : Told(r)
<1> SUFFICES ASSUME Init, NEW r \in Runs PROVE Told(r)
  OBVIOUS
<1>1. /\ worker[r].pc = "absent" /\ worker[r].finished = FALSE /\ worker[r].err = ""
      /\ \A i \in Instances : deletedRuns[i] = {}
  BY DEF Init, WorkerInit
<1> QED BY <1>1 DEF Told

\* A step that leaves what matters alone.
LEMMA BecomesTold ==
  ASSUME NEW r \in Runs, Told(r), NEW pc, NEW err, NEW outcome, NEW finished,
         Becomes(r, pc, err, outcome, finished), err # "terminal",
         finished => pc \in AfterFinish,
         pc \in {"failed", "errorCheck", "error", "finishFailed"} => err # "",
         pc \in {"leave", "gone"} => terminated'[r] # "none",
         \A i \in Instances : deletedRuns'[i] \subseteq deletedRuns[i]
  PROVE  Told(r)'
BY DEF Told, Becomes

LEMMA WorkerTold ==
  ASSUME Unmolested, WellBehaved, SInv, PointerKept, NEW r \in Runs, Undeterred(r), Told(r),
         WorkerStep(r)
  PROVE  Told(r)'
<1> USE DEF At, Checkpoint
<1> DEFINE w == worker[r]
<1>0. /\ WorkerTypeOK /\ WorkerKnows /\ IInv /\ w.pc \notin {"absent", "gone", "crashed"}
      /\ "lost" \notin Faults /\ "resend" \notin Faults /\ PlainReasons
      /\ AgentMay \cap {"malformed", "overrun"} = {}
  <2>1. WorkerTypeOK /\ WorkerKnows /\ IInv
    BY DEF SInv, TypeOK
  <2>2. w.pc \notin {"absent", "gone", "crashed"}
    BY DEF WorkerStep, OwnStep, AgentStep, Ended, SetRunning, AppendStarted, LoopCheck, AppendCheck,
       ContextEnded, AppendNote, AppendFinish, StreamFailed, FinishCancelled, ErrorCheck,
       AppendError, FinishFailed, EndedMalformed, Fallback, Report, Leave, AgentMessage, AgentError,
       AgentEnd, WatchRunLifecycle, Timeout, Unanswered, Running, Streaming
  <2> QED BY <2>1, <2>2 DEF Unmolested, KeysStay, WellBehaved
<1>1. /\ w.err \in {"", "agent", "cancelled", "timedout"}
      /\ w.pc \notin Parting => ctx[r] \in {"live", "timedout"}
      /\ w.pc \in Working /\ ~ w.finished => meta[r] \in ActiveStatus
      /\ ~ isRunDeleted(r)
  BY <1>0 DEF Undeterred, Told, isRunDeleted, WorkerKnows, PointerKept
<1>2. \A i \in Instances : deletedRuns'[i] \subseteq deletedRuns[i]
  <2>1. CASE Report(r) \/ Leave(r) \/ WatchRunLifecycle(r) \/ Timeout(r)
    BY <1>0, <2>1 DEF Report, Leave, WatchRunLifecycle, Timeout, registry, WorkerTypeOK
  <2>2. CASE UNCHANGED Locals
    BY <2>2 DEF Locals, registry
  <2> QED BY <2>1, <2>2, WorkerLocals
  \* A step to pc, and a failure.
<1>3. ASSUME NEW pc \in Points \ {"leave", "gone"}, Goto(r, pc),
             w.finished => pc \in AfterFinish,
             pc \in {"failed", "errorCheck", "error", "finishFailed"} => w.err # ""
      PROVE  Told(r)'
  <2>1. Same(r, pc)
    BY <1>0, <1>3, GotoBecomes
  <2> QED BY <1>1, <1>2, <1>3, <2>1, BecomesTold DEF Same
<1>4. ASSUME NEW err \in {"agent", "cancelled", "timedout"}, Fail(r, err) PROVE Told(r)'
  <2>1. Becomes(r, "failed", err, w.outcome, w.finished)
    BY <1>0, <1>4, FailBecomes DEF Errors
  <2> QED BY <1>2, <1>4, <2>1, BecomesTold DEF AfterFinish
<1>5. CASE \/ Checkpoint(r, "enter", "setRunning") \/ Checkpoint(r, "startedCheck", "started")
           \/ Checkpoint(r, "reportCheck", "report") \/ Ended(r) \/ AgentEnd(r) \/ AppendCheck(r)
  <2>1. \/ w.pc \notin AfterFinish /\ (Goto(r, "setRunning") \/ Goto(r, "started") \/ Goto(r, "note"))
        \/ ~ w.finished /\ Goto(r, "fallback")
        \/ Goto(r, "report") \/ Goto(r, "ended") \/ Goto(r, "reportCheck")
    BY <1>1, <1>5 DEF Ended, AgentEnd, AppendCheck, AfterFinish
  <2> QED BY <1>3, <2>1, PointsOfWorker DEF Told, AfterFinish
<1>6. CASE StreamFailed(r) \/ ErrorCheck(r) \/ AppendError(r)
  <2>1. w.err # ""
    BY <1>6 DEF StreamFailed, ErrorCheck, AppendError, Told
  <2>2. \/ Goto(r, "errorCheck") \/ Goto(r, "error") \/ Goto(r, "finishFailed")
        \/ Goto(r, "finishCancelled")
    BY <1>1, <1>6, <2>1 DEF StreamFailed, ErrorCheck, AppendError
  <2> QED BY <1>3, <2>1, <2>2, PointsOfWorker DEF AfterFinish
<1>7. CASE SetRunning(r) \/ AppendStarted(r)
  <2>1. meta[r] \in ActiveStatus /\ ~ w.finished
    BY <1>1, <1>7 DEF SetRunning, AppendStarted, Working, Told, AfterFinish
  <2>2. Goto(r, "startedCheck") \/ Goto(r, "loop")
    BY <1>0, <1>7, <2>1, PlainReplies DEF SetRunning, AppendStarted
  <2> QED BY <1>3, <2>1, <2>2, PointsOfWorker
<1>8. CASE LoopCheck(r) \/ ContextEnded(r, "note") \/ ContextEnded(r, "finish") \/ AgentError(r)
  <2>1. Goto(r, "agent") \/ Fail(r, "agent") \/ Fail(r, "cancelled") \/ Fail(r, "timedout")
    BY <1>1, <1>8 DEF LoopCheck, ContextEnded, AgentError, Parting
  <2> QED BY <1>3, <1>4, <2>1, PointsOfWorker DEF AfterFinish
<1>9. CASE AgentMessage(r)
  <2>1. ~ w.finished
    BY <1>0, <1>9 DEF AgentMessage
  <2>2. Same(r, "check") \/ Same(r, "finish")
    BY <1>0, <1>9, MessageBecomes
  <2>3. ASSUME NEW pc \in {"check", "finish"}, Same(r, pc) PROVE Told(r)'
    BY <1>1, <1>2, <2>1, <2>3 DEF Same, Becomes, Told
  <2> QED BY <2>2, <2>3
<1>10. CASE AppendNote(r)
  <2>1. PICK reply \in Replies :
          /\ AppendEvent(r, w.entry, reply)
          /\ reply = "ok" => Same(r, "loop")
    BY <1>0, <1>10, NoteBecomes DEF PlainReasons
  <2>2. meta[r] \in ActiveStatus
    BY <1>1, <1>10 DEF AppendNote, Working, Told, AfterFinish
  <2>3. Same(r, "loop")
    BY <1>0, <2>1, <2>2, PlainReplies
  <2> QED BY <1>1, <1>2, <2>3, BecomesTold DEF Same, AfterFinish
<1>11. CASE AppendFinish(r)
  <2>1. PICK reply \in Replies :
          /\ FinishRun(r, w.entry.reason, reply)
          /\ reply = "ok" => Becomes(r, "loop", w.err, w.outcome, TRUE)
    BY <1>0, <1>11, FinishBecomes
  <2>2. meta[r] \in ActiveStatus
    BY <1>1, <1>11 DEF AppendFinish, Working, Told, AfterFinish
  <2>3. Becomes(r, "loop", w.err, w.outcome, TRUE)
    BY <1>0, <2>1, <2>2, PlainReplies
  <2> QED BY <1>1, <1>2, <2>3, BecomesTold DEF AfterFinish
<1>12. CASE FinishFailed(r)
  <2>1. w.err # ""
    BY <1>12 DEF FinishFailed, Told
  <2>2. Becomes(r, "report", w.err, "failed", w.finished)
    BY <1>0, <1>12, <2>1, OutcomeBecomes DEF FinishFailed, Terminal
  <2> QED BY <1>1, <1>2, <2>2, BecomesTold DEF AfterFinish
<1>18. CASE FinishCancelled(r)
  <2>1. Becomes(r, "report", w.err, "cancelled", w.finished)
    BY <1>0, <1>18, OutcomeBecomes DEF FinishCancelled, Terminal
  <2> QED BY <1>1, <1>2, <2>1, BecomesTold DEF AfterFinish
<1>13. CASE Fallback(r)
  <2>1. meta[r] \in ActiveStatus /\ ~ w.finished
    BY <1>1, <1>13 DEF Fallback, Working, Told, AfterFinish
  <2>2. Goto(r, "reportCheck")
    BY <1>0, <1>13, <2>1, FallbackGoes, PlainReplies
  <2> QED BY <1>3, <2>1, <2>2, PointsOfWorker
<1>14. CASE Report(r)
  <2>1. terminated'[r] # "none"
    BY <1>0, <1>14 DEF Report, WorkerTypeOK
  <2>2. Same(r, "leave")
    BY <1>0, <1>14, GotoBecomes, PointsOfWorker DEF Report
  <2> QED BY <1>1, <1>2, <2>1, <2>2, BecomesTold DEF Same, AfterFinish
<1>15. CASE Leave(r)
  <2>1. terminated'[r] # "none"
    BY <1>15 DEF Leave, hooks, Told
  <2>2. Same(r, "gone")
    BY <1>0, <1>15, GotoBecomes, PointsOfWorker DEF Leave
  <2> QED BY <1>1, <1>2, <2>1, <2>2, BecomesTold DEF Same, AfterFinish
<1>16. CASE Timeout(r) \/ WatchRunLifecycle(r)
  BY <1>16 DEF Timeout, WatchRunLifecycle, registry, hooks, Told
<1>17. ~ (EndedMalformed(r) \/ Unanswered(r))
  BY <1>0 DEF EndedMalformed, Unanswered
<1> QED BY <1>5, <1>6, <1>7, <1>8, <1>9, <1>10, <1>11, <1>12, <1>13, <1>14, <1>15, <1>16, <1>17,
           <1>18
        DEF WorkerStep, OwnStep, AgentStep

LEMMA StepTold ==
  ASSUME Unmolested, WellBehaved, SInv, SessionKept, NEW r \in Runs, Undeterred(r), Told(r),
         [Next]_vars
  PROVE  Told(r)'
<1>1. CASE WorkerStep(r)
  BY <1>1, WorkerTold DEF SessionKept
<1>2. ASSUME NEW pc \in {"enter", "crashed"}, terminated'[r] = terminated[r],
             \A i \in Instances : deletedRuns'[i] \subseteq deletedRuns[i],
             worker'[r] = worker[r] \/ Same(r, pc),
             Same(r, pc) => worker[r].pc = "absent" \/ pc = "crashed"
      PROVE  Told(r)'
  BY <1>2 DEF Told, Same, Becomes, AfterFinish
<1>3. CASE Others(r)
  <2>1. Spared(r)
    BY <1>3, OthersSpare DEF Unmolested
  <2> QED BY <1>2, <2>1 DEF Spared
<1>4. ASSUME NEW i \in Instances, Crash(i) PROVE Told(r)'
  BY <1>2, <1>4, CrashStops
<1>5. CASE UNCHANGED vars
  BY <1>5 DEF vars, workerVars, Told
<1>6. ~ Expire
  BY DEF Unmolested, KeysStay, Expire
<1> QED BY <1>1, <1>3, <1>4, <1>5, <1>6, Steps DEF Others

\* Every run that ends is reported once its worker is done, with timers, callers that
\* leave, crashes and agents that fail, before or after their finish.  An agent that writes
\* after its finish, a message that cannot be completed and a script that is sent again
\* break it (MCUnreported.cfg).
THEOREM EndsAreReported ==
  ASSUME Unmolested, WellBehaved
  PROVE  Spec => []EveryEndReported
<1> DEFINE Kept  == \A r \in Runs : Undeterred(r)
           AllTold == \A r \in Runs : Told(r)
<1>1. Init => SessionKept
  BY InitFresh, InitOneActive DEF SessionKept
<1>2. SInv /\ SessionKept /\ [Next]_vars => SessionKept'
  BY StepSession DEF Unmolested
<1>3. SInv /\ VerdictKept /\ [Next]_vars => VerdictKept'
  BY StepVerdict DEF Unmolested
<1>4. SInv /\ VerdictKept /\ CompletedKept /\ [Next]_vars => CompletedKept'
  BY StepCompleted DEF Unmolested
<1>5. SInv /\ SessionKept /\ CompletedKept /\ Kept /\ [Next]_vars => Kept'
  BY StepUndeterred
<1>6. SInv /\ SessionKept /\ Kept /\ AllTold /\ [Next]_vars => AllTold'
  BY StepTold
<1>7. AllTold => EveryEndReported
  BY DEF EveryEndReported, Told
<1>8. Init => Kept /\ AllTold
  BY InitReport, InitTold
<1> HIDE DEF Kept, AllTold
<1> QED BY <1>1, <1>2, <1>3, <1>4, <1>5, <1>6, <1>7, <1>8, InitVerdict, InitCompleted,
           ServiceInvariant, PTL DEF Spec

-----------------------------------------------------------------------------
(* What the keys of a session tell of a run *)

LEMMA KeyFacts ==
  ASSUME NEW r \in Runs, NEW s
  PROVE  /\ MetaKey(r) \in KeysOf(s) => SessionOf[r] = s
         /\ EventsKey(r) \in KeysOf(s) => SessionOf[r] = s
         /\ SessionOf[r] = s => {MetaKey(r), EventsKey(r)} \subseteq KeysOf(s)
         /\ MetaKey(r) \in Existing(s) => SessionOf[r] = s /\ meta[r] # "none"
         /\ EventsKey(r) \in Existing(s) => events[r] # <<>>
         /\ SessionOf[r] = s /\ meta[r] # "none" => MetaKey(r) \in Existing(s)
         /\ SessionOf[r] = s /\ events[r] # <<>> => EventsKey(r) \in Existing(s)
<1>1. /\ \A q : (MetaKey(q) = MetaKey(r)) => q = r
      /\ \A q : (EventsKey(q) = EventsKey(r)) => q = r
      /\ \A q : MetaKey(q) # EventsKey(r) /\ EventsKey(q) # MetaKey(r)
      /\ \A q : CurrentKey(q) # EventsKey(r) /\ CurrentKey(q) # MetaKey(r)
  BY DEF MetaKey, EventsKey, CurrentKey
<1>2. (MetaKey(r) \in KeysOf(s) => SessionOf[r] = s) /\ (EventsKey(r) \in KeysOf(s) => SessionOf[r] = s)
  BY <1>1 DEF KeysOf
<1>3. SessionOf[r] = s => {MetaKey(r), EventsKey(r)} \subseteq KeysOf(s)
  BY DEF KeysOf
<1>4. MetaKey(r) \in Existing(s) => meta[r] # "none"
  BY <1>1 DEF Existing
<1>5. EventsKey(r) \in Existing(s) => events[r] # <<>>
  BY <1>1 DEF Existing
<1>6. MetaKey(r) \in Existing(s) => MetaKey(r) \in KeysOf(s)
  BY DEF Existing
<1>7. SessionOf[r] = s /\ meta[r] # "none" => MetaKey(r) \in Existing(s)
  BY <1>3 DEF Existing
<1>8. SessionOf[r] = s /\ events[r] # <<>> => EventsKey(r) \in Existing(s)
  BY <1>3 DEF Existing
<1> QED BY <1>2, <1>3, <1>4, <1>5, <1>6, <1>7, <1>8

-----------------------------------------------------------------------------
(* What a worker leaves *)

\* No reply is lost, no caller leaves and no process dies: each of these can cut off
\* DeleteSession or a worker before its last command.  And no late initRun brings back a
\* run that its worker has left.
Undisturbed == "lost" \notin Faults /\ InitOnce /\ ~ CallersLeave /\ MaxCrashes = 0

Inactive(r) == r \in issued /\ meta[r] \notin ActiveStatus

\* A call of DeleteSession that has found the run and will remove its hash.
WillDelete(c, r) ==
    LET k == call[c] IN
    /\ k.op = "delete" /\ SessionOf[r] = k.sess
    /\ \/ k.pc \in {"cancelLocal", "scan"}
       \/ k.pc \in {"nextBatch", "delBatch"} /\ MetaKey(r) \in k.todo
       \/ k.pc = "delBatch" /\ MetaKey(r) \in k.batch

\* Nothing is left to do for the worker of the run.
Doomed(r) == r \in issued /\ (Inactive(r) \/ \E c \in Calls : WillDelete(c, r))

\* A goroutine that knows of the end of its run.
Settled(r) == worker[r].finished \/ worker[r].err = "terminal"

Leaving(r) == worker[r].pc \in {"reportCheck", "report", "leave", "gone"}

Marked(r) == \E i \in Instances : r \in deletedRuns[i]

\* A worker only leaves a run that has ended, or that DeleteSession is about to remove.
LeftKept ==
    \A r \in Runs :
      /\ Settled(r) => Inactive(r)
      /\ Leaving(r) \/ Marked(r) => Doomed(r)

LEMMA InitLeft == Init => LeftKept
<1> SUFFICES ASSUME Init, NEW r \in Runs PROVE ~ (Settled(r) \/ Leaving(r) \/ Marked(r))
  BY DEF LeftKept
<1>1. /\ worker[r].pc = "absent" /\ worker[r].finished = FALSE /\ worker[r].err = ""
      /\ \A i \in Instances : deletedRuns[i] = {}
  BY DEF Init, WorkerInit
<1> QED BY <1>1 DEF Settled, Leaving, Marked

-----------------------------------------------------------------------------
(* A run that is doomed stays so *)

LEMMA InactiveForGood ==
  ASSUME InitOnce, IInv, [StoreNext]_storeVars, NEW r \in Runs, Inactive(r) PROVE Inactive(r)'
BY InactiveStays, IssuedGrows DEF Inactive

LEMMA DeleterDeletes ==
  ASSUME Undisturbed, SInv, NEW c \in Calls, CallAction(c), NEW r \in issued, WillDelete(c, r)
  PROVE  Inactive(r)' \/ WillDelete(c, r)'
<1> DEFINE w == call[c]
<1> USE DEF In
<1>0. w \in CallState /\ r \in Runs
  BY DEF SInv, TypeOK, IInv, StoreTypeOK
<1>1. w.pc \in {"cancelLocal", "scan", "nextBatch", "delBatch"} /\ w.op = "delete"
      /\ SessionOf[r] = w.sess
  BY DEF WillDelete
<1>2. CASE CancelLocal(c)
  <2> DEFINE k == [call[c] EXCEPT !.pc = "scan"]
  <2>1. call' = [call EXCEPT ![c].pc = "scan"]
    BY <1>1, <1>2 DEF CancelLocal, Enter
  <2>2. call'[c] = k
    BY <2>1 DEF SInv, TypeOK
  <2>3. k.pc = "scan" /\ k.op = "delete" /\ k.sess = w.sess
    BY <1>0, <1>1 DEF CallState
  <2> HIDE DEF k
  <2> QED BY <1>1, <2>2, <2>3 DEF WillDelete
<1>3. CASE ScanStart(c)
  <2>1. CASE meta[r] = "none"
    BY <1>3, <2>1, IssuedGrows DEF ScanStart, Local, storeVars, Inactive, ActiveStatus
  <2>2. CASE meta[r] # "none"
    <3> DEFINE keys == Existing(w.sess)
               k == [call[c] EXCEPT !.pc = "nextBatch", !.todo = keys, !.found = keys]
    <3>1. MetaKey(r) \in keys
      BY <1>0, <1>1, <2>2, KeyFacts
    <3>2. call'[c] = k
      BY <1>3 DEF ScanStart, SInv, TypeOK
    <3> HIDE DEF keys
    <3>3. k.pc = "nextBatch" /\ k.op = "delete" /\ k.sess = w.sess /\ k.todo = keys
      BY <1>0, <1>1 DEF CallState
    <3> HIDE DEF k
    <3> QED BY <1>1, <3>1, <3>2, <3>3 DEF WillDelete
  <2> QED BY <2>1, <2>2
<1>4. CASE ScanBatch(c)
  <2>1. PICK K \in SUBSET Existing(w.sess) :
          call' = [call EXCEPT ![c] = [@ EXCEPT !.pc = "delBatch", !.batch = K,
                                                !.todo = call[c].todo \ K]]
    BY <1>4 DEF ScanBatch
  <2> DEFINE todo == call[c].todo \ K
             k == [call[c] EXCEPT !.pc = "delBatch", !.batch = K, !.todo = todo]
  <2>2. MetaKey(r) \in w.todo
    BY <1>4 DEF ScanBatch, WillDelete
  <2>3. call'[c] = k
    BY <2>1 DEF SInv, TypeOK
  <2>4. MetaKey(r) \in todo \cup K
    BY <2>2
  <2> HIDE DEF todo
  <2>5. k.pc = "delBatch" /\ k.op = "delete" /\ k.sess = w.sess /\ k.todo = todo /\ k.batch = K
    BY <1>0, <1>1 DEF CallState
  <2> HIDE DEF k
  <2> QED BY <1>1, <2>3, <2>4, <2>5 DEF WillDelete
<1>5. CASE DelBatch(c)
  <2> DEFINE k == [call[c] EXCEPT !.pc = "nextBatch", !.batch = {}]
  <2>1. w.pc = "delBatch" /\ Del(w.batch) /\ call'[c] = k
    BY <1>5 DEF DelBatch, SInv, TypeOK
  <2>2. CASE MetaKey(r) \in w.batch
    BY <1>0, <2>1, <2>2 DEF Del, Inactive, ActiveStatus
  <2>3. CASE MetaKey(r) \in w.todo
    <3>1. k.pc = "nextBatch" /\ k.op = "delete" /\ k.sess = w.sess /\ k.todo = w.todo
      BY <1>0, <1>1 DEF CallState
    <3> HIDE DEF k
    <3> QED BY <1>1, <2>1, <2>3, <3>1 DEF WillDelete
  <2> QED BY <2>1, <2>2, <2>3 DEF WillDelete
<1>6. CASE ScanEnd(c)
  <2>1. MetaKey(r) \in w.todo /\ MetaKey(r) \notin Existing(w.sess)
    BY <1>6 DEF ScanEnd, WillDelete
  <2>2. meta[r] = "none"
    BY <1>0, <1>1, <2>1, KeyFacts
  <2> QED BY <1>6, <2>2 DEF ScanEnd, Local, storeVars, Inactive, ActiveStatus
<1>8. CASE CallUnanswered(c)
  <2>1. w.pc = "delBatch" /\ Del(w.batch) /\ call' = call
    BY <1>1, <1>8 DEF CallUnanswered
  <2>2. CASE MetaKey(r) \in w.batch
    BY <1>0, <2>1, <2>2 DEF Del, Inactive, ActiveStatus
  <2>3. CASE MetaKey(r) \in w.todo
    BY <1>1, <2>1, <2>3 DEF WillDelete
  <2> QED BY <2>1, <2>2, <2>3 DEF WillDelete
<1>7. \/ CancelLocal(c) \/ ScanStart(c) \/ ScanBatch(c) \/ DelBatch(c) \/ ScanEnd(c)
      \/ CallUnanswered(c)
  BY <1>1 DEF Undisturbed, CallAction, CallStep, StartCall, StartCancel, Lock, GetPointer,
     GetMeta, DropPointer, ClearPointer, CallInitRun, CallInitAgain, AppendCreated, Rollback,
     RollbackKeys, Register, MarkRunDeleted, ReadTarget, CancelDirect, Return, Abandon
<1> QED BY <1>2, <1>3, <1>4, <1>5, <1>6, <1>7, <1>8

LEMMA NoCrash ==
  ASSUME Undisturbed, SInv, NEW i \in Instances PROVE ~ Crash(i)
BY DEF Undisturbed, SInv, TypeOK, Crash

LEMMA StaysDoomed ==
  ASSUME Undisturbed, SInv, [Next]_vars, NEW r \in Runs, Doomed(r)
  PROVE  Doomed(r)'
<1>1. IInv /\ [StoreNext]_storeVars
  BY ServiceDrives DEF SInv
<1>2. r \in issued'
  BY <1>1, IssuedGrows DEF Doomed
<1>3. CASE Inactive(r)
  BY <1>1, <1>2, <1>3, InactiveForGood DEF Doomed, Undisturbed
<1>4. ASSUME NEW c \in Calls, WillDelete(c, r) PROVE Doomed(r)'
  <2>1. CASE call'[c] = call[c]
    BY <1>2, <1>4, <2>1 DEF Doomed, WillDelete
  <2>2. CASE CallAction(c)
    BY <1>2, <1>4, <2>2, DeleterDeletes DEF Doomed
  <2>3. ASSUME NEW d \in Calls \ {c}, CallAction(d) PROVE call'[c] = call[c]
    <3>1. CallMoved(d)
      BY <1>1, <2>3, IssuedGrows, CallMoves DEF SInv
    <3> QED BY <3>1 DEF CallMoved, SInv, TypeOK
  <2>4. \/ CallAction(c) \/ call' = call
        \/ \E d \in Calls \ {c} : CallAction(d)
    BY NoCrash, Steps DEF callVars, vars
  <2> QED BY <2>1, <2>2, <2>3, <2>4
<1> QED BY <1>3, <1>4 DEF Doomed

-----------------------------------------------------------------------------
(* A worker leaves a doomed run *)

\* A step of a goroutine that may leave only with good reason.
Excused(r) ==
    /\ deletedRuns' = deletedRuns
    /\ Settled(r)' => Settled(r) \/ Inactive(r)'
    /\ Leaving(r)' => Leaving(r) \/ Settled(r) \/ Marked(r) \/ Inactive(r)'

LEMMA GoExcused ==
  ASSUME WorkerTypeOK, NEW r \in Runs, NEW pc \in Points, Goto(r, pc), deletedRuns' = deletedRuns,
         \/ pc \notin {"reportCheck", "report", "leave", "gone"}
         \/ Leaving(r) \/ Settled(r) \/ Marked(r) \/ Inactive(r)'
  PROVE  Excused(r)
BY GotoEffect DEF Excused, Settled, Leaving, Keeps

LEMMA FailExcused ==
  ASSUME WorkerTypeOK, NEW r \in Runs, NEW err \in Errors, Fail(r, err), deletedRuns' = deletedRuns,
         err # "terminal" \/ Inactive(r)'
  PROVE  Excused(r)
BY FailEffect DEF Excused, Settled, Leaving, Keeps

LEMMA DeletedIsMarked ==
  ASSUME WorkerKnows, NEW r \in Runs, worker[r].pc # "absent", isRunDeleted(r) PROVE Marked(r)
BY DEF WorkerKnows, isRunDeleted, Marked

LEMMA WorkerExcused ==
  ASSUME Undisturbed, "tool-calls" \notin Reasons, IInv, WorkerTypeOK, WorkerKnows, NEW r \in Runs,
         WorkerStep(r), issued \subseteq issued', ~ Leave(r)
  PROVE  Excused(r)
<1> USE DEF At, Checkpoint
<1>0. r \in issued'
  BY WorkerGoroutine DEF GoroutineStep, WorkerKnows
<1>1. CASE \/ Checkpoint(r, "enter", "setRunning") \/ Checkpoint(r, "startedCheck", "started")
           \/ Checkpoint(r, "reportCheck", "report") \/ Ended(r)
           \/ AgentEnd(r) \/ ErrorCheck(r) \/ AppendError(r) \/ AppendCheck(r)
           \/ EndedMalformed(r)
  BY <1>1, GoExcused, DeletedIsMarked, PointsOfWorker
     DEF Ended, AgentEnd, ErrorCheck, AppendError, AppendCheck, EndedMalformed, registry,
         Leaving, Settled
<1>2. CASE LoopCheck(r) \/ ContextEnded(r, "note") \/ ContextEnded(r, "finish") \/ AgentError(r)
  <2>1. /\ {"agent", "cancelled"} \subseteq Errors /\ (ctx[r] # "live" => ctx[r] \in Errors)
        /\ ctx[r] # "terminal"
    BY DEF WorkerTypeOK, Errors
  <2> QED BY <1>2, <2>1, GoExcused, FailExcused, PointsOfWorker
          DEF LoopCheck, ContextEnded, AgentError, registry
<1>3. CASE SetRunning(r)
  <2>1. PICK reply \in Replies :
          /\ SetRunStatus(r, reply)
          /\ Goto(r, IF reply = "ok" THEN "startedCheck" ELSE "leave")
    BY <1>3 DEF SetRunning
  <2>2. reply # "ok" => Inactive(r)'
    <3>1. reply # "ok" => meta[r] \in {"none"} \cup Terminal /\ meta' = meta
      BY <2>1, SetReply
         DEF Undisturbed, SetRunStatus, Reply, Lost, Rejected, NotSent, storeVars
    <3> QED BY <1>0, <3>1 DEF Inactive, ActiveStatus, Terminal
  <2> QED BY <1>3, <2>1, <2>2, GoExcused, PointsOfWorker DEF SetRunning, registry
<1>4. CASE AppendStarted(r)
  <2>1. PICK reply \in Replies :
          /\ AppendEvent(r, Plain("run_started"), reply)
          /\ Goto(r, IF reply = "ok" THEN "loop" ELSE "leave")
    BY <1>4 DEF AppendStarted
  <2>2. reply # "ok" => Inactive(r)'
    BY <1>0, <2>1, AppendReply DEF Undisturbed, Inactive, ActiveStatus, Terminal
  <2> QED BY <1>4, <2>1, <2>2, GoExcused, PointsOfWorker DEF AppendStarted, registry
<1>5. CASE StreamFailed(r)
  <2>1. worker[r].err = "terminal" \/ isRunDeleted(r) => Settled(r) \/ Marked(r)
    BY <1>5, DeletedIsMarked DEF StreamFailed, Settled
  <2> QED BY <1>5, <2>1, GoExcused, PointsOfWorker DEF StreamFailed, registry
<1>6. ASSUME NEW reason, NEW reply, FinishRun(r, reason, reply) PROVE Inactive(r)'
  BY <1>0, <1>6, FinishReply, StatusOfTerminal DEF Undisturbed, Inactive, ActiveStatus, Terminal
<1>7. CASE FinishCancelled(r) \/ FinishFailed(r)
  <2>1. Inactive(r)' /\ deletedRuns' = deletedRuns
    BY <1>6, <1>7 DEF FinishCancelled, FinishFailed, registry
  <2> QED BY <2>1 DEF Excused
<1>9. CASE AppendFinish(r) \/ Fallback(r)
  <2>1. Inactive(r)' /\ deletedRuns' = deletedRuns
    BY <1>6, <1>9 DEF AppendFinish, Fallback, registry
  <2> QED BY <2>1 DEF Excused
<1>10. CASE AppendNote(r)
  <2> DEFINE e == worker[r].entry
             finished == worker[r].finished \/ (e.type = "finish" /\ e.reason # "tool_calls")
             k == [worker[r] EXCEPT !.pc = "loop", !.finished = finished]
  <2>1. PICK reply \in Replies :
          /\ AppendEvent(r, e, reply)
          /\ IF reply = "ok" THEN worker' = [worker EXCEPT ![r] = k] ELSE Fail(r, reply)
    BY <1>10 DEF AppendNote
  <2>2. deletedRuns' = deletedRuns
    BY <1>10 DEF AppendNote, registry
  <2>3. CASE reply # "ok"
    <3>1. reply \in Errors /\ Inactive(r)'
      BY <1>0, <2>1, <2>3, AppendReply
         DEF Errors, Undisturbed, Inactive, ActiveStatus, Terminal
    <3> QED BY <2>2, <3>1 DEF Excused
  <2>4. CASE reply = "ok"
    <3>1. worker[r] \in Goroutine
      BY DEF WorkerTypeOK
    <3>2. finished => worker[r].finished
      <4>1. e \in Notes
        BY <1>10 DEF AppendNote, WorkerKnows
      <4> QED BY <4>1, NoteIsNoFinish
    <3>3. worker'[r] = k
      BY <2>1, <2>4 DEF WorkerTypeOK
    <3> HIDE DEF finished
    <3>4. k.pc = "loop" /\ k.err = worker[r].err /\ k.finished = finished
      BY <3>1 DEF Goroutine
    <3> HIDE DEF k
    <3> QED BY <2>2, <3>2, <3>3, <3>4 DEF Excused, Settled, Leaving
  <2> QED BY <2>3, <2>4
<1>11. CASE Report(r)
  BY <1>11, GoExcused, PointsOfWorker DEF Report, registry, Leaving
<1>12. CASE AgentMessage(r)
  <2>1. PICK e \in {Plain("message")} \cup {Finish(reason) : reason \in Reasons} :
          worker' = [worker EXCEPT ![r] = [@ EXCEPT !.entry = e, !.left = worker[r].left - 1,
                      !.pc = IF e \in Notes THEN "check" ELSE "finish"]]
    BY <1>12 DEF AgentMessage
  <2> DEFINE pc == IF e \in Notes THEN "check" ELSE "finish"
             left == worker[r].left - 1
             k == [worker[r] EXCEPT !.entry = e, !.left = left, !.pc = pc]
  <2>2. pc \in {"check", "finish"}
    OBVIOUS
  <2>3. worker[r] \in Goroutine
    BY DEF WorkerTypeOK
  <2>4. worker'[r] = k
    BY <2>1 DEF WorkerTypeOK
  <2> HIDE DEF pc, left
  <2>5. k.pc = pc /\ k.err = worker[r].err /\ k.finished = worker[r].finished
    BY <2>3 DEF Goroutine
  <2> HIDE DEF k
  <2> QED BY <1>12, <2>2, <2>4, <2>5 DEF AgentMessage, registry, Excused, Settled, Leaving
<1>13. CASE WatchRunLifecycle(r) \/ Timeout(r) \/ Unanswered(r)
  BY <1>13 DEF WatchRunLifecycle, Timeout, Unanswered, workerVars, registry, Excused, Settled,
     Leaving
<1> QED BY <1>1, <1>2, <1>3, <1>4, <1>5, <1>7, <1>9, <1>10, <1>11, <1>12, <1>13
        DEF WorkerStep, OwnStep, AgentStep

\* What the other actors do to a goroutine: a call may start it, a deletion may mark its
\* run.
LEMMA OthersExcused ==
  ASSUME Undisturbed, SInv, issued \subseteq issued', NEW r \in Runs,
         \/ \E c \in Calls : CallAction(c)
         \/ Expire /\ UNCHANGED workerVars
         \/ \E q \in Runs \ {r} : WorkerStep(q)
  PROVE  /\ Settled(r)' => Settled(r)
         /\ Leaving(r)' => Leaving(r)
         /\ Marked(r)' => Marked(r) \/ Doomed(r)'
<1>0. WorkerTypeOK /\ WorkerKnows /\ IInv
  BY DEF SInv, TypeOK
<1>1. CASE Expire /\ UNCHANGED workerVars
  BY <1>1 DEF workerVars, Settled, Leaving, Marked
<1>2. ASSUME NEW q \in Runs \ {r}, WorkerStep(q)
      PROVE  worker'[r] = worker[r] /\ (Marked(r)' => Marked(r))
  <2>1. worker'[r] = worker[r]
    BY <1>0, <1>2, WorkerGoroutine DEF GoroutineStep
  <2>2. CASE Leave(q)
    BY <1>0, <2>1, <2>2 DEF Leave, Marked, WorkerTypeOK
  <2>3. CASE Report(q) \/ WatchRunLifecycle(q) \/ Timeout(q) \/ UNCHANGED Locals
    BY <2>1, <2>3 DEF Report, WatchRunLifecycle, Timeout, Locals, registry, Marked
  <2> QED BY <1>2, <2>2, <2>3, WorkerLocals
<1>3. ASSUME NEW c \in Calls, CallAction(c)
      PROVE  /\ Settled(r)' => Settled(r)
             /\ Leaving(r)' => Leaving(r)
             /\ Marked(r)' => Marked(r) \/ Doomed(r)'
  <2> USE DEF In
  <2> DEFINE w == call[c]
  <2>1. CASE UNCHANGED workerVars
    BY <2>1 DEF workerVars, Settled, Leaving, Marked
  <2>2. CASE CancelLocal(c)
    BY <2>2 DEF CancelLocal, registry, Settled, Leaving, Marked
  <2>3. CASE MarkRunDeleted(c)
    <3>1. UNCHANGED worker
      BY <2>3 DEF MarkRunDeleted
    <3>2. CASE w.run # r
      BY <1>0, <2>3, <3>1, <3>2 DEF MarkRunDeleted, WorkerTypeOK, Settled, Leaving, Marked
    <3>3. CASE w.run = r
      <4> DEFINE k == [call[c] EXCEPT !.pc = "cancelLocal"]
      <4>1. w.op = "delete" /\ SessionOf[r] = w.sess /\ r \in issued'
        BY <2>3, <3>3 DEF MarkRunDeleted, SInv, CallsOK, CallOK, TargetsIssued, Targeted, OpsAt,
           InLookup
      <4>2. w \in CallState /\ call'[c] = k
        BY <2>3 DEF MarkRunDeleted, Enter, SInv, TypeOK
      <4>3. k.pc = "cancelLocal" /\ k.op = w.op /\ k.sess = w.sess
        BY <4>2 DEF CallState
      <4> HIDE DEF k
      <4>4. WillDelete(c, r)'
        BY <4>1, <4>2, <4>3 DEF WillDelete
      <4>5. Doomed(r)'
        BY <4>1, <4>4 DEF Doomed
      <4> QED BY <3>1, <4>5 DEF Settled, Leaving
    <3> QED BY <3>2, <3>3
  <2>4. CASE Register(c)
    <3>1. Marked(r)' => Marked(r)
      BY <1>0, <2>4 DEF Register, Marked, WorkerTypeOK
    <3>2. CASE w.run # r
      <4>1. worker'[r] = worker[r]
        BY <1>0, <2>4, <3>2 DEF Register, WorkerTypeOK
      <4> QED BY <3>1, <4>1 DEF Settled, Leaving
    <3>3. CASE w.run = r
      <4> DEFINE k == [worker[r] EXCEPT !.pc = "enter", !.inst = w.inst]
      <4>1. worker[r] \in Goroutine /\ worker'[r] = k
        BY <1>0, <2>4, <3>3 DEF WorkerTypeOK, Register
      <4>2. k.pc = "enter" /\ k.err = worker[r].err /\ k.finished = worker[r].finished
        BY <4>1 DEF Goroutine
      <4> HIDE DEF k
      <4> QED BY <3>1, <4>1, <4>2 DEF Settled, Leaving
    <3> QED BY <3>2, <3>3
  <2>5. UNCHANGED workerVars \/ CancelLocal(c) \/ MarkRunDeleted(c) \/ Register(c)
    BY <1>3 DEF CallAction, CallStep, StartCall, StartCancel, Lock, GetPointer, GetMeta,
       DropPointer, ClearPointer, CallInitRun, CallInitAgain, AppendCreated, Rollback,
       RollbackKeys, ScanStart, ScanBatch, DelBatch, ScanEnd, ReadTarget, CancelDirect, Return,
       Abandon, CallUnanswered
  <2> QED BY <2>1, <2>2, <2>3, <2>4, <2>5
<1> QED BY <1>1, <1>2, <1>3 DEF Settled, Leaving

LEMMA StepLeft ==
  ASSUME Undisturbed, "tool-calls" \notin Reasons, SInv, LeftKept, [Next]_vars
  PROVE  LeftKept'
<1>0. WorkerTypeOK /\ WorkerKnows /\ IInv /\ [StoreNext]_storeVars
  BY ServiceDrives DEF SInv, TypeOK
<1>1. issued \subseteq issued'
  BY <1>0, IssuedGrows
<1>2. SUFFICES ASSUME NEW r \in Runs
               PROVE  /\ Settled(r)' => Inactive(r)'
                      /\ Leaving(r)' \/ Marked(r)' => Doomed(r)'
  BY DEF LeftKept
<1>3. /\ Settled(r) => Inactive(r)' /\ Doomed(r)'
      /\ Leaving(r) \/ Marked(r) => Doomed(r)'
      /\ Inactive(r)' => Doomed(r)'
  BY <1>0, InactiveForGood, StaysDoomed DEF LeftKept, Doomed, Inactive, Undisturbed
<1>4. CASE WorkerStep(r) /\ ~ Leave(r)
  BY <1>0, <1>1, <1>3, <1>4, WorkerExcused DEF Excused, Marked
<1>5. CASE Leave(r)
  <2>1. Keeps(r, "gone") /\ worker'[r].err = worker[r].err /\ Leaving(r)
    BY <1>0, <1>5, GotoEffect, PointsOfWorker DEF Leave, At, Leaving
  <2> QED BY <1>3, <2>1 DEF Keeps, Settled
<1>6. CASE \/ \E c \in Calls : CallAction(c)
           \/ Expire /\ UNCHANGED workerVars
           \/ \E q \in Runs \ {r} : WorkerStep(q)
  BY <1>1, <1>3, <1>6, OthersExcused
<1>7. CASE UNCHANGED vars
  BY <1>3, <1>7 DEF vars, workerVars, Settled, Leaving, Marked
<1> QED BY <1>4, <1>5, <1>6, <1>7, Steps, NoCrash

\* A worker that ran to its end has left its run ended or gone, or a DeleteSession is about
\* to remove it, on any number of instances, with commands sent again, timeouts, expiry and
\* agents of any kind.  After the alias of tool_calls, a run is taken for finished that is
\* not.
THEOREM WorkersLeaveNoZombie ==
  ASSUME Undisturbed, "tool-calls" \notin Reasons
  PROVE  Spec => []NoZombie
<1>1. SInv /\ LeftKept /\ [Next]_vars => LeftKept'
  BY StepLeft
<1>2. LeftKept => NoZombie
  <2> SUFFICES ASSUME LeftKept, NEW r \in Runs, worker[r].pc = "gone",
                      \A c \in Calls : call[c].op = "delete" => call[c].pc \in {"ready", "done"}
               PROVE  meta[r] \notin ActiveStatus
    BY DEF NoZombie
  <2>1. Doomed(r)
    BY DEF LeftKept, Leaving
  <2>2. \A c \in Calls : ~ WillDelete(c, r)
    BY DEF WillDelete
  <2> QED BY <2>1, <2>2 DEF Doomed, Inactive
<1> QED BY <1>1, <1>2, InitLeft, ServiceInvariant, PTL DEF Spec

-----------------------------------------------------------------------------
(* What a deletion leaves *)

\* Nothing cuts DeleteSession off, one batch holds all keys of its session, keys do not
\* expire on their own, and no late initRun brings back what was deleted.
Thorough == OneBatch /\ InitOnce /\ ~ Expires /\ ~ CallersLeave /\ MaxCrashes = 0

\* CreateRun and DeleteSession hold the lock of their session from Lock to Return.
LockKept ==
    \A c \in Calls :
      call[c].op \in {"create", "delete"} /\ call[c].pc \notin {"lock", "done"}
        => lock[call[c].inst][call[c].sess] = c

\* The keys a deletion has found are those of runs that were created; a batch has a hash
\* with its stream, unless the hash is gone.
FoundBy(c) ==
    LET k == call[c] IN
    /\ k.found # {} => k.op = "delete" /\ k.pc \in {"nextBatch", "delBatch", "return", "done"}
    /\ \A r \in Runs : MetaKey(r) \in k.found => r \in issued
    /\ k.pc = "delBatch" =>
         \A r \in Runs : EventsKey(r) \in k.batch =>
                          r \in issued /\ (MetaKey(r) \in k.batch \/ meta[r] = "none")

FoundKept == \A c \in Calls : FoundBy(c)

\* Only a goroutine has an instance, and as long as Redis holds the hash of its run it
\* holds a stream, too; the call that is about to start it has seen to that.
StreamKept ==
    /\ \A r \in Runs : /\ worker[r].pc # "absent" /\ meta[r] # "none" => events[r] # <<>>
                       /\ worker[r].pc = "absent" => worker[r].inst = "none"
    /\ \A c \in Calls : call[c].pc = "register" /\ meta[call[c].run] # "none"
                          => events[call[c].run] # <<>>

\* No deletion of an instance has found a run that CreateRun is about to start there.
StartUnseen ==
    \A c, d \in Calls :
      call[c].pc \in Starting /\ call[d].inst = call[c].inst
        => MetaKey(call[c].run) \notin call[d].found

Gone(r) == meta[r] = "none" /\ events[r] = <<>>

\* What is left of the run will be removed by the call before it returns.
Clears(c, r) ==
    LET k == call[c] IN
    \/ Gone(r)
    \/ k.pc = "nextBatch" /\ {MetaKey(r), EventsKey(r)} \subseteq k.todo
    \/ k.pc = "delBatch" /\ EventsKey(r) \in k.batch /\ (MetaKey(r) \in k.batch \/ meta[r] = "none")

DeletionKept ==
    \A c \in Calls, r \in Runs :
      MetaKey(r) \in call[c].found /\ worker[r].inst = call[c].inst => Clears(c, r)

LEMMA InitDeletion == Init => LockKept /\ FoundKept /\ StreamKept /\ StartUnseen /\ DeletionKept
<1> SUFFICES ASSUME Init PROVE LockKept /\ FoundKept /\ StreamKept /\ StartUnseen /\ DeletionKept
  OBVIOUS
<1>1. \A c \in Calls : /\ call[c].pc = "ready" /\ call[c].op = "none" /\ call[c].found = {}
  BY DEF Init
<1>2. \A r \in Runs : worker[r].pc = "absent" /\ worker[r].inst = "none"
  BY DEF Init, WorkerInit
<1> QED BY <1>1, <1>2 DEF LockKept, FoundKept, FoundBy, StreamKept, StartUnseen, DeletionKept, Starting

-----------------------------------------------------------------------------
(* Streams and hashes *)

\* What a deletion of some keys leaves of a run.
LEMMA DelLeaves ==
  ASSUME NEW r \in Runs, NEW K, Del(K)
  PROVE  /\ meta'[r] = IF MetaKey(r) \in K THEN "none" ELSE meta[r]
         /\ events'[r] = IF EventsKey(r) \in K THEN <<>> ELSE events[r]
         /\ issued' = issued
BY DEF Del

\* Scripts only lengthen streams.
LEMMA ScriptLengthens ==
  ASSUME IInv, NEW r \in Runs, NEW reply, Script(r, reply), NEW q \in Runs, events[q] # <<>>
  PROVE  events'[q] # <<>>
<1>1. CASE InitRun(r, reply) \/ InitAgain(r, reply)
  BY <1>1 DEF InitRun, InitAgain, NotSent, storeVars
<1>2. CASE SetRunStatus(r, reply)
  BY <1>2 DEF SetRunStatus, Rejected, NotSent, storeVars
<1>3. ASSUME NEW e, events' = [events EXCEPT ![r] = Append(@, e)] PROVE events'[q] # <<>>
  BY <1>3 DEF IInv, StoreTypeOK
<1>4. ASSUME NEW e \in Notes, AppendEvent(r, e, reply) PROVE events'[q] # <<>>
  BY <1>3, <1>4 DEF AppendEvent, Rejected, NotSent, storeVars
<1>5. ASSUME NEW reason \in TerminalReasons, FinishRun(r, reason, reply) PROVE events'[q] # <<>>
  BY <1>3, <1>5 DEF FinishRun, Rejected, NotSent, storeVars
<1> QED BY <1>1, <1>2, <1>4, <1>5 DEF Script

\* A stream is only removed together with the hash of its run, or after it.
LEMMA StreamOutlivesHash ==
  ASSUME Thorough, SInv, FoundKept, [Next]_vars, NEW r \in Runs, events[r] # <<>>
  PROVE  events'[r] # <<>> \/ meta'[r] = "none"
<1> USE DEF In
<1>0. IInv /\ r \in issued
  BY DEF SInv, IInv, FreshUnused
<1>1. CASE UNCHANGED storeVars
  BY <1>1 DEF storeVars
<1>2. ASSUME NEW q \in Runs, NEW reply, Script(q, reply) PROVE events'[r] # <<>>
  BY <1>0, <1>2, ScriptLengthens
<1>3. CASE \E q \in Runs : WorkerStep(q)
  BY <1>1, <1>2, <1>3, WorkerScripts DEF SInv
<1>4. ASSUME NEW c \in Calls, CallAction(c) PROVE events'[r] # <<>> \/ meta'[r] = "none"
  <2> DEFINE w == call[c]
  <2>0. CallOK(w)
    BY DEF SInv, CallsOK
  <2>1. CASE \E q \in Runs, reply \in Replies : Script(q, reply)
    BY <1>2, <2>1
  <2>2. CASE ClearCurrentRunIfMatches(w.sess, w.run)
    BY <2>2 DEF ClearCurrentRunIfMatches
  <2>3. CASE Del({CurrentKey(w.sess)})
    <3>1. EventsKey(r) \notin {CurrentKey(w.sess)}
      BY DEF EventsKey, CurrentKey
    <3> QED BY <2>3, <3>1, DelLeaves
  <2>4. CASE Del({MetaKey(w.run), EventsKey(w.run)})
    <3> DEFINE K == {MetaKey(w.run), EventsKey(w.run)}
    <3>1. EventsKey(r) \in K => MetaKey(r) \in K
      BY DEF EventsKey, MetaKey
    <3> HIDE DEF K
    <3>2. Del(K)
      BY <2>4 DEF K
    <3> QED BY <3>1, <3>2, DelLeaves
  <2>5. CASE Del(w.batch) /\ w.pc = "delBatch"
    <3>1. Del(w.batch) /\ w.pc = "delBatch"
      BY <2>5
    <3>2. EventsKey(r) \in w.batch => MetaKey(r) \in w.batch \/ meta[r] = "none"
      BY <3>1 DEF FoundKept, FoundBy
    <3> QED BY <3>1, <3>2, DelLeaves
  <2>6. CASE Local
    BY <1>1, <2>6 DEF Local
  <2>7. w.pc \in {"initAgain", "runCreated", "cancelDirect"} => w.run \in Runs
    BY <2>0 DEF CallOK, Targeted
  <2>8. CASE \/ CallInitRun(c) \/ CallInitAgain(c) \/ AppendCreated(c) \/ CancelDirect(c)
             \/ CallUnanswered(c)
    <3>1. \/ \E q \in Runs, reply \in Replies :
               InitRun(q, reply) \/ InitAgain(q, reply)
          \/ \E q \in Runs, reply \in Replies : AppendEvent(q, Plain("run_created"), reply)
          \/ \E q \in Runs, reply \in Replies : FinishRun(q, "cancelled", reply)
          \/ ClearCurrentRunIfMatches(w.sess, w.run)
          \/ Del({CurrentKey(w.sess)}) \/ Del({MetaKey(w.run), EventsKey(w.run)})
          \/ Del(w.batch) /\ w.pc = "delBatch"
      BY <2>7, <2>8 DEF CallInitRun, CallInitAgain, AppendCreated, CancelDirect, CallUnanswered
    <3>2. (\E q \in Runs, reply \in Replies :
             \/ InitRun(q, reply) \/ InitAgain(q, reply)
             \/ AppendEvent(q, Plain("run_created"), reply)
             \/ FinishRun(q, "cancelled", reply))
          => \E q \in Runs, reply \in Replies : Script(q, reply)
      BY PlainNotes, OwnReasons DEF Script
    <3> QED BY <2>1, <2>2, <2>3, <2>4, <2>5, <3>1, <3>2
  <2>9. CASE ClearPointer(c) \/ Rollback(c) \/ DropPointer(c) \/ RollbackKeys(c) \/ DelBatch(c)
    <3>1. \/ ClearCurrentRunIfMatches(w.sess, w.run) \/ Local
          \/ Del({CurrentKey(w.sess)}) \/ Del({MetaKey(w.run), EventsKey(w.run)})
          \/ Del(w.batch) /\ w.pc = "delBatch"
      BY <2>9 DEF ClearPointer, Rollback, DropPointer, RollbackKeys, DelBatch
    <3> QED BY <2>2, <2>3, <2>4, <2>5, <2>6, <3>1
  <2>10. \/ Local \/ CallInitRun(c) \/ CallInitAgain(c) \/ AppendCreated(c) \/ CancelDirect(c)
         \/ CallUnanswered(c) \/ ClearPointer(c) \/ Rollback(c) \/ DropPointer(c)
         \/ RollbackKeys(c) \/ DelBatch(c)
    BY <1>4 DEF CallAction, CallStep, StartCall, StartCancel, Lock, GetPointer, GetMeta, Register,
       MarkRunDeleted, CancelLocal, ScanStart, ScanBatch, ScanEnd, ReadTarget, Return, Abandon
  <2> QED BY <2>6, <2>8, <2>9, <2>10
<1>5. \/ UNCHANGED storeVars \/ \E q \in Runs : WorkerStep(q) \/ \E c \in Calls : CallAction(c)
  BY Steps DEF Thorough, Expire, Crash, Local, vars
<1> QED BY <1>1, <1>2, <1>3, <1>4, <1>5, WorkerScripts DEF SInv

\* A run that is gone stays gone, and a hash that is gone, too.
LEMMA GoneStays ==
  ASSUME InitOnce, SInv, [Next]_vars, NEW r \in issued, meta[r] = "none"
  PROVE  meta'[r] = "none" /\ events'[r] \in {events[r], <<>>}
<1>1. IInv /\ [StoreNext]_storeVars /\ r \in Runs
  BY ServiceDrives DEF SInv, IInv, StoreTypeOK
<1>2. meta[r] \notin ActiveStatus
  BY DEF ActiveStatus
<1> QED BY <1>1, <1>2, InactiveUntouched, OtherStepsRemove
        DEF storeVars, StoreNext, InitOnce, InitAgain

-----------------------------------------------------------------------------
(* The locals of a call *)

KeepsKeys(c)   == /\ call'[c].todo = call[c].todo /\ call'[c].batch = call[c].batch
                  /\ call'[c].found = call[c].found
KeepsTarget(c) == /\ call'[c].op = call[c].op /\ call'[c].inst = call[c].inst
                  /\ call'[c].sess = call[c].sess

LEMMA EnterKeeps ==
  ASSUME SInv, NEW c \in Calls, NEW pc, Enter(c, pc)
  PROVE  KeepsKeys(c) /\ KeepsTarget(c) /\ call'[c].pc = pc
<1> DEFINE k == [call[c] EXCEPT !.pc = pc]
<1>1. call[c] \in CallState /\ call'[c] = k
  BY DEF Enter, SInv, TypeOK
<1>2. /\ k.todo = call[c].todo /\ k.batch = call[c].batch /\ k.found = call[c].found
      /\ k.op = call[c].op /\ k.inst = call[c].inst /\ k.sess = call[c].sess /\ k.pc = pc
  BY <1>1 DEF CallState
<1> QED BY <1>1, <1>2 DEF KeepsKeys, KeepsTarget

\* The steps that look for keys, or remove them.
Scans(c) == ScanStart(c) \/ ScanBatch(c) \/ DelBatch(c)
Starts(c) == StartCall(c) \/ StartCancel(c)

LEMMA StartEffect ==
  ASSUME SInv, NEW c \in Calls, Starts(c)
  PROVE  /\ call[c].op = "none" /\ call[c].found = {} /\ KeepsKeys(c)
         /\ call'[c].pc \in {"lock", "getPointer", "readTarget"}
         /\ call'[c].pc # "lock" => call'[c].op \notin {"create", "delete"}
<1> DEFINE w == call[c]
<1>0. CallOK(w) /\ w \in CallState
  BY DEF SInv, TypeOK, CallsOK
<1>1. w.pc = "ready"
  BY DEF Starts, StartCall, StartCancel, In
<1>2. w.op = "none" /\ w.found = {}
  BY <1>0, <1>1 DEF CallOK, OpsAt, InLookup
<1>3. CASE StartCall(c)
  <2>1. PICK op \in Ops \ {"cancel"}, i \in Instances, s \in Sessions :
          call' = [call EXCEPT ![c] = [@ EXCEPT !.op = op, !.inst = i, !.sess = s,
                     !.pc = IF op = "get" THEN "getPointer" ELSE "lock"]]
    BY <1>3 DEF StartCall
  <2> DEFINE pc == IF op = "get" THEN "getPointer" ELSE "lock"
             k == [call[c] EXCEPT !.op = op, !.inst = i, !.sess = s, !.pc = pc]
  <2>2. call'[c] = k
    BY <2>1 DEF SInv, TypeOK
  <2>3. pc \in {"lock", "getPointer"} /\ (pc = "getPointer" => op = "get")
    OBVIOUS
  <2> HIDE DEF pc
  <2>4. k.pc = pc /\ k.op = op /\ k.todo = w.todo /\ k.batch = w.batch /\ k.found = w.found
    BY <1>0 DEF CallState
  <2> HIDE DEF k
  <2> QED BY <1>2, <2>2, <2>3, <2>4 DEF KeepsKeys
<1>4. CASE StartCancel(c)
  <2>1. PICK i \in Instances, r \in known :
          call' = [call EXCEPT ![c] = [@ EXCEPT !.op = "cancel", !.inst = i,
                     !.sess = SessionOf[r], !.run = r, !.pc = "readTarget"]]
    BY <1>4 DEF StartCancel
  <2> DEFINE s == SessionOf[r]
             k == [call[c] EXCEPT !.op = "cancel", !.inst = i, !.sess = s, !.run = r,
                                  !.pc = "readTarget"]
  <2>2. call'[c] = k
    BY <2>1 DEF SInv, TypeOK
  <2> HIDE DEF s
  <2>4. k.pc = "readTarget" /\ k.op = "cancel" /\ k.todo = w.todo /\ k.batch = w.batch
        /\ k.found = w.found
    BY <1>0 DEF CallState
  <2> HIDE DEF k
  <2> QED BY <1>2, <2>2, <2>4 DEF KeepsKeys
<1> QED BY <1>3, <1>4 DEF Starts

LEMMA ScanEffect ==
  ASSUME Thorough, SInv, NEW c \in Calls
  PROVE  /\ Scans(c) => KeepsTarget(c) /\ call[c].op = "delete"
         /\ ScanStart(c) => /\ call'[c].pc = "nextBatch" /\ call'[c].todo = Existing(call[c].sess)
                            /\ call'[c].found = Existing(call[c].sess)
         /\ ScanBatch(c) => /\ call'[c].pc = "delBatch" /\ call'[c].batch = Existing(call[c].sess)
                            /\ call'[c].found = call[c].found
         /\ DelBatch(c) => /\ call'[c].pc = "nextBatch" /\ call'[c].todo = call[c].todo
                           /\ call'[c].found = call[c].found
<1> DEFINE w == call[c]
<1>0. w \in CallState /\ CallOK(w)
  BY DEF SInv, TypeOK, CallsOK
<1>1. Scans(c) => w.op = "delete"
  BY <1>0 DEF Scans, ScanStart, ScanBatch, DelBatch, In, CallOK, OpsAt, InLookup
<1>2. ASSUME ScanStart(c)
      PROVE  /\ KeepsTarget(c)
             /\ call'[c].pc = "nextBatch" /\ call'[c].todo = Existing(call[c].sess)
             /\ call'[c].found = Existing(call[c].sess)
  <2> DEFINE keys == Existing(w.sess)
             k == [call[c] EXCEPT !.pc = "nextBatch", !.todo = keys, !.found = keys]
  <2>1. call'[c] = k
    BY <1>2 DEF ScanStart, SInv, TypeOK
  <2> HIDE DEF keys
  <2>2. /\ k.pc = "nextBatch" /\ k.todo = keys /\ k.found = keys
        /\ k.op = w.op /\ k.inst = w.inst /\ k.sess = w.sess
    BY <1>0 DEF CallState
  <2> HIDE DEF k
  <2> QED BY <2>1, <2>2 DEF KeepsTarget, keys
<1>3. ASSUME ScanBatch(c)
      PROVE  /\ KeepsTarget(c)
             /\ call'[c].pc = "delBatch" /\ call'[c].batch = Existing(call[c].sess)
             /\ call'[c].found = call[c].found
  <2> DEFINE K == Existing(w.sess)
  <2>1. call' = [call EXCEPT ![c] = [@ EXCEPT !.pc = "delBatch", !.batch = K,
                                              !.todo = call[c].todo \ K]]
    BY <1>3 DEF ScanBatch, Thorough
  <2> DEFINE todo == call[c].todo \ K
             k == [call[c] EXCEPT !.pc = "delBatch", !.batch = K, !.todo = todo]
  <2>2. call'[c] = k
    BY <2>1 DEF SInv, TypeOK
  <2> HIDE DEF todo, K
  <2>3. /\ k.pc = "delBatch" /\ k.batch = K /\ k.found = w.found
        /\ k.op = w.op /\ k.inst = w.inst /\ k.sess = w.sess
    BY <1>0 DEF CallState
  <2> HIDE DEF k
  <2> QED BY <2>2, <2>3 DEF KeepsTarget, K
<1>4. ASSUME DelBatch(c)
      PROVE  /\ KeepsTarget(c)
             /\ call'[c].pc = "nextBatch" /\ call'[c].todo = call[c].todo
             /\ call'[c].found = call[c].found
  <2> DEFINE k == [call[c] EXCEPT !.pc = "nextBatch", !.batch = {}]
  <2>1. call'[c] = k
    BY <1>4 DEF DelBatch, SInv, TypeOK
  <2>2. /\ k.pc = "nextBatch" /\ k.todo = w.todo /\ k.found = w.found
        /\ k.op = w.op /\ k.inst = w.inst /\ k.sess = w.sess
    BY <1>0 DEF CallState
  <2> HIDE DEF k
  <2> QED BY <2>1, <2>2 DEF KeepsTarget
<1> QED BY <1>1, <1>2, <1>3, <1>4 DEF Scans

\* All other steps of a call leave its keys and its target alone.
LEMMA OthersKeep ==
  ASSUME SInv, NEW c \in Calls, CallAction(c), ~ Scans(c), ~ Starts(c)
  PROVE  KeepsKeys(c) /\ KeepsTarget(c)
<1> DEFINE w == call[c]
<1>0. w \in CallState
  BY DEF SInv, TypeOK
<1>1. CASE (\E pc : Enter(c, pc)) \/ CallUnanswered(c)
  BY <1>1, EnterKeeps DEF CallUnanswered, KeepsKeys, KeepsTarget
<1>2. ASSUME NEW run, NEW pc, call' = [call EXCEPT ![c] = [@ EXCEPT !.run = run, !.pc = pc]]
      PROVE  KeepsKeys(c) /\ KeepsTarget(c)
  <2> DEFINE k == [call[c] EXCEPT !.run = run, !.pc = pc]
  <2>1. call'[c] = k
    BY <1>2 DEF SInv, TypeOK
  <2>2. /\ k.todo = w.todo /\ k.batch = w.batch /\ k.found = w.found
        /\ k.op = w.op /\ k.inst = w.inst /\ k.sess = w.sess
    BY <1>0 DEF CallState
  <2> HIDE DEF k
  <2> QED BY <2>1, <2>2 DEF KeepsKeys, KeepsTarget
<1>3. ASSUME NEW r, NEW reply, Answered(c, r, reply)
      PROVE  KeepsKeys(c) /\ KeepsTarget(c)
  <2>1. call' = [call EXCEPT ![c] = [@ EXCEPT !.run = r, !.refused = (reply = "active"),
                       !.pc = CASE reply = "ok" -> "runCreated"
                                [] reply = "active" -> "getPointer"
                                [] OTHER -> "return"]]
    BY <1>3 DEF Answered
  <2> DEFINE refused == (reply = "active")
             pc == CASE reply = "ok" -> "runCreated"
                     [] reply = "active" -> "getPointer"
                     [] OTHER -> "return"
             k == [call[c] EXCEPT !.run = r, !.refused = refused, !.pc = pc]
  <2>2. call'[c] = k
    BY <2>1 DEF SInv, TypeOK
  <2> HIDE DEF refused, pc
  <2>3. /\ k.todo = w.todo /\ k.batch = w.batch /\ k.found = w.found
        /\ k.op = w.op /\ k.inst = w.inst /\ k.sess = w.sess
    BY <1>0 DEF CallState
  <2> HIDE DEF k
  <2> QED BY <2>2, <2>3 DEF KeepsKeys, KeepsTarget
<1>4. CASE GetPointer(c) \/ CallInitRun(c) \/ CallInitAgain(c)
  BY <1>2, <1>3, <1>4 DEF GetPointer, CallInitRun, CallInitAgain
<1> QED BY <1>1, <1>4
        DEF CallAction, CallStep, Starts, Scans, Lock, GetMeta, DropPointer, ClearPointer,
            AppendCreated, Rollback, RollbackKeys, Register, MarkRunDeleted, CancelLocal, ScanEnd,
            ReadTarget, CancelDirect, Return, Abandon

-----------------------------------------------------------------------------
(* The lock of a session *)

\* Who takes a step in this setting.
LEMMA ThoroughSteps ==
  ASSUME Thorough, SInv, [Next]_vars
  PROVE  \/ \E c \in Calls : CallAction(c)
         \/ \E q \in Runs : WorkerStep(q) /\ UNCHANGED callVars
         \/ UNCHANGED vars
<1>1. \A i \in Instances : ~ Crash(i)
  BY DEF Thorough, SInv, TypeOK, Crash
<1> QED BY <1>1, Steps DEF Thorough, Expire

\* The calls after a step of one of them.
LEMMA CallSteps ==
  ASSUME Thorough, SInv, [Next]_vars, NEW c \in Calls, CallAction(c)
  PROVE  /\ \A d \in Calls \ {c} : call'[d] = call[d]
         /\ Starts(c) \/ Scans(c) \/ (KeepsKeys(c) /\ KeepsTarget(c))
         /\ ~ Abandon(c)
         /\ CallOK(call'[c])
<1>1. issued \subseteq issued'
  BY ServiceDrives, IssuedGrows DEF SInv
<1>2. CallsOK'
  BY StepSInv DEF SInv
<1> QED BY <1>1, <1>2, OthersStay, OthersKeep DEF Thorough, Abandon, CallsOK

LEMMA StepLock ==
  ASSUME Thorough, SInv, LockKept, [Next]_vars
  PROVE  LockKept'
<1> USE DEF In
<1>1. ASSUME NEW c \in Calls, CallAction(c) PROVE LockKept'
  <2> DEFINE w == call[c]
  <2>0. /\ \A d \in Calls \ {c} : call'[d] = call[d]
        /\ w \in CallState /\ CallOK(w)
        /\ lock \in [Instances -> [Sessions -> Calls \cup {Free}]]
    BY <1>1, CallSteps DEF SInv, TypeOK, CallsOK
  <2>1. \A d \in Calls : call[d].op \in {"create", "delete"} =>
                           call[d].inst \in Instances /\ call[d].sess \in Sessions
    BY DEF SInv, CallsOK, CallOK
  <2>2. CASE Lock(c)
    <3>1. /\ w.pc = "lock" /\ lock[w.inst][w.sess] = Free
          /\ lock' = [lock EXCEPT ![w.inst][w.sess] = c]
          /\ KeepsTarget(c)
      BY <2>2, EnterKeeps DEF Lock
    <3>2. w.op \in {"create", "delete"}
      BY <2>0, <3>1 DEF CallOK, OpsAt, InLookup
    <3>3. lock'[w.inst][w.sess] = c
      BY <2>0, <2>1, <3>1, <3>2
    <3>4. ASSUME NEW d \in Calls \ {c}, call[d].op \in {"create", "delete"},
                 lock[call[d].inst][call[d].sess] = d
          PROVE  lock'[call[d].inst][call[d].sess] = d
      <4>1. d # Free
        BY ServiceAssumption DEF ServiceAssumption
      <4> QED BY <2>0, <2>1, <3>1, <3>2, <3>4, <4>1
    <3> QED BY <2>0, <3>1, <3>3, <3>4 DEF LockKept, KeepsTarget
  <2>3. CASE Return(c)
    <3>1. call'[c].pc = "done"
      BY <2>3, EnterKeeps DEF Return
    <3>2. ASSUME NEW d \in Calls \ {c}, call[d].op \in {"create", "delete"},
                 lock[call[d].inst][call[d].sess] = d
          PROVE  lock'[call[d].inst][call[d].sess] = d
      BY <2>1, <2>3, <3>2 DEF Return
    <3> QED BY <2>0, <3>1, <3>2 DEF LockKept
  <2>4. CASE ~ Lock(c) /\ ~ Return(c)
    <3>1. lock' = lock
      BY <1>1, <2>4 DEF CallAction, CallStep, StartCall, StartCancel, GetPointer, GetMeta,
         DropPointer, ClearPointer, CallInitRun, CallInitAgain, AppendCreated, Rollback,
         RollbackKeys, Register, MarkRunDeleted, CancelLocal, ScanStart, ScanBatch, DelBatch,
         ScanEnd, ReadTarget, CancelDirect, Abandon, CallUnanswered
    <3>2. CASE Starts(c)
      BY <2>0, <3>1, <3>2, StartEffect DEF LockKept
    <3>3. CASE ~ Starts(c)
      <4>1. w.pc \notin {"lock", "done"}
        BY <1>1, <2>4, <3>3, CallSteps
           DEF Starts, CallAction, CallStep, GetPointer, GetMeta, DropPointer, ClearPointer,
               CallInitRun, CallInitAgain, AppendCreated, Rollback, RollbackKeys, Register,
               MarkRunDeleted, CancelLocal, ScanStart, ScanBatch, DelBatch, ScanEnd, ReadTarget,
               CancelDirect, CallUnanswered
      <4>2. KeepsTarget(c)
        BY <1>1, <3>3, CallSteps, ScanEffect
      <4> QED BY <2>0, <3>1, <4>1, <4>2 DEF LockKept, KeepsTarget
    <3> QED BY <3>2, <3>3
  <2> QED BY <2>2, <2>3, <2>4
<1>2. CASE UNCHANGED callVars
  BY <1>2 DEF LockKept, callVars
<1> QED BY <1>1, <1>2, ThoroughSteps DEF vars

-----------------------------------------------------------------------------
(* What a deletion finds *)

\* The points to which the other steps of a call lead.
LEMMA OthersGo ==
  ASSUME SInv, NEW c \in Calls, CallAction(c), ~ Scans(c), ~ Starts(c), ~ Abandon(c),
         ~ CallUnanswered(c)
  PROVE  /\ call'[c].pc \notin {"nextBatch", "delBatch"}
         /\ call[c].pc = "nextBatch" => ScanEnd(c) /\ call'[c].pc = "return"
         /\ call[c].pc = "return" => call'[c].pc = "done"
         /\ call[c].pc \notin {"delBatch", "done"}
<1> USE DEF In
<1>0. call[c] \in CallState /\ CallOK(call[c])
  BY DEF SInv, TypeOK, CallsOK
<1>1. CASE ScanEnd(c)
  BY <1>1, EnterKeeps DEF ScanEnd
<1>2. CASE Return(c)
  BY <1>2, EnterKeeps DEF Return
<1>3. \A found : call[c].op \in {"create", "get", "delete"} =>
                   AfterLookup(c, found) \notin {"nextBatch", "delBatch"}
  BY DEF AfterLookup
<1>4. CASE GetPointer(c)
  <2> DEFINE run == Pointer(c)
             pc == IF run = NoRun THEN AfterLookup(c, "absent") ELSE "getMeta"
             k == [call[c] EXCEPT !.run = run, !.pc = pc]
  <2>1. call'[c] = k /\ call[c].pc = "getPointer"
    BY <1>4 DEF GetPointer, SInv, TypeOK
  <2>2. pc \notin {"nextBatch", "delBatch"}
    BY <1>0, <1>3, <2>1 DEF CallOK, OpsAt, InLookup
  <2> HIDE DEF run, pc
  <2>3. k.pc = pc
    BY <1>0 DEF CallState
  <2> HIDE DEF k
  <2> QED BY <2>1, <2>2, <2>3
<1>5. ASSUME NEW r, NEW reply, Answered(c, r, reply)
      PROVE  call'[c].pc \notin {"nextBatch", "delBatch"}
  <2>1. call' = [call EXCEPT ![c] = [@ EXCEPT !.run = r, !.refused = (reply = "active"),
                       !.pc = CASE reply = "ok" -> "runCreated"
                                [] reply = "active" -> "getPointer"
                                [] OTHER -> "return"]]
    BY <1>5 DEF Answered
  <2> DEFINE refused == (reply = "active")
             pc == CASE reply = "ok" -> "runCreated"
                     [] reply = "active" -> "getPointer"
                     [] OTHER -> "return"
             k == [call[c] EXCEPT !.run = r, !.refused = refused, !.pc = pc]
  <2>2. call'[c] = k
    BY <2>1 DEF SInv, TypeOK
  <2>3. pc \notin {"nextBatch", "delBatch"}
    OBVIOUS
  <2> HIDE DEF refused, pc
  <2>4. k.pc = pc
    BY <1>0 DEF CallState
  <2> HIDE DEF k
  <2> QED BY <2>2, <2>3, <2>4
<1>8. ASSUME NEW r, call' = [call EXCEPT ![c] = [@ EXCEPT !.run = r, !.pc = "initAgain"]]
      PROVE  call'[c].pc \notin {"nextBatch", "delBatch"}
  <2> DEFINE k == [call[c] EXCEPT !.run = r, !.pc = "initAgain"]
  <2>1. call'[c] = k
    BY <1>8 DEF SInv, TypeOK
  <2>2. k.pc = "initAgain"
    BY <1>0 DEF CallState
  <2> HIDE DEF k
  <2> QED BY <2>1, <2>2
<1>9. CASE CallInitRun(c) \/ CallInitAgain(c)
  <2>1. call[c].pc \in {"initRun", "initAgain"}
    BY <1>9 DEF CallInitRun, CallInitAgain
  <2>2. call'[c].pc \notin {"nextBatch", "delBatch"}
    BY <1>5, <1>8, <1>9 DEF CallInitRun, CallInitAgain
  <2> QED BY <2>1, <2>2
<1>6. CASE GetMeta(c) \/ DropPointer(c)
  <2>1. PICK pc : Enter(c, pc) /\ (pc = "dropPointer" \/ \E found : pc = AfterLookup(c, found))
    BY <1>6 DEF GetMeta, DropPointer
  <2>2. call[c].op \in {"create", "get", "delete"} /\ call[c].pc \in {"getMeta", "dropPointer"}
    BY <1>0, <1>6 DEF GetMeta, DropPointer, CallOK, OpsAt, InLookup
  <2> QED BY <1>3, <2>1, <2>2, EnterKeeps
<1>7. CASE \/ Lock(c) \/ ClearPointer(c) \/ AppendCreated(c) \/ Rollback(c) \/ RollbackKeys(c)
           \/ Register(c) \/ MarkRunDeleted(c) \/ CancelLocal(c) \/ ReadTarget(c) \/ CancelDirect(c)
  <2>1. \E pc \in {"getPointer", "initRun", "return", "register", "rollback", "rollbackKeys",
                   "returnRun", "cancelLocal", "scan", "cancelDirect"} : Enter(c, pc)
    BY <1>7 DEF Lock, ClearPointer, AppendCreated, Rollback, RollbackKeys, Register,
       MarkRunDeleted, CancelLocal, ReadTarget, CancelDirect
  <2>2. call[c].pc \notin {"nextBatch", "delBatch", "return", "done"}
    BY <1>7 DEF Lock, ClearPointer, AppendCreated, Rollback, RollbackKeys, Register,
       MarkRunDeleted, CancelLocal, ReadTarget, CancelDirect
  <2> QED BY <2>1, <2>2, EnterKeeps
<1> QED BY <1>1, <1>2, <1>4, <1>6, <1>7, <1>9 DEF CallAction, CallStep, Starts, Scans

LEMMA StepFound ==
  ASSUME Thorough, SInv, FoundKept, [Next]_vars
  PROVE  FoundKept'
<1>0. IInv /\ [StoreNext]_storeVars /\ issued \subseteq Runs /\ issued \subseteq issued'
  BY ServiceDrives, IssuedGrows DEF SInv, IInv, StoreTypeOK
  \* What is known of a key stays true.
<1>1. ASSUME NEW c \in Calls, call'[c].batch = call[c].batch, call[c].pc = "delBatch"
      PROVE  \A r \in Runs : EventsKey(r) \in call'[c].batch =>
               r \in issued' /\ (MetaKey(r) \in call'[c].batch \/ meta'[r] = "none")
  BY <1>0, <1>1, GoneStays DEF FoundKept, FoundBy, Thorough
<1>2. ASSUME NEW c \in Calls, call'[c].found = call[c].found
      PROVE  \A r \in Runs : MetaKey(r) \in call'[c].found => r \in issued'
  BY <1>0, <1>2 DEF FoundKept, FoundBy
<1>3. ASSUME NEW c \in Calls, call'[c] = call[c]
      PROVE  FoundBy(c)'
  BY <1>1, <1>2, <1>3 DEF FoundKept, FoundBy
<1>4. ASSUME NEW r \in Runs, meta[r] # "none" \/ events[r] # <<>> PROVE r \in issued
  BY <1>4 DEF SInv, IInv, FreshUnused
<1>5. ASSUME NEW c \in Calls, CallAction(c) PROVE FoundBy(c)'
  <2> DEFINE w == call[c]
  <2>0. w.found # {} => w.op = "delete" /\ w.pc \in {"nextBatch", "delBatch", "return", "done"}
    BY DEF FoundKept, FoundBy
  <2>1. CASE Starts(c)
    BY <1>2, <2>1, StartEffect DEF FoundBy, KeepsKeys
  <2>2. CASE ScanStart(c)
    <3>1. /\ call'[c].pc = "nextBatch" /\ call'[c].found = Existing(w.sess)
          /\ call'[c].op = "delete"
      BY <2>2, ScanEffect DEF Scans, KeepsTarget
    <3>2. \A r \in Runs : MetaKey(r) \in call'[c].found => r \in issued'
      BY <1>0, <1>4, <3>1, KeyFacts
    <3> QED BY <3>1, <3>2 DEF FoundBy
  <2>3. CASE ScanBatch(c)
    <3>1. /\ call'[c].pc = "delBatch" /\ call'[c].batch = Existing(w.sess)
          /\ call'[c].found = w.found /\ call'[c].op = "delete"
      BY <2>3, ScanEffect DEF Scans, KeepsTarget
    <3>2. meta' = meta
      BY <2>3 DEF ScanBatch, Local, storeVars
    <3>3. ASSUME NEW r \in Runs, EventsKey(r) \in Existing(w.sess)
          PROVE  r \in issued' /\ (MetaKey(r) \in Existing(w.sess) \/ meta[r] = "none")
      <4>1. events[r] # <<>> /\ SessionOf[r] = w.sess
        BY <3>3, KeyFacts DEF Existing
      <4> QED BY <1>0, <1>4, <4>1, KeyFacts
    <3> QED BY <1>2, <3>1, <3>2, <3>3 DEF FoundBy
  <2>4. CASE DelBatch(c)
    <3>1. /\ call'[c].pc = "nextBatch" /\ call'[c].found = w.found /\ call'[c].op = "delete"
      BY <2>4, ScanEffect DEF Scans, KeepsTarget
    <3> QED BY <1>2, <3>1 DEF FoundBy
  <2>5. CASE ~ Starts(c) /\ ~ Scans(c) /\ ~ CallUnanswered(c)
    <3>1. KeepsKeys(c) /\ KeepsTarget(c) /\ ~ Abandon(c)
      BY <1>5, <2>5, CallSteps
    <3> QED BY <1>2, <1>5, <2>0, <2>5, <3>1, OthersGo DEF FoundBy, KeepsKeys, KeepsTarget
  <2>6. CASE CallUnanswered(c)
    BY <1>3, <2>6 DEF CallUnanswered
  <2> QED BY <2>1, <2>2, <2>3, <2>4, <2>5, <2>6 DEF Scans
<1>6. ASSUME NEW c \in Calls, CallAction(c) PROVE FoundKept'
  BY <1>3, <1>5, <1>6, CallSteps DEF FoundKept
<1>7. CASE UNCHANGED callVars
  BY <1>3, <1>7 DEF FoundKept, callVars
<1> QED BY <1>6, <1>7, ThoroughSteps DEF vars

-----------------------------------------------------------------------------
(* A run that is executed has a stream *)

LEMMA StepStream ==
  ASSUME Thorough, SInv, FreshKept, FoundKept, StreamKept, [Next]_vars
  PROVE  StreamKept'
<1>0. /\ IInv /\ [StoreNext]_storeVars /\ issued \subseteq Runs /\ issued \subseteq issued'
      /\ WorkerTypeOK /\ WorkerKnows /\ TargetsIssued
  BY ServiceDrives, IssuedGrows DEF SInv, IInv, StoreTypeOK, TypeOK
<1>1. ASSUME NEW r \in issued, meta[r] # "none" => events[r] # <<>>
      PROVE  meta'[r] # "none" => events'[r] # <<>>
  BY <1>0, <1>1, GoneStays, StreamOutlivesHash DEF Thorough
  \* Goroutines and calls that do not move keep their part.
<1>2. ASSUME NEW r \in Runs, worker'[r].inst = worker[r].inst,
             (worker'[r].pc = "absent") = (worker[r].pc = "absent")
      PROVE  /\ worker'[r].pc # "absent" /\ meta'[r] # "none" => events'[r] # <<>>
             /\ worker'[r].pc = "absent" => worker'[r].inst = "none"
  BY <1>0, <1>1, <1>2 DEF StreamKept, WorkerKnows
<1>3. ASSUME NEW c \in Calls, call'[c] = call[c]
      PROVE  call'[c].pc = "register" /\ meta'[call'[c].run] # "none" => events'[call'[c].run] # <<>>
  <2>1. call[c].pc = "register" => call[c].run \in issued
    BY <1>0 DEF TargetsIssued, Targeted
  <2> QED BY <1>1, <1>3, <2>1 DEF StreamKept
<1>4. ASSUME NEW c \in Calls, CallAction(c) PROVE StreamKept'
  <2> DEFINE w == call[c]
  <2>1. ASSUME call'[c].pc = "register", call' # call
        PROVE  meta'[call'[c].run] # "none" => events'[call'[c].run] # <<>>
    <3>1. w.pc = "runCreated" /\ call'[c].run = w.run
      BY <1>4, <2>1, CallSources DEF CallSource, Source, Holding, In, CallUnanswered
    <3>2. AppendCreated(c)
      BY <1>4, <2>1, <3>1, EnterKeeps, CallSteps
         DEF In, CallAction, CallStep, StartCall, StartCancel, Lock, GetPointer, GetMeta,
             DropPointer, ClearPointer, CallInitRun, CallInitAgain, Rollback, RollbackKeys,
             Register, MarkRunDeleted, CancelLocal, ScanStart, ScanBatch, DelBatch, ScanEnd,
             ReadTarget, CancelDirect, Return, CallUnanswered
    <3>3. PICK reply \in Replies : /\ AppendEvent(w.run, Plain("run_created"), reply)
                                   /\ Enter(c, IF reply = "ok" THEN "register" ELSE "rollback")
      BY <3>2 DEF AppendCreated
    <3>4. reply = "ok"
      BY <2>1, <3>3, EnterKeeps
    <3>5. w.run \in Runs /\ events[w.run] \in Seq(Events) /\ events \in [Runs -> Seq(Events)]
          /\ Plain("run_created") \in Events
      BY <1>0, <3>1, PlainNotes DEF TargetsIssued, Targeted, IInv, StoreTypeOK, Events
    <3>6. events'[w.run] # <<>>
      <4> DEFINE e == Plain("run_created")
      <4>1. \A s \in Seq(Events) : Append(s, e) # <<>>
        BY <3>5
      <4>3. reply \notin {"missing", "terminal", "unavailable"}
        BY <3>4
      <4> HIDE DEF e
      <4> QED BY <3>3, <3>5, <4>1, <4>3 DEF AppendEvent, Rejected, NotSent, Lost, e
    <3> QED BY <3>1, <3>6
  <2>2. CASE worker' = worker
    BY <1>2, <1>3, <1>4, <2>1, <2>2, CallSteps DEF StreamKept
  <2>3. CASE Register(c) /\ \A r \in Runs \ {w.run} : worker'[r] = worker[r]
    <3>1. w.pc = "register" /\ w.run \in issued /\ w.run \in Runs
      BY <1>0, <2>3 DEF Register, In, TargetsIssued, Targeted
    <3>2. meta'[w.run] # "none" => events'[w.run] # <<>>
      BY <1>1, <3>1 DEF StreamKept
    <3>3. worker'[w.run].pc # "absent"
      <4> DEFINE k == [worker[w.run] EXCEPT !.pc = "enter", !.inst = w.inst]
      <4>1. worker[w.run] \in Goroutine /\ worker'[w.run] = k
        BY <1>0, <2>3, <3>1 DEF Register, WorkerTypeOK
      <4>2. k.pc = "enter"
        BY <4>1 DEF Goroutine
      <4> HIDE DEF k
      <4> QED BY <4>1, <4>2
    <3> QED BY <1>2, <1>3, <1>4, <2>1, <2>3, <3>2, <3>3, CallSteps DEF StreamKept
  <2> QED BY <1>4, <2>2, <2>3, StartsOne
<1>5. ASSUME NEW q \in Runs, WorkerStep(q), UNCHANGED callVars PROVE StreamKept'
  <2>1. \A r \in Runs : /\ worker'[r].inst = worker[r].inst
                        /\ (worker'[r].pc = "absent") = (worker[r].pc = "absent")
    BY <1>0, <1>5, WorkerGoroutine DEF GoroutineStep
  <2> QED BY <1>2, <1>3, <1>5, <2>1 DEF StreamKept, callVars
<1>6. CASE UNCHANGED vars
  BY <1>2, <1>3, <1>6 DEF StreamKept, vars, callVars, workerVars
<1> QED BY <1>4, <1>5, <1>6, ThoroughSteps

-----------------------------------------------------------------------------
(* Creation and deletion of one instance take turns *)

\* What a call has found after its step, it had found before, or it has just started SCAN.
LEMMA FoundFrom ==
  ASSUME Thorough, SInv, [Next]_vars, NEW c \in Calls, CallAction(c)
  PROVE  \/ call'[c].found = {}
         \/ call'[c].found = call[c].found /\ call'[c].inst = call[c].inst
         \/ ScanStart(c) /\ call'[c].inst = call[c].inst
<1>1. CASE Starts(c)
  BY <1>1, StartEffect DEF KeepsKeys
<1>2. CASE Scans(c)
  BY <1>2, ScanEffect DEF Scans, KeepsTarget
<1>3. CASE ~ Starts(c) /\ ~ Scans(c)
  BY <1>3, OthersKeep DEF KeepsKeys, KeepsTarget
<1> QED BY <1>1, <1>2, <1>3

\* A call that is about to start a run has just drawn its id, or was about to before.
LEMMA StartingFrom ==
  ASSUME Thorough, SInv, [Next]_vars, NEW c \in Calls, CallAction(c), call'[c].pc \in Starting
  PROVE  \/ call'[c].run \in Runs \ issued
         \/ /\ call[c].pc \in Starting
            /\ call'[c].run = call[c].run /\ call'[c].inst = call[c].inst
<1>1. \/ call'[c].run \in Runs \ issued
      \/ call[c].pc = "runCreated" /\ call'[c].run = call[c].run
      \/ call'[c] = call[c]
  BY CallSources, InitReply
     DEF CallSource, Source, Starting, Holding, In, Thorough, InitOnce, InitAgain
<1>2. call[c].pc = "runCreated" => ~ Starts(c) /\ ~ Scans(c)
  BY DEF In, Starts, Scans, StartCall, StartCancel, ScanStart, ScanBatch, DelBatch
<1> QED BY <1>1, <1>2, OthersKeep DEF Starting, KeepsTarget

LEMMA StepUnseen ==
  ASSUME Thorough, SInv, LockKept, FoundKept, StartUnseen, [Next]_vars
  PROVE  StartUnseen'
<1>1. ASSUME NEW a \in Calls, CallAction(a), NEW c \in Calls, NEW d \in Calls,
             call'[c].pc \in Starting, call'[d].inst = call'[c].inst,
             MetaKey(call'[c].run) \in call'[d].found
      PROVE  FALSE
  <2> DEFINE r == call'[c].run
  <2>1. \/ r \in Runs \ issued
        \/ call[c].pc \in Starting /\ r = call[c].run /\ call'[c].inst = call[c].inst
    BY <1>1, CallSteps, StartingFrom
  <2>2. \/ MetaKey(r) \in call[d].found /\ call'[d].inst = call[d].inst
        \/ ScanStart(d) /\ call'[d].inst = call[d].inst
    BY <1>1, CallSteps, FoundFrom
  <2>3. \A q \in Runs : MetaKey(q) \in call[d].found => q \in issued
    BY DEF FoundKept, FoundBy
  <2>4. CASE MetaKey(r) \in call[d].found /\ call'[d].inst = call[d].inst
    BY <1>1, <2>1, <2>3, <2>4 DEF StartUnseen
  <2>5. CASE ScanStart(d) /\ call'[d].inst = call[d].inst
    <3>1. /\ call[d].pc = "scan" /\ call[d].op = "delete" /\ call[d].inst = call'[d].inst
          /\ call'[d].found = Existing(call[d].sess)
      BY <2>5, ScanEffect DEF ScanStart, In, Scans
    <3>2. r \in Runs
      BY <1>1, StepSInv DEF SInv, CallsOK, CallOK, Targeted, Starting
    <3>3. SessionOf[r] = call[d].sess /\ r \in issued
      BY <1>1, <3>1, <3>2, KeyFacts DEF SInv, IInv, FreshUnused
    <3>4. /\ call[c].pc \in Starting /\ r = call[c].run /\ call'[c].inst = call[c].inst
          /\ call[c].op = "create" /\ call[c].sess = SessionOf[r]
      BY <2>1, <3>3 DEF SInv, CallsOK, CallOK, Targeted, Starting, OpsAt, InLookup
    <3>5. lock[call[c].inst][call[c].sess] = c /\ lock[call[d].inst][call[d].sess] = d
      BY <3>1, <3>4 DEF LockKept, Starting
    <3>6. c = d
      BY <1>1, <3>1, <3>3, <3>4, <3>5
    <3> QED BY <3>1, <3>4, <3>6
  <2> QED BY <2>2, <2>4, <2>5
<1>2. ASSUME NEW a \in Calls, CallAction(a) PROVE StartUnseen'
  BY <1>1, <1>2 DEF StartUnseen
<1>3. CASE UNCHANGED callVars
  BY <1>3 DEF StartUnseen, callVars
<1> QED BY <1>2, <1>3, ThoroughSteps DEF vars

-----------------------------------------------------------------------------
(* A deletion removes what it finds *)

LEMMA StepDeletion ==
  ASSUME Thorough, SInv, FoundKept, StreamKept, StartUnseen, DeletionKept, [Next]_vars
  PROVE  DeletionKept'
<1>0. IInv /\ WorkerTypeOK /\ WorkerKnows /\ CallsOK
  BY DEF SInv, TypeOK
<1>1. ASSUME NEW r \in issued, Gone(r) PROVE Gone(r)'
  BY <1>1, GoneStays DEF Gone, Thorough
<1>2. ASSUME NEW c \in Calls, NEW r \in Runs, MetaKey(r) \in call[c].found
      PROVE  r \in issued /\ SessionOf[r] = call[c].sess /\ call[c].op = "delete"
  <2>1. r \in issued /\ call[c].op = "delete"
    BY <1>2 DEF FoundKept, FoundBy
  <2> QED BY <1>0, <1>2, <2>1, KeyFacts DEF CallsOK, CallOK
  \* A call that does not move still clears the run.
<1>3. ASSUME NEW c \in Calls, NEW r \in issued, call'[c] = call[c], Clears(c, r)
      PROVE  Clears(c, r)'
  <2>1. meta[r] = "none" => meta'[r] = "none"
    BY GoneStays DEF Thorough
  <2> QED BY <1>1, <1>3, <2>1 DEF Clears
<1>4. ASSUME NEW c \in Calls, CallAction(c), NEW r \in Runs, MetaKey(r) \in call'[c].found,
             worker[r].inst = call'[c].inst
      PROVE  Clears(c, r)'
  <2> DEFINE w == call[c]
  <2>1. CASE Starts(c)
    BY <1>4, <2>1, StartEffect DEF KeepsKeys
  <2>2. CASE ScanStart(c)
    <3>1. /\ w.op = "delete" /\ call'[c].inst = w.inst /\ call'[c].pc = "nextBatch"
          /\ call'[c].todo = Existing(w.sess) /\ call'[c].found = Existing(w.sess)
      BY <2>2, ScanEffect DEF Scans, KeepsTarget
    <3>2. meta[r] # "none" /\ SessionOf[r] = w.sess
      BY <1>4, <3>1, KeyFacts
    <3>3. worker[r].pc # "absent"
      <4>1. w.inst \in Instances /\ "none" \notin Instances
        BY <1>0, <3>1, WorkerAssumption DEF CallsOK, CallOK, WorkerAssumption
      <4> QED BY <1>4, <3>1, <4>1 DEF StreamKept
    <3>4. EventsKey(r) \in Existing(w.sess)
      BY <3>2, <3>3, KeyFacts DEF StreamKept
    <3> QED BY <1>4, <3>1, <3>4 DEF Clears
  <2>3. ASSUME call'[c].found = w.found, call'[c].inst = w.inst
        PROVE  /\ Clears(c, r) /\ r \in issued /\ SessionOf[r] = w.sess
               /\ meta[r] # "none" => events[r] # <<>>
    <3>1. Clears(c, r) /\ r \in issued /\ SessionOf[r] = w.sess /\ w.op = "delete"
      BY <1>2, <1>4, <2>3 DEF DeletionKept
    <3>2. worker[r].pc # "absent"
      <4>1. w.inst \in Instances /\ "none" \notin Instances
        BY <1>0, <3>1, WorkerAssumption DEF CallsOK, CallOK, WorkerAssumption
      <4> QED BY <1>4, <2>3, <4>1 DEF StreamKept
    <3> QED BY <3>1, <3>2 DEF StreamKept
  <2>4. CASE ScanBatch(c)
    <3>1. /\ w.pc = "nextBatch" /\ call'[c].pc = "delBatch" /\ call'[c].batch = Existing(w.sess)
          /\ call'[c].found = w.found /\ call'[c].inst = w.inst
      BY <2>4, ScanEffect DEF Scans, KeepsTarget, ScanBatch, In
    <3>2. /\ r \in issued /\ SessionOf[r] = w.sess /\ (meta[r] # "none" => events[r] # <<>>)
      BY <2>3, <3>1
    <3>3. CASE events[r] = <<>>
      BY <1>1, <3>2, <3>3 DEF Gone, Clears
    <3>4. CASE events[r] # <<>>
      <4>1. /\ EventsKey(r) \in call'[c].batch
            /\ MetaKey(r) \in call'[c].batch \/ meta[r] = "none"
        BY <3>1, <3>2, <3>4, KeyFacts
      <4>2. meta' = meta
        BY <2>4 DEF ScanBatch, Local, storeVars
      <4> QED BY <3>1, <4>1, <4>2 DEF Clears
    <3> QED BY <3>3, <3>4
  <2>5. CASE DelBatch(c)
    <3>1. /\ w.pc = "delBatch" /\ Del(w.batch)
          /\ call'[c].found = w.found /\ call'[c].inst = w.inst
      BY <2>5, ScanEffect DEF Scans, KeepsTarget, DelBatch, In
    <3>2. Gone(r) \/ (EventsKey(r) \in w.batch /\ (MetaKey(r) \in w.batch \/ meta[r] = "none"))
      BY <2>3, <3>1 DEF Clears
    <3>3. Gone(r)'
      BY <3>1, <3>2, DelLeaves DEF Gone
    <3> QED BY <3>3 DEF Clears
  <2>7. CASE CallUnanswered(c)
    <3>1. call'[c] = call[c]
      BY <2>7 DEF CallUnanswered
    <3> QED BY <1>3, <2>3, <3>1
  <2>6. CASE ~ Starts(c) /\ ~ Scans(c) /\ ~ CallUnanswered(c)
    <3>1. call'[c].found = w.found /\ call'[c].inst = w.inst /\ ~ Abandon(c)
      BY <1>4, <2>6, CallSteps DEF KeepsKeys, KeepsTarget
    <3>2. Clears(c, r) /\ r \in issued /\ SessionOf[r] = w.sess
      BY <2>3, <3>1
    <3>3. Gone(r)
      <4>1. CASE w.pc = "nextBatch" /\ {MetaKey(r), EventsKey(r)} \subseteq w.todo
        <5>1. w.todo \cap Existing(w.sess) = {}
          BY <1>4, <2>6, <3>1, <4>1, OthersGo DEF ScanEnd
        <5> QED BY <3>2, <4>1, <5>1, KeyFacts DEF Gone
      <4>2. w.pc # "delBatch"
        BY <1>4, <2>6, <3>1, OthersGo
      <4> QED BY <3>2, <4>1, <4>2 DEF Clears
    <3> QED BY <1>1, <3>2, <3>3 DEF Clears
  <2> QED BY <2>1, <2>2, <2>4, <2>5, <2>6, <2>7 DEF Scans
<1>5. ASSUME NEW a \in Calls, CallAction(a), NEW c \in Calls, NEW r \in Runs,
             MetaKey(r) \in call'[c].found, worker'[r].inst = call'[c].inst
      PROVE  Clears(c, r)'
  <2>1. CASE worker'[r].inst = worker[r].inst
    <3>1. CASE c = a
      BY <1>4, <1>5, <2>1, <3>1
    <3>2. CASE c # a
      <4>1. call'[c] = call[c]
        BY <1>5, <3>2, CallSteps
      <4>2. Clears(c, r) /\ r \in issued
        BY <1>2, <1>5, <2>1, <4>1 DEF DeletionKept
      <4> QED BY <1>3, <4>1, <4>2
    <3> QED BY <3>1, <3>2
  <2>2. CASE worker'[r].inst # worker[r].inst
    <3>1. Register(a) /\ r = call[a].run
      BY <1>5, <2>2, StartsOne
    <3>2. call[a].pc = "register" /\ call[a].op = "create"
      BY <1>0, <3>1 DEF Register, In, CallsOK, CallOK, OpsAt, InLookup
    <3>3. worker'[r].inst = call[a].inst
      <4> DEFINE k == [worker[r] EXCEPT !.pc = "enter", !.inst = call[a].inst]
      <4>1. worker[r] \in Goroutine /\ worker'[r] = k
        BY <1>0, <3>1 DEF Register, WorkerTypeOK
      <4>2. k.inst = call[a].inst
        BY <4>1 DEF Goroutine
      <4> HIDE DEF k
      <4> QED BY <4>1, <4>2
    <3>4. call'[c].inst = call[c].inst /\ call'[c].found = call[c].found
      <4>1. ~ Starts(a) /\ ~ Scans(a)
        BY <3>2 DEF In, Starts, Scans, StartCall, StartCancel, ScanStart, ScanBatch, DelBatch
      <4> QED BY <1>5, <4>1, CallSteps DEF KeepsKeys, KeepsTarget
    <3>5. MetaKey(r) \notin call[c].found
      BY <1>5, <3>1, <3>2, <3>3, <3>4 DEF StartUnseen, Starting
    <3> QED BY <1>5, <3>4, <3>5
  <2> QED BY <2>1, <2>2
<1>6. ASSUME \A r \in Runs : worker'[r].inst = worker[r].inst, call' = call PROVE DeletionKept'
  <2>1. ASSUME NEW c \in Calls, NEW r \in Runs, MetaKey(r) \in call'[c].found,
               worker'[r].inst = call'[c].inst
        PROVE  Clears(c, r)'
    <3>1. Clears(c, r) /\ r \in issued
      BY <1>2, <1>6, <2>1 DEF DeletionKept
    <3> QED BY <1>3, <1>6, <3>1
  <2> QED BY <2>1 DEF DeletionKept
<1>7. ASSUME NEW q \in Runs, WorkerStep(q), UNCHANGED callVars PROVE DeletionKept'
  <2>1. \A r \in Runs : worker'[r].inst = worker[r].inst
    BY <1>0, <1>7, WorkerGoroutine DEF GoroutineStep
  <2> QED BY <1>6, <1>7, <2>1 DEF callVars
<1>8. CASE UNCHANGED vars
  BY <1>6, <1>8 DEF vars, callVars, workerVars
<1>9. ASSUME NEW a \in Calls, CallAction(a) PROVE DeletionKept'
  BY <1>5, <1>9 DEF DeletionKept
<1> QED BY <1>7, <1>8, <1>9, ThoroughSteps

\* The parts are inductive together.
DeletedKept == FreshKept /\ LockKept /\ FoundKept /\ StreamKept /\ StartUnseen /\ DeletionKept

\* A deletion that is neither cut off nor split into batches leaves neither hash nor stream
\* of the runs of its instance that it found, however many calls, workers and instances
\* there are, whatever answers are lost and whatever commands are sent again, initRun
\* excepted.
THEOREM DeletionsAreComplete ==
  ASSUME Thorough
  PROVE  Spec => []DeletionComplete
<1>1. Init => DeletedKept
  BY InitFresh, InitDeletion DEF DeletedKept
<1>2. SInv /\ DeletedKept /\ [Next]_vars => DeletedKept'
  BY StepFresh, StepLock, StepFound, StepStream, StepUnseen, StepDeletion DEF DeletedKept
<1>3. DeletedKept => DeletionComplete
  BY DEF DeletedKept, DeletionKept, Clears, Gone, DeletionComplete
<1> QED BY <1>1, <1>2, <1>3, ServiceInvariant, PTL DEF Spec
=============================================================================
