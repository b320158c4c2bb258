------------------------------ MODULE RunWorker ------------------------------
(***************************************************************************)
(* executeRun, the goroutine that runs one agent, its lifecycle watcher,   *)
(* and the registry of cancel functions and deleted runs that it shares    *)
(* with the service calls of its instance (service.go).                    *)
(*                                                                         *)
(* One step is one Redis call, or what the goroutine does between two of   *)
(* them that another goroutine can see: a look at the registry, at its     *)
(* context, or a wait for the agent.  What an event carries and how blocks *)
(* are opened and closed is the business of the event builder; here an     *)
(* agent yields notes, finish reasons, an error, or its end.               *)
(***************************************************************************)
EXTENDS RunStore

CONSTANTS Instances,     \* processes that run the service against one Redis
          AgentMay,      \* subset of {"error", "lateError", "malformed", "overrun"}
          AgentEvents,   \* bound on the messages of one agent
          Timed          \* the instances with runTimeout > 0

ASSUME WorkerAssumption ==
    /\ AgentMay \subseteq {"error", "lateError", "malformed", "overrun"}
    /\ AgentEvents \in Nat
    /\ Timed \subseteq Instances
    /\ "none" \notin Instances

VARIABLES worker,        \* [Runs -> the goroutine of the run]
          ctx,           \* [Runs -> state of the run's context]
          runCancels,    \* [Instances -> runs with a registered cancel function]
          deletedRuns,   \* [Instances -> runs marked as deleted]
          terminated,    \* [Runs -> status OnTerminated was called with]
          completed      \* runs OnCompleted was called for

registry   == <<runCancels, deletedRuns>>
hooks      == <<terminated, completed>>
workerVars == <<worker, ctx, runCancels, deletedRuns, terminated, completed>>

Errors == {"cancelled", "timedout", "agent", "missing", "terminal", "unavailable"}

\* Program points of executeRun; "absent" before the goroutine is started, "gone"
\* after it returned, "crashed" when its process died.
Streaming == {"loop", "agent", "check", "note", "finish", "failed", "finishCancelled",
              "errorCheck", "error", "finishFailed", "ended", "fallback",
              "reportCheck", "report"}
Running   == {"enter", "setRunning", "startedCheck", "started", "leave"} \cup Streaming
Points    == Running \cup {"absent", "gone", "crashed"}

\* What a goroutine knows: the event it was handed and the messages its agent may
\* still yield, the error of the stream, whether a finish was stored, and the outcome
\* it would report.
Goroutine ==
    [pc : Points, inst : Instances \cup {"none"}, entry : Events \cup {Plain("")},
     err : Errors \cup {""}, outcome : Terminal \cup {"none"}, finished : BOOLEAN,
     left : 0..AgentEvents]

WorkerTypeOK ==
    /\ worker \in [Runs -> Goroutine]
    /\ ctx \in [Runs -> {"live", "cancelled", "timedout"}]
    /\ runCancels \in [Instances -> SUBSET Runs]
    /\ deletedRuns \in [Instances -> SUBSET Runs]
    /\ terminated \in [Runs -> Terminal \cup {"none"}]
    /\ completed \subseteq Runs

WorkerInit ==
    /\ worker = [r \in Runs |->
         [pc |-> "absent", inst |-> "none", entry |-> Plain(""), err |-> "",
          outcome |-> "none", finished |-> FALSE, left |-> AgentEvents]]
    /\ ctx = [r \in Runs |-> "live"]
    /\ runCancels = [i \in Instances |-> {}]
    /\ deletedRuns = [i \in Instances |-> {}]
    /\ terminated = [r \in Runs |-> "none"]
    /\ completed = {}

-----------------------------------------------------------------------------
(* Helpers *)

At(r, pc) == worker[r].pc = pc
Goto(r, pc) == worker' = [worker EXCEPT ![r].pc = pc]

isRunDeleted(r) == r \in deletedRuns[worker[r].inst]

\* A cancel function: the first end of a context is the one it reports.
cancel(r) == ctx' = [ctx EXCEPT ![r] = IF @ = "live" THEN "cancelled" ELSE @]

\* The error streamAgentEvents returns with.
Fail(r, err) == worker' = [worker EXCEPT ![r] = [@ EXCEPT !.pc = "failed", !.err = err]]

Local == UNCHANGED storeVars

-----------------------------------------------------------------------------
(* Until the run is running *)

\* A test of isRunDeleted that returns from executeRun: before setRunStatus, before
\* run_started (where appendEvent repeats it), after the agent's end, before the hooks.
Checkpoint(r, pc, next) ==
    /\ At(r, pc)
    /\ Goto(r, IF isRunDeleted(r) THEN "leave" ELSE next)
    /\ Local /\ UNCHANGED <<ctx, registry, hooks>>

SetRunning(r) ==
    /\ At(r, "setRunning")
    /\ \E reply \in Replies :
         /\ SetRunStatus(r, reply)
         /\ Goto(r, IF reply = "ok" THEN "startedCheck" ELSE "leave")
    /\ UNCHANGED <<ctx, registry, hooks>>

AppendStarted(r) ==
    /\ At(r, "started")
    /\ \E reply \in Replies :
         /\ AppendEvent(r, Plain("run_started"), reply)
         /\ Goto(r, IF reply = "ok" THEN "loop" ELSE "leave")
    /\ UNCHANGED <<ctx, registry, hooks>>

-----------------------------------------------------------------------------
(* streamAgentEvents *)

LoopCheck(r) ==
    /\ At(r, "loop")
    /\ IF ctx[r] # "live" THEN Fail(r, ctx[r]) ELSE Goto(r, "agent")
    /\ Local /\ UNCHANGED <<ctx, registry, hooks>>

\* A message of the agent: a note, or a finish of a step ("tool_calls" and its alias
\* go through appendEvent), or a finish of the run.
AgentMessage(r) ==
    /\ At(r, "agent")
    /\ worker[r].left > 0
    /\ worker[r].finished => "overrun" \in AgentMay
    /\ \E e \in {Plain("message")} \cup {Finish(reason) : reason \in Reasons} :
         worker' = [worker EXCEPT ![r] = [@ EXCEPT !.entry = e, !.left = worker[r].left - 1,
                      !.pc = IF e \in Notes THEN "check" ELSE "finish"]]
    /\ Local /\ UNCHANGED <<ctx, registry, hooks>>

\* An agent whose context has ended reports that, or any other error it met, before or
\* after its finish; context.Canceled may come from a context of the agent's own.
AgentError(r) ==
    /\ At(r, "agent")
    /\ \/ /\ (IF worker[r].finished THEN "lateError" ELSE "error") \in AgentMay
          /\ \E err \in {"agent", "cancelled"} : Fail(r, err)
       \/ ctx[r] # "live" /\ Fail(r, ctx[r])
    /\ Local /\ UNCHANGED <<ctx, registry, hooks>>

AgentEnd(r) ==
    /\ At(r, "agent")
    /\ Goto(r, "ended")
    /\ Local /\ UNCHANGED <<ctx, registry, hooks>>

\* service.appendEvent looks at deletedRuns before the call to Redis.
AppendCheck(r) ==
    /\ At(r, "check")
    /\ IF isRunDeleted(r) THEN Goto(r, "leave") ELSE Goto(r, "note")
    /\ Local /\ UNCHANGED <<ctx, registry, hooks>>

\* A redis call under a context that has ended is not sent.
ContextEnded(r, pc) ==
    /\ At(r, pc)
    /\ ctx[r] # "live"
    /\ Fail(r, ctx[r])
    /\ Local /\ UNCHANGED <<ctx, registry, hooks>>

\* writeFinish knows only "tool_calls" as the finish of a step; with the alias
\* "tool-calls" it takes the run for finished.
AppendNote(r) ==
    LET e == worker[r].entry IN
    /\ At(r, "note")
    /\ ctx[r] = "live"
    /\ \E reply \in Replies :
         /\ AppendEvent(r, e, reply)
         /\ IF reply = "ok"
              THEN worker' = [worker EXCEPT ![r] = [@ EXCEPT !.pc = "loop",
                     !.finished = worker[r].finished
                                    \/ (e.type = "finish" /\ e.reason # "tool_calls")]]
              ELSE Fail(r, reply)
    /\ UNCHANGED <<ctx, registry, hooks>>

AppendFinish(r) ==
    /\ At(r, "finish")
    /\ ctx[r] = "live"
    /\ \E reply \in Replies :
         /\ FinishRun(r, worker[r].entry.reason, reply)
         /\ IF reply = "ok"
              THEN worker' = [worker EXCEPT ![r] = [@ EXCEPT !.pc = "loop", !.finished = TRUE]]
              ELSE Fail(r, reply)
    /\ UNCHANGED <<ctx, registry, hooks>>

-----------------------------------------------------------------------------
(* After the stream *)

\* Mutant: a run whose context ended is taken for one that somebody else ended.
StreamFailedLeaves(r) ==
    /\ At(r, "failed")
    /\ Goto(r, IF worker[r].err = "agent" THEN "errorCheck" ELSE "leave")
    /\ Local /\ UNCHANGED <<ctx, registry, hooks>>

\* An error of the stream: a run that was deleted or ended by someone else is left
\* without a word; otherwise the run ends as cancelled or failed.
StreamFailed(r) ==
    /\ At(r, "failed")
    /\ Goto(r, IF worker[r].err = "terminal" \/ isRunDeleted(r) THEN "leave"
               ELSE IF worker[r].err = "cancelled" THEN "finishCancelled"
               ELSE "errorCheck")
    /\ Local /\ UNCHANGED <<ctx, registry, hooks>>

\* finishCancelled: the reply is ignored.
FinishCancelled(r) ==
    /\ At(r, "finishCancelled")
    /\ \E reply \in Replies : FinishRun(r, "cancelled", reply)
    /\ worker' = [worker EXCEPT ![r] = [@ EXCEPT !.pc = "report", !.outcome = "cancelled"]]
    /\ UNCHANGED <<ctx, registry, hooks>>

\* finishFailed: an error event, then the terminal finish; both replies are ignored.
ErrorCheck(r) ==
    /\ At(r, "errorCheck")
    /\ Goto(r, IF isRunDeleted(r) THEN "finishFailed" ELSE "error")
    /\ Local /\ UNCHANGED <<ctx, registry, hooks>>

AppendError(r) ==
    /\ At(r, "error")
    /\ \E reply \in Replies : AppendEvent(r, Plain("error"), reply)
    /\ Goto(r, "finishFailed")
    /\ UNCHANGED <<ctx, registry, hooks>>

\* Mutant: the hooks are left out.
FinishFailedSilent(r) ==
    /\ At(r, "finishFailed")
    /\ \E reply \in Replies : FinishRun(r, "error", reply)
    /\ Goto(r, "leave")
    /\ UNCHANGED <<ctx, registry, hooks>>

\* Reached without an error of the stream, finishFailed is not followed by the hooks.
FinishFailed(r) ==
    /\ At(r, "finishFailed")
    /\ \E reply \in Replies : FinishRun(r, "error", reply)
    /\ IF worker[r].err = "" THEN Goto(r, "leave")
       ELSE worker' = [worker EXCEPT ![r] = [@ EXCEPT !.pc = "report", !.outcome = "failed"]]
    /\ UNCHANGED <<ctx, registry, hooks>>

\* An agent that ends without a finish reason is given "stop".
Ended(r) == Checkpoint(r, "ended", IF worker[r].finished THEN "reportCheck" ELSE "fallback")

\* A step of the agent that cannot be committed: the finish is not sent.
EndedMalformed(r) ==
    /\ At(r, "ended")
    /\ ~ isRunDeleted(r) /\ ~ worker[r].finished
    /\ "malformed" \in AgentMay
    /\ Goto(r, "errorCheck")
    /\ Local /\ UNCHANGED <<ctx, registry, hooks>>

Fallback(r) ==
    /\ At(r, "fallback")
    /\ \E reply \in Replies :
         /\ FinishRun(r, "stop", reply)
         /\ Goto(r, CASE reply = "ok" -> "reportCheck"
                      [] reply = "terminal" -> "leave"
                      [] OTHER -> "errorCheck")
    /\ UNCHANGED <<ctx, registry, hooks>>

\* Mutant: OnCompleted is called after every end.
ReportAlways(r) ==
    /\ At(r, "report")
    /\ terminated' = [terminated EXCEPT ![r] =
                        IF worker[r].outcome = "none" THEN "completed" ELSE worker[r].outcome]
    /\ completed' = completed \cup {r}
    /\ Goto(r, "leave")
    /\ Local /\ UNCHANGED <<ctx, registry>>

\* executeRun puts its own idea of the outcome into the result the hooks receive.
Report(r) ==
    LET outcome == IF worker[r].outcome = "none" THEN "completed" ELSE worker[r].outcome IN
    /\ At(r, "report")
    /\ terminated' = [terminated EXCEPT ![r] = outcome]
    /\ completed' = IF outcome = "completed" THEN completed \cup {r} ELSE completed
    /\ Goto(r, "leave")
    /\ Local /\ UNCHANGED <<ctx, registry>>

\* The deferred calls: stopWatch, unregisterRunCancel, cancel.
Leave(r) ==
    LET i == worker[r].inst IN
    /\ At(r, "leave")
    /\ Goto(r, "gone")
    /\ runCancels' = [runCancels EXCEPT ![i] = @ \ {r}]
    /\ deletedRuns' = [deletedRuns EXCEPT ![i] = @ \ {r}]
    /\ cancel(r)
    /\ Local /\ UNCHANGED hooks

-----------------------------------------------------------------------------
(* Commands that are sent again *)

\* A command runs whose answer does not arrive: the goroutine waits on, and the redis
\* client will send it again.  Under a context that has ended it would not.
Unanswered(r) ==
    /\ "resend" \in Faults
    /\ \E reply \in Replies :
         \/ At(r, "setRunning") /\ SetRunStatus(r, reply)
         \/ At(r, "started") /\ AppendEvent(r, Plain("run_started"), reply)
         \/ At(r, "note") /\ ctx[r] = "live" /\ AppendEvent(r, worker[r].entry, reply)
         \/ At(r, "finish") /\ ctx[r] = "live" /\ FinishRun(r, worker[r].entry.reason, reply)
         \/ At(r, "finishCancelled") /\ FinishRun(r, "cancelled", reply)
         \/ At(r, "error") /\ AppendEvent(r, Plain("error"), reply)
         \/ At(r, "finishFailed") /\ FinishRun(r, "error", reply)
         \/ At(r, "fallback") /\ FinishRun(r, "stop", reply)
    /\ UNCHANGED workerVars

-----------------------------------------------------------------------------
(* The context *)

\* Mutant: a run that is gone is taken for a failed read.
WatchCancelledOnly(r) ==
    /\ worker[r].pc \in Streaming
    /\ meta[r] = "cancelled"
    /\ ctx[r] = "live"
    /\ cancel(r)
    /\ Local /\ UNCHANGED <<worker, registry, hooks>>

\* One poll of watchRunLifecycle that finds the run cancelled or gone.  Neither
\* changes back, so reading the status and calling cancel may be one step.
WatchRunLifecycle(r) ==
    /\ worker[r].pc \in Streaming
    /\ meta[r] \in {"none", "cancelled"}
    /\ ctx[r] = "live"
    /\ cancel(r)
    /\ Local /\ UNCHANGED <<worker, registry, hooks>>

Timeout(r) ==
    /\ worker[r].inst \in Timed
    /\ worker[r].pc \in Running
    /\ ctx[r] = "live"
    /\ ctx' = [ctx EXCEPT ![r] = "timedout"]
    /\ Local /\ UNCHANGED <<worker, registry, hooks>>

-----------------------------------------------------------------------------

\* Steps the goroutine takes without waiting for its agent.
OwnStep(r) ==
    \/ Checkpoint(r, "enter", "setRunning") \/ SetRunning(r)
    \/ Checkpoint(r, "startedCheck", "started") \/ AppendStarted(r)
    \/ LoopCheck(r) \/ AppendCheck(r)
    \/ ContextEnded(r, "note") \/ ContextEnded(r, "finish")
    \/ AppendNote(r) \/ AppendFinish(r)
    \/ StreamFailed(r) \/ FinishCancelled(r)
    \/ ErrorCheck(r) \/ AppendError(r) \/ FinishFailed(r)
    \/ Ended(r) \/ EndedMalformed(r) \/ Fallback(r) \/ Checkpoint(r, "reportCheck", "report")
    \/ Report(r) \/ Leave(r)

AgentStep(r) == AgentMessage(r) \/ AgentError(r) \/ AgentEnd(r)

WorkerStep(r) ==
    OwnStep(r) \/ AgentStep(r) \/ Unanswered(r) \/ WatchRunLifecycle(r) \/ Timeout(r)
=============================================================================
