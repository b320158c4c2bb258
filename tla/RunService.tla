----------------------------- MODULE RunService -----------------------------
(***************************************************************************)
(* The service calls of einoai (service.go), made concurrently on several  *)
(* instances that share one Redis, together with the workers they start.   *)
(* A call is a sequence of Redis commands; CreateRun and DeleteSession     *)
(* hold the session lock of their instance, which other instances and      *)
(* CancelRun and GetRun do not see.                                        *)
(***************************************************************************)
EXTENDS RunWorker

CONSTANTS Calls,         \* the calls made in a behaviour
          Ops,           \* subset of {"create", "get", "delete", "cancel"}
          Free,          \* holder of a session lock nobody holds
          OneBatch,      \* TRUE iff one SCAN reply holds all keys of a session
          CallersLeave,  \* TRUE iff a caller's context may end, or a read may fail
          MaxCrashes     \* bound on the crashes of instances

ASSUME ServiceAssumption ==
    /\ Ops \subseteq {"create", "get", "delete", "cancel"}
    /\ Free \notin Calls
    /\ OneBatch \in BOOLEAN /\ CallersLeave \in BOOLEAN /\ MaxCrashes \in Nat

VARIABLES call,      \* [Calls -> the state of the call]
          lock,      \* [Instances -> [Sessions -> Calls \cup {Free}]]
          known,     \* run ids some call has returned
          crashes,   \* crashes so far
          verdict    \* history: the terminal status Redis last held for a run

callVars == <<call, lock, known>>
vars == <<storeVars, workerVars, callVars, crashes, verdict>>

InLookup == {"getPointer", "getMeta", "dropPointer", "clearPointer"}
Points_C == InLookup \cup
    {"ready", "lock", "initRun", "initAgain", "runCreated", "register", "rollback", "rollbackKeys",
     "markDeleted", "cancelLocal", "scan", "nextBatch", "delBatch",
     "readTarget", "cancelDirect", "return", "returnRun", "done"}

\* A call with its locals: the run it is about, whether initRun turned it away, and for
\* a deletion the keys it still has to meet, those of its batch and those it found.
CallState ==
    LET keys == UNION {KeysOf(s) : s \in Sessions} IN
    [pc : Points_C, op : Ops \cup {"none"}, inst : Instances \cup {"none"},
     sess : Sessions \cup {"none"}, run : Runs \cup {NoRun}, refused : BOOLEAN,
     todo : SUBSET keys, batch : SUBSET keys, found : SUBSET keys]

TypeOK ==
    /\ StoreTypeOK /\ WorkerTypeOK
    /\ call \in [Calls -> CallState]
    /\ lock \in [Instances -> [Sessions -> Calls \cup {Free}]]
    /\ known \subseteq issued
    /\ crashes \in 0..MaxCrashes
    /\ verdict \in [Runs -> Terminal \cup {"none"}]

Init ==
    /\ StoreInit /\ WorkerInit
    /\ call = [c \in Calls |->
         [pc |-> "ready", op |-> "none", inst |-> "none", sess |-> "none",
          run |-> NoRun, refused |-> FALSE, todo |-> {}, batch |-> {}, found |-> {}]]
    /\ lock = [i \in Instances |-> [s \in Sessions |-> Free]]
    /\ known = {}
    /\ crashes = 0
    /\ verdict = [r \in Runs |-> "none"]

-----------------------------------------------------------------------------
(* Helpers *)

In(c, pc)     == call[c].pc = pc
Enter(c, pc)  == call' = [call EXCEPT ![c].pc = pc]
Pointer(c)    == current[call[c].sess]

\* What getCurrentRun or getRun reports of a run.
Found(r) == CASE r = NoRun -> "absent"
              [] meta[r] = "none" -> "absent"
              [] meta[r] \in Terminal -> "terminal"
              [] OTHER -> "active"

-----------------------------------------------------------------------------
(* The start of a call *)

\* No more runs are asked for than there are ids.
Creates == Cardinality({c \in Calls : call[c].op = "create"})

StartCall(c) ==
    /\ In(c, "ready")
    /\ \E op \in Ops \ {"cancel"}, i \in Instances, s \in Sessions :
         /\ op = "create" => Creates < Cardinality(Runs)
         /\ call' = [call EXCEPT ![c] = [@ EXCEPT !.op = op, !.inst = i, !.sess = s,
                       !.pc = IF op = "get" THEN "getPointer" ELSE "lock"]]
    /\ Local /\ UNCHANGED <<workerVars, lock, known>>

\* A client can only cancel a run whose id it was given.
StartCancel(c) ==
    /\ In(c, "ready")
    /\ "cancel" \in Ops
    /\ \E i \in Instances, r \in known :
         call' = [call EXCEPT ![c] = [@ EXCEPT !.op = "cancel", !.inst = i, !.sess = SessionOf[r],
                    !.run = r, !.pc = "readTarget"]]
    /\ Local /\ UNCHANGED <<workerVars, lock, known>>

Lock(c) ==
    LET k == call[c] IN
    /\ In(c, "lock")
    /\ lock[k.inst][k.sess] = Free
    /\ lock' = [lock EXCEPT ![k.inst][k.sess] = c]
    /\ Enter(c, "getPointer")
    /\ Local /\ UNCHANGED <<workerVars, known>>

-----------------------------------------------------------------------------
(* getCurrentRun, and what each call does with its result *)

AfterLookup(c, found) ==
    CASE call[c].op = "delete" -> IF found = "active" THEN "markDeleted" ELSE "scan"
      [] call[c].op = "get" -> IF found = "active" THEN "returnRun"
                               ELSE IF found = "terminal" THEN "clearPointer" ELSE "return"
      [] call[c].op = "create" -> IF call[c].refused \/ found = "active" THEN "return"
                                  ELSE IF found = "terminal" THEN "clearPointer" ELSE "initRun"

GetPointer(c) ==
    /\ In(c, "getPointer")
    /\ call' = [call EXCEPT ![c] = [@ EXCEPT !.run = Pointer(c),
                  !.pc = IF Pointer(c) = NoRun THEN AfterLookup(c, "absent")
                            ELSE "getMeta"]]
    /\ Local /\ UNCHANGED <<workerVars, lock, known>>

GetMeta(c) ==
    /\ In(c, "getMeta")
    /\ LET found == Found(call[c].run) IN
       Enter(c, IF found = "absent" THEN "dropPointer" ELSE AfterLookup(c, found))
    /\ Local /\ UNCHANGED <<workerVars, lock, known>>

\* The pointer is removed whatever it names by now; an error is ignored.
DropPointer(c) ==
    /\ In(c, "dropPointer")
    /\ Del({CurrentKey(call[c].sess)}) \/ (CallersLeave /\ Local)
    /\ Enter(c, AfterLookup(c, "absent"))
    /\ UNCHANGED <<workerVars, lock, known>>

ClearPointer(c) ==
    /\ In(c, "clearPointer")
    /\ ClearCurrentRunIfMatches(call[c].sess, call[c].run)
    /\ Enter(c, IF call[c].op = "create" THEN "initRun" ELSE "return")
    /\ UNCHANGED <<workerVars, lock, known>>

-----------------------------------------------------------------------------
(* CreateRun *)

Answered(c, r, reply) ==
    call' = [call EXCEPT ![c] = [@ EXCEPT !.run = r, !.refused = (reply = "active"),
               !.pc = CASE reply = "ok" -> "runCreated"
                           [] reply = "active" -> "getPointer"
                           [] OTHER -> "return"]]

\* An initRun that took effect may be without an answer, and is sent again.
CallInitRun(c) ==
    /\ In(c, "initRun")
    /\ \E r \in Runs, reply \in Replies :
         /\ SessionOf[r] = call[c].sess
         /\ InitRun(r, reply)
         /\ \/ Answered(c, r, reply)
            \/ /\ "reinit" \in Faults /\ r \in issued'
               /\ call' = [call EXCEPT ![c] = [@ EXCEPT !.run = r, !.pc = "initAgain"]]
    /\ UNCHANGED <<workerVars, lock, known>>

CallInitAgain(c) ==
    /\ In(c, "initAgain")
    /\ \E reply \in Replies : /\ InitAgain(call[c].run, reply)
                              /\ Answered(c, call[c].run, reply)
    /\ UNCHANGED <<workerVars, lock, known>>

\* Mutant: XADD without looking at the hash.
AppendCreatedBlind(c) ==
    /\ In(c, "runCreated")
    /\ events' = [events EXCEPT ![call[c].run] = Append(@, Plain("run_created"))]
    /\ Enter(c, "register")
    /\ UNCHANGED <<meta, current, lagging, issued, workerVars, lock, known>>

\* appendEvent's look at deletedRuns finds nothing: the id is new and DeleteSession
\* of this instance waits for the lock.
AppendCreated(c) ==
    /\ In(c, "runCreated")
    /\ \E reply \in Replies :
         /\ AppendEvent(call[c].run, Plain("run_created"), reply)
         /\ Enter(c, IF reply = "ok" THEN "register" ELSE "rollback")
    /\ UNCHANGED <<workerVars, lock, known>>

\* deleteRun, with a background context, in two commands; its error is ignored.
Rollback(c) ==
    /\ In(c, "rollback")
    /\ \/ /\ ClearCurrentRunIfMatches(call[c].sess, call[c].run)
          /\ Enter(c, "rollbackKeys")
       \/ Lost # {} /\ Local /\ Enter(c, "return")
    /\ UNCHANGED <<workerVars, lock, known>>

RollbackKeys(c) ==
    /\ In(c, "rollbackKeys")
    /\ Del({MetaKey(call[c].run), EventsKey(call[c].run)}) \/ (Lost # {} /\ Local)
    /\ Enter(c, "return")
    /\ UNCHANGED <<workerVars, lock, known>>

\* registerRunCancel, then the worker's goroutine is started.
Register(c) ==
    LET i == call[c].inst
        r == call[c].run
    IN
    /\ In(c, "register")
    /\ runCancels' = [runCancels EXCEPT ![i] = @ \cup {r}]
    /\ deletedRuns' = [deletedRuns EXCEPT ![i] = @ \ {r}]
    /\ worker' = [worker EXCEPT ![r] = [@ EXCEPT !.pc = "enter", !.inst = i]]
    /\ Enter(c, "returnRun")
    /\ Local /\ UNCHANGED <<ctx, hooks, lock, known>>

-----------------------------------------------------------------------------
(* DeleteSession *)

MarkRunDeleted(c) ==
    /\ In(c, "markDeleted")
    /\ deletedRuns' = [deletedRuns EXCEPT ![call[c].inst] = @ \cup {call[c].run}]
    /\ Enter(c, "cancelLocal")
    /\ Local /\ UNCHANGED <<worker, ctx, runCancels, hooks, lock, known>>

\* cancelActiveRun, from DeleteSession, which goes on in any case, and from CancelRun,
\* which is done when the run belongs to this instance.
CancelLocal(c) ==
    LET r == call[c].run
        local == r \in runCancels[call[c].inst]
    IN
    /\ In(c, "cancelLocal")
    /\ IF local THEN cancel(r) ELSE UNCHANGED ctx
    /\ Enter(c, IF call[c].op = "delete" THEN "scan"
                ELSE IF local THEN "return" ELSE "cancelDirect")
    /\ Local /\ UNCHANGED <<worker, registry, hooks, lock, known>>

\* SCAN returns every key that exists from its start to its end, in batches that are
\* deleted before the next one is asked for.
ScanStart(c) ==
    LET keys == Existing(call[c].sess) IN
    /\ In(c, "scan")
    /\ call' = [call EXCEPT ![c] = [@ EXCEPT !.pc = "nextBatch", !.todo = keys, !.found = keys]]
    /\ Local /\ UNCHANGED <<workerVars, lock, known>>

ScanBatch(c) ==
    LET keys == Existing(call[c].sess) IN
    /\ In(c, "nextBatch")
    /\ \E K \in SUBSET keys :
         /\ K # {} /\ (OneBatch => K = keys)
         /\ call' = [call EXCEPT ![c] = [@ EXCEPT !.pc = "delBatch", !.batch = K, !.todo = call[c].todo \ K]]
    /\ Local /\ UNCHANGED <<workerVars, lock, known>>

DelBatch(c) ==
    /\ In(c, "delBatch")
    /\ Del(call[c].batch)
    /\ call' = [call EXCEPT ![c] = [@ EXCEPT !.pc = "nextBatch", !.batch = {}]]
    /\ UNCHANGED <<workerVars, lock, known>>

ScanEnd(c) ==
    /\ In(c, "nextBatch")
    /\ call[c].todo \cap Existing(call[c].sess) = {}
    /\ Enter(c, "return")
    /\ Local /\ UNCHANGED <<workerVars, lock, known>>

-----------------------------------------------------------------------------
(* CancelRun *)

ReadTarget(c) ==
    /\ In(c, "readTarget")
    /\ Enter(c, IF Found(call[c].run) = "active" THEN "cancelLocal" ELSE "return")
    /\ Local /\ UNCHANGED <<workerVars, lock, known>>

CancelDirect(c) ==
    /\ In(c, "cancelDirect")
    /\ \E reply \in Replies : FinishRun(call[c].run, "cancelled", reply)
    /\ Enter(c, "return")
    /\ UNCHANGED <<workerVars, lock, known>>

-----------------------------------------------------------------------------
(* The end of a call *)

\* Mutant: the lock is not released on the way out.
ReturnLocked(c) ==
    LET k == call[c] IN
    /\ k.pc \in {"return", "returnRun"}
    /\ known' = IF k.pc = "returnRun" THEN known \cup {k.run} ELSE known
    /\ Enter(c, "done")
    /\ Local /\ UNCHANGED <<workerVars, lock>>

\* The deferred unlock; the ids a call returns become known to clients.
Return(c) ==
    LET k == call[c] IN
    /\ k.pc \in {"return", "returnRun"}
    /\ known' = IF k.pc = "returnRun" THEN known \cup {k.run} ELSE known
    /\ lock' = [i \in Instances |-> [s \in Sessions |->
                  IF lock[i][s] = c THEN Free ELSE lock[i][s]]]
    /\ Enter(c, "done")
    /\ Local /\ UNCHANGED workerVars

\* A command under the caller's context is not sent, or the client is told that it
\* failed: every call then returns the error.
Abandon(c) ==
    /\ CallersLeave
    /\ call[c].pc \in {"getPointer", "getMeta", "clearPointer", "initRun", "initAgain",
                       "nextBatch", "delBatch", "readTarget", "cancelDirect"}
    /\ Enter(c, "return")
    /\ Local /\ UNCHANGED <<workerVars, lock, known>>

\* A command runs whose answer does not arrive: the call waits on, and the redis client
\* will send it again.  The commands that only read are left out.
CallUnanswered(c) ==
    LET k == call[c] IN
    /\ \/ \E reply \in Replies : In(c, "initAgain") /\ InitAgain(k.run, reply)
       \/ /\ "resend" \in Faults
          /\ \/ \E reply \in Replies :
                  \/ In(c, "runCreated") /\ AppendEvent(k.run, Plain("run_created"), reply)
                  \/ In(c, "cancelDirect") /\ FinishRun(k.run, "cancelled", reply)
             \/ k.pc \in {"clearPointer", "rollback"} /\ ClearCurrentRunIfMatches(k.sess, k.run)
             \/ In(c, "dropPointer") /\ Del({CurrentKey(k.sess)})
             \/ In(c, "rollbackKeys") /\ Del({MetaKey(k.run), EventsKey(k.run)})
             \/ In(c, "delBatch") /\ Del(k.batch)
    /\ UNCHANGED <<call, workerVars, lock, known>>

\* A process dies with its calls, its goroutines, its locks and its registry, and is
\* started again.
Crash(i) ==
    /\ crashes < MaxCrashes
    /\ crashes' = crashes + 1
    /\ call' = [c \in Calls |-> IF call[c].inst = i THEN [call[c] EXCEPT !.pc = "done"]
                                ELSE call[c]]
    /\ worker' = [r \in Runs |->
         IF worker[r].inst = i /\ worker[r].pc \in Running
           THEN [worker[r] EXCEPT !.pc = "crashed"] ELSE worker[r]]
    /\ lock' = [lock EXCEPT ![i] = [s \in Sessions |-> Free]]
    /\ runCancels' = [runCancels EXCEPT ![i] = {}]
    /\ deletedRuns' = [deletedRuns EXCEPT ![i] = {}]
    /\ Local /\ UNCHANGED <<ctx, hooks, known>>

-----------------------------------------------------------------------------

CallStep(c) ==
    \/ Lock(c) \/ GetPointer(c) \/ GetMeta(c) \/ DropPointer(c) \/ ClearPointer(c)
    \/ CallInitRun(c) \/ CallInitAgain(c) \/ AppendCreated(c) \/ Rollback(c) \/ RollbackKeys(c) \/ Register(c)
    \/ MarkRunDeleted(c) \/ CancelLocal(c)
    \/ ScanStart(c) \/ ScanBatch(c) \/ DelBatch(c) \/ ScanEnd(c)
    \/ ReadTarget(c) \/ CancelDirect(c)
    \/ Return(c)

\* Everything has returned.
Quiet ==
    /\ \A c \in Calls : call[c].pc \in {"ready", "done"}
    /\ \A r \in Runs : worker[r].pc \notin Running
    /\ UNCHANGED vars

\* The history of the terminal statuses.
Recorded == verdict' = [r \in Runs |-> IF meta'[r] \in Terminal THEN meta'[r] ELSE verdict[r]]

Step == \/ \E c \in Calls : /\ \/ StartCall(c) \/ StartCancel(c) \/ CallStep(c)
                               \/ Abandon(c) \/ CallUnanswered(c)
                            /\ UNCHANGED crashes
        \/ \E r \in Runs : WorkerStep(r) /\ UNCHANGED <<callVars, crashes>>
        \/ Expire /\ UNCHANGED <<workerVars, callVars, crashes>>
        \/ \E i \in Instances : Crash(i)

Next == (Step /\ Recorded) \/ Quiet

Spec == Init /\ [][Next]_vars

\* Goroutines and requests are scheduled; a poll of the watcher comes every second; the
\* timer of a run fires; an agent gives up once its context has ended.  Nobody has to
\* start a call, and an agent whose context is live may take forever.
ByCall(A) == A /\ UNCHANGED crashes /\ Recorded
ByRun(A)  == A /\ UNCHANGED <<callVars, crashes>> /\ Recorded

Fairness ==
    /\ \A c \in Calls : WF_vars(ByCall(CallStep(c)))
    /\ \A r \in Runs : /\ WF_vars(ByRun(OwnStep(r)))
                       /\ WF_vars(ByRun(WatchRunLifecycle(r)))
                       /\ WF_vars(ByRun(Timeout(r)))
                       /\ WF_vars(ByRun(ctx[r] # "live" /\ AgentStep(r)))

FairSpec == Spec /\ Fairness

-----------------------------------------------------------------------------
(* Safety *)

\* A session has at most one run that is not terminal, however many instances create
\* runs in it ("the placeholder is created atomically by Redis", docs/api.md): the
\* pointer that initRun tests is not lost while its run is active.
OneActiveRun ==
    \A r, q \in Runs :
      /\ r # q /\ SessionOf[r] = SessionOf[q]
      => ~ (meta[r] \in ActiveStatus /\ meta[q] \in ActiveStatus)

\* OnCompleted is called only for a run that Redis holds, or last held, as completed
\* (run.go: "receives a successfully completed run").
CompletedMeansCompleted == \A r \in completed : verdict[r] = "completed"

\* OnTerminated reports the outcome that Redis recorded before (README: it is called
\* after the terminal state is written).
ReportAgrees == \A r \in Runs : terminated[r] # "none" => terminated[r] = verdict[r]

\* A worker that ran to its end has left its run terminal or found it gone, so that
\* the session is free for the next run.  DeleteSession is given time to finish what
\* made the worker stop.
NoZombie ==
    \A r \in Runs :
      /\ worker[r].pc = "gone"
      /\ \A c \in Calls : call[c].op = "delete" => call[c].pc \in {"ready", "done"}
      => meta[r] \notin ActiveStatus

\* Every run that ends is reported once its worker is done (README: OnTerminated is
\* called in all three terminal states).
EveryEndReported ==
    \A r \in Runs : worker[r].pc = "gone" /\ verdict[r] # "none" => terminated[r] # "none"

\* When DeleteSession has returned, the hash and the stream of every run of its instance
\* that it found are gone, whatever the worker it interrupted wrote in between.
DeletionComplete ==
    \A c \in Calls :
      /\ call[c].op = "delete" /\ call[c].pc = "done"
      => \A r \in Runs : MetaKey(r) \in call[c].found /\ worker[r].inst = call[c].inst
                          => meta[r] = "none" /\ events[r] = <<>>

\* A worker whose run was deleted before it ended calls no hook (README: deleting the
\* whole session triggers no hook).
DeletionIsSilent ==
    \A r \in Runs : meta[r] = "none" /\ verdict[r] = "none" => terminated[r] = "none"

-----------------------------------------------------------------------------
(* Liveness *)

\* Every call returns: no session lock is left behind and no two calls wait for each
\* other.
CallsReturn == \A c \in Calls : ~ In(c, "ready") ~> In(c, "done")

\* A session becomes free again: where a run timeout is configured, it ends a run whose
\* agent never answers.
SessionFreed ==
    \A r \in Runs :
      current[SessionOf[r]] = r /\ worker[r].inst \in Timed ~> current[SessionOf[r]] # r

\* A run that is cancelled or deleted on any instance stops its worker, without the help
\* of a timeout (README: the worker checks the status periodically, so that cancelling
\* and deleting on other instances reaches the local context).
CancelReachesWorker ==
    \A r \in Runs :
      worker[r].pc \in Running /\ meta[r] \in {"none", "cancelled"} ~> worker[r].pc = "gone"
=============================================================================
