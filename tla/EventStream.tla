----------------------------- MODULE EventStream -----------------------------
(***************************************************************************)
(* Subscriptions to the events of a run: SubscribeEvents and the Next and  *)
(* Close of redisEventStream (service.go, event_stream.go), while the runs *)
(* they read are written, ended, deleted and expire.                       *)
(*                                                                         *)
(* Redis numbers the entries of a stream by time, so the ids of one run    *)
(* only grow, also when its stream is removed and started again.  Here the *)
(* id of an entry is its position among all entries the run ever had.      *)
(***************************************************************************)
EXTENDS RunStore

CONSTANTS Subscribers,
          MaxNext,         \* bound on the calls of Next by one subscriber
          MaxEvents        \* bound on the entries a run has over its whole life

ASSUME StreamAssumption == MaxNext \in Nat /\ MaxEvents \in Nat

VARIABLES stream,     \* [Subscribers -> the state of redisEventStream and its caller]
          dropped,    \* [Runs -> entries removed with their stream so far]
          delivered,  \* [Subscribers -> the entries Next returned, with their ids]
          seen        \* history: [Subscribers -> the last entry there was at its last XREAD]

history == <<delivered, seen>>
streamVars == <<stream, history>>
vars == <<storeVars, streamVars, dropped>>

\* Results of a call of Next that returns no event.
Results == {"none", "eof", "canceled", "deadline"}

\* A redisEventStream with its caller's context and the call of Next it is in.
Subscription ==
    [pc : {"new", "idle", "check", "read", "status"}, run : Runs \cup {NoRun},
     lastID : Nat, after : Nat, closed : BOOLEAN, ctx : {"live", "canceled", "deadline"},
     result : Results, calls : Nat]

TypeOK ==
    /\ StoreTypeOK
    /\ stream \in [Subscribers -> Subscription]
    /\ \A u \in Subscribers : stream[u].calls <= MaxNext
    /\ delivered \in [Subscribers -> Seq([id : Nat, event : Events])]
    /\ dropped \in [Runs -> Nat] /\ seen \in [Subscribers -> Nat]

Init ==
    /\ StoreInit
    /\ dropped = [r \in Runs |-> 0]
    /\ stream = [u \in Subscribers |->
         [pc |-> "new", run |-> NoRun, lastID |-> 0, after |-> 0, closed |-> FALSE,
          ctx |-> "live", result |-> "none", calls |-> 0]]
    /\ delivered = [u \in Subscribers |-> <<>>] /\ seen = [u \in Subscribers |-> 0]

-----------------------------------------------------------------------------
(* Helpers *)

LastOf(r) == dropped[r] + Len(events[r])

\* What readCtx.Err reports: the caller's context, or Close, which cancels it too.
Ended(u) == stream[u].ctx # "live" \/ stream[u].closed
CtxErr(u) == IF stream[u].ctx # "live" THEN stream[u].ctx ELSE "canceled"

Returns(u, result) == stream' = [stream EXCEPT ![u].pc = "idle", ![u].result = result]

-----------------------------------------------------------------------------
(* SubscribeEvents and Next *)

\* The cursor is empty or an id the client saw in an earlier subscription.
Subscribe(u) ==
    /\ stream[u].pc = "new"
    /\ \E r \in Runs : \E after \in 0..LastOf(r) :
         /\ meta[r] # "none"
         /\ stream' = [stream EXCEPT ![u].pc = "idle", ![u].run = r,
                         ![u].lastID = after, ![u].after = after]
    /\ UNCHANGED history

\* A call of Next, under a context of its own.
NextCall(u) ==
    /\ stream[u].pc = "idle"
    /\ stream[u].calls < MaxNext
    /\ stream' = [stream EXCEPT ![u].calls = @ + 1, ![u].ctx = "live",
                    ![u].pc = IF stream[u].closed THEN "idle" ELSE "check",
                    ![u].result = IF stream[u].closed THEN "eof" ELSE "none"]
    /\ UNCHANGED history

\* Mutant: the status is read before the events.
CheckStatus(u) ==
    /\ stream[u].pc = "check"
    /\ IF Ended(u) THEN Returns(u, IF stream[u].closed THEN "eof" ELSE CtxErr(u))
       ELSE IF meta[stream[u].run] \in Terminal \cup {"none"} THEN Returns(u, "eof")
       ELSE stream' = [stream EXCEPT ![u].pc = "read"]
    /\ UNCHANGED history

Check(u) ==
    /\ stream[u].pc = "check"
    /\ IF ~ Ended(u) THEN stream' = [stream EXCEPT ![u].pc = "read"]
       ELSE Returns(u, IF stream[u].closed THEN "eof" ELSE CtxErr(u))
    /\ UNCHANGED history

\* A redis call under a context that has ended is not sent.
CallEnded(u) ==
    /\ stream[u].pc \in {"read", "status"}
    /\ Ended(u)
    /\ Returns(u, IF stream[u].closed /\ CtxErr(u) = "canceled" THEN "eof" ELSE CtxErr(u))
    /\ UNCHANGED history

\* Mutant: the cursor jumps to the end of the stream.
ReadLast(u) ==
    LET r == stream[u].run
        n == Len(events[r])
    IN
    /\ stream[u].pc = "read"
    /\ seen' = [seen EXCEPT ![u] = LastOf(r)]
    /\ IF LastOf(r) > stream[u].lastID /\ n > 0
         THEN /\ stream' = [stream EXCEPT ![u].pc = "idle", ![u].lastID = LastOf(r)]
              /\ delivered' = [delivered EXCEPT ![u] =
                                 Append(@, [id |-> LastOf(r), event |-> events[r][n]])]
         ELSE /\ stream' = [stream EXCEPT ![u].pc = "status"]
              /\ UNCHANGED delivered

\* XREAD COUNT 1 BLOCK: the first entry after the cursor, or nothing after 250 ms.
Read(u) ==
    LET r == stream[u].run
        i == IF stream[u].lastID < dropped[r] THEN 1 ELSE stream[u].lastID - dropped[r] + 1
    IN
    /\ stream[u].pc = "read"
    /\ seen' = [seen EXCEPT ![u] = LastOf(r)]
    /\ IF i <= Len(events[r])
         THEN /\ stream' = [stream EXCEPT ![u].pc = "idle", ![u].lastID = dropped[r] + i]
              /\ delivered' = [delivered EXCEPT ![u] =
                                 Append(@, [id |-> dropped[r] + i, event |-> events[r][i]])]
         ELSE /\ stream' = [stream EXCEPT ![u].pc = "status"]
              /\ UNCHANGED delivered

\* Mutant: only a run that is gone ends the stream.
StatusGone(u) ==
    /\ stream[u].pc = "status"
    /\ IF meta[stream[u].run] = "none" THEN Returns(u, "eof")
       ELSE stream' = [stream EXCEPT ![u].pc = "check"]
    /\ UNCHANGED history

\* getRun: the end of the run is the end of the stream.
Status(u) ==
    /\ stream[u].pc = "status"
    /\ IF meta[stream[u].run] \in Terminal \cup {"none"} THEN Returns(u, "eof")
       ELSE stream' = [stream EXCEPT ![u].pc = "check"]
    /\ UNCHANGED history

-----------------------------------------------------------------------------
(* Beside a call *)

Close(u) ==
    /\ stream[u].pc # "new" /\ ~ stream[u].closed
    /\ stream' = [stream EXCEPT ![u].closed = TRUE]
    /\ UNCHANGED history

CtxEnd(u) ==
    /\ stream[u].pc \in {"check", "read", "status"}
    /\ stream[u].ctx = "live" /\ ~ stream[u].closed
    /\ \E err \in {"canceled", "deadline"} : stream' = [stream EXCEPT ![u].ctx = err]
    /\ UNCHANGED history

-----------------------------------------------------------------------------

InCall(u) == stream[u].pc \in {"check", "read", "status"}

NextStep(u) == Check(u) \/ CallEnded(u) \/ Read(u) \/ Status(u)

SubscriberStep(u) ==
    Subscribe(u) \/ NextCall(u) \/ NextStep(u) \/ Close(u) \/ CtxEnd(u)

\* Entries that were removed with their stream count for MaxEvents, too.
Next == \/ \E u \in Subscribers : SubscriberStep(u) /\ UNCHANGED <<storeVars, dropped>>
        \/ /\ StoreNext
           /\ \A r \in Runs : LastOf(r) >= MaxEvents => Len(events'[r]) <= Len(events[r])
           /\ dropped' = [r \in Runs |-> IF events'[r] = <<>> THEN LastOf(r) ELSE dropped[r]]
           /\ UNCHANGED streamVars

Spec == Init /\ [][Next]_vars

\* A call of Next is scheduled; Redis answers.
FairSpec == Spec /\ \A u \in Subscribers :
                      WF_vars(NextStep(u) /\ UNCHANGED <<storeVars, dropped>>)

-----------------------------------------------------------------------------
(* Properties *)

\* Over any number of calls of Next, some of them cancelled half-way, a subscriber
\* receives the entries after its cursor in order, none twice, and misses one only when
\* it was removed with its stream.
NoGap ==
    \A u \in Subscribers :
      LET d == delivered[u]
          ids == {d[i].id : i \in 1..Len(d)}
      IN
      /\ \A i, j \in 1..Len(d) : i < j => d[i].id < d[j].id
      /\ \A id \in (stream[u].after + 1)..stream[u].lastID :
           id \in ids \/ id <= dropped[stream[u].run]

\* The finish a subscriber receives is the last thing it receives, and it names the status
\* that GetRunByID finds from then on.
FinishIsFinal ==
    \A u \in Subscribers :
      \A i \in 1..Len(delivered[u]) :
        LET e == delivered[u][i].event IN
        e \in Seals => /\ i = Len(delivered[u])
                       /\ meta[stream[u].run] \in {"none", StatusOf(e.reason)}

\* io.EOF on a stream that nobody closed comes after all that was there when the subscriber
\* last read, also by an earlier call: only what is stored between XREAD and the reading of
\* the status can be missed.
EofAfterRead ==
    \A u \in Subscribers : stream[u].result = "eof" /\ ~ stream[u].closed =>
      \A id \in (stream[u].lastID + 1)..seen[u] : id <= dropped[stream[u].run]

\* io.EOF on a stream that nobody closed means that everything was read: a run that ended
\* has no entry left that its subscriber was not given ("io.EOF: normal completed stream").
EofMeansDrained ==
    \A u \in Subscribers :
      /\ stream[u].result = "eof" /\ ~ stream[u].closed
      /\ meta[stream[u].run] \in Terminal
      => stream[u].lastID >= LastOf(stream[u].run)

\* A call of Next does not outlive its run or its stream: it returns after the run has
\* ended or was deleted, and after Close.
NextReturns ==
    \A u \in Subscribers :
      InCall(u) /\ (meta[stream[u].run] \in Terminal \cup {"none"} \/ Ended(u)) ~> ~ InCall(u)

\* A subscription keeps the promises of RunReaders: what it found out shows in the place it
\* has in Next (after an XREAD that found nothing) and in the io.EOF it returned last.
Found(u) ==
    IF stream[u].result = "eof" /\ ~ stream[u].closed THEN "end"
    ELSE IF stream[u].pc = "status" THEN "dry" ELSE "nothing"

Promise == INSTANCE RunReaders
             WITH Outcome <- [f \in Seals |-> StatusOf(f.reason)],
                  status <- meta, log <- events, born <- issued, lost <- dropped,
                  Readers <- Subscribers, Nobody <- NoRun, given <- delivered,
                  reader <- [u \in Subscribers |->
                               [run |-> stream[u].run, place |-> stream[u].lastID,
                                found |-> Found(u)]]

\* Beside any use of the store, calls of Next that are cancelled, time out, are closed or
\* repeated give a subscriber what a reader of the run's log is promised: every entry that
\* is still there, in order, and io.EOF only from a run that is over, when a read in the
\* same call has found nothing more.
ReadersSpec == Promise!ReadersSpec
=============================================================================
