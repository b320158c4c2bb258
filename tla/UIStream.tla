------------------------------ MODULE UIStream ------------------------------
(***************************************************************************)
(* WriteEventStreamTo of the AI SDK adapter (aisdk/stream.go): the events  *)
(* of a run become the parts of a UI message stream, for a client that may *)
(* come late, that may disconnect, and whose event stream may end before   *)
(* the run's finish was read.                                              *)
(***************************************************************************)
EXTENDS RunEvents, SequencesExt

CONSTANT MaxEvents  \* bound on the events of the run

VARIABLES run,     \* where the run is
          count,   \* its events so far
          missed,  \* those before the cursor of the event stream
          state,   \* streamState
          wire,    \* the parts written
          result,  \* the finish reason of StreamResult, or "none"
          pc       \* "before" the subscription, "reading" or "returned"

vars == <<run, count, missed, state, wire, result, pc>>

NoTool == [started |-> FALSE, available |-> FALSE, completed |-> FALSE, input |-> 0]

newStreamState ==
    [started |-> FALSE, pendingStepFinish |-> FALSE, runErr |-> FALSE,
     toolCalls |-> [i \in ToolIDs |-> NoTool], toolOrder |-> <<>>]

Init == /\ run = NewRun /\ count = 0 /\ missed = 0
        /\ state = newStreamState /\ wire = <<>> /\ result = "none"
        /\ pc = "before"

-----------------------------------------------------------------------------
(* Parts *)

\* input counts the argument fragments of a call.
Part(type, id, input) == [type |-> type, id |-> id, input |-> input]
Plain(type) == Part(type, "", 0)

Done == <<Plain("[DONE]")>>

\* What a handler leaves behind: the state, the parts it writes, whether it is the last.
Handled(st, parts, done) == [st |-> st, parts |-> parts, done |-> done]

-----------------------------------------------------------------------------
(* Tools *)

Ordered(st, i) == IF Contains(st.toolOrder, i) THEN st.toolOrder ELSE Append(st.toolOrder, i)

writeToolCall(st, e) ==
    LET args == e.type = "tool_args" IN
    Handled([st EXCEPT !.toolOrder = Ordered(st, e.id), !.toolCalls[e.id].started = TRUE,
                       !.toolCalls[e.id].input = @ + (IF args THEN 1 ELSE 0)],
            (IF st.toolCalls[e.id].started THEN <<>> ELSE <<Part("tool-input-start", e.id, 0)>>)
              \o (IF args THEN <<Part("tool-input-delta", e.id, 0)>> ELSE <<>>),
            FALSE)

Available(st, i) == Part("tool-input-available", i, st.toolCalls[i].input)

\* The numbers in S, in ascending order.
Ascending(S) ==
    CHOOSE f \in [1..Cardinality(S) -> S] : \A m, n \in 1..Cardinality(S) : m < n => f[m] < f[n]

\* The places in toolOrder whose tools were started but not made available.
Pending(st) ==
    {k \in 1..Len(st.toolOrder) :
       LET tool == st.toolCalls[st.toolOrder[k]] IN tool.started /\ ~ tool.available}

writePendingToolsAvailable(st) ==
    LET pending == Pending(st)
        ids == {st.toolOrder[k] : k \in pending}
    IN Handled([st EXCEPT !.toolCalls = [i \in ToolIDs |->
                  IF i \in ids THEN [@[i] EXCEPT !.available = TRUE] ELSE @[i]]],
               [n \in 1..Cardinality(pending) |->
                  Available(st, st.toolOrder[Ascending(pending)[n]])], FALSE)

\* Mutant: one result is enough.
allToolOutputsCompletedAny(st) == \E i \in ToSet(st.toolOrder) : st.toolCalls[i].completed

allToolOutputsCompleted(st) ==
    /\ st.toolOrder # <<>>
    /\ \A i \in ToSet(st.toolOrder) : st.toolCalls[i].started => st.toolCalls[i].completed

\* Mutant: the tools of the last step are kept.
beginNextStepKept(st) == [st EXCEPT !.pendingStepFinish = FALSE]

beginNextStep(st) ==
    [st EXCEPT !.pendingStepFinish = FALSE, !.toolOrder = <<>>,
               !.toolCalls = [i \in ToolIDs |-> NoTool]]

writeToolResult(st, e) ==
    LET known == [st EXCEPT !.toolOrder = Ordered(st, e.id),
                            !.toolCalls[e.id].available = TRUE,
                            !.toolCalls[e.id].completed = TRUE]
        parts == (IF st.toolCalls[e.id].available THEN <<>> ELSE <<Available(st, e.id)>>)
                   \o <<Part("tool-output-available", e.id, 0)>>
    IN IF st.pendingStepFinish /\ allToolOutputsCompleted(known)
         THEN Handled(beginNextStep(known),
                      parts \o <<Plain("finish-step"), Plain("start-step")>>, FALSE)
         ELSE Handled(known, parts, FALSE)

-----------------------------------------------------------------------------
(* Events *)

\* Mutant: the last step is left open.
writeFinishOpen(st, reason) ==
    IF reason \in StepReasons THEN Handled(st, <<>>, FALSE)
    ELSE Handled(st, <<Plain("finish")>>, TRUE)

writeFinish(st, reason) ==
    CASE reason = "cancelled" -> Handled(st, <<Plain("abort")>>, TRUE)
      [] reason \in StepReasons ->
           LET h == writePendingToolsAvailable(st) IN
           [h EXCEPT !.st.pendingStepFinish = TRUE]
      [] OTHER -> Handled(st, <<Plain("finish-step"), Plain("message-metadata"),
                                Plain("finish")>>, TRUE)

writeEvent(st, e) ==
    CASE e.type = "run_created" -> Handled(st, <<>>, FALSE)
      [] e.type \in TextKinds -> Handled(st, <<Plain(e.type)>>, FALSE)
      [] e.type \in {"tool_call", "tool_args"} -> writeToolCall(st, e)
      [] e.type = "tool_result" -> writeToolResult(st, e)
      [] e.type = "error" -> Handled([st EXCEPT !.runErr = TRUE], <<Plain("error")>>, FALSE)
      [] e.type = "finish" -> writeFinish(st, e.reason)

Opening(st) == IF st.started THEN <<>> ELSE <<Plain("start"), Plain("start-step")>>

-----------------------------------------------------------------------------
(* WriteEventStreamTo *)

Happens(e) == /\ count < MaxEvents
              /\ run' = After(run, e) /\ count' = count + 1

\* An event before the cursor.
Missed(e) == /\ pc = "before"
             /\ Happens(e)
             /\ missed' = missed + 1
             /\ UNCHANGED <<state, wire, result, pc>>

Subscribe == /\ pc = "before"
             /\ pc' = "reading"
             /\ UNCHANGED <<run, count, missed, state, wire, result>>

\* Next returned an event; a part that cannot be written ends the call.
Event(e) ==
    LET h == writeEvent([state EXCEPT !.started = TRUE], e)
        parts == Opening(state) \o h.parts \o (IF h.done THEN Done ELSE <<>>)
    IN
    /\ pc = "reading"
    /\ Happens(e) /\ UNCHANGED missed
    /\ result' = IF e.type = "finish" /\ e.reason \notin StepReasons THEN e.reason ELSE result
    /\ \/ /\ wire' = wire \o parts /\ state' = h.st
          /\ pc' = IF h.done THEN "returned" ELSE "reading"
       \/ /\ \E n \in 0..(Len(parts) - 1) : wire' = wire \o SubSeq(parts, 1, n)
          /\ pc' = "returned" /\ UNCHANGED state

\* Mutant: an error of the event stream is written and the loop goes on.
StreamEndStays(err) ==
    /\ pc = "reading"
    /\ wire' = wire \o (IF err = "canceled" THEN <<>> ELSE Done)
    /\ pc' = (IF err = "other" THEN "reading" ELSE "returned")
    /\ UNCHANGED <<run, count, missed, state, result>>

\* Next returned no event: io.EOF, the client's cancellation, or another error.
StreamEnd(err) ==
    /\ pc = "reading"
    /\ wire' = wire \o (CASE err = "eof" -> Done
                          [] err = "canceled" -> <<>>
                          [] OTHER -> <<Plain("error")>> \o Done)
    /\ pc' = "returned"
    /\ UNCHANGED <<run, count, missed, state, result>>

Next == \/ Subscribe
        \/ \E e \in NextEvents(run) : Missed(e) \/ Event(e)
        \/ \E err \in {"eof", "canceled", "other"} : StreamEnd(err)

Spec == Init /\ [][Next]_vars

-----------------------------------------------------------------------------
(* Properties *)

Position(type) == {k \in 1..Len(wire) : wire[k].type = type}

\* Steps started and finished by the first k parts.
Opened(k) == Cardinality({j \in 1..k : wire[j].type = "start-step"})
Closed(k) == Cardinality({j \in 1..k : wire[j].type = "finish-step"})

\* Steps are bracketed: start-step and finish-step alternate, tools and text are written
\* inside a step, and the message finishes outside of one, also for a client that came
\* late.
StepsBracketed ==
    \A k \in 1..Len(wire) :
      /\ Opened(k) \in {Closed(k), Closed(k) + 1}
      /\ wire[k].type \in {"start", "message-metadata", "finish"} => Opened(k) = Closed(k)
      /\ wire[k].type \in TextKinds \cup {"tool-input-start", "tool-input-delta",
                             "tool-input-available", "tool-output-available"}
           => Opened(k) = Closed(k) + 1

Steps == Opened(Len(wire))

\* The positions of the parts of the given type that are about a tool call in the k-th step.
InStep(k, i, type) ==
    {j \in Position(type) : Opened(j) = k /\ wire[j].id = i}

\* Within one step a tool call is started once, made available once with all of its
\* argument fragments, and given its output once, in this order.  An id that is used again
\* in a later step starts afresh ("response-scoped tool call IDs can be reused").  A
\* client that comes late may miss the end of a step and is left out.
ToolPartsInOrder ==
    missed = 0 => \A k \in 1..Steps, i \in ToolIDs :
      LET Of(type) == InStep(k, i, type) IN
      /\ \A type \in {"tool-input-start", "tool-input-available", "tool-output-available"} :
           Cardinality(Of(type)) <= 1
      /\ \A a \in Of("tool-input-available") :
           /\ \A j \in Of("tool-input-start") \cup Of("tool-input-delta") : j < a
           /\ wire[a].input = Cardinality(Of("tool-input-delta"))
           /\ \A o \in Of("tool-output-available") : a < o
      /\ Of("tool-output-available") # {} => Of("tool-input-available") # {}

\* "A tool step remains open until all tool results for that step arrive": a finish-step
\* that is followed by another step comes after the output of every call it started.
StepWaitsForTools ==
    \A k \in 1..(Steps - 1), i \in ToolIDs :
      InStep(k, i, "tool-input-start") # {} => InStep(k, i, "tool-output-available") # {}

\* The wire ends once: nothing follows [DONE], and when finish or abort was written the
\* caller is given the finish reason of the run to store with its output.
EndsOnce ==
    /\ \A k \in Position("[DONE]") : k = Len(wire) /\ pc = "returned"
    /\ \A k \in Position("finish") : result \notin {"none", "cancelled"}
    /\ \A k \in Position("abort") : result = "cancelled"
=============================================================================
