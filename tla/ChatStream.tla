----------------------------- MODULE ChatStream -----------------------------
(***************************************************************************)
(* The Chat Completions adapter (openai/stream.go): the chunks             *)
(* WriteChatCompletionStreamTo writes for the events of a run, and, next   *)
(* to it, CollectChatCompletion reading the same events.  A text delta is  *)
(* named by its position among the events; the values of usage are left    *)
(* out.                                                                    *)
(***************************************************************************)
EXTENDS RunEvents

CONSTANT MaxEvents  \* bound on the events of the run

VARIABLES run,        \* where the run is
          read,       \* how many events Next returned
          state,      \* streamState
          wire,       \* the chunks written
          result,     \* the finish reason of StreamResult, or "none"
          collected,  \* the locals of CollectChatCompletion
          pc          \* "opening", "reading" or "returned"

vars == <<run, read, state, wire, result, collected, pc>>

NothingCollected == [content |-> <<>>, reason |-> "stop", failed |-> FALSE]

newStreamState == [includeUsage : BOOLEAN, runErr : {FALSE}]

Init == /\ run = NewRun /\ read = 0
        /\ state \in newStreamState
        /\ wire = <<>> /\ result = "none"
        /\ collected = NothingCollected
        /\ pc = "opening"

-----------------------------------------------------------------------------
(* Chunks *)

chunk(type, content, reason) == [type |-> type, content |-> content, reason |-> reason]

Role            == chunk("role", 0, "null")
Content(n)      == chunk("content", n, "null")
Reason(reason)  == chunk("reason", 0, reason)
UsageChunk      == chunk("usage", 0, "null")
ErrorData       == chunk("error", 0, "null")
Done            == chunk("[DONE]", 0, "null")

normalizeFinishReason(reason) ==
    CASE reason \in StepReasons -> "tool_calls"
      [] reason = "length" -> "length"
      [] OTHER -> "stop"

-----------------------------------------------------------------------------
(* Events *)

\* Mutant: the end of a tool step is shown to the client.
writeFinishStep(reason, st) ==
    IF st.runErr THEN <<>>
    ELSE <<Reason(normalizeFinishReason(reason))>>
           \o (IF st.includeUsage THEN <<UsageChunk>> ELSE <<>>)

\* Mutant: a failed run reports its usage, too.
writeFinishFailed(reason, st) ==
    IF normalizeFinishReason(reason) = "tool_calls" THEN <<>>
    ELSE (IF st.runErr THEN <<>> ELSE <<Reason(normalizeFinishReason(reason))>>)
           \o (IF st.includeUsage THEN <<UsageChunk>> ELSE <<>>)

writeFinish(reason, st) ==
    IF normalizeFinishReason(reason) = "tool_calls" \/ st.runErr THEN <<>>
    ELSE <<Reason(normalizeFinishReason(reason))>>
           \o (IF st.includeUsage THEN <<UsageChunk>> ELSE <<>>)

\* The chunks the n-th event is written as.
writeEvent(st, e, n) ==
    CASE e.type = "text" -> <<Content(n)>>
      [] e.type = "finish" -> writeFinish(e.reason, st)
      [] e.type = "error" -> <<ErrorData>>
      [] OTHER -> <<>>

Terminal(e) == e.type = "finish" /\ e.reason \notin StepReasons

-----------------------------------------------------------------------------
(* CollectChatCompletion *)

\* Mutant: reasoning is part of the content.
CollectEventReasoning(c, e, n) ==
    CASE e.type \in {"text", "reasoning"} -> [c EXCEPT !.content = Append(@, n)]
      [] Terminal(e) -> [c EXCEPT !.reason = normalizeFinishReason(e.reason)]
      [] e.type = "error" -> [c EXCEPT !.failed = TRUE]
      [] OTHER -> c

\* What the n-th event adds to the response.
CollectEvent(c, e, n) ==
    CASE e.type = "text" -> [c EXCEPT !.content = Append(@, n)]
      [] Terminal(e) -> [c EXCEPT !.reason = normalizeFinishReason(e.reason)]
      [] e.type = "error" -> [c EXCEPT !.failed = TRUE]
      [] OTHER -> c

-----------------------------------------------------------------------------
(* WriteChatCompletionStreamTo *)

\* Chunks are written one by one; one that cannot be written ends the call.
Write(chunks, next) ==
    \/ wire' = wire \o chunks /\ pc' = next
    \/ /\ \E n \in 0..(Len(chunks) - 1) : wire' = wire \o SubSeq(chunks, 1, n)
       /\ pc' = "returned"

Open == /\ pc = "opening"
        /\ Write(<<Role>>, "reading")
        /\ UNCHANGED <<run, read, state, result, collected>>

Event(e) ==
    LET n == read + 1
        last == Terminal(e)
    IN
    /\ pc = "reading" /\ n <= MaxEvents
    /\ run' = After(run, e) /\ read' = n
    /\ state' = [state EXCEPT !.runErr = @ \/ e.type = "error"]
    /\ result' = IF last THEN e.reason ELSE result
    /\ collected' = CollectEvent(collected, e, n)
    /\ Write(writeEvent(state, e, n) \o (IF last THEN <<Done>> ELSE <<>>),
             IF last THEN "returned" ELSE "reading")

\* Next returned no event: io.EOF, the client's cancellation, or another error.
StreamEnd(err) ==
    /\ pc = "reading"
    /\ Write(CASE err = "eof" -> <<Done>>
               [] err = "canceled" -> <<>>
               [] OTHER -> <<ErrorData, Done>>, "returned")
    /\ UNCHANGED <<run, read, state, result, collected>>

Next == \/ Open
        \/ \E e \in NextEvents(run) : Event(e)
        \/ \E err \in {"eof", "canceled", "other"} : StreamEnd(err)

Spec == Init /\ [][Next]_vars

-----------------------------------------------------------------------------
(* Properties *)

Of(type) == {k \in 1..Len(wire) : wire[k].type = type}

\* The choice of the stream is finished once: after the role chunk come content chunks,
\* then one finish_reason a client knows, never "tool_calls", which "would prematurely
\* terminate an OpenAI client choice", then at most usage and [DONE].  A stream with an
\* error payload has no finish_reason.
FinishedOnce ==
    /\ wire # <<>> => wire[1] = Role /\ Of("role") = {1}
    /\ Cardinality(Of("reason")) <= 1
    /\ \A k \in Of("reason") : /\ wire[k].reason \in {"stop", "length"}
                               /\ \A j \in (k + 1)..Len(wire) : j \in Of("usage") \cup Of("[DONE]")
                               /\ Of("error") = {}
    /\ \A k \in Of("[DONE]") : k = Len(wire) /\ pc = "returned"

\* A client that asked for usage gets it in the chunk before [DONE] when its choice was
\* finished, and a client that did not, or whose run failed, gets none.
UsageOnRequest ==
    /\ \A k \in Of("usage") : /\ state.includeUsage /\ k - 1 \in Of("reason")
    /\ \A k \in Of("[DONE]") :
         Of("reason") # {} /\ state.includeUsage => k - 1 \in Of("usage")

\* The response that is collected from the events of a run that ended says what its stream
\* said: the same content, the same finish_reason, and an error in the same runs.
CollectAgrees ==
    (Of("[DONE]") # {} /\ result # "none") =>
      /\ collected.failed = (Of("error") # {})
      /\ ~ collected.failed =>
           /\ \E k \in Of("reason") : wire[k].reason = collected.reason
           /\ Len(collected.content) = Cardinality(Of("content"))
           /\ \A k \in Of("content") :
                wire[k].content = collected.content[Cardinality({j \in Of("content") : j <= k})]
=============================================================================
