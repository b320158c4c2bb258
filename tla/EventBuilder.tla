---------------------------- MODULE EventBuilder ----------------------------
(***************************************************************************)
(* runEventBuilder (runner.go): the messages of an agent become events of  *)
(* the run's stream and the output messages of its finish, with the three  *)
(* ends executeRun can give it (service.go).                               *)
(*                                                                         *)
(* One handler call appends several events, and each append may fail: the  *)
(* run's context has ended, or somebody else has ended the run.  A handler *)
(* is an operator on a record w, the builder (w.b) with the stream (w.log) *)
(* and the error that stopped it (w.err); after an error the rest of the   *)
(* handler is skipped.  An action chooses after how many appends, w.room,  *)
(* the next one fails, and why, w.cause.                                   *)
(***************************************************************************)
EXTENDS ThinkSplitter

CONSTANTS Messages,      \* what agents may yield
          MaxCalls,      \* bound on the tool calls of one step
          Unfinished,    \* whether a model may call tools without a finish
          MaxMessages,   \* bound on the messages of a run
          MaxRoom        \* bound on the appends of one handler call

Kinds   == {"text", "reasoning"}
Indexes == 1..MaxCalls
Texts   == Seq(Symbols)

\* Pieces of a tool call, and messages (eino's schema.Message).
Calls == [index : Indexes, id : STRING, args : Texts]

ASSUME MessageAssumption ==
    /\ MaxCalls \in Nat /\ MaxRoom \in Nat
    /\ Messages \subseteq [role : {"assistant", "tool"}, name : STRING, content : Texts,
                          reasoning : Texts, calls : Seq(Calls), toolCallID : STRING, usage : Nat,
                          finish : STRING]

VARIABLES builder,     \* the fields of runEventBuilder
          log,         \* the events the builder added to the run
          pc,          \* "streaming", how executeRun ends the run, or "done"
          sealed,      \* an append was turned away: the run has ended
          yielded,     \* messages so far
          spent,       \* history: the usage each model call reported last
          said,        \* history: the content that models and tools yielded
          late         \* history: usage came after the finish of its call

history == <<yielded, spent, said, late>>
vars == <<builder, log, pc, sealed, history>>

-----------------------------------------------------------------------------
(* Events *)

Event(type, block, data) == [type |-> type, block |-> block, data |-> data]
FinishEvent(reason, usage, output) ==
    [type |-> "finish", reason |-> reason, usage |-> usage, output |-> output]

Failed(w) == w.err # ""

\* service.appendEvent or finishRun.
Emit(w, e) ==
    IF Failed(w) THEN w
    ELSE IF w.room > 0 THEN [w EXCEPT !.room = @ - 1, !.log = Append(@, e)]
    ELSE [w EXCEPT !.err = w.cause]

-----------------------------------------------------------------------------
(* Text and reasoning *)

Block(w, kind) == <<kind, w.b.stepIndex>>

\* writeText and writeReasoning: the first delta of a block opens it.
WriteBlock(w, kind, delta) ==
    LET opened == Emit(w, Event("start", Block(w, kind), <<>>))
        ready == IF w.b.open[kind] THEN w
                 ELSE IF Failed(opened) THEN opened
                 ELSE [opened EXCEPT !.b.open[kind] = TRUE]
    IN IF Failed(w) \/ delta = <<>> THEN w
       ELSE Emit(ready, Event("delta", Block(w, kind), delta))

\* The parts one after the other.
WritingParts(w, parts) ==
    LET written[n \in 0..Len(parts)] ==
          IF n = 0 THEN w
          ELSE WriteBlock(written[n - 1], IF parts[n].reasoning THEN "reasoning" ELSE "text",
                          parts[n].text)
    IN written

WriteParts(w, parts) == WritingParts(w, parts)[Len(parts)]

writeContent(w, content) ==
    LET d == feed(w.b.think, content) IN
    IF Failed(w) \/ content = <<>> THEN w
    ELSE WriteParts([w EXCEPT !.b.think = d.split], d.parts)

\* Mutant: the block is not marked as closed.
EndBlockAgain(w, kind) ==
    IF w.b.open[kind] THEN Emit(w, Event("end", Block(w, kind), <<>>)) ELSE w

EndBlock(w, kind) ==
    LET ended == Emit(w, Event("end", Block(w, kind), <<>>)) IN
    IF Failed(w) \/ ~ w.b.open[kind] THEN w
    ELSE IF Failed(ended) THEN ended
    ELSE [ended EXCEPT !.b.open[kind] = FALSE]

-----------------------------------------------------------------------------
(* Tool calls *)

NoCall == [id |-> "", pending |-> <<>>, started |-> FALSE]

\* Mutant: arguments that were sent stay pending.
flushToolCallAgain(w, i) ==
    LET st == w.b.toolCalls[i] IN
    IF Failed(w) \/ st.id = "" THEN w
    ELSE Emit(IF st.started THEN w
              ELSE [Emit(w, Event("tool_call", <<st.id, i>>, <<>>))
                      EXCEPT !.b.toolCalls[i].started = TRUE],
              Event("tool_call", <<st.id, i>>, st.pending))

\* A call is announced once its id is known, then its arguments follow as they come.
flushToolCall(w, i) ==
    LET st == w.b.toolCalls[i]
        announced == IF st.started THEN w
                     ELSE Emit(w, Event("tool_call", <<st.id, i>>, <<>>))
        ready == IF Failed(announced) THEN announced
                 ELSE [announced EXCEPT !.b.toolCalls[i].started = TRUE]
        sent == [ready EXCEPT !.b.toolCalls[i].pending = <<>>]
    IN IF Failed(w) \/ (st.pending = <<>> /\ (st.started \/ st.id = "")) THEN w
       ELSE IF st.id = "" THEN [w EXCEPT !.err = "toolcall"]
       ELSE IF Failed(ready) \/ st.pending = <<>> THEN ready
       ELSE Emit(sent, Event("tool_call", <<st.id, i>>, st.pending))

writeToolCall(w, call) ==
    LET st == w.b.toolCalls[call.index]
        known == [id |-> IF call.id # "" THEN call.id ELSE st.id,
                  pending |-> st.pending \o call.args, started |-> st.started]
    IN IF Failed(w) THEN w
       ELSE flushToolCall([w EXCEPT !.b.toolCalls[call.index] = known], call.index)

WritingCalls(w, calls) ==
    LET written[n \in 0..Len(calls)] ==
          IF n = 0 THEN w ELSE writeToolCall(written[n - 1], calls[n])
    IN written

WriteCalls(w, calls) == WritingCalls(w, calls)[Len(calls)]

\* In the order of their indexes.
FlushingCalls(w) ==
    LET flushed[i \in 0..MaxCalls] == IF i = 0 THEN w ELSE flushToolCall(flushed[i - 1], i)
    IN flushed

flushToolCalls(w) == FlushingCalls(w)[MaxCalls]

-----------------------------------------------------------------------------
(* The end of a step *)

\* Mutant: what waits in the splitter is forgotten.
closeOpenBlocksUnflushed(w) == EndBlock(EndBlock(flushToolCalls(w), "reasoning"), "text")

\* Mutant: only the block that was open last is closed.
closeOpenBlocksText(w) ==
    LET calls == flushToolCalls(w)
        d == flush(calls.b.think)
    IN EndBlock(IF Failed(calls) THEN calls
                ELSE WriteParts([calls EXCEPT !.b.think = d.split], d.parts), "text")

closeOpenBlocks(w) ==
    LET calls == flushToolCalls(w)
        d == flush(calls.b.think)
        rest == IF Failed(calls) THEN calls
                ELSE WriteParts([calls EXCEPT !.b.think = d.split], d.parts)
    IN EndBlock(EndBlock(rest, "reasoning"), "text")

\* What messages contain, one after the other.
Joining(texts) ==
    LET joined[n \in 0..Len(texts)] == IF n = 0 THEN <<>> ELSE joined[n - 1] \o texts[n]
    IN joined

Joined(texts) == Joining(texts)[Len(texts)]

Contents(messages) == Joined([k \in 1..Len(messages) |-> messages[k].content])
Reasonings(messages) == Joined([k \in 1..Len(messages) |-> messages[k].reasoning])
CallsOf(messages)  == Joined([k \in 1..Len(messages) |-> messages[k].calls])

Agree(a, b) == a = b \/ "" \in {a, b}

\* What schema.ConcatMessages asks of the chunks of one step: names, and the ids given for
\* one call, do not contradict each other.  A name stands for any such field.
Concatenates(chunks) ==
    LET calls == CallsOf(chunks) IN
    /\ \A i, j \in 1..Len(chunks) : Agree(chunks[i].name, chunks[j].name)
    /\ \A i, j \in 1..Len(calls) :
         calls[i].index = calls[j].index => Agree(calls[i].id, calls[j].id)

ConcatMessages(chunks) ==
    [role |-> "assistant", content |-> Contents(chunks), reasoning |-> Reasonings(chunks),
     calls |-> CallsOf(chunks)]

\* Mutant: the chunks are kept.
commitAssistantMessageKept(w) ==
    IF Failed(w) \/ w.b.assistantChunks = <<>> THEN w
    ELSE IF ~ Concatenates(w.b.assistantChunks) THEN [w EXCEPT !.err = "concat"]
    ELSE [w EXCEPT !.b.outputMessages = Append(@, ConcatMessages(w.b.assistantChunks))]

\* A step whose chunks contradict each other stays where it is.
commitAssistantMessage(w) ==
    IF Failed(w) \/ w.b.assistantChunks = <<>> THEN w
    ELSE IF ~ Concatenates(w.b.assistantChunks) THEN [w EXCEPT !.err = "concat"]
    ELSE [w EXCEPT !.b.outputMessages = Append(@, ConcatMessages(w.b.assistantChunks)),
                   !.b.assistantChunks = <<>>]

\* Mutant: the usage of the step is kept for the next one too.
AddUsageTwice(w) == [w EXCEPT !.b.usage = @ + w.b.stepUsage]

\* 0 stands for no usage.
AddUsage(w) == [w EXCEPT !.b.usage = @ + w.b.stepUsage, !.b.stepUsage = 0]

NextStep(b, toolCalls) ==
    [stepIndex |-> b.stepIndex + 1, open |-> [kind \in Kinds |-> FALSE],
     think |-> newThinkSplitter, toolCalls |-> toolCalls,
     finished |-> b.finished, usage |-> b.usage, stepUsage |-> 0,
     assistantChunks |-> <<>>, outputMessages |-> b.outputMessages]

\* Mutant: the tool calls of the step are kept.
advanceStepKept(w) == [w EXCEPT !.b = NextStep(w.b, w.b.toolCalls)]

advanceStep(w) == [w EXCEPT !.b = NextStep(w.b, [i \in Indexes |-> NoCall])]

\* Both callers pass the builder's own stepUsage, so that the usage argument changes
\* nothing.
writeFinish(w, reason) ==
    LET ready == commitAssistantMessage(closeOpenBlocks(w))
        added == AddUsage(ready)
        step == reason = "tool_calls"
        sent == Emit(added, FinishEvent(reason, added.b.usage,
                              IF step THEN <<>> ELSE added.b.outputMessages))
    IN IF Failed(ready) THEN ready
       ELSE IF Failed(sent) THEN sent
       ELSE IF step THEN advanceStep(sent)
       ELSE [sent EXCEPT !.b.finished = TRUE]

-----------------------------------------------------------------------------
(* A message *)

Collected(w, m) ==
    IF m.role # "tool" /\ (m.content # <<>> \/ m.reasoning # <<>> \/ m.calls # <<>>)
      THEN [w EXCEPT !.b.assistantChunks = Append(@, m)] ELSE w

\* The result is part of the output before it is an event.
WriteToolResult(w, m) ==
    IF Failed(w) \/ m.role # "tool" THEN w
    ELSE Emit([w EXCEPT !.b.outputMessages = Append(@,
                          [role |-> "tool", content |-> m.content,
                           reasoning |-> <<>>, calls |-> m.calls])],
              Event("tool_result", <<m.toolCallID>>, m.content))

writeMessage(w, m) ==
    LET thought == WriteBlock(Collected(w, m), "reasoning", m.reasoning)
        spoken == IF m.role = "tool" THEN thought ELSE writeContent(thought, m.content)
        called == WriteCalls(spoken, m.calls)
        done == WriteToolResult(called, m)
        metered == IF m.usage = 0 THEN done ELSE [done EXCEPT !.b.stepUsage = m.usage]
    IN IF Failed(done) THEN done
       ELSE IF m.finish = "" THEN metered
       ELSE writeFinish(metered, m.finish)

-----------------------------------------------------------------------------
(* executeRun *)

Init ==
    /\ builder = [stepIndex |-> 0, open |-> [kind \in Kinds |-> FALSE],
                  think |-> newThinkSplitter, toolCalls |-> [i \in Indexes |-> NoCall],
                  finished |-> FALSE, usage |-> 0, stepUsage |-> 0,
                  assistantChunks |-> <<>>, outputMessages |-> <<>>]
    /\ log = <<>> /\ pc = "streaming" /\ sealed = FALSE
    /\ yielded = 0 /\ spent = <<0>> /\ said = <<>> /\ late = FALSE

\* Appends of a run that was ended, by itself or by somebody else, fail.
Work(room, cause) ==
    [b |-> builder, log |-> log, err |-> "", cause |-> cause,
     room |-> IF sealed \/ builder.finished THEN 0 ELSE room]

\* The conditions a handler may meet under the run's context, or under persistCtx,
\* which does not end.
Attempts(causes) ==
    {Work(room, cause) : room \in 0..MaxRoom,
                         cause \in IF sealed \/ builder.finished
                                     THEN {"terminal"} ELSE causes}

Take(w) == builder' = w.b /\ log' = w.log /\ sealed' = (sealed \/ w.err = "terminal")

\* Where executeRun goes on after an error of the stream.
AfterError(err) == CASE err = "terminal" -> "done"
                     [] err = "canceled" -> "cancelled"
                     [] OTHER -> "failed"

-----------------------------------------------------------------------------
(* The events as the writers read them (RunEvents): blocks by their deltas. *)

writers == INSTANCE RunEvents WITH
             ToolIDs <- {c.id : c \in UNION {ToSet(m.calls) : m \in Messages}} \ {""},
             TextKinds <- Kinds

Heard(e) ==
    CASE e.type = "delta" -> <<writers!Delta(e.block[1])>>
      [] e.type = "tool_call" ->
           <<IF e.data = <<>> THEN writers!ToolCall(e.block[1])
             ELSE writers!ToolArgs(e.block[1])>>
      [] e.type = "tool_result" -> <<writers!ToolResult(e.block[1])>>
      [] e.type = "error" -> <<writers!Error>>
      [] e.type = "finish" -> <<writers!Finish(e.reason)>>
      [] OTHER -> <<>>

Wire == FlattenSeq([i \in 1..Len(log) |-> Heard(log[i])])

\* run_created comes first; CreateRun stores it.
RunAfter(events) ==
    FoldLeft(writers!After, writers!After(writers!NewRun, writers!Created), events)

\* What an agent may yield next: a tool answers a call of the last step, once, the model
\* speaks when all have answered, and after its finish it has nothing more to say.  The
\* usage of a call only grows while it is streamed.
Plausible(m) ==
    /\ ~ builder.finished
    /\ m.usage = 0 \/ m.usage >= spent[Len(spent)]
    /\ LET waiting == RunAfter(Wire).waiting IN
       IF m.role # "tool" THEN waiting = {}
       ELSE IF Unfinished THEN \E i \in Indexes : builder.toolCalls[i].id = m.toolCallID
       ELSE m.toolCallID \in waiting /\ builder.assistantChunks = <<>>

Spend(m) ==
    LET reported == IF m.usage = 0 THEN spent ELSE [spent EXCEPT ![Len(spent)] = m.usage] IN
    spent' = IF m.finish = "tool_calls" THEN Append(reported, 0) ELSE reported

Message(m) ==
    /\ pc = "streaming" /\ yielded < MaxMessages /\ Plausible(m)
    /\ \E w \in {writeMessage(v, m) : v \in Attempts({"canceled", "deadline", "terminal"})} :
         /\ Take(w)
         /\ pc' = IF Failed(w) THEN AfterError(w.err) ELSE "streaming"
    /\ yielded' = yielded + 1
    /\ Spend(m)
    /\ said' = said \o m.content
    /\ UNCHANGED late

\* A usage chunk that follows the finish of a model call belongs to that call; to the
\* builder it is a message like others.
LateUsage(u) ==
    LET i == IF builder.finished THEN Len(spent) ELSE Len(spent) - 1 IN
    /\ pc = "streaming" /\ yielded < MaxMessages
    /\ log # <<>> /\ log[Len(log)].type = "finish" /\ i \in 1..Len(spent) /\ spent[i] = 0
    /\ builder' = [builder EXCEPT !.stepUsage = u]
    /\ yielded' = yielded + 1
    /\ spent' = [spent EXCEPT ![i] = u]
    /\ late' = TRUE
    /\ UNCHANGED <<log, pc, sealed, said>>

\* The context ends between two messages, or the agent fails.
StreamError(err) ==
    /\ pc = "streaming"
    /\ pc' = AfterError(err)
    /\ UNCHANGED <<builder, log, sealed, history>>

\* finishCancelled and finishFailed go on after every error.
Forgiven(w) == [w EXCEPT !.err = ""]

Closed(w) == AddUsage(Forgiven(commitAssistantMessage(Forgiven(closeOpenBlocks(w)))))

EndWith(w, reason) == Emit(w, FinishEvent(reason, w.b.usage, w.b.outputMessages))

finishCancelled ==
    /\ pc = "cancelled"
    /\ \E v \in Attempts({"terminal"}) : Take(EndWith(Closed(v), "cancelled"))
    /\ pc' = "done"
    /\ UNCHANGED history

finishFailed ==
    /\ pc = "failed"
    /\ \E v \in Attempts({"terminal"}) :
         Take(EndWith(Forgiven(Emit(Closed(v), Event("error", <<>>, <<>>))), "error"))
    /\ pc' = "done"
    /\ UNCHANGED history

\* The agent has nothing more to yield; without a finish it is given "stop".
AgentEnd ==
    /\ pc = "streaming"
    /\ IF builder.finished
         THEN pc' = "done" /\ UNCHANGED <<builder, log, sealed>>
         ELSE \E w \in {writeFinish(v, "stop") : v \in Attempts({"terminal"})} :
                /\ Take(w)
                /\ pc' = IF w.err \in {"toolcall", "concat"} THEN "failed" ELSE "done"
    /\ UNCHANGED history

Next == \/ \E m \in Messages : Message(m)
        \/ \E u \in {m.usage : m \in Messages} \ {0} : LateUsage(u)
        \/ \E err \in {"canceled", "deadline"} : StreamError(err)
        \/ finishCancelled \/ finishFailed \/ AgentEnd

Spec == Init /\ [][Next]_vars

-----------------------------------------------------------------------------
(* Properties *)

IsBlock(e)    == e.type \in {"start", "delta", "end"}
IsTerminal(e) == e.type = "finish" /\ e.reason # "tool_calls"
Completes(e)  == IsTerminal(e) /\ e.reason \notin {"cancelled", "error"}

\* Subscribers open a block at its start, add deltas to it and close it at its end: each
\* block of the stream starts once, before its first delta, and nothing follows its end,
\* whatever appends failed in between.
BlocksWellFormed ==
    \A i \in 1..Len(log) : IsBlock(log[i]) =>
      LET before == {j \in 1..(i - 1) : IsBlock(log[j]) /\ log[j].block = log[i].block} IN
      /\ log[i].type = "start" <=> before = {}
      /\ \A j \in before : log[j].type # "end"

\* No finish of the builder, of a step or of the run, also after a cancellation or a
\* failure, leaves a block open ("the runner closes open blocks").  A tool call whose id
\* never came stops closeOpenBlocks and is the exception.
FinishClosesBlocks ==
    (\A i \in Indexes : builder.toolCalls[i].id = "" => builder.toolCalls[i].pending = <<>>)
    => \A f \in 1..Len(log), i \in 1..Len(log) :
         i < f /\ log[f].type = "finish" /\ log[i].type = "start" =>
           \E j \in i..f : log[j].type = "end" /\ log[j].block = log[i].block

Assistant(output) == SelectSeq(output, LAMBDA m : m.role = "assistant")
Plain(content) ==
    LET parts == drain([newThinkSplitter EXCEPT !.pending = content], TRUE).parts IN
    Joined([p \in 1..Len(parts) |-> IF parts[p].reasoning THEN <<>> ELSE parts[p].text])

\* What a completed run streamed as text is what its finish hands over as output, without
\* the reasoning in it: none is left in the splitter at the end of a step, and a step
\* takes over none of another.
TextMatchesOutput ==
    \A f \in 1..Len(log) : Completes(log[f]) =>
      LET messages == Assistant(log[f].output)
          deltas == SelectSeq(log, LAMBDA e : e.type = "delta" /\ e.block[1] = "text")
      IN Joined([d \in 1..Len(deltas) |-> deltas[d].data])
           = Joined([k \in 1..Len(messages) |-> Plain(messages[k].content)])

\* However the run ends, its finish hands over all that models and tools yielded, once and
\* in its order: a step that was committed before its append failed is not committed again,
\* and no result comes before the step that called for it (StreamResult: "complete or
\* partial Eino output").  The one thing that may lack, and only where the run did not
\* complete, is the last step, when its chunks contradict each other.
OutputComplete ==
    \A f \in 1..Len(log) : IsTerminal(log[f]) =>
      \/ Contents(log[f].output) = said
      \/ /\ ~ Completes(log[f]) /\ ~ Concatenates(builder.assistantChunks)
         /\ Contents(log[f].output) \o Contents(builder.assistantChunks) = said

\* Each tool call of a completed run is announced before its arguments, and its events
\* carry all of its arguments in their order.
ToolCallsComplete ==
    \A f \in 1..Len(log), i \in Indexes : Completes(log[f]) =>
      LET given == SelectSeq(CallsOf(Assistant(log[f].output)), LAMBDA c : c.index = i)
          sent == SelectSeq(log, LAMBDA e : e.type = "tool_call" /\ e.block[2] = i)
      IN /\ Joined([k \in 1..Len(given) |-> given[k].args])
              = Joined([k \in 1..Len(sent) |-> sent[k].data])
         /\ \A k \in 1..Len(sent) : sent[k].data # <<>> =>
              \E j \in 1..(k - 1) : sent[j] = [sent[k] EXCEPT !.data = <<>>]

\* However the run went and whichever appends failed, the writers read an order of events
\* they are made for: run events as RunEvents has them, which UIStream and ChatStream take
\* as their input.
FeedsWriters ==
    \A i \in 1..Len(Wire) :
      Wire[i] \in writers!NextEvents(RunAfter(SubSeq(Wire, 1, i - 1)))

Totalling(numbers) ==
    LET total[n \in 0..Len(numbers)] == IF n = 0 THEN 0 ELSE total[n - 1] + numbers[n]
    IN total

Total(numbers) == Totalling(numbers)[Len(numbers)]

\* The usage of a run counts no model call twice, and a completed run misses none whose
\* usage came before or with its finish (README: OnCompleted receives the accumulated
\* usage).
UsageCountedOnce ==
    \A f \in 1..Len(log) :
      /\ IsTerminal(log[f]) => log[f].usage <= Total(spent)
      /\ Completes(log[f]) /\ ~ late => log[f].usage = Total(spent)

\* The same for every provider, whenever it reports usage.
NoUsageLost ==
    \A f \in 1..Len(log) : Completes(log[f]) => log[f].usage = Total(spent)
=============================================================================
