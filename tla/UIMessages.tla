----------------------------- MODULE UIMessages -----------------------------
(***************************************************************************)
(* The conversions between AI SDK messages and schema messages             *)
(* (aisdk/message.go).  A part is [type, val, id, state]: the tokens of a  *)
(* text or a reasoning, the file of a file part, the output of a tool      *)
(* part.  A file is [form, kind, named]: how its URL carries the data, the *)
(* kind its media type stands for, and whether it has a file name.         *)
(***************************************************************************)
EXTENDS SchemaMessages

Part(type, val)          == [type |-> type, val |-> val, id |-> "", state |-> "done"]
ToolPart(id, state, val) == [type |-> "tool", val |-> val, id |-> id, state |-> state]
StepStart                == Part("step-start", <<>>)

UIMessage(id, role, parts) == [id |-> id, role |-> role, parts |-> parts]

Answered == {"output-available", "output-error"}

-----------------------------------------------------------------------------
(* Files *)

\* Whatever follows the comma of a data URL is taken for base64; only a message part for
\* a plain file has a name.
toFileInputPart(file) ==
    [file EXCEPT !.form = IF @ = "url" THEN "url" ELSE "base64",
                 !.named = @ /\ file.kind = "file"]

toInputPart(p) ==
    ContentPart(p.type, IF p.type = "file" THEN <<toFileInputPart(p.val[1])>> ELSE p.val)

toInputParts(parts) ==
    LET kept == SelectSeq(parts, LAMBDA p : p.type \in {"text", "file"}) IN
    [i \in 1..Len(kept) |-> toInputPart(kept[i])]

\* fromInputParts, and fromOutputParts with fromMessagePartCommon.
fromParts(parts) == [i \in 1..Len(parts) |-> Part(parts[i].type, parts[i].val)]

-----------------------------------------------------------------------------
(* ToSchemaMessages *)

attachUIExtra(msg, m) == [msg EXCEPT !.ui = m.id]

textFromParts(parts) ==
    FlattenSeq([i \in 1..Len(parts) |-> IF parts[i].type = "text" THEN parts[i].val ELSE <<>>])

parseMaybeJSON(content) == IF content = <<>> THEN <<Object>> ELSE Unquoted(content)

marshalPartValue(val) == IF val # <<>> /\ val[1] = Object THEN val ELSE <<Quote>> \o val

\* An error is wrapped into an object.
OutputValue(p) == IF p.state = "output-error" THEN <<Object>> \o p.val ELSE p.val

marshalToolOutput(p) == marshalPartValue(OutputValue(p))

hasAssistantContent(msg) ==
    msg.content # <<>> \/ msg.reasoning # <<>> \/ msg.calls # <<>>

flushCurrent(conv) ==
    IF ~ hasAssistantContent(conv.current) THEN conv
    ELSE [out |-> Append(conv.out, conv.current),
          current |-> [Message("assistant") EXCEPT !.ui = conv.current.ui]]

ToolMessage(p) ==
    [Message("tool") EXCEPT !.toolID = p.id, !.content = marshalToolOutput(p)]

\* Mutant: the tool message is written before the message that holds its call.
convertPartUnflushed(conv, p) ==
    CASE p.type = "step-start" -> flushCurrent(conv)
      [] p.type = "text" -> [conv EXCEPT !.current.content = @ \o p.val]
      [] p.type = "reasoning" -> [conv EXCEPT !.current.reasoning = @ \o p.val]
      [] p.type = "tool" ->
           LET called == [conv EXCEPT !.current.calls = Append(@, p.id)] IN
           IF p.state \in Answered THEN [called EXCEPT !.out = Append(@, ToolMessage(p))]
           ELSE called
      [] OTHER -> conv

\* A step, and each tool call that has its result, ends the schema message.
convertPart(conv, p) ==
    CASE p.type = "step-start" -> flushCurrent(conv)
      [] p.type = "text" -> [conv EXCEPT !.current.content = @ \o p.val]
      [] p.type = "reasoning" -> [conv EXCEPT !.current.reasoning = @ \o p.val]
      [] p.type = "tool" ->
           LET called == [conv EXCEPT !.current.calls = Append(@, p.id)] IN
           IF p.state \in Answered
             THEN [flushCurrent(called) EXCEPT !.out = Append(@, ToolMessage(p))]
             ELSE called
      [] OTHER -> conv

assistantToSchemaMessages(m) ==
    flushCurrent(FoldLeft(convertPart,
      [out |-> <<>>, current |-> attachUIExtra(Message("assistant"), m)], m.parts)).out

HasFilePart(parts) == \E i \in 1..Len(parts) : parts[i].type = "file"

toSchemaMessages(m) ==
    CASE m.role = "assistant" -> assistantToSchemaMessages(m)
      [] m.role = "system" ->
           <<attachUIExtra([Message("system") EXCEPT !.content = textFromParts(m.parts)], m)>>
      [] OTHER ->
           <<attachUIExtra(IF HasFilePart(m.parts)
                THEN [Message("user") EXCEPT !.multi = toInputParts(m.parts)]
                ELSE [Message("user") EXCEPT !.content = textFromParts(m.parts)], m)>>

ToSchemaMessages(messages) ==
    FlattenSeq([i \in 1..Len(messages) |-> toSchemaMessages(messages[i])])

-----------------------------------------------------------------------------
(* FromSchemaMessages *)

uiID(msg, index) == IF msg.ui # NoId THEN msg.ui ELSE <<"msg", index>>

TextParts(type, toks) == IF toks = <<>> THEN <<>> ELSE <<Part(type, toks)>>

appendAssistantParts(parts, msg) ==
    parts \o <<StepStart>> \o TextParts("reasoning", msg.reasoning)
      \o (IF msg.multi # <<>> THEN fromParts(msg.multi) ELSE TextParts("text", msg.content))
      \o [c \in 1..Len(msg.calls) |-> ToolPart(msg.calls[c], "input-available", <<>>)]

fromSchemaMessage(msg, index) ==
    UIMessage(uiID(msg, index), msg.role,
      IF msg.role = "assistant" THEN appendAssistantParts(<<>>, msg)
      ELSE IF msg.multi # <<>> /\ msg.role = "user" THEN fromParts(msg.multi)
      ELSE TextParts("text", msg.content))

\* Mutant: the last tool part takes the result, whatever its id.
mergeToolOutputLast(parts, msg) ==
    LET last == Max({0} \cup {i \in 1..Len(parts) : parts[i].type = "tool"}) IN
    IF last = 0 THEN Append(parts, ToolPart(msg.toolID, "output-available",
                                               parseMaybeJSON(msg.content)))
    ELSE [parts EXCEPT ![last].state = "output-available",
                       ![last].val = parseMaybeJSON(msg.content)]

\* The first part with the id takes the result.
mergeToolOutput(parts, msg) ==
    LET own == {i \in 1..Len(parts) : parts[i].type = "tool" /\ parts[i].id = msg.toolID} IN
    IF own = {} THEN Append(parts, ToolPart(msg.toolID, "output-available",
                                               parseMaybeJSON(msg.content)))
    ELSE [parts EXCEPT ![Min(own)].state = "output-available",
                       ![Min(own)].val = parseMaybeJSON(msg.content)]

EndsWithAssistant(out) == out # <<>> /\ Last(out).role = "assistant"

shouldAppendAssistantMessage(out, msg) ==
    /\ EndsWithAssistant(out)
    /\ msg.ui = NoId \/ Last(out).id = NoId \/ Last(out).id = msg.ui

fromNext(out, msg) ==
    CASE msg.role = "tool" ->
           IF EndsWithAssistant(out)
             THEN [out EXCEPT ![Len(out)].parts = mergeToolOutput(@, msg)] ELSE out
      [] msg.role = "assistant" /\ shouldAppendAssistantMessage(out, msg) ->
           [out EXCEPT ![Len(out)].parts = appendAssistantParts(@, msg)]
      [] OTHER -> Append(out, fromSchemaMessage(msg, Len(out)))

FromSchemaMessages(history) == FoldLeft(fromNext, <<>>, history)

-----------------------------------------------------------------------------
(* What UI messages say *)

UIPartItems(role, p) ==
    CASE p.type = "tool" ->
           <<CallItem(p.id, IF p.state \in Answered THEN OutputValue(p) ELSE <<>>)>>
      [] OTHER -> Items(role, p.type, p.val)

UITranscript(messages) ==
    FlattenSeq([k \in 1..Len(messages) |->
      FlattenSeq([i \in 1..Len(messages[k].parts) |->
                    UIPartItems(messages[k].role, messages[k].parts[i])])])
=============================================================================
