--------------------------- MODULE SessionMessages ---------------------------
(***************************************************************************)
(* The ids that schema messages are given, and the session messages that   *)
(* an application shows (session_message.go).  A session part is           *)
(* [type, id, val]: id names the tool call of a tool part.                 *)
(***************************************************************************)
EXTENDS SchemaMessages

\* Mutant: the id does not name the run.
assignSessionMessageIDAnyRun(msg, run, namespace, index) ==
    IF msg.id # NoId THEN msg
    ELSE [msg EXCEPT !.id = IF msg.ui # NoId THEN msg.ui ELSE <<"msg", namespace, index>>]

\* An id is given once; the id of a UI message comes first.
assignSessionMessageID(msg, run, namespace, index) ==
    IF msg.id # NoId THEN msg
    ELSE [msg EXCEPT !.id = IF msg.ui # NoId THEN msg.ui
                            ELSE <<"msg", run, namespace, index>>]

assignSessionMessageIDs(messages, run, namespace) ==
    [i \in 1..Len(messages) |-> assignSessionMessageID(messages[i], run, namespace, i - 1)]

-----------------------------------------------------------------------------
SessionPart(type, id, val) == [type |-> type, id |-> id, val |-> val]

TextParts(type, toks) == IF toks = <<>> THEN <<>> ELSE <<SessionPart(type, "", toks)>>

parseSessionValue(content) == Unquoted(content)

sessionMessageID(msg, index) ==
    CASE msg.id # NoId -> msg.id
      [] msg.ui # NoId -> msg.ui
      [] OTHER -> <<"msg", index>>

\* Mutant: files are shown only where there is no text.
BodyPartsTextFirst(msg) ==
    IF msg.role = "tool"
      THEN <<SessionPart("tool-result", msg.toolID, parseSessionValue(msg.content))>>
    ELSE SelectSeq([i \in 1..Len(msg.multi) |->
                      SessionPart(msg.multi[i].type, "", msg.multi[i].val)],
                   LAMBDA p : p.type = "text")
           \o TextParts("text", msg.content)

BodyParts(msg) ==
    CASE msg.role = "tool" ->
           <<SessionPart("tool-result", msg.toolID, parseSessionValue(msg.content))>>
      [] msg.role # "tool" /\ msg.multi # <<>> ->
           [i \in 1..Len(msg.multi) |-> SessionPart(msg.multi[i].type, "", msg.multi[i].val)]
      [] OTHER -> TextParts("text", msg.content)

newSessionMessage(msg, index) ==
    [id |-> sessionMessageID(msg, index), role |-> msg.role,
     parts |-> TextParts("reasoning", msg.reasoning) \o BodyParts(msg)
                 \o [c \in 1..Len(msg.calls) |-> SessionPart("tool-call", msg.calls[c], <<>>)]]

NewSessionRunResponse(messages) ==
    [i \in 1..Len(messages) |-> newSessionMessage(messages[i], i - 1)]

-----------------------------------------------------------------------------
(* What session messages say: each is read as the message it stands for. *)

Kept(parts, types) == SelectSeq(parts, LAMBDA p : p.type \in types)

Vals(parts, type) ==
    LET kept == Kept(parts, {type}) IN FlattenSeq([i \in 1..Len(kept) |-> kept[i].val])

Read(s) ==
    LET calls == Kept(s.parts, {"tool-call"})
        results == Kept(s.parts, {"tool-result"}) IN
    [Message(s.role) EXCEPT
       !.reasoning = Vals(s.parts, "reasoning"),
       !.content = Vals(s.parts, "tool-result"),
       !.multi = Kept(s.parts, {"text", "file"}),
       !.calls = [c \in 1..Len(calls) |-> calls[c].id],
       !.toolID = IF results = <<>> THEN "" ELSE results[1].id]

SessionTranscript(messages) == Transcript([i \in 1..Len(messages) |-> Read(messages[i])])
=============================================================================
