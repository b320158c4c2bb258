---------------------------- MODULE ChatMessages ----------------------------
(***************************************************************************)
(* The conversions between Chat Completions messages and schema messages   *)
(* (openai/message.go).  A chat message has the fields of a schema message: *)
(* content is a content that is a string, multi one that is an array of    *)
(* parts.  A part of type "malformed" is any part the conversion refuses.  *)
(***************************************************************************)
EXTENDS SchemaMessages

Roles == {"assistant", "system", "tool"}

\* toSchemaRole and fromSchemaRole.
Role(role) == IF role \in Roles THEN role ELSE "user"

textOnlyInputParts(parts) == \A i \in 1..Len(parts) : parts[i].type = "text"

\* What makes ToSchemaMessages return an error.
Refused(msg) ==
    \/ \E i \in 1..Len(msg.multi) : msg.multi[i].type = "malformed"
    \/ Role(msg.role) \notin {"user", "tool"} /\ ~ textOnlyInputParts(msg.multi)

toSchemaMessage(msg) ==
    IF msg.multi = <<>> \/ Role(msg.role) \in {"user", "tool"} THEN [msg EXCEPT !.role = Role(@)]
    ELSE [msg EXCEPT !.role = Role(@), !.multi = <<>>,
                     !.content = FlattenSeq([i \in 1..Len(msg.multi) |-> msg.multi[i].val])]

ToSchemaMessages(messages) == [i \in 1..Len(messages) |-> toSchemaMessage(messages[i])]

Accepted(messages) == messages # <<>> /\ \A i \in 1..Len(messages) : ~ Refused(messages[i])

\* Only the string content goes back.
FromSchemaMessages(messages) ==
    [i \in 1..Len(messages) |->
       [messages[i] EXCEPT !.role = Role(@), !.multi = <<>>, !.ui = NoId, !.id = NoId]]
=============================================================================
