--------------------------- MODULE SchemaMessages ---------------------------
(***************************************************************************)
(* Eino's schema.Message, as the conversions of einoai use it, and what a  *)
(* history of such messages says.  Texts, reasonings and tool results are  *)
(* sequences of tokens, so that concatenation is \o; a tool call is its    *)
(* id.  A session message and a Chat Completions message have the same     *)
(* fields, and are read in the same way.                                   *)
(***************************************************************************)
EXTENDS Naturals, Sequences, SequencesExt, FiniteSetsExt

NoId == <<>>

\* multi stands for UserInputMultiContent and AssistantGenMultiContent, ui and id for
\* the extras "_einoai_ui_id" and "_einoai_message_id".
Message(role) ==
    [role |-> role, content |-> <<>>, multi |-> <<>>, reasoning |-> <<>>, calls |-> <<>>,
     toolID |-> "", ui |-> NoId, id |-> NoId]

ContentPart(type, val) == [type |-> type, val |-> val]

\* A tool result is JSON, a quoted string or a value that begins with an Object token, or
\* else plain text.
Quote  == <<"quote">>
Object == <<"object">>

-----------------------------------------------------------------------------
(* What a history says: a sequence of items, one for each token of a text or    *)
(* a reasoning, each file, and each tool call with its result.                  *)

Item(role, kind, val)   == [role |-> role, kind |-> kind, val |-> val]
Items(role, kind, toks) == [i \in 1..Len(toks) |-> Item(role, kind, toks[i])]

\* A call without a result has result <<>>.
CallItem(id, result) == Item("assistant", "call", <<id, result>>)

PartItems(role, parts) ==
    FlattenSeq([p \in 1..Len(parts) |-> Items(role, parts[p].type, parts[p].val)])

BodyItems(m) ==
    IF m.multi # <<>> THEN PartItems(m.role, m.multi) ELSE Items(m.role, "text", m.content)

\* The tool messages that follow message k with nothing else in between.
Block(history, k) ==
    {j \in (k + 1)..Len(history) : \A i \in (k + 1)..j : history[i].role = "tool"}

\* The first of them that answers a call.
Answers(history, k, call) ==
    LET J == {j \in Block(history, k) : history[j].toolID = call} IN
    IF J = {} THEN {} ELSE {Min(J)}

\* A text means the same with quotes and without.
Unquoted(content) == IF content # <<>> /\ content[1] = Quote THEN Tail(content) ELSE content

ResultOf(m) ==
    IF m.multi # <<>> THEN FlattenSeq([p \in 1..Len(m.multi) |-> m.multi[p].val])
    ELSE Unquoted(m.content)

CallItems(history, k) ==
    [c \in 1..Len(history[k].calls) |->
       LET call == history[k].calls[c] IN
       CallItem(call, FlattenSeq([a \in 1..Cardinality(Answers(history, k, call)) |->
                        ResultOf(history[CHOOSE j \in Answers(history, k, call) : TRUE])]))]

\* A tool message that is not the answer to a call of the message before its block: a
\* model provider turns such a history away.
Stray(history, j) ==
    ~ \E k \in 1..(j - 1), c \in 1..j : /\ c \in 1..Len(history[k].calls)
                                        /\ j \in Answers(history, k, history[k].calls[c])

Transcript(history) ==
    FlattenSeq([k \in 1..Len(history) |->
      IF history[k].role # "tool"
        THEN Items(history[k].role, "reasoning", history[k].reasoning)
               \o BodyItems(history[k]) \o CallItems(history, k)
      ELSE IF Stray(history, k) THEN <<Item("tool", "stray", history[k].toolID)>>
      ELSE <<>>])
=============================================================================
