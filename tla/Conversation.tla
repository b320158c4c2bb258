---------------------------- MODULE Conversation ----------------------------
(***************************************************************************)
(* One conversation over several runs: a client of the AI SDK adapter or   *)
(* of the Chat Completions adapter sends its history with every turn, the  *)
(* run adds the messages of the agent, the application's OnTerminated hook *)
(* stores the result's messages in place of what it has, and the client    *)
(* may load its history from there.  The hooks of two runs may store in    *)
(* any order: a run ends, and frees its session, before its hook is called *)
(* (service.go:436-479).  Run r is the r-th run; a token of it is <<r, n>>.  *)
(***************************************************************************)
EXTENDS SchemaMessages

CONSTANTS Replies,   \* for each run, what its agent may do: sequences of steps
          JSONTools, \* the tools whose results are JSON objects
          Files,     \* for each run, the files its user may send
          MaxTurns   \* bound on the runs

aisdk   == INSTANCE UIMessages
openai  == INSTANCE ChatMessages
session == INSTANCE SessionMessages

VARIABLES proto,    \* the adapter the client uses, "ui" or "chat"
          client,   \* the history the client holds
          results,  \* RunResult.Messages of each run
          said,     \* what the client and then the agent said, for each run
          base,     \* the run whose stored messages the application sent again, or 0
          hooks,    \* runs whose OnTerminated has not stored yet
          stored,   \* the application's history
          origin    \* the run that history is from, or 0

vars == <<proto, client, results, said, base, hooks, stored, origin>>

-----------------------------------------------------------------------------
(* The agent.  A step is [speaks, calls, answered]: whether the model reasons  *)
(* and writes text, its tool calls, and the order their results arrive in.     *)

ToolOutput(r, k, call) ==
    IF call \in JSONTools THEN <<Object, <<r, call, k>>>> ELSE <<<<r, call, k>>>>

StepMessages(r, k, step) ==
    LET token(n) == IF step.speaks THEN <<<<r, 10 * k + n>>>> ELSE <<>> IN
    <<[Message("assistant") EXCEPT !.reasoning = token(1), !.content = token(2),
                                   !.calls = step.calls]>>
      \o [a \in 1..Len(step.answered) |->
            [Message("tool") EXCEPT !.toolID = step.answered[a],
                                    !.content = ToolOutput(r, k, step.answered[a])]]

\* outputMessages of runEventBuilder.
Output(r, reply) ==
    session!assignSessionMessageIDs(
      FlattenSeq([k \in 1..Len(reply) |-> StepMessages(r, k, reply[k])]), r, "output")

-----------------------------------------------------------------------------
(* The clients *)

\* The parts useChat of the AI SDK makes of the stream of a run (see UIStream).
LiveToolPart(output, k, call) ==
    LET answer == Answers(output, k, call) IN
    IF answer = {} THEN aisdk!ToolPart(call, "input-available", <<>>)
    ELSE aisdk!ToolPart(call, "output-available",
                        aisdk!parseMaybeJSON(output[Min(answer)].content))

LiveStep(output, k) ==
    aisdk!TextParts("reasoning", output[k].reasoning)
      \o aisdk!TextParts("text", output[k].content)
      \o [c \in 1..Len(output[k].calls) |-> LiveToolPart(output, k, output[k].calls[c])]
      \o (IF /\ output[k].calls # <<>>
             /\ \A c \in 1..Len(output[k].calls) : Answers(output, k, output[k].calls[c]) # {}
            THEN <<aisdk!StepStart>> ELSE <<>>)

LiveUI(r, output) ==
    aisdk!UIMessage(<<"live", r>>, "assistant",
      <<aisdk!StepStart>>
        \o FlattenSeq([k \in 1..Len(output) |->
             IF output[k].role = "assistant" THEN LiveStep(output, k) ELSE <<>>]))

\* A Chat Completions client sees the text of all steps and nothing else.
LiveChat(output) ==
    [Message("assistant") EXCEPT !.content = FlattenSeq([k \in 1..Len(output) |->
       IF output[k].role = "assistant" THEN output[k].content ELSE <<>>])]

UserParts(r) ==
    {<<aisdk!Part("text", <<<<r, 1>>>>)>>}
      \cup {<<aisdk!Part("text", <<<<r, 1>>>>), aisdk!Part("file", <<f>>),
              aisdk!Part("text", <<<<r, 2>>>>)>> : f \in Files[r]}

ChatText(role, r) == [Message(role) EXCEPT !.content = <<<<r, 1>>>>]

ChatParts(role, r, f) ==
    [Message(role) EXCEPT !.multi = <<ContentPart("text", <<<<r, 1>>>>), f,
                                      ContentPart("text", <<<<r, 2>>>>)>>]

\* What a Chat Completions client may add to its history: a tool it ran itself, and
\* contents that are arrays of parts, in a role that takes files or in one that does not.
ChatTurns(r) ==
    {<<ChatText("user", r)>>,
     <<ChatText("user", r), [Message("assistant") EXCEPT !.calls = <<"own">>],
       [Message("tool") EXCEPT !.toolID = "own", !.content = <<<<r, 3>>>>]>>,
     <<ChatParts("user", r, ContentPart("malformed", <<>>))>>,
     <<ChatParts("system", r, ContentPart("text", <<<<r, 3>>>>)), ChatText("user", r)>>}
      \cup {<<ChatParts(role, r, ContentPart("file", <<f>>))>> : role \in {"user", "system"},
                                                                f \in Files[r]}

-----------------------------------------------------------------------------
Init == /\ proto \in {"ui", "chat"}
        /\ client = <<>> /\ results = <<>> /\ said = <<>> /\ base = <<>>
        /\ hooks = {} /\ stored = <<>> /\ origin = 0

Run == Len(results) + 1

\* CreateRun with these messages, up to the end of the run.
RunMessages(messages, output) ==
    session!assignSessionMessageIDs(messages, Run, "input") \o output

RunWith(messages, spoken, output, from) ==
    /\ messages # <<>>
    /\ results' = Append(results, RunMessages(messages, output))
    /\ said' = Append(said, spoken \o Transcript(output))
    /\ base' = Append(base, from)
    /\ hooks' = hooks \cup {Run}
    /\ UNCHANGED <<proto, stored, origin>>

\* The client sends a turn after all or, when the user edits an earlier message, a part
\* of its history, and reads the stream of the run or not.
AskUI == \E n \in 0..Len(client), parts \in UserParts(Run), reply \in Replies[Run],
            watched \in BOOLEAN :
    LET sent == Append(SubSeq(client, 1, n), aisdk!UIMessage(<<"user", Run>>, "user", parts))
        output == Output(Run, reply) IN
    /\ proto = "ui"
    /\ n < Len(client) => client[n + 1].role = "user"
    /\ RunWith(aisdk!ToSchemaMessages(sent), aisdk!UITranscript(sent), output, 0)
    /\ client' = IF watched THEN Append(sent, LiveUI(Run, output)) ELSE sent

\* A tool of the client gets its result, and the history goes back as it is.
AnswerPart(p, state) ==
    IF p.type # "tool" \/ p.state # "input-available" THEN p
    ELSE aisdk!ToolPart(p.id, state, <<<<"client", p.id>>>>)

\* Calls of one assistant message of the client have ids of their own.
FreshCalls(reply, message) ==
    \A k \in 1..Len(reply), i \in 1..Len(message.parts) :
      ~ Contains(reply[k].calls, message.parts[i].id)

ContinueUI == \E reply \in Replies[Run], state \in aisdk!Answered :
    LET last == Len(client)
        sent == [client EXCEPT ![last].parts =
                   [i \in 1..Len(@) |-> AnswerPart(@[i], state)]]
        output == Output(Run, reply) IN
    /\ proto = "ui" /\ client # <<>>
    /\ \E i \in 1..Len(client[last].parts) : client[last].parts[i].state = "input-available"
    /\ FreshCalls(reply, client[last])
    /\ RunWith(aisdk!ToSchemaMessages(sent), aisdk!UITranscript(sent), output, 0)
    /\ client' = sent

AskChat == \E turn \in ChatTurns(Run), reply \in Replies[Run], watched \in BOOLEAN :
    LET sent == client \o turn
        output == Output(Run, reply) IN
    /\ proto = "chat"
    /\ openai!Accepted(sent)
    /\ RunWith(openai!ToSchemaMessages(sent), Transcript(sent), output, 0)
    /\ client' = IF watched THEN Append(sent, LiveChat(output)) ELSE sent

\* The application sends its own history with the user's text.
AskStored == \E reply \in Replies[Run] :
    LET sent == Append(stored, ChatText("user", Run)) IN
    /\ origin # 0
    /\ RunWith(sent, Append(said[origin], Item("user", "text", <<Run, 1>>)),
               Output(Run, reply), origin)
    /\ UNCHANGED client

\* historyRepo.Replace in OnTerminated.
Store(r) == /\ r \in hooks
            /\ hooks' = hooks \ {r}
            /\ stored' = results[r] /\ origin' = r
            /\ UNCHANGED <<proto, client, results, said, base>>

Reload == /\ origin # 0
          /\ client' = IF proto = "ui" THEN aisdk!FromSchemaMessages(stored)
                       ELSE openai!FromSchemaMessages(stored)
          /\ UNCHANGED <<proto, results, said, base, hooks, stored, origin>>

Ask == Run <= MaxTurns /\ (AskUI \/ ContinueUI \/ AskChat \/ AskStored)

Next == Ask \/ Reload \/ (\E r \in hooks : Store(r))

Spec == Init /\ [][Next]_vars

-----------------------------------------------------------------------------
(* Properties *)

\* Between the client and the result given to the hooks nothing said is lost, added or put
\* in another order, whatever runs it went through, and every tool result follows its call
\* (aisdk/message.go:36-112, openai/message.go:44-78, service.go:481-498).
InputKept == \A r \in 1..Len(results) : Transcript(results[r]) = said[r]

\* The history an AI SDK client loads says what was said in the run it was stored by, with
\* each tool result in the part of its call (aisdk/message.go:115-192, 316-333).
UIHistoryKept ==
    origin # 0 => aisdk!UITranscript(aisdk!FromSchemaMessages(stored)) = said[origin]

HasFiles(messages) == \E i \in 1..Len(messages) : messages[i].multi # <<>>

\* The session messages say the same, one for each schema message, and so do the chat
\* messages of a history without files (session_message.go:73-137, openai/message.go:81-97).
EveryViewKept == \A r \in 1..Len(results) :
    LET shown == session!NewSessionRunResponse(results[r]) IN
    /\ session!SessionTranscript(shown) = said[r]
    /\ Len(shown) = Len(results[r])
    /\ ~ HasFiles(results[r]) => Transcript(openai!FromSchemaMessages(results[r])) = said[r]

PiecesOfOne(m, n) == m.ui # NoId /\ m.ui = n.ui

\* An id of a session message names one message through all runs of the session, or the
\* pieces of one UI message; a stored message that is sent again keeps its id; and no two
\* messages of a loaded UI history share an id (session_message.go:151-172,
\* aisdk/message.go:220-225).
IdsIdentify ==
    /\ \A r \in 1..Len(results), s \in 1..Len(results) :
         \A k \in 1..Len(results[r]), l \in 1..Len(results[s]) :
           results[r][k].id = results[s][l].id /\ <<r, k>> # <<s, l>> =>
             \/ PiecesOfOne(results[r][k], results[s][l])
             \/ r # s /\ results[r][k] = results[s][l]
    /\ \A r \in 1..Len(results) : base[r] # 0 =>
         \A k \in 1..Len(results[base[r]]) : results[r][k].id = results[base[r]][k].id
    /\ origin # 0 =>
         LET loaded == aisdk!FromSchemaMessages(stored) IN
         \A i \in 1..Len(loaded) : \A j \in 1..(i - 1) : loaded[i].id # loaded[j].id
=============================================================================
