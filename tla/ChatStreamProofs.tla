-------------------------- MODULE ChatStreamProofs --------------------------
(***************************************************************************)
(* Proofs about the Chat Completions adapter, for any run, of any length,  *)
(* with any tools: its streams are finished once, carry usage when and     *)
(* where the client asked for it, and say what is collected.               *)
(***************************************************************************)
EXTENDS ChatStream, FiniteSetTheorems, TLAPS

Chunk == [type : {"role", "content", "reason", "usage", "error", "[DONE]"}, content : Nat,
          reason : {"null", "stop", "length"}]

\* The types of runs and events.
RunState == [called : SUBSET ToolIDs, waiting : SUBSET ToolIDs,
             phase : {"created", "model", "failed", "ended"}]
RunEvent == [type : {"run_created", "text", "reasoning", "tool_call", "tool_args", "tool_result",
                     "error", "finish"},
             id : ToolIDs \cup {""},
             reason : {"", "error", "cancelled", "stop", "length"} \cup StepReasons]

\* The positions of the wire before its choice is finished.
Body == {k \in 1..Len(wire) : wire[k].type \in {"role", "content"}}

\* The role chunk comes first, and once.
Opened == \A k \in 1..Len(wire) : (wire[k].type = "role") = (k = 1) /\ wire[1] = Role

\* A finish_reason is the only one, and only usage and [DONE] follow it.
Finished ==
    \A k \in Of("reason") :
      /\ wire[k].reason \in {"stop", "length"}
      /\ \A j \in 1..Len(wire) : /\ j < k => j \in Body
                                 /\ j > k => j \in Of("usage") \cup Of("[DONE]")

\* Usage comes after the finish_reason and before [DONE].
Metered ==
    /\ \A k \in Of("usage") : state.includeUsage /\ k - 1 \in Of("reason")
    /\ \A k \in Of("[DONE]") :
         /\ k = Len(wire) /\ pc = "returned"
         /\ \A j \in Of("reason") : state.includeUsage => k - 1 \in Of("usage")

\* As long as the stream is read nothing on the wire ends it, and an error chunk is
\* remembered.
Unfinished ==
    pc # "returned" =>
      /\ (wire = <<>>) = (pc = "opening")
      /\ \A k \in 1..Len(wire) : k \in Body \/ (k \in Of("error") /\ state.runErr)

SInv ==
    /\ run \in RunState /\ read \in Nat /\ wire \in Seq(Chunk)
    /\ state \in [includeUsage : BOOLEAN, runErr : BOOLEAN]
    /\ pc \in {"opening", "reading", "returned"}
    /\ Opened /\ Finished /\ Metered /\ Unfinished

LEMMA InitSInv == Init => SInv
<1> SUFFICES ASSUME Init PROVE SInv
  OBVIOUS
<1>1. wire = <<>> /\ Len(wire) = 0 /\ pc = "opening" /\ wire \in Seq(Chunk)
  BY DEF Init
<1>2. state \in [includeUsage : BOOLEAN, runErr : BOOLEAN]
  BY DEF Init, newStreamState
<1>3. 1..Len(wire) = {}
  BY <1>1
<1>4. run \in RunState
  BY DEF Init, NewRun, RunState
<1>5. read \in Nat
  BY DEF Init
<1> QED BY <1>1, <1>2, <1>3, <1>4, <1>5 DEF SInv, Opened, Finished, Metered, Unfinished, Of, Body

-----------------------------------------------------------------------------
(* The events of a run *)

LEMMA EventTypes ==
  ASSUME run \in RunState, NEW e \in NextEvents(run)
  PROVE  e \in RunEvent /\ After(run, e) \in RunState
<1>1. /\ Created \in RunEvent /\ Error \in RunEvent
      /\ \A reason \in {"error", "cancelled", "stop", "length"} \cup StepReasons : Finish(reason) \in RunEvent
      /\ \A kind \in TextKinds : Delta(kind) \in RunEvent
      /\ \A i \in ToolIDs : ToolCall(i) \in RunEvent /\ ToolArgs(i) \in RunEvent /\ ToolResult(i) \in RunEvent
  BY RunEventsAssumption
     DEF RunEvent, Created, Finish, Error, ToolResult, Delta, ToolArgs, ToolCall, StepReasons
<1>2. \/ e \in {Created, Error}
      \/ \E reason \in {"error", "cancelled", "stop", "length"} \cup StepReasons : e = Finish(reason)
      \/ \E kind \in TextKinds : e = Delta(kind)
      \/ \E i \in ToolIDs : e \in {ToolCall(i), ToolArgs(i), ToolResult(i)}
  BY DEF NextEvents, RunState
<1>3. e \in RunEvent
  BY <1>1, <1>2
<1>4. e.type \in {"tool_call", "tool_result"} => e.id \in ToolIDs
  <2>1. /\ Created.type = "run_created" /\ Error.type = "error"
        /\ \A reason : Finish(reason).type = "finish"
        /\ \A kind \in TextKinds : Delta(kind).type \in {"text", "reasoning"}
        /\ \A i : ToolCall(i).id = i /\ ToolArgs(i).id = i /\ ToolResult(i).id = i
    BY RunEventsAssumption DEF Created, Finish, Error, ToolResult, Delta, ToolArgs, ToolCall
  <2> QED BY <1>2, <2>1
<1>5. After(run, e) \in RunState
  BY <1>4 DEF After, RunState
<1> QED BY <1>3, <1>5
-----------------------------------------------------------------------------
(* What a step adds to the wire *)

\* The first n of some chunks are at the end of the wire.
Adds(t, n) ==
    /\ wire' \in Seq(Chunk)
    /\ Len(wire') = Len(wire) + n
    /\ \A k \in 1..Len(wire) : wire'[k] = wire[k]
    /\ \A k \in 1..n : wire'[Len(wire) + k] = t[k]

LEMMA WriteAdds ==
  ASSUME wire \in Seq(Chunk), NEW t \in Seq(Chunk), NEW next, Write(t, next)
  PROVE  \E n \in 0..Len(t) : /\ Adds(t, n)
                              /\ \/ n = Len(t) /\ pc' = next
                                 \/ n < Len(t) /\ pc' = "returned"
<1>2. ASSUME NEW n \in 0..(Len(t) - 1), wire' = wire \o SubSeq(t, 1, n), pc' = "returned"
      PROVE  Adds(t, n)
  <2>1. SubSeq(t, 1, n) \in Seq(Chunk) /\ Len(SubSeq(t, 1, n)) = n
        /\ \A k \in 1..n : SubSeq(t, 1, n)[k] = t[k]
    OBVIOUS
  <2> QED BY <2>1, <1>2 DEF Adds
<1>3. CASE \E n \in 0..(Len(t) - 1) : wire' = wire \o SubSeq(t, 1, n) /\ pc' = "returned"
  <2>1. PICK n \in 0..(Len(t) - 1) : wire' = wire \o SubSeq(t, 1, n)
    BY <1>3
  <2>2. Adds(t, n)
    BY <1>2, <1>3, <2>1
  <2>3. n \in 0..Len(t) /\ n < Len(t)
    OBVIOUS
  <2> QED BY <2>2, <2>3, <1>3
<1>4. ASSUME wire' = wire \o t PROVE Adds(t, Len(t))
  BY <1>4 DEF Adds
<1>5. Len(t) \in 0..Len(t)
  OBVIOUS
<1> QED BY <1>3, <1>4, <1>5 DEF Write

\* Chunks that may follow what is on the wire: the role chunk on an empty wire, and after
\* that content, an error, or the end of the choice.
Fits(t, next) ==
    /\ \A k \in 1..Len(t) :
         /\ t[k].type = "role" => t[k] = Role
         /\ (t[k].type = "role") = (wire = <<>> /\ k = 1)
         /\ t[k].type = "reason" => /\ k = 1 /\ t[k].reason \in {"stop", "length"}
                                    /\ pc = "reading" /\ ~ state.runErr
         /\ t[k].type = "usage" => k = 2 /\ state.includeUsage /\ t[1].type = "reason"
         /\ t[k].type = "[DONE]" =>
              /\ k = Len(t) /\ next = "returned"
              /\ t[1].type = "reason" /\ state.includeUsage => t[k - 1].type = "usage"
         /\ t[k].type \in {"role", "content"} => Len(t) = 1
         /\ t[k].type = "error" => k = 1 /\ (next = "returned" \/ state'.runErr)
    /\ next # "returned" => /\ next = "reading" /\ (wire = <<>> => t # <<>>)
                            /\ \A k \in 1..Len(t) : t[k].type \in {"role", "content", "error"}

LEMMA AddsKeep ==
  ASSUME SInv, pc # "returned", NEW t \in Seq(Chunk), NEW n \in 0..Len(t), NEW next,
         Adds(t, n), \/ n = Len(t) /\ pc' = next
                     \/ n < Len(t) /\ pc' = "returned",
         Fits(t, next),
         run' \in RunState, read' \in Nat,
         state' \in [includeUsage : BOOLEAN, runErr : BOOLEAN],
         state'.includeUsage = state.includeUsage, state.runErr => state'.runErr
  PROVE  SInv'
<1> DEFINE m == Len(wire)
<1>0. m \in Nat /\ wire \in Seq(Chunk) /\ wire' \in Seq(Chunk) /\ Len(wire') = m + n /\ Len(t) \in Nat
  BY DEF Adds, SInv
<1>1. \A k \in 1..m : wire'[k] = wire[k]
  BY DEF Adds
<1>2. \A k \in 1..Len(wire') : k > m => k - m \in 1..n /\ k - m \in 1..Len(t) /\ wire'[k] = t[k - m]
  BY <1>0 DEF Adds
<1>3. (m = 0) = (wire = <<>>)
  BY <1>0
<1>5. Opened'
  <2> SUFFICES ASSUME NEW k \in 1..Len(wire')
               PROVE  (wire'[k].type = "role") = (k = 1) /\ wire'[1] = Role
    BY DEF Opened
  <2>1. CASE k <= m
    BY <2>1, <1>0, <1>1 DEF SInv, Opened
  <2>2. CASE k > m /\ m = 0
    <3>1. wire'[k] = t[k] /\ k \in 1..Len(t) /\ wire'[1] = t[1] /\ 1 \in 1..Len(t)
      BY <2>2, <1>0, <1>2
    <3> QED BY <3>1, <2>2, <1>3 DEF Fits
  <2>3. CASE k > m /\ m > 0
    <3>1. 1 \in 1..m /\ wire[1] = Role /\ wire'[1] = wire[1]
      BY <2>3, <1>0, <1>1 DEF SInv, Opened
    <3>2. k - m \in 1..Len(t) /\ wire'[k] = t[k - m] /\ k # 1
      BY <2>3, <1>0, <1>2
    <3>3. t[k - m].type # "role"
      BY <3>2, <2>3, <1>3 DEF Fits
    <3> QED BY <3>1, <3>2, <3>3
  <2> QED BY <2>1, <2>2, <2>3, <1>0
<1>6. \A k \in 1..m : k \in Body \/ (k \in Of("error") /\ state.runErr)
  BY DEF SInv, Unfinished
<1>7. Of("reason") = {} /\ Of("usage") = {} /\ Of("[DONE]") = {}
  BY <1>6 DEF Of, Body
<1>8. Finished'
  <2> SUFFICES ASSUME NEW k \in 1..Len(wire'), wire'[k].type = "reason", NEW j \in 1..Len(wire')
               PROVE  /\ wire'[k].reason \in {"stop", "length"}
                      /\ j < k => wire'[j].type \in {"role", "content"}
                      /\ j > k => wire'[j].type \in {"usage", "[DONE]"}
    BY DEF Finished, Of, Body
  <2>1. k > m
    BY <1>0, <1>1, <1>7 DEF Of
  <2>2. k - m \in 1..Len(t) /\ wire'[k] = t[k - m]
    BY <2>1, <1>2
  <2>3. k = m + 1 /\ wire'[k].reason \in {"stop", "length"} /\ ~ state.runErr
    BY <2>2, <1>0 DEF Fits
  <2>4. ASSUME j < k PROVE wire'[j].type \in {"role", "content"}
    <3>1. j \in 1..m
      BY <2>4, <2>3, <1>0
    <3>2. j \in Body
      BY <3>1, <1>6, <2>3
    <3> QED BY <3>1, <3>2, <1>1 DEF Body
  <2>5. ASSUME j > k PROVE wire'[j].type \in {"usage", "[DONE]"}
    <3>1. j - m \in 1..Len(t) /\ j - m > 1 /\ wire'[j] = t[j - m]
      BY <2>5, <2>3, <1>0, <1>2
    <3>2. t[j - m] \in Chunk
      BY <3>1
    <3>3. Len(t) # 1
      BY <3>1, <1>0
    <3>4. t[j - m].type \notin {"role", "content", "reason", "error"}
      BY <3>1, <3>3 DEF Fits
    <3> QED BY <3>1, <3>2, <3>4 DEF Chunk
  <2> QED BY <2>3, <2>4, <2>5
<1>9. Metered'
  <2>1. ASSUME NEW k \in 1..Len(wire'), wire'[k].type = "usage"
        PROVE  /\ state'.includeUsage
               /\ k - 1 \in 1..Len(wire') /\ wire'[k - 1].type = "reason"
    <3>1. k > m
      <4>1. ASSUME k \in 1..m PROVE FALSE
        <5>1. wire[k].type = "usage"
          BY <2>1, <4>1, <1>1
        <5> QED BY <5>1, <4>1, <1>7 DEF Of
      <4> QED BY <4>1, <1>0
    <3>2. k - m \in 1..Len(t) /\ wire'[k] = t[k - m]
      BY <3>1, <1>2
    <3>3. k - m = 2 /\ state.includeUsage /\ t[1].type = "reason"
      BY <3>2, <2>1 DEF Fits
    <3>4. k - 1 = m + 1 /\ k - 1 \in 1..Len(wire') /\ (k - 1) - m = 1
      BY <3>3, <1>0
    <3>5. wire'[k - 1] = t[1]
      BY <3>4, <1>2, <1>0
    <3> QED BY <3>3, <3>4, <3>5
  <2>2. ASSUME NEW k \in 1..Len(wire'), wire'[k].type = "[DONE]"
        PROVE  /\ k = Len(wire') /\ pc' = "returned"
               /\ \A j \in 1..Len(wire') : wire'[j].type = "reason" /\ state'.includeUsage =>
                    k - 1 \in 1..Len(wire') /\ wire'[k - 1].type = "usage"
    <3>1. k > m
      <4>1. ASSUME k \in 1..m PROVE FALSE
        <5>1. wire[k].type = "[DONE]"
          BY <2>2, <4>1, <1>1
        <5> QED BY <5>1, <4>1, <1>7 DEF Of
      <4> QED BY <4>1, <1>0
    <3>2. k - m \in 1..n /\ k - m \in 1..Len(t) /\ wire'[k] = t[k - m]
      BY <3>1, <1>2
    <3>3. k - m = Len(t) /\ next = "returned"
      BY <3>2, <2>2 DEF Fits
    <3>4. k = Len(wire') /\ pc' = "returned"
      BY <3>2, <3>3, <1>0
    <3>5. ASSUME NEW j \in 1..Len(wire'), wire'[j].type = "reason", state'.includeUsage
          PROVE  k - 1 \in 1..Len(wire') /\ wire'[k - 1].type = "usage"
      <4>1. j > m
        <5>1. ASSUME j \in 1..m PROVE FALSE
          <6>1. wire[j].type = "reason"
            BY <3>5, <5>1, <1>1
          <6> QED BY <6>1, <5>1, <1>7 DEF Of
        <5> QED BY <5>1, <1>0
      <4>2. j - m \in 1..Len(t) /\ wire'[j] = t[j - m]
        BY <4>1, <1>2
      <4>3. j - m = 1 /\ t[1].type = "reason"
        BY <4>2, <3>5 DEF Fits
      <4>4. t[(k - m) - 1].type = "usage"
        BY <4>3, <3>2, <3>5, <2>2 DEF Fits
      <4>5. k - m # 1
        BY <4>3, <3>2, <2>2
      <4>6. k - 1 \in 1..Len(wire') /\ k - 1 > m /\ (k - 1) - m = (k - m) - 1
        BY <4>5, <3>2, <1>0
      <4>7. wire'[k - 1] = t[(k - 1) - m]
        BY <4>6, <1>2
      <4> QED BY <4>4, <4>6, <4>7
    <3> QED BY <3>4, <3>5
  <2> QED BY <2>1, <2>2 DEF Metered, Of
<1>10. Unfinished'
  <2> SUFFICES ASSUME pc' # "returned"
               PROVE  /\ (wire' = <<>>) = (pc' = "opening")
                      /\ \A k \in 1..Len(wire') :
                           \/ wire'[k].type \in {"role", "content"}
                           \/ wire'[k].type = "error" /\ state'.runErr
    BY DEF Unfinished, Of, Body
  <2>1. pc' = next /\ next = "reading" /\ n = Len(t)
    BY DEF Fits
  <2>2. Len(wire') > 0
    BY <2>1, <1>0, <1>3 DEF Fits
  <2>3. ASSUME NEW k \in 1..Len(wire')
        PROVE  \/ wire'[k].type \in {"role", "content"}
               \/ wire'[k].type = "error" /\ state'.runErr
    <3>1. CASE k <= m
      BY <3>1, <1>0, <1>1, <1>6 DEF Body, Of
    <3>2. CASE k > m
      <4>1. k - m \in 1..Len(t) /\ wire'[k] = t[k - m]
        BY <3>2, <1>2
      <4> QED BY <4>1, <2>1 DEF Fits
    <3> QED BY <3>1, <3>2, <1>0
  <2> QED BY <2>1, <2>2, <2>3, <1>0
<1>4. pc' \in {"opening", "reading", "returned"}
  BY DEF Fits
<1> QED BY <1>0, <1>4, <1>5, <1>8, <1>9, <1>10 DEF SInv

LEMMA OpenKeeps == SInv /\ Open => SInv'
<1> SUFFICES ASSUME SInv, Open PROVE SInv'
  OBVIOUS
<1> DEFINE t == <<Role>>
<1>1. t \in Seq(Chunk) /\ Len(t) = 1 /\ t[1] = Role /\ Role.type = "role"
  BY DEF Role, chunk, Chunk
<1>2. pc = "opening" /\ wire = <<>> /\ Write(t, "reading") /\ UNCHANGED <<run, read, state>>
  BY DEF Open, SInv, Unfinished
<1>3. Fits(t, "reading")
  BY <1>1, <1>2 DEF Fits
<1> HIDE DEF t
<1>4. PICK n \in 0..Len(t) : /\ Adds(t, n)
                             /\ \/ n = Len(t) /\ pc' = "reading"
                                \/ n < Len(t) /\ pc' = "returned"
  BY <1>1, <1>2, WriteAdds DEF SInv
<1>5. /\ run' \in RunState /\ read' \in Nat
      /\ state' \in [includeUsage : BOOLEAN, runErr : BOOLEAN]
      /\ state'.includeUsage = state.includeUsage /\ (state.runErr => state'.runErr)
  BY <1>2 DEF SInv
<1> QED BY <1>1, <1>2, <1>3, <1>4, <1>5, AddsKeep

LEMMA EndKeeps == ASSUME NEW err, SInv, StreamEnd(err) PROVE SInv'
<1> DEFINE t == CASE err = "eof" -> <<Done>>
                  [] err = "canceled" -> <<>>
                  [] OTHER -> <<ErrorData, Done>>
<1>0. Done \in Chunk /\ ErrorData \in Chunk
  BY DEF Done, ErrorData, chunk, Chunk
<1>1. /\ t \in Seq(Chunk)
      /\ \A k \in 1..Len(t) : \/ t[k] = ErrorData /\ k = 1
                              \/ t[k] = Done /\ k = Len(t) /\ t[1] \in {Done, ErrorData}
  <2>1. CASE err = "eof"
    <3>1. t = <<Done>>
      BY <2>1
    <3> HIDE DEF t
    <3> QED BY <3>1, <1>0
  <2>2. CASE err = "canceled"
    <3>1. t = <<>>
      BY <2>2
    <3> HIDE DEF t
    <3> QED BY <3>1, <1>0
  <2>3. CASE err \notin {"eof", "canceled"}
    <3>1. t = <<ErrorData, Done>>
      BY <2>3
    <3> HIDE DEF t
    <3> QED BY <3>1, <1>0
  <2> QED BY <2>1, <2>2, <2>3
<1>2. pc = "reading" /\ wire # <<>> /\ Write(t, "returned") /\ UNCHANGED <<run, read, state>>
  BY DEF StreamEnd, SInv, Unfinished
<1>3. Fits(t, "returned")
  BY <1>1, <1>2 DEF Fits, Done, ErrorData, chunk
<1> HIDE DEF t
<1>4. PICK n \in 0..Len(t) : /\ Adds(t, n)
                             /\ \/ n = Len(t) /\ pc' = "returned"
                                \/ n < Len(t) /\ pc' = "returned"
  BY <1>1, <1>2, WriteAdds DEF SInv
<1>5. /\ run' \in RunState /\ read' \in Nat
      /\ state' \in [includeUsage : BOOLEAN, runErr : BOOLEAN]
      /\ state'.includeUsage = state.includeUsage /\ (state.runErr => state'.runErr)
  BY <1>2 DEF SInv
<1> QED BY <1>1, <1>2, <1>3, <1>4, <1>5, AddsKeep

\* The chunks of an event, with [DONE] after the last one.
EventChunks(e) ==
    writeEvent(state, e, read + 1) \o (IF Terminal(e) THEN <<Done>> ELSE <<>>)

LEMMA OneMore ==
  ASSUME NEW p \in Seq(Chunk), NEW a \in Chunk
  PROVE  /\ p \o <<a>> \in Seq(Chunk) /\ Len(p \o <<a>>) = Len(p) + 1
         /\ (p \o <<a>>)[Len(p) + 1] = a
         /\ \A k \in 1..Len(p) : (p \o <<a>>)[k] = p[k]
OBVIOUS

LEMMA EventFits ==
  ASSUME SInv, pc = "reading", NEW e,
         state' = [state EXCEPT !.runErr = @ \/ e.type = "error"]
  PROVE  /\ EventChunks(e) \in Seq(Chunk)
         /\ Fits(EventChunks(e), IF Terminal(e) THEN "returned" ELSE "reading")
<1> DEFINE n == read + 1
           f == normalizeFinishReason(e.reason)
           next == IF Terminal(e) THEN "returned" ELSE "reading"
<1>1. n \in Nat /\ wire # <<>>
  BY DEF SInv, Unfinished
<1>2. /\ Content(n) \in Chunk /\ ErrorData \in Chunk /\ Done \in Chunk /\ UsageChunk \in Chunk
      /\ Content(n).type = "content" /\ ErrorData.type = "error" /\ Done.type = "[DONE]"
      /\ UsageChunk.type = "usage"
  BY <1>1 DEF Content, ErrorData, Done, UsageChunk, chunk, Chunk
<1>3. f # "tool_calls" => /\ Reason(f) \in Chunk /\ Reason(f).type = "reason"
                          /\ Reason(f).reason \in {"stop", "length"}
  BY DEF normalizeFinishReason, Reason, chunk, Chunk
<1>4. e.type = "finish" => (Terminal(e) <=> f # "tool_calls")
  <2>1. e.reason \in StepReasons => f = "tool_calls"
    BY DEF normalizeFinishReason, StepReasons
  <2>2. e.reason \notin StepReasons => f \in {"length", "stop"}
    BY DEF normalizeFinishReason
  <2> QED BY <2>1, <2>2 DEF Terminal
<1> HIDE DEF n, f
<1>5. CASE e.type = "text"
  <2>1. EventChunks(e) = <<Content(n)>> /\ next = "reading"
    BY <1>5 DEF EventChunks, writeEvent, Terminal, n
  <2> QED BY <2>1, <1>1, <1>2 DEF Fits
<1>6. CASE e.type = "error"
  <2>1. EventChunks(e) = <<ErrorData>> /\ next = "reading"
    BY <1>6 DEF EventChunks, writeEvent, Terminal
  <2>2. state'.runErr
    BY <1>6 DEF SInv
  <2> QED BY <2>1, <2>2, <1>1, <1>2 DEF Fits
<1>7. CASE e.type \notin {"text", "error", "finish"}
  <2>1. EventChunks(e) = <<>> /\ next = "reading"
    BY <1>7 DEF EventChunks, writeEvent, Terminal
  <2> QED BY <2>1, <1>1 DEF Fits
<1>8. CASE e.type = "finish" /\ f = "tool_calls"
  <2>1. writeEvent(state, e, n) = <<>> /\ ~ Terminal(e)
    BY <1>8, <1>4 DEF writeEvent, writeFinish, f
  <2>2. EventChunks(e) = <<>> /\ next = "reading"
    BY <2>1 DEF EventChunks, n
  <2> QED BY <2>2, <1>1 DEF Fits
<1>9. CASE e.type = "finish" /\ f # "tool_calls"
  <2>1. next = "returned" /\ EventChunks(e) = writeFinish(e.reason, state) \o <<Done>>
    BY <1>9, <1>4 DEF EventChunks, writeEvent
  <2>2. CASE state.runErr
    <3>1. EventChunks(e) = <<Done>>
      BY <2>1, <2>2 DEF writeFinish
    <3> QED BY <3>1, <2>1, <1>1, <1>2 DEF Fits
  <2>3. CASE ~ state.runErr /\ state.includeUsage
    <3> DEFINE p == <<Reason(f)>> \o <<UsageChunk>>
    <3>1. EventChunks(e) = p \o <<Done>>
      BY <2>1, <2>3, <1>9 DEF writeFinish, f
    <3>2. p \in Seq(Chunk) /\ Len(p) = 2 /\ p[1] = Reason(f) /\ p[2] = UsageChunk
      BY <1>2, <1>3, <1>9
    <3> HIDE DEF p
    <3>3. /\ EventChunks(e) \in Seq(Chunk) /\ Len(EventChunks(e)) = 3 /\ EventChunks(e)[3] = Done
          /\ \A k \in 1..2 : EventChunks(e)[k] = p[k]
      <4> DEFINE q == p \o <<Done>>
      <4>1. /\ q \in Seq(Chunk) /\ Len(q) = Len(p) + 1 /\ q[Len(p) + 1] = Done
            /\ \A k \in 1..Len(p) : q[k] = p[k]
        BY <1>2, <3>2, OneMore
      <4> HIDE DEF q
      <4>2. Len(q) = 3 /\ q[3] = Done /\ \A k \in 1..2 : q[k] = p[k]
        BY <4>1, <3>2
      <4> QED BY <3>1, <4>1, <4>2 DEF q
    <3>4. EventChunks(e)[1] = Reason(f) /\ EventChunks(e)[2] = UsageChunk
      BY <3>2, <3>3
    <3> QED BY <3>3, <3>4, <2>1, <2>3, <1>1, <1>2, <1>3, <1>9 DEF Fits
  <2>4. CASE ~ state.runErr /\ ~ state.includeUsage
    <3> DEFINE p == <<Reason(f)>> \o <<>>
    <3>1. EventChunks(e) = p \o <<Done>>
      BY <2>1, <2>4, <1>9 DEF writeFinish, f
    <3>2. p \in Seq(Chunk) /\ Len(p) = 1 /\ p[1] = Reason(f)
      BY <1>2, <1>3, <1>9
    <3> HIDE DEF p
    <3>3. /\ EventChunks(e) \in Seq(Chunk) /\ Len(EventChunks(e)) = 2 /\ EventChunks(e)[2] = Done
          /\ \A k \in 1..1 : EventChunks(e)[k] = p[k]
      <4> DEFINE q == p \o <<Done>>
      <4>1. /\ q \in Seq(Chunk) /\ Len(q) = Len(p) + 1 /\ q[Len(p) + 1] = Done
            /\ \A k \in 1..Len(p) : q[k] = p[k]
        BY <1>2, <3>2, OneMore
      <4> HIDE DEF q
      <4>2. Len(q) = 2 /\ q[2] = Done /\ \A k \in 1..1 : q[k] = p[k]
        BY <4>1, <3>2
      <4> QED BY <3>1, <4>1, <4>2 DEF q
    <3>4. EventChunks(e)[1] = Reason(f)
      BY <3>2, <3>3
    <3> QED BY <3>3, <3>4, <2>1, <2>4, <1>1, <1>2, <1>3, <1>9 DEF Fits
  <2> QED BY <2>2, <2>3, <2>4
<1> QED BY <1>5, <1>6, <1>7, <1>8, <1>9

LEMMA EventKeeps == ASSUME SInv, NEW e \in NextEvents(run), Event(e) PROVE SInv'
<1> DEFINE t == EventChunks(e)
           next == IF Terminal(e) THEN "returned" ELSE "reading"
<1>1. /\ pc = "reading" /\ Write(t, next)
      /\ run' = After(run, e) /\ read' = read + 1
      /\ state' = [state EXCEPT !.runErr = @ \/ e.type = "error"]
  BY DEF Event, EventChunks
<1>2. t \in Seq(Chunk) /\ Fits(t, next)
  BY <1>1, EventFits
<1> HIDE DEF t, next
<1>3. PICK n \in 0..Len(t) : /\ Adds(t, n)
                             /\ \/ n = Len(t) /\ pc' = next
                                \/ n < Len(t) /\ pc' = "returned"
  BY <1>1, <1>2, WriteAdds DEF SInv
<1>4. run' \in RunState /\ read' \in Nat
  BY <1>1, EventTypes DEF SInv
<1>5. /\ state' \in [includeUsage : BOOLEAN, runErr : BOOLEAN]
      /\ state'.includeUsage = state.includeUsage /\ (state.runErr => state'.runErr)
  BY <1>1 DEF SInv
<1> QED BY <1>1, <1>2, <1>3, <1>4, <1>5, AddsKeep

LEMMA StepSInv == SInv /\ [Next]_vars => SInv'
<1> SUFFICES ASSUME SInv, [Next]_vars PROVE SInv'
  OBVIOUS
<1>1. CASE UNCHANGED vars
  BY <1>1 DEF vars, SInv, Opened, Finished, Metered, Unfinished, Of, Body
<1> QED BY <1>1, OpenKeeps, EventKeeps, EndKeeps DEF Next

LEMMA ChatInvariant == Spec => []SInv
<1> QED BY InitSInv, StepSInv, PTL DEF Spec

-----------------------------------------------------------------------------

\* However long a run is and wherever its writing fails, the choice of its stream is
\* finished at most once, by a finish_reason the client knows, and nothing but usage and
\* [DONE] follows.
THEOREM StreamFinishedOnce == Spec => []FinishedOnce
<1>1. SInv => FinishedOnce
  <2> SUFFICES ASSUME SInv PROVE FinishedOnce
    OBVIOUS
  <2>1. wire # <<>> => wire[1] = Role /\ Of("role") = {1}
    <3> SUFFICES ASSUME wire # <<>> PROVE wire[1] = Role /\ Of("role") = {1}
      OBVIOUS
    <3>1. 1 \in 1..Len(wire)
      BY DEF SInv
    <3> QED BY <3>1 DEF SInv, Opened, Of
  <2>2. Cardinality(Of("reason")) <= 1
    <3>1. \A k, j \in Of("reason") : k = j
      BY DEF SInv, Finished, Of, Body
    <3>2. CASE Of("reason") = {}
      BY <3>2, FS_EmptySet
    <3>3. ASSUME NEW k \in Of("reason") PROVE Cardinality(Of("reason")) <= 1
      <4>1. Of("reason") = {k}
        BY <3>1, <3>3
      <4> QED BY <4>1, FS_Singleton
    <3> QED BY <3>2, <3>3
  <2>3. ASSUME NEW k \in Of("reason")
        PROVE  /\ wire[k].reason \in {"stop", "length"}
               /\ \A j \in (k + 1)..Len(wire) : j \in Of("usage") \cup Of("[DONE]")
               /\ Of("error") = {}
    <3>1. wire[k].reason \in {"stop", "length"} /\ k \in 1..Len(wire) /\ wire[k].type = "reason"
      BY <2>3 DEF SInv, Finished, Of
    <3>2. \A j \in 1..Len(wire) : j > k => j \in Of("usage") \cup Of("[DONE]")
      BY <2>3 DEF SInv, Finished
    <3>3. \A j \in 1..Len(wire) : wire[j].type # "error"
      BY <2>3, <3>1, <3>2 DEF SInv, Finished, Of, Body
    <3> QED BY <3>1, <3>2, <3>3 DEF Of
  <2>4. \A k \in Of("[DONE]") : k = Len(wire) /\ pc = "returned"
    BY DEF SInv, Metered
  <2> QED BY <2>1, <2>2, <2>3, <2>4 DEF FinishedOnce
<1> QED BY <1>1, ChatInvariant, PTL

\* Usage is written where the client asked for it and its choice was finished, right after
\* the finish_reason, and nowhere else.
THEOREM StreamMetered == Spec => []UsageOnRequest
<1>1. SInv => UsageOnRequest
  BY DEF SInv, Metered, UsageOnRequest
<1> QED BY <1>1, ChatInvariant, PTL

-----------------------------------------------------------------------------
(* The collected response *)

Collections == [content : Seq(Nat), reason : {"stop", "length"}, failed : BOOLEAN]

\* The content chunks of some positions q are the pieces of a content c, in their order.
Says(q, c) ==
    LET contents == {k \in 1..Len(q) : q[k].type = "content"} IN
    /\ Len(c) = Cardinality(contents)
    /\ \A k \in contents : q[k].content = c[Cardinality({j \in contents : j <= k})]

\* As long as the stream is read the second loop is where the first one is.
CollectInv ==
    /\ collected \in Collections
    /\ pc # "returned" =>
         /\ result = "none" /\ collected.reason = "stop"
         /\ collected.failed = state.runErr
         /\ state.runErr => Of("error") # {}
         /\ Says(wire, collected.content)
    /\ CollectAgrees

\* The same content chunks say the same content.
LEMMA SameSays ==
  ASSUME NEW q \in Seq(Chunk), NEW r \in Seq(Chunk), NEW c, Says(q, c), Len(q) <= Len(r),
         \A k \in 1..Len(q) : r[k] = q[k],
         \A k \in 1..Len(r) : k > Len(q) => r[k].type # "content"
  PROVE  Says(r, c)
<1> DEFINE before == {k \in 1..Len(q) : q[k].type = "content"}
           after == {k \in 1..Len(r) : r[k].type = "content"}
<1>1. after = before
  OBVIOUS
<1>2. \A k \in before : r[k] = q[k]
  OBVIOUS
<1>3. /\ Len(c) = Cardinality(before)
      /\ \A k \in before : q[k].content = c[Cardinality({j \in before : j <= k})]
  BY DEF Says
<1>4. Says(r, c) = /\ Len(c) = Cardinality(after)
                   /\ \A k \in after : r[k].content = c[Cardinality({j \in after : j <= k})]
  BY DEF Says
<1> HIDE DEF before, after
<1> QED BY <1>1, <1>2, <1>3, <1>4

\* A content chunk at the end says one piece more.
LEMMA MoreSays ==
  ASSUME NEW q \in Seq(Chunk), NEW r \in Seq(Chunk), NEW c \in Seq(Nat), Says(q, c), NEW n \in Nat,
         Len(r) = Len(q) + 1, \A k \in 1..Len(q) : r[k] = q[k], r[Len(q) + 1] = Content(n)
  PROVE  Says(r, Append(c, n))
<1> DEFINE last == Len(q) + 1
           before == {k \in 1..Len(q) : q[k].type = "content"}
           after == {k \in 1..Len(r) : r[k].type = "content"}
           upto(S, k) == {j \in S : j <= k}
<1>1. /\ Len(q) \in Nat /\ last \in 1..Len(r) /\ last \notin before
      /\ r[last].type = "content" /\ r[last].content = n
  BY DEF Content, chunk
<1>2. after = before \cup {last}
  BY <1>1
<1>3. /\ IsFiniteSet(before) /\ Cardinality(before) \in Nat
      /\ Cardinality(before \cup {last}) = Cardinality(before) + 1
  <2>1. IsFiniteSet(1..Len(q))
    BY FS_Interval
  <2>2. IsFiniteSet(before)
    BY <2>1, FS_Subset
  <2> HIDE DEF before
  <2> QED BY <1>1, <2>2, FS_AddElement, FS_CardinalityType
<1>4. /\ Len(c) = Cardinality(before)
      /\ \A k \in before : q[k].content = c[Cardinality(upto(before, k))]
  BY DEF Says
<1>5. ASSUME NEW k \in before
      PROVE  /\ upto(after, k) = upto(before, k) /\ r[k] = q[k]
             /\ Cardinality(upto(before, k)) \in 1..Len(c)
  <2>1. k \in 1..Len(q) /\ before \subseteq 1..Len(q)
    OBVIOUS
  <2>2. ~ (last <= k)
    BY <1>1, <2>1
  <2> HIDE DEF before, after, last
  <2>3. upto(after, k) = upto(before, k)
    BY <1>2, <2>2
  <2>4. IsFiniteSet(upto(before, k)) /\ Cardinality(upto(before, k)) <= Cardinality(before)
    <3>1. upto(before, k) \subseteq before
      OBVIOUS
    <3> QED BY <1>3, <3>1, FS_Subset
  <2>5. Cardinality(upto(before, k)) \in Nat /\ Cardinality(upto(before, k)) # 0
    <3>1. k \in upto(before, k)
      BY <2>1
    <3> HIDE DEF upto
    <3> QED BY <2>4, <3>1, FS_CardinalityType, FS_EmptySet
  <2> HIDE DEF upto
  <2> QED BY <1>3, <1>4, <2>1, <2>3, <2>4, <2>5
<1>6. upto(after, last) = after
  <2>1. \A j \in after : j <= last
    BY <1>1
  <2> HIDE DEF after, last
  <2> QED BY <2>1
<1>7. /\ Len(Append(c, n)) = Len(c) + 1 /\ Append(c, n)[Len(c) + 1] = n
      /\ \A i \in 1..Len(c) : Append(c, n)[i] = c[i]
  OBVIOUS
<1>8. Says(r, Append(c, n)) =
        /\ Len(Append(c, n)) = Cardinality(after)
        /\ \A k \in after : r[k].content = Append(c, n)[Cardinality(upto(after, k))]
  BY DEF Says
<1> HIDE DEF before, after, last, upto
<1>9. Len(Append(c, n)) = Cardinality(after)
  BY <1>2, <1>3, <1>4, <1>7
<1>10. ASSUME NEW k \in after PROVE r[k].content = Append(c, n)[Cardinality(upto(after, k))]
  <2>1. CASE k \in before
    BY <1>4, <1>5, <1>7, <2>1
  <2>2. CASE k = last
    <3>1. Cardinality(upto(after, k)) = Len(c) + 1
      BY <1>2, <1>3, <1>4, <1>6, <2>2
    <3> QED BY <1>1, <1>7, <2>2, <3>1
  <2> QED BY <1>2, <2>1, <2>2
<1> QED BY <1>8, <1>9, <1>10

LEMMA CollectInit == Init => CollectInv
<1> SUFFICES ASSUME Init PROVE CollectInv
  OBVIOUS
<1>1. /\ wire = <<>> /\ Len(wire) = 0 /\ result = "none" /\ state.runErr = FALSE
      /\ collected = NothingCollected
  BY DEF Init, newStreamState
<1>2. collected \in Collections /\ collected.reason = "stop" /\ collected.failed = FALSE /\ collected.content = <<>>
  BY <1>1 DEF NothingCollected, Collections
<1>3. {k \in 1..Len(wire) : wire[k].type = "content"} = {}
  BY <1>1
<1>4. Says(wire, <<>>)
  BY <1>3, FS_EmptySet DEF Says
<1> QED BY <1>1, <1>2, <1>4 DEF CollectInv, CollectAgrees

\* The first chunks of some that hold no content and no error leave the collected response
\* as it was.
LEMMA AddsSay ==
  ASSUME SInv, NEW t \in Seq(Chunk), NEW n \in 0..Len(t), Adds(t, n), NEW c, Says(wire, c),
         \A k \in 1..Len(t) : t[k].type # "content"
  PROVE  Says(wire', c)
<1>1. /\ wire \in Seq(Chunk) /\ wire' \in Seq(Chunk) /\ Len(wire') = Len(wire) + n
      /\ \A k \in 1..Len(wire) : wire'[k] = wire[k]
      /\ \A k \in 1..n : wire'[Len(wire) + k] = t[k]
  BY DEF SInv, Adds
<1>2. Len(wire) \in Nat /\ n \in Nat /\ n <= Len(t) /\ Len(t) \in Nat
  BY <1>1
<1>3. ASSUME NEW k \in 1..Len(wire'), k > Len(wire) PROVE wire'[k].type # "content"
  <2>1. k - Len(wire) \in 1..n /\ k - Len(wire) \in 1..Len(t) /\ k = Len(wire) + (k - Len(wire))
    BY <1>1, <1>2, <1>3
  <2>2. PICK j \in 1..n : k = Len(wire) + j /\ j \in 1..Len(t)
    BY <2>1
  <2>3. wire'[k] = t[j]
    BY <1>1, <2>2
  <2> QED BY <2>2, <2>3
<1>4. Len(wire) <= Len(wire')
  BY <1>1, <1>2
<1> QED BY <1>1, <1>3, <1>4, SameSays

\* An error chunk stays on the wire.
LEMMA ErrorStays ==
  ASSUME SInv, NEW t, NEW n \in Nat, Adds(t, n), Of("error") # {} PROVE Of("error")' # {}
<1>1. PICK k \in 1..Len(wire) : wire[k].type = "error"
  BY DEF Of
<1>2. k \in 1..Len(wire') /\ wire'[k].type = "error"
  BY <1>1 DEF Adds, SInv
<1> QED BY <1>2 DEF Of

LEMMA CollectOpen == SInv /\ CollectInv /\ Open => CollectInv'
<1> SUFFICES ASSUME SInv, CollectInv, Open PROVE CollectInv'
  OBVIOUS
<1> DEFINE t == <<Role>>
<1>1. t \in Seq(Chunk) /\ Len(t) = 1 /\ t[1].type = "role"
  BY DEF Role, chunk, Chunk
<1>2. pc = "opening" /\ Write(t, "reading") /\ UNCHANGED <<run, read, state, result, collected>>
  BY DEF Open
<1> HIDE DEF t
<1>3. PICK n \in 0..Len(t) : Adds(t, n)
  BY <1>1, <1>2, WriteAdds DEF SInv
<1>4. Says(wire', collected.content)
  BY <1>1, <1>2, <1>3, AddsSay DEF CollectInv
<1>5. state.runErr => Of("error")' # {}
  BY <1>2, <1>3, ErrorStays DEF CollectInv
<1> QED BY <1>2, <1>4, <1>5 DEF CollectInv, CollectAgrees

LEMMA CollectEnd == ASSUME NEW err, SInv, CollectInv, StreamEnd(err) PROVE CollectInv'
<1>1. pc = "reading" /\ pc' = "returned" /\ UNCHANGED <<run, read, state, result, collected>>
  BY DEF StreamEnd, Write
<1> QED BY <1>1 DEF CollectInv, CollectAgrees

LEMMA Chunks ==
  ASSUME NEW a \in Chunk, NEW b \in Chunk, NEW p \in Seq(Chunk), p = <<>> \/ p = <<b>>,
         NEW c \in Chunk
  PROVE  LET s == <<a>> \o p \o <<c>> IN
         /\ s \in Seq(Chunk) /\ s[1] = a
         /\ \/ Len(s) = 2 /\ s[2] = c
            \/ Len(s) = 3 /\ s[2] = b /\ s[3] = c
<1> DEFINE q == <<a>> \o p
<1>1. /\ q \in Seq(Chunk) /\ q[1] = a
      /\ Len(q) = 1 \/ (Len(q) = 2 /\ q[2] = b)
  <2>1. CASE p = <<>>
    <3>1. q \in Seq(Chunk) /\ Len(q) = 1 /\ q[1] = a
      BY <2>1
    <3> QED BY <3>1
  <2>2. CASE p = <<b>>
    <3>1. q \in Seq(Chunk) /\ Len(q) = 2 /\ q[1] = a /\ q[2] = b
      BY <2>2
    <3> QED BY <2>2, <3>1
  <2> QED BY <2>1, <2>2
<1> HIDE DEF q
<1>2. /\ q \o <<c>> \in Seq(Chunk) /\ Len(q \o <<c>>) = Len(q) + 1
      /\ (q \o <<c>>)[Len(q) + 1] = c
      /\ \A k \in 1..Len(q) : (q \o <<c>>)[k] = q[k]
  BY <1>1, OneMore
<1>3. CASE Len(q) = 1
  <2>1. Len(q \o <<c>>) = 2 /\ (q \o <<c>>)[2] = c /\ (q \o <<c>>)[1] = a
    BY <1>1, <1>2, <1>3
  <2> QED BY <1>2, <2>1 DEF q
<1>4. CASE Len(q) = 2 /\ q[2] = b
  <2>1. Len(q \o <<c>>) = 3 /\ (q \o <<c>>)[3] = c /\ (q \o <<c>>)[2] = b /\ (q \o <<c>>)[1] = a
    BY <1>1, <1>2, <1>4
  <2> QED BY <1>2, <2>1 DEF q
<1> QED BY <1>1, <1>3, <1>4

\* The chunks of an event that does not end the run.
LEMMA EventSays ==
  ASSUME NEW e, ~ Terminal(e)
  PROVE  EventChunks(e) = CASE e.type = "text" -> <<Content(read + 1)>>
                            [] e.type = "error" -> <<ErrorData>>
                            [] OTHER -> <<>>
<1>1. EventChunks(e) = writeEvent(state, e, read + 1) \o <<>>
  BY DEF EventChunks
<1>2. ASSUME e.type = "finish" PROVE writeEvent(state, e, read + 1) = <<>>
  <2>1. e.reason \in StepReasons
    BY <1>2 DEF Terminal
  <2>2. normalizeFinishReason(e.reason) = "tool_calls"
    BY <2>1 DEF normalizeFinishReason, StepReasons
  <2>3. writeEvent(state, e, read + 1) = writeFinish(e.reason, state)
    BY <1>2 DEF writeEvent
  <2> QED BY <2>2, <2>3 DEF writeFinish
<1>3. writeEvent(state, e, read + 1) = CASE e.type = "text" -> <<Content(read + 1)>>
                                         [] e.type = "error" -> <<ErrorData>>
                                         [] OTHER -> <<>>
  BY <1>2 DEF writeEvent
<1>4. <<Content(read + 1)>> \o <<>> = <<Content(read + 1)>> /\ <<ErrorData>> \o <<>> = <<ErrorData>> /\ <<>> \o <<>> = <<>>
  OBVIOUS
<1> QED BY <1>1, <1>3, <1>4

\* The chunks of the event that ends the run.
LEMMA TerminalSays ==
  ASSUME SInv, pc = "reading", NEW e, Terminal(e)
  PROVE  LET t == EventChunks(e) IN
         /\ t \in Seq(Chunk) /\ Len(t) > 0
         /\ \A k \in 1..Len(t) : /\ t[k].type \notin {"content", "error"}
                                 /\ t[k].type = "[DONE]" => k = Len(t)
         /\ ~ state.runErr => /\ Len(t) > 1 /\ t[1].type = "reason"
                              /\ t[1].reason = normalizeFinishReason(e.reason)
<1> DEFINE f == normalizeFinishReason(e.reason)
           t == EventChunks(e)
<1>1. e.type = "finish" /\ f \in {"stop", "length"} /\ f # "tool_calls"
  BY DEF Terminal, normalizeFinishReason
<1>2. /\ Reason(f) \in Chunk /\ Reason(f).type = "reason" /\ Reason(f).reason = f
      /\ Done \in Chunk /\ Done.type = "[DONE]"
      /\ UsageChunk \in Chunk /\ UsageChunk.type = "usage"
  BY <1>1 DEF Reason, Done, UsageChunk, chunk, Chunk
<1>3. t = writeFinish(e.reason, state) \o <<Done>>
  BY <1>1 DEF EventChunks, writeEvent
<1> HIDE DEF f, t
<1>4. CASE state.runErr
  <2>1. t = <<Done>>
    BY <1>3, <1>4 DEF writeFinish
  <2> QED BY <1>2, <1>4, <2>1 DEF t
<1>5. CASE ~ state.runErr
  <2> DEFINE p == IF state.includeUsage THEN <<UsageChunk>> ELSE <<>>
  <2>1. t = <<Reason(f)>> \o p \o <<Done>>
    BY <1>1, <1>3, <1>5 DEF writeFinish, f
  <2>2. p \in Seq(Chunk) /\ (p = <<>> \/ p = <<UsageChunk>>)
    BY <1>2
  <2> HIDE DEF p
  <2>3. /\ t \in Seq(Chunk) /\ t[1] = Reason(f)
        /\ \/ Len(t) = 2 /\ t[2] = Done
           \/ Len(t) = 3 /\ t[2] = UsageChunk /\ t[3] = Done
    BY <1>2, <2>1, <2>2, Chunks
  <2>4. ASSUME NEW k \in 1..Len(t)
        PROVE  /\ t[k] \in {Reason(f), UsageChunk, Done}
               /\ t[k].type = "[DONE]" => k = Len(t)
    <3>1. CASE Len(t) = 2 /\ t[2] = Done
      <4>1. k \in 1..2
        BY <3>1
      <4>2. k = 1 \/ k = 2
        BY <4>1
      <4> QED BY <1>2, <2>3, <3>1, <4>2
    <3>2. CASE Len(t) = 3 /\ t[2] = UsageChunk /\ t[3] = Done
      <4>1. k \in 1..3
        BY <3>2
      <4>2. k = 1 \/ k = 2 \/ k = 3
        BY <4>1
      <4> QED BY <1>2, <2>3, <3>2, <4>2
    <3> QED BY <2>3, <3>1, <3>2
  <2>5. Len(t) > 1 /\ Len(t) > 0
    BY <2>3
  <2>6. \A k \in 1..Len(t) : /\ t[k].type \notin {"content", "error"}
                             /\ t[k].type = "[DONE]" => k = Len(t)
    BY <1>2, <2>4
  <2>7. t[1].type = "reason" /\ t[1].reason = normalizeFinishReason(e.reason)
    BY <1>2, <2>3 DEF f
  <2>8. /\ t \in Seq(Chunk) /\ Len(t) > 0
        /\ \A k \in 1..Len(t) : /\ t[k].type \notin {"content", "error"}
                                /\ t[k].type = "[DONE]" => k = Len(t)
        /\ ~ state.runErr => /\ Len(t) > 1 /\ t[1].type = "reason"
                             /\ t[1].reason = normalizeFinishReason(e.reason)
    BY <2>3, <2>5, <2>6, <2>7
  <2> QED BY <2>8 DEF t
<1> QED BY <1>4, <1>5

LEMMA CollectEventIs ==
  ASSUME SInv, CollectInv, NEW e \in NextEvents(run), Event(e)
  PROVE  CollectInv'
<1> DEFINE t == EventChunks(e)
           next == IF Terminal(e) THEN "returned" ELSE "reading"
<1>1. /\ pc = "reading" /\ Write(t, next)
      /\ state' = [state EXCEPT !.runErr = @ \/ e.type = "error"]
      /\ result' = IF Terminal(e) THEN e.reason ELSE result
      /\ collected' = CollectEvent(collected, e, read + 1)
  BY DEF Event, EventChunks
<1>2. t \in Seq(Chunk)
  BY <1>1, EventFits
<1>3. read + 1 \in Nat /\ wire \in Seq(Chunk) /\ state \in [includeUsage : BOOLEAN, runErr : BOOLEAN]
  BY DEF SInv
<1>4. PICK n \in 0..Len(t) : /\ Adds(t, n)
                             /\ \/ n = Len(t) /\ pc' = next
                                \/ n < Len(t) /\ pc' = "returned"
  <2> HIDE DEF t, next
  <2> QED BY <1>1, <1>2, <1>3, WriteAdds
<1>5. /\ collected \in Collections /\ result = "none" /\ collected.reason = "stop"
      /\ collected.failed = state.runErr /\ (state.runErr => Of("error") # {})
      /\ Says(wire, collected.content)
  BY <1>1 DEF CollectInv
<1>6. /\ wire' \in Seq(Chunk) /\ Len(wire') = Len(wire) + n /\ Len(wire) \in Nat /\ n \in Nat
      /\ \A k \in 1..Len(wire) : wire'[k] = wire[k]
      /\ \A k \in 1..n : wire'[Len(wire) + k] = t[k]
  BY <1>3, <1>4 DEF Adds
<1>7. state'.runErr = (state.runErr \/ e.type = "error")
  BY <1>1, <1>3
<1>8. collected' \in Collections
  <2>1. Append(collected.content, read + 1) \in Seq(Nat)
    BY <1>3, <1>5 DEF Collections
  <2>2. Terminal(e) => normalizeFinishReason(e.reason) \in {"stop", "length"}
    BY DEF Terminal, normalizeFinishReason
  <2> QED BY <1>1, <1>5, <2>1, <2>2 DEF CollectEvent, Collections
<1>9. CASE ~ Terminal(e)
  <2>1. result' = "none"
    BY <1>1, <1>5, <1>9
  <2>2. collected'.reason = "stop" /\ collected'.failed = state'.runErr
    BY <1>1, <1>5, <1>7, <1>9 DEF CollectEvent, Collections
  <2>3. ASSUME pc' # "returned" PROVE (state'.runErr => Of("error")' # {}) /\ Says(wire', collected'.content)
    <3>1. n = Len(t)
      BY <1>4, <2>3
    <3>2. t = CASE e.type = "text" -> <<Content(read + 1)>>
                [] e.type = "error" -> <<ErrorData>>
                [] OTHER -> <<>>
      BY <1>9, EventSays
    <3>3. CASE e.type = "text"
      <4>1. t = <<Content(read + 1)>>
        BY <3>2, <3>3
      <4>2. Len(t) = 1 /\ t[1] = Content(read + 1)
        BY <4>1
      <4>3. collected'.content = Append(collected.content, read + 1)
        <5>1. CollectEvent(collected, e, read + 1)
                = [collected EXCEPT !.content = Append(collected.content, read + 1)]
          <6>1. ~ Terminal(e) /\ e.type # "error"
            BY <1>9, <3>3
          <6> HIDE DEF Terminal
          <6> QED BY <3>3, <6>1 DEF CollectEvent
        <5>2. collected \in [content : Seq(Nat), reason : {"stop", "length"}, failed : BOOLEAN]
          BY <1>5 DEF Collections
        <5>3. [collected EXCEPT !.content = Append(collected.content, read + 1)].content
                = Append(collected.content, read + 1)
          BY <5>2
        <5> QED BY <1>1, <5>1, <5>3
      <4>4. collected.content \in Seq(Nat)
        BY <1>5 DEF Collections
      <4>5. Len(wire') = Len(wire) + 1 /\ wire'[Len(wire) + 1] = Content(read + 1)
        BY <1>6, <3>1, <4>2
      <4>6. Says(wire', collected'.content)
        BY <1>3, <1>5, <1>6, <4>3, <4>4, <4>5, MoreSays
      <4> QED BY <1>4, <1>5, <1>6, <1>7, <3>3, <4>6, ErrorStays
    <3>4. CASE e.type = "error"
      <4>1. t = <<ErrorData>>
        BY <3>2, <3>4
      <4>2. Len(t) = 1 /\ t[1] = ErrorData /\ ErrorData.type = "error"
        BY <4>1 DEF ErrorData, chunk
      <4>3. collected'.content = collected.content
        BY <1>1, <1>5, <3>4 DEF CollectEvent, Collections, Terminal
      <4>4. Says(wire', collected'.content)
        BY <1>2, <1>4, <1>5, <4>2, <4>3, AddsSay
      <4>5. Len(wire) + 1 \in 1..Len(wire') /\ wire'[Len(wire) + 1].type = "error"
        BY <1>6, <3>1, <4>2
      <4> QED BY <4>4, <4>5 DEF Of
    <3>5. CASE e.type \notin {"text", "error"}
      <4>1. t = <<>>
        BY <3>2, <3>5
      <4>2. collected' = collected
        BY <1>1, <1>9, <3>5 DEF CollectEvent
      <4>3. \A k \in 1..Len(t) : t[k].type # "content"
        BY <4>1
      <4>4. Says(wire', collected'.content)
        BY <1>2, <1>4, <1>5, <4>2, <4>3, AddsSay
      <4> QED BY <1>4, <1>5, <1>6, <1>7, <3>5, <4>4, ErrorStays
    <3> QED BY <3>3, <3>4, <3>5
  <2> QED BY <1>8, <2>1, <2>2, <2>3 DEF CollectInv, CollectAgrees
<1>10. CASE Terminal(e)
  <2>1. /\ Len(t) > 0
        /\ \A k \in 1..Len(t) : /\ t[k].type \notin {"content", "error"}
                                /\ t[k].type = "[DONE]" => k = Len(t)
        /\ ~ state.runErr => /\ Len(t) > 1 /\ t[1].type = "reason"
                             /\ t[1].reason = normalizeFinishReason(e.reason)
    BY <1>1, <1>10, TerminalSays
  <2>2. pc' = "returned" /\ e.type = "finish"
    BY <1>4, <1>10 DEF Terminal
  <2>3. /\ collected'.failed = state.runErr /\ collected'.content = collected.content
        /\ collected'.reason = normalizeFinishReason(e.reason)
    BY <1>1, <1>5, <1>10, <2>2 DEF CollectEvent, Collections
  <2> HIDE DEF t, next
  <2>4. ASSUME Of("[DONE]")' # {} PROVE n = Len(t)
    <3>1. PICK k \in 1..Len(wire') : wire'[k].type = "[DONE]"
      BY <2>4 DEF Of
    <3>2. ~ (k \in 1..Len(wire))
      BY <1>1, <1>6, <3>1 DEF SInv, Unfinished, Body, Of
    <3>3. PICK j \in 1..n : k = Len(wire) + j
      <4>1. k - Len(wire) \in 1..n /\ k = Len(wire) + (k - Len(wire))
        BY <1>6, <3>1, <3>2
      <4> QED BY <4>1
    <3>4. j \in 1..Len(t) /\ t[j].type = "[DONE]"
      BY <1>2, <1>4, <1>6, <3>1, <3>3
    <3>5. j = Len(t)
      BY <2>1, <3>4
    <3> QED BY <1>2, <1>4, <3>3, <3>5
  <2>5. Says(wire', collected'.content)
    BY <1>2, <1>4, <1>5, <2>1, <2>3, AddsSay
  <2>6. (Of("error")' # {}) = state.runErr
    <3>1. state.runErr => Of("error")' # {}
      BY <1>4, <1>5, <1>6, ErrorStays
    <3>2. ASSUME ~ state.runErr, NEW k \in 1..Len(wire'), wire'[k].type = "error" PROVE FALSE
      <4>1. ~ (k \in 1..Len(wire))
        BY <1>1, <1>6, <3>2 DEF SInv, Unfinished, Body, Of
      <4>2. PICK j \in 1..n : k = Len(wire) + j
        <5>1. k - Len(wire) \in 1..n /\ k = Len(wire) + (k - Len(wire))
          BY <1>6, <4>1
        <5> QED BY <5>1
      <4>3. j \in 1..Len(t) /\ t[j].type = "error"
        BY <1>2, <1>4, <1>6, <3>2, <4>2
      <4> QED BY <2>1, <4>3
    <3>3. ~ state.runErr => Of("error")' = {}
      BY <3>2 DEF Of
    <3>4. state.runErr \in BOOLEAN
      BY <1>3
    <3> QED BY <3>1, <3>3, <3>4
  <2>7. ASSUME ~ state.runErr, n = Len(t)
        PROVE  \E k \in Of("reason")' : wire'[k].reason = collected'.reason
    <3>1. 1 \in 1..n /\ Len(wire) + 1 \in 1..Len(wire') /\ wire'[Len(wire) + 1] = t[1]
      BY <1>2, <1>6, <2>1, <2>7
    <3> QED BY <2>1, <2>3, <2>7, <3>1 DEF Of
  <2>8. Says(wire', collected'.content) =>
          /\ Len(collected'.content) = Cardinality(Of("content")')
          /\ \A k \in Of("content")' :
               wire'[k].content = collected'.content[Cardinality({j \in Of("content")' : j <= k})]
    BY DEF Says, Of
  <2>9. CollectAgrees'
    BY <2>3, <2>4, <2>5, <2>6, <2>7, <2>8 DEF CollectAgrees
  <2> QED BY <1>8, <2>2, <2>9 DEF CollectInv
<1> QED BY <1>9, <1>10

LEMMA CollectStep == SInv /\ CollectInv /\ [Next]_vars => CollectInv'
<1>1. CollectInv /\ UNCHANGED vars => CollectInv'
  BY DEF vars, CollectInv, CollectAgrees, Of
<1> QED BY <1>1, CollectOpen, CollectEventIs, CollectEnd DEF Next

\* For any run that ends and whatever was asked for, the two loops of the adapter agree: the
\* content chunks of a stream that was written to its end are the collected content, in its
\* order, its finish_reason is the collected one, and it has an error if and only if none
\* is collected.
THEOREM StreamCollected == Spec => []CollectAgrees
<1>1. Spec => []CollectInv
  BY CollectInit, CollectStep, ChatInvariant, PTL DEF Spec
<1>2. CollectInv => CollectAgrees
  BY DEF CollectInv
<1> QED BY <1>1, <1>2, PTL
=============================================================================
