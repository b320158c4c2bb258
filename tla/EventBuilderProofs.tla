------------------------- MODULE EventBuilderProofs -------------------------
(***************************************************************************)
(* Proofs about runEventBuilder, for any messages and for appends that     *)
(* fail anywhere: the blocks of the stream are well formed and closed, no  *)
(* usage is counted twice, and every end of a run hands over all output.   *)
(***************************************************************************)
EXTENDS EventBuilder, ThinkSplitterProofs

-----------------------------------------------------------------------------
(* Types *)

Ids        == {""} \cup STRING
Reasons    == {"stop", "tool_calls", "cancelled", "error"} \cup STRING
CallStates == [id : Ids, pending : Texts, started : BOOLEAN]
Outputs    == [role : {"assistant", "tool"}, content : Texts, reasoning : Texts, calls : Seq(Calls)]
Builders   == [stepIndex : Nat, open : [Kinds -> BOOLEAN], think : Split,
               toolCalls : [Indexes -> CallStates], finished : BOOLEAN,
               usage : Nat, stepUsage : Nat,
               assistantChunks : Seq(Messages), outputMessages : Seq(Outputs)]
Causes     == {"canceled", "deadline", "terminal"}
Errors     == {"", "toolcall", "concat"} \cup Causes
Blocks     == (Kinds \X Nat) \cup (Ids \X Indexes) \cup Seq(STRING)
Parted     == [type : {"start", "delta", "end", "tool_call", "tool_result", "error"},
               block : Blocks, data : Texts]
Finishes   == [type : {"finish"}, reason : Reasons, usage : Nat, output : Seq(Outputs)]
Events     == Parted \cup Finishes
Works      == [b : Builders, log : Seq(Events), err : Errors, cause : Causes, room : Nat]

\* One append.
LEMMA EmitIs ==
  ASSUME NEW w \in Works, NEW e \in Events
  PROVE  /\ Emit(w, e) \in Works /\ Emit(w, e).b = w.b /\ Emit(w, e).cause = w.cause
         /\ Failed(w) => Emit(w, e) = w
         /\ ~ Failed(w) /\ w.room > 0 =>
              /\ ~ Failed(Emit(w, e)) /\ Emit(w, e).room = w.room - 1
              /\ Emit(w, e).log = Append(w.log, e)
         /\ ~ Failed(w) /\ ~ (w.room > 0) =>
              /\ Failed(Emit(w, e)) /\ Emit(w, e).room = w.room
              /\ Emit(w, e).log = w.log
<1> DEFINE x == [w EXCEPT !.room = @ - 1, !.log = Append(@, e)]
           y == [w EXCEPT !.err = w.cause]
<1>1. Append(w.log, e) \in Seq(Events)
  BY DEF Works, Causes
<1>2. w.room > 0 => w.room - 1 \in Nat
  BY DEF Works, Causes
<1>3. w.room > 0 => x \in Works
  BY <1>1, <1>2 DEF Works
<1>4. x.b = w.b /\ x.cause = w.cause /\ x.err = w.err /\ x.room = w.room - 1 /\ x.log = Append(w.log, e)
  BY DEF Works, Causes
<1>5. y \in Works /\ y.b = w.b /\ y.cause = w.cause /\ y.err # "" /\ y.room = w.room /\ y.log = w.log
  <2>1. w.cause \in Errors /\ w.cause # ""
    BY DEF Works, Causes, Errors
  <2>2. y \in Works
    BY <2>1 DEF Works
  <2>3. y.b = w.b /\ y.cause = w.cause /\ y.err = w.cause /\ y.room = w.room /\ y.log = w.log
    BY DEF Works
  <2> QED BY <2>1, <2>2, <2>3
<1>6. Emit(w, e) = IF Failed(w) THEN w ELSE IF w.room > 0 THEN x ELSE y
  BY DEF Emit
<1> HIDE DEF x, y
<1> QED BY <1>3, <1>4, <1>5, <1>6 DEF Failed

\* What the handlers of a message's parts leave alone, and what they add to the log.
Frame(b, c) ==
    /\ c.stepIndex = b.stepIndex /\ c.finished = b.finished
    /\ c.usage = b.usage /\ c.stepUsage = b.stepUsage
    /\ c.assistantChunks = b.assistantChunks /\ c.outputMessages = b.outputMessages

Longer(q, r) == Len(q) <= Len(r) /\ \A i \in 1..Len(q) : r[i] = q[i]

Onward(w, v) ==
    /\ v \in Works /\ v.cause = w.cause
    /\ Frame(w.b, v.b)
    /\ Longer(w.log, v.log)
    /\ \A i \in (Len(w.log) + 1)..Len(v.log) : v.log[i] \in Parted
    /\ Len(v.log) + v.room = Len(w.log) + w.room
    /\ Failed(w) => v = w

\* Nothing done is a step onward, and steps onward add up.
LEMMA OnwardSelf == ASSUME NEW w \in Works PROVE Onward(w, w)
BY DEF Onward, Frame, Longer, Works

LEMMA OnwardMore ==
  ASSUME NEW w \in Works, NEW v, NEW u, Onward(w, v), Onward(v, u) PROVE Onward(w, u)
<1>1. v \in Works /\ u \in Works
  BY DEF Onward
<1>2. Len(w.log) \in Nat /\ Len(v.log) \in Nat /\ Len(u.log) \in Nat /\ w.room \in Nat /\ v.room \in Nat /\ u.room \in Nat
  BY <1>1 DEF Works
<1>3. Longer(w.log, u.log)
  BY <1>2 DEF Onward, Longer
<1>4. ASSUME NEW i \in (Len(w.log) + 1)..Len(u.log)
      PROVE  u.log[i] \in Parted
  <2>1. CASE i <= Len(v.log)
    <3>1. i \in (Len(w.log) + 1)..Len(v.log) /\ i \in 1..Len(v.log)
      BY <1>2, <2>1
    <3> QED BY <3>1 DEF Onward, Longer
  <2>2. CASE ~ (i <= Len(v.log))
    <3>1. i \in (Len(v.log) + 1)..Len(u.log)
      BY <1>2, <2>2
    <3> QED BY <3>1 DEF Onward
  <2> QED BY <2>1, <2>2
<1>5. Frame(w.b, u.b)
  BY DEF Onward, Frame
<1>6. Failed(w) => u = w
  BY DEF Onward
<1>7. Len(u.log) + u.room = Len(w.log) + w.room
  BY DEF Onward
<1>8. u.cause = w.cause
  BY DEF Onward
<1> QED BY <1>1, <1>3, <1>4, <1>5, <1>6, <1>7, <1>8 DEF Onward

\* An event other than a finish.
LEMMA EmitOnward ==
  ASSUME NEW w \in Works, NEW e \in Parted PROVE Onward(w, Emit(w, e))
<1> DEFINE v == Emit(w, e)
<1> SUFFICES Onward(w, v)
  OBVIOUS
<1>1. e \in Events
  BY DEF Events
<1>2. /\ v \in Works /\ v.b = w.b /\ v.cause = w.cause
      /\ Failed(w) => v = w
      /\ v = w \/ (v.log = Append(w.log, e) /\ v.room = w.room - 1) \/ (v.log = w.log /\ v.room = w.room)
  BY <1>1, EmitIs
<1>3. w.log \in Seq(Events) /\ w.room \in Nat /\ Len(w.log) \in Nat
  BY DEF Works, Causes
<1> HIDE DEF v
<1>4. Frame(w.b, v.b)
  BY <1>2 DEF Frame
<1>5. CASE v.log = Append(w.log, e) /\ v.room = w.room - 1
  <2>1. /\ Len(v.log) = Len(w.log) + 1 /\ v.log[Len(w.log) + 1] = e
        /\ \A i \in 1..Len(w.log) : v.log[i] = w.log[i]
    BY <1>1, <1>3, <1>5
  <2>2. Longer(w.log, v.log)
    BY <1>3, <2>1 DEF Longer
  <2>3. \A i \in (Len(w.log) + 1)..Len(v.log) : v.log[i] \in Parted
    <3>1. \A i \in (Len(w.log) + 1)..Len(v.log) : i = Len(w.log) + 1
      BY <1>3, <2>1
    <3> QED BY <2>1, <3>1
  <2>4. Len(v.log) + v.room = Len(w.log) + w.room
    BY <1>3, <1>5, <2>1
  <2> QED BY <1>2, <1>4, <2>2, <2>3, <2>4 DEF Onward
<1>6. CASE v.log = w.log /\ v.room = w.room
  <2>1. Longer(w.log, v.log)
    BY <1>3, <1>6 DEF Longer
  <2>2. \A i \in (Len(w.log) + 1)..Len(v.log) : FALSE
    BY <1>3, <1>6
  <2> QED BY <1>2, <1>4, <1>6, <2>1, <2>2 DEF Onward
<1>7. CASE v = w
  BY <1>7, OnwardSelf
<1> QED BY <1>2, <1>5, <1>6, <1>7

-----------------------------------------------------------------------------
(* The handlers of text, reasoning and tool calls *)

\* A change of the builder that its frame does not see.
LEMMA UpdateOnward ==
  ASSUME NEW w \in Works, ~ Failed(w), NEW c \in Builders, Frame(w.b, c)
  PROVE  /\ Onward(w, [w EXCEPT !.b = c])
         /\ [w EXCEPT !.b = c].b = c /\ [w EXCEPT !.b = c].log = w.log
         /\ [w EXCEPT !.b = c].err = w.err /\ [w EXCEPT !.b = c].room = w.room
<1> DEFINE v == [w EXCEPT !.b = c]
<1>1. v \in Works
  BY DEF Works
<1>2. v.b = c /\ v.log = w.log /\ v.err = w.err /\ v.room = w.room /\ v.cause = w.cause
  BY DEF Works
<1> HIDE DEF v
<1>3. Longer(w.log, v.log)
  BY <1>2 DEF Longer
<1>4. \A i \in (Len(w.log) + 1)..Len(v.log) : FALSE
  BY <1>2 DEF Works
<1>5. Onward(w, v)
  BY <1>1, <1>2, <1>3, <1>4 DEF Onward
<1> QED BY <1>2, <1>5 DEF v

\* The same for the parts of the builder that these handlers change.
LEMMA OpenOnward ==
  ASSUME NEW w \in Works, ~ Failed(w), NEW kind \in Kinds, NEW x \in BOOLEAN
  PROVE  LET v == [w EXCEPT !.b.open[kind] = x] IN
         /\ Onward(w, v) /\ v.log = w.log /\ v.err = w.err /\ v.room = w.room
         /\ v.b = [w.b EXCEPT !.open = [w.b.open EXCEPT ![kind] = x]]
         /\ v.b.open = [w.b.open EXCEPT ![kind] = x]
         /\ v.b.think = w.b.think /\ v.b.toolCalls = w.b.toolCalls
<1> DEFINE o == [w.b.open EXCEPT ![kind] = x]
           c == [w.b EXCEPT !.open = o]
           v == [w EXCEPT !.b.open[kind] = x]
<1>1. w.b \in Builders
  BY DEF Works
<1>2. o \in [Kinds -> BOOLEAN]
  BY <1>1 DEF Builders
<1>3. v = [w EXCEPT !.b = c]
  BY <1>1 DEF Works, Builders
<1> HIDE DEF o, v
<1>4. c \in Builders
  BY <1>1, <1>2 DEF Builders
<1>5. Frame(w.b, c) /\ c.open = o /\ c.think = w.b.think /\ c.toolCalls = w.b.toolCalls
  BY <1>1 DEF Builders, Frame
<1> HIDE DEF c
<1>6. Onward(w, v) /\ v.log = w.log /\ v.err = w.err /\ v.room = w.room /\ v.b = c
  BY <1>3, <1>4, <1>5, UpdateOnward
<1> QED BY <1>5, <1>6 DEF o, c, v

\* Only the splitter changes.
LEMMA ThinkOnward ==
  ASSUME NEW w \in Works, ~ Failed(w), NEW s \in Split
  PROVE  LET v == [w EXCEPT !.b.think = s] IN
         /\ Onward(w, v) /\ v.log = w.log /\ v.err = w.err /\ v.room = w.room
         /\ v.b.think = s /\ v.b.open = w.b.open /\ v.b.toolCalls = w.b.toolCalls
<1> DEFINE c == [w.b EXCEPT !.think = s]
           v == [w EXCEPT !.b.think = s]
<1>1. w.b \in Builders
  BY DEF Works
<1>3. v = [w EXCEPT !.b = c]
  BY <1>1 DEF Works, Builders
<1> HIDE DEF v
<1>4. c \in Builders
  BY <1>1 DEF Builders
<1>5. Frame(w.b, c) /\ c.think = s /\ c.open = w.b.open /\ c.toolCalls = w.b.toolCalls
  BY <1>1 DEF Builders, Frame
<1> HIDE DEF c
<1>6. Onward(w, v) /\ v.log = w.log /\ v.err = w.err /\ v.room = w.room /\ v.b = c
  BY <1>3, <1>4, <1>5, UpdateOnward
<1> QED BY <1>5, <1>6 DEF v

\* Only one tool call changes.
LEMMA CallOnward ==
  ASSUME NEW w \in Works, ~ Failed(w), NEW i \in Indexes, NEW st \in CallStates
  PROVE  LET v == [w EXCEPT !.b.toolCalls[i] = st] IN
         /\ Onward(w, v) /\ v.log = w.log /\ v.err = w.err /\ v.room = w.room
         /\ v.b.toolCalls = [w.b.toolCalls EXCEPT ![i] = st]
         /\ v.b.open = w.b.open /\ v.b.think = w.b.think
<1> DEFINE t == [w.b.toolCalls EXCEPT ![i] = st]
           c == [w.b EXCEPT !.toolCalls = t]
           v == [w EXCEPT !.b.toolCalls[i] = st]
<1>1. w.b \in Builders
  BY DEF Works
<1>2. t \in [Indexes -> CallStates]
  BY <1>1 DEF Builders
<1>3. v = [w EXCEPT !.b = c]
  BY <1>1 DEF Works, Builders
<1> HIDE DEF t, v
<1>4. c \in Builders
  BY <1>1, <1>2 DEF Builders
<1>5. Frame(w.b, c) /\ c.open = w.b.open /\ c.think = w.b.think /\ c.toolCalls = t
  BY <1>1 DEF Builders, Frame
<1> HIDE DEF c
<1>6. Onward(w, v) /\ v.log = w.log /\ v.err = w.err /\ v.room = w.room /\ v.b = c
  BY <1>3, <1>4, <1>5, UpdateOnward
<1> QED BY <1>5, <1>6 DEF t, v

\* The events of a block.
LEMMA BlockEvent ==
  ASSUME NEW w \in Works, NEW kind \in Kinds, NEW delta \in Texts
  PROVE  /\ Event("start", Block(w, kind), <<>>) \in Parted
         /\ Event("delta", Block(w, kind), delta) \in Parted
         /\ Event("end", Block(w, kind), <<>>) \in Parted
<1>1. <<kind, w.b.stepIndex>> \in Kinds \X Nat
  BY DEF Works, Builders
<1>2. Block(w, kind) \in Blocks
  BY <1>1 DEF Block, Blocks
<1>3. <<>> \in Texts
  BY DEF Texts
<1> HIDE DEF Texts
<1> QED BY <1>2, <1>3 DEF Event, Parted

\* What the handler of a delta keeps.
LEMMA WriteBlockOnward ==
  ASSUME NEW w \in Works, NEW kind \in Kinds, NEW delta \in Texts
  PROVE  Onward(w, WriteBlock(w, kind, delta))
<1> DEFINE started == Event("start", Block(w, kind), <<>>)
           told == Event("delta", Block(w, kind), delta)
           opened == Emit(w, started)
           marked == [opened EXCEPT !.b.open[kind] = TRUE]
<1>1. started \in Parted /\ told \in Parted
  BY BlockEvent
<1>2. WriteBlock(w, kind, delta) =
        IF Failed(w) \/ delta = <<>> THEN w
        ELSE Emit(IF w.b.open[kind] THEN w ELSE IF Failed(opened) THEN opened ELSE marked, told)
  BY DEF WriteBlock
<1> HIDE DEF started, told
<1>3. Onward(w, w) /\ Onward(w, opened)
  BY <1>1, OnwardSelf, EmitOnward
<1>4. opened \in Works
  BY <1>3 DEF Onward
<1>5. ASSUME ~ Failed(opened) PROVE Onward(w, marked)
  <2> HIDE DEF opened, marked
  <2>1. Onward(opened, marked)
    <3> TRUE \in BOOLEAN
      OBVIOUS
    <3> QED BY <1>4, <1>5, OpenOnward DEF marked
  <2> QED BY <1>3, <2>1, OnwardMore
<1> HIDE DEF opened, marked
<1>6. ASSUME NEW v, Onward(w, v) PROVE Onward(w, Emit(v, told))
  <2>1. v \in Works
    BY <1>6 DEF Onward
  <2> QED BY <1>1, <1>6, <2>1, EmitOnward, OnwardMore
<1>7. Onward(w, Emit(w, told)) /\ Onward(w, Emit(opened, told))
  BY <1>3, <1>6
<1>8. ~ Failed(opened) => Onward(w, Emit(marked, told))
  BY <1>5, <1>6
<1> QED BY <1>2, <1>3, <1>7, <1>8

\* What closing a block keeps.
LEMMA EndBlockOnward ==
  ASSUME NEW w \in Works, NEW kind \in Kinds PROVE Onward(w, EndBlock(w, kind))
<1> DEFINE e == Event("end", Block(w, kind), <<>>)
           ended == Emit(w, e)
           marked == [ended EXCEPT !.b.open[kind] = FALSE]
<1>1. e \in Parted
  <2>1. <<>> \in Texts
    BY DEF Texts
  <2> QED BY <2>1, BlockEvent
<1>2. EndBlock(w, kind) = IF Failed(w) \/ ~ w.b.open[kind] THEN w
                          ELSE IF Failed(ended) THEN ended ELSE marked
  BY DEF EndBlock
<1> HIDE DEF e
<1>3. Onward(w, w) /\ Onward(w, ended)
  BY <1>1, OnwardSelf, EmitOnward
<1>4. ended \in Works
  BY <1>3 DEF Onward
<1>5. ASSUME ~ Failed(ended) PROVE Onward(w, marked)
  <2> HIDE DEF ended, marked
  <2>1. Onward(ended, marked)
    BY <1>4, <1>5, OpenOnward DEF marked
  <2> QED BY <1>3, <2>1, OnwardMore
<1> HIDE DEF ended, marked
<1> QED BY <1>2, <1>3, <1>5

\* Changes of the state of one call.
LEMMA CallUpdates ==
  ASSUME NEW w \in Works, NEW i \in Indexes
  PROVE  LET st == w.b.toolCalls[i] IN
         /\ st \in CallStates
         /\ [w EXCEPT !.b.toolCalls[i].started = TRUE]
              = [w EXCEPT !.b.toolCalls[i] = [st EXCEPT !.started = TRUE]]
         /\ [w EXCEPT !.b.toolCalls[i].pending = <<>>]
              = [w EXCEPT !.b.toolCalls[i] = [st EXCEPT !.pending = <<>>]]
         /\ [st EXCEPT !.started = TRUE] \in CallStates
         /\ [st EXCEPT !.pending = <<>>] \in CallStates
<1> DEFINE st == w.b.toolCalls[i]
<1>1. w.b \in Builders
  BY DEF Works
<1>2. st \in CallStates
  BY <1>1 DEF Builders
<1>3. [st EXCEPT !.started = TRUE] \in CallStates
  BY <1>2 DEF CallStates
<1>4. [st EXCEPT !.pending = <<>>] \in CallStates
  <2>1. <<>> \in Texts
    BY DEF Texts
  <2> HIDE DEF Texts
  <2> QED BY <1>2, <2>1 DEF CallStates
<1>5. [w EXCEPT !.b.toolCalls[i].started = TRUE]
              = [w EXCEPT !.b.toolCalls[i] = [st EXCEPT !.started = TRUE]]
  BY <1>1 DEF Works, Builders, CallStates
<1>6. [w EXCEPT !.b.toolCalls[i].pending = <<>>]
              = [w EXCEPT !.b.toolCalls[i] = [st EXCEPT !.pending = <<>>]]
  BY <1>1 DEF Works, Builders, CallStates
<1> QED BY <1>2, <1>3, <1>4, <1>5, <1>6

\* A call whose arguments came without an id.
Idless(b, i) == b.toolCalls[i].id = "" /\ b.toolCalls[i].pending # <<>>

\* What a flush of tool calls leaves alone, apart from the calls that it announces: it fails
\* for want of room or of an id.
Quiet(w, v) ==
    /\ Onward(w, v)
    /\ v.b.open = w.b.open /\ v.b.think = w.b.think
    /\ \A i \in (Len(w.log) + 1)..Len(v.log) : v.log[i].type = "tool_call"
    /\ \A i \in Indexes : Idless(v.b, i) <=> Idless(w.b, i)
    /\ Failed(v) => Failed(w) \/ v.room = 0 \/ \E i \in Indexes : Idless(v.b, i)

\* Quiet steps: only tool calls change, and what is appended belongs to no block.
LEMMA NoneNew ==
  ASSUME NEW w \in Works, NEW v, v.log = w.log
  PROVE  \A k \in (Len(w.log) + 1)..Len(v.log) : FALSE
BY DEF Works

LEMMA QuietSelf == ASSUME NEW w \in Works PROVE Quiet(w, w)
<1>1. \A i \in (Len(w.log) + 1)..Len(w.log) : FALSE
  BY DEF Works
<1> QED BY <1>1, OnwardSelf DEF Quiet

LEMMA QuietMore ==
  ASSUME NEW w \in Works, NEW v, NEW u, Quiet(w, v), Quiet(v, u) PROVE Quiet(w, u)
<1>1. Onward(w, v) /\ Onward(v, u)
  BY DEF Quiet
<1>2. Onward(w, u)
  BY <1>1, OnwardMore
<1>3. v \in Works /\ u \in Works
  BY <1>1 DEF Onward
<1>4. Len(w.log) \in Nat /\ Len(v.log) \in Nat /\ Len(u.log) \in Nat
  BY <1>3 DEF Works
<1>5. ASSUME NEW i \in (Len(w.log) + 1)..Len(u.log) PROVE u.log[i].type = "tool_call"
  <2>1. CASE i <= Len(v.log)
    <3>1. i \in (Len(w.log) + 1)..Len(v.log) /\ i \in 1..Len(v.log)
      BY <1>4, <2>1
    <3>2. u.log[i] = v.log[i]
      BY <1>1, <3>1 DEF Onward, Longer
    <3> QED BY <3>1, <3>2 DEF Quiet
  <2>2. CASE ~ (i <= Len(v.log))
    <3>1. i \in (Len(v.log) + 1)..Len(u.log)
      BY <1>4, <2>2
    <3> QED BY <3>1 DEF Quiet
  <2> QED BY <2>1, <2>2
<1>6. \A i \in Indexes : Idless(u.b, i) <=> Idless(w.b, i)
  BY DEF Quiet
<1>7. Failed(u) => Failed(w) \/ u.room = 0 \/ \E i \in Indexes : Idless(u.b, i)
  <2>1. SUFFICES ASSUME Failed(u), ~ (u.room = 0), ~ \E i \in Indexes : Idless(u.b, i)
                 PROVE  Failed(w)
    OBVIOUS
  <2>2. Failed(v)
    BY <2>1 DEF Quiet
  <2>3. u = v
    BY <1>1, <2>2 DEF Onward
  <2> QED BY <2>1, <2>2, <2>3 DEF Quiet
<1>8. u.b.open = w.b.open /\ u.b.think = w.b.think
  BY DEF Quiet
<1> QED BY <1>2, <1>5, <1>6, <1>7, <1>8 DEF Quiet

\* A tool call is such an event.
LEMMA EmitQuiet ==
  ASSUME NEW w \in Works, NEW e \in Parted, e.type = "tool_call" PROVE Quiet(w, Emit(w, e))
<1> DEFINE v == Emit(w, e)
<1> SUFFICES Quiet(w, v)
  OBVIOUS
<1>1. e \in Events
  BY DEF Events
<1>2. Onward(w, v)
  BY EmitOnward
<1>3. /\ v.b = w.b
      /\ Failed(v) => Failed(w) \/ v.room = 0
      /\ v.log = w.log \/ v.log = Append(w.log, e)
  <2>1. w.room \in Nat
    BY DEF Works
  <2> QED BY <1>1, <2>1, EmitIs
<1> HIDE DEF v
<1>4. ASSUME NEW i \in (Len(w.log) + 1)..Len(v.log) PROVE v.log[i].type = "tool_call"
  <2>1. w.log \in Seq(Events)
    BY DEF Works
  <2>2. CASE v.log = w.log
    BY <2>1, <2>2
  <2>3. CASE v.log = Append(w.log, e)
    <3>1. i = Len(w.log) + 1 /\ v.log[Len(w.log) + 1] = e
      BY <1>1, <2>1, <2>3
    <3> QED BY <3>1
  <2> QED BY <1>3, <2>2, <2>3
<1>5. \A i \in Indexes : Idless(v.b, i) <=> Idless(w.b, i)
  BY <1>3
<1> QED BY <1>2, <1>3, <1>4, <1>5 DEF Quiet

\* Its state is kept in the builder.
LEMMA CallQuiet ==
  ASSUME NEW w \in Works, ~ Failed(w), NEW i \in Indexes, NEW st \in CallStates,
         st.id # "", w.b.toolCalls[i].id # ""
  PROVE  Quiet(w, [w EXCEPT !.b.toolCalls[i] = st])
<1> DEFINE v == [w EXCEPT !.b.toolCalls[i] = st]
<1> SUFFICES Quiet(w, v)
  OBVIOUS
<1>1. /\ Onward(w, v) /\ v.log = w.log /\ v.err = w.err
      /\ v.b.toolCalls = [w.b.toolCalls EXCEPT ![i] = st]
      /\ v.b.open = w.b.open /\ v.b.think = w.b.think
  BY CallOnward
<1> HIDE DEF v
<1>2. w.b.toolCalls \in [Indexes -> CallStates]
  BY DEF Works, Builders
<1>3. \A j \in Indexes : v.b.toolCalls[j] = IF j = i THEN st ELSE w.b.toolCalls[j]
  BY <1>1, <1>2
<1>4. \A j \in Indexes : Idless(v.b, j) <=> Idless(w.b, j)
  BY <1>3 DEF Idless
<1>5. \A k \in (Len(w.log) + 1)..Len(v.log) : FALSE
  BY <1>1, NoneNew
<1>6. Failed(v) <=> Failed(w)
  BY <1>1 DEF Failed
<1> QED BY <1>1, <1>4, <1>5, <1>6 DEF Quiet

\* A call is flushed, or it lacks its id.
LEMMA FlushQuiet ==
  ASSUME NEW w \in Works, NEW i \in Indexes
  PROVE  /\ Quiet(w, flushToolCall(w, i))
         /\ ~ Failed(flushToolCall(w, i)) => ~ Idless(flushToolCall(w, i).b, i)
<1> DEFINE st == w.b.toolCalls[i]
           e == Event("tool_call", <<st.id, i>>, <<>>)
           f == Event("tool_call", <<st.id, i>>, st.pending)
           announced == IF st.started THEN w ELSE Emit(w, e)
           ready == IF Failed(announced) THEN announced
                    ELSE [announced EXCEPT !.b.toolCalls[i].started = TRUE]
           sent == [ready EXCEPT !.b.toolCalls[i].pending = <<>>]
           stopped == [w EXCEPT !.err = "toolcall"]
           v == flushToolCall(w, i)
<1>1. v = IF Failed(w) \/ (st.pending = <<>> /\ (st.started \/ st.id = "")) THEN w
          ELSE IF st.id = "" THEN stopped
          ELSE IF Failed(ready) \/ st.pending = <<>> THEN ready ELSE Emit(sent, f)
  BY DEF flushToolCall
<1>2. st \in CallStates
  BY CallUpdates
<1>3. /\ e \in Parted /\ e.type = "tool_call" /\ f \in Parted /\ f.type = "tool_call"
  <2>1. <<st.id, i>> \in Blocks
    BY <1>2 DEF CallStates, Blocks
  <2>2. <<>> \in Texts
    BY DEF Texts
  <2> HIDE DEF Texts
  <2> QED BY <1>2, <2>1, <2>2 DEF Event, Parted, CallStates
<1>4. CASE Failed(w) \/ (st.pending = <<>> /\ (st.started \/ st.id = ""))
  BY <1>1, <1>4, QuietSelf DEF Idless
<1>5. CASE ~ Failed(w) /\ st.id = "" /\ st.pending # <<>>
  <2>1. /\ stopped \in Works /\ stopped.b = w.b /\ stopped.log = w.log
        /\ stopped.room = w.room /\ stopped.cause = w.cause /\ Failed(stopped)
    BY DEF Works, Errors, Failed
  <2>2. v = stopped
    BY <1>1, <1>5
  <2> HIDE DEF stopped, v
  <2>3. Idless(w.b, i)
    BY <1>5 DEF Idless
  <2>4. \A k \in (Len(w.log) + 1)..Len(stopped.log) : FALSE
    BY <2>1 DEF Works
  <2>5. Onward(w, stopped)
    <3>1. Longer(w.log, stopped.log) /\ Frame(w.b, stopped.b)
      BY <2>1 DEF Longer, Frame
    <3> QED BY <1>5, <2>1, <2>4, <3>1 DEF Onward
  <2>6. Quiet(w, stopped)
    BY <2>1, <2>3, <2>4, <2>5 DEF Quiet
  <2> QED BY <2>1, <2>2, <2>6 DEF v
<1>6. CASE ~ Failed(w) /\ st.id # "" /\ ~ (st.pending = <<>> /\ st.started)
  <2> HIDE DEF st, e, f, v
  <2>1. Quiet(w, announced) /\ announced.b.toolCalls[i] = st
    <3>1. Quiet(w, w) /\ Quiet(w, Emit(w, e))
      BY <1>3, QuietSelf, EmitQuiet
    <3>2. Emit(w, e).b = w.b
      <4>1. e \in Events
        BY <1>3 DEF Events
      <4> QED BY <4>1, EmitIs
    <3> QED BY <3>1, <3>2 DEF st
  <2>2. announced \in Works
    BY <2>1 DEF Quiet, Onward
  <2> HIDE DEF announced
  <2> DEFINE st1 == [st EXCEPT !.started = TRUE]
             st2 == [st1 EXCEPT !.pending = <<>>]
  <2>3. st1 \in CallStates /\ st1.id # "" /\ st1.pending = st.pending
    BY <1>2, <1>6 DEF CallStates
  <2>4. st2 \in CallStates /\ st2.id # "" /\ st2.pending = <<>>
    <3>1. <<>> \in Texts
      BY DEF Texts
    <3> HIDE DEF Texts, st1
    <3> QED BY <2>3, <3>1 DEF CallStates
  <2>5. ASSUME ~ Failed(announced) PROVE Quiet(w, ready) /\ ready.b.toolCalls[i] = st1 /\ ~ Failed(ready)
    <3>1. ready = [announced EXCEPT !.b.toolCalls[i] = st1]
      BY <2>1, <2>2, <2>5, CallUpdates
    <3>2. Quiet(announced, ready)
      <4> HIDE DEF st1, ready
      <4> QED BY <1>6, <2>1, <2>2, <2>3, <2>5, <3>1, CallQuiet
    <3>3. announced.b.toolCalls \in [Indexes -> CallStates]
      BY <2>2 DEF Works, Builders
    <3>4. ready.b.toolCalls = [announced.b.toolCalls EXCEPT ![i] = st1] /\ ready.err = announced.err
      <4> HIDE DEF st1, ready
      <4> QED BY <2>2, <2>3, <2>5, <3>1, CallOnward
    <3> HIDE DEF ready, st1
    <3> QED BY <2>1, <2>5, <3>2, <3>3, <3>4, QuietMore DEF Failed
  <2>6. Failed(announced) => ready = announced
    OBVIOUS
  <2>7. Quiet(w, ready) /\ ready \in Works
    <3> HIDE DEF ready
    <3>1. Quiet(w, ready)
      BY <2>1, <2>5, <2>6
    <3> QED BY <3>1 DEF Quiet, Onward
  <2>8. ASSUME ~ Failed(ready) PROVE Quiet(w, Emit(sent, f)) /\ Emit(sent, f).b.toolCalls[i] = st2
    <3>1. ~ Failed(announced)
      BY <2>6, <2>8
    <3>2. ready.b.toolCalls[i] = st1
      BY <2>5, <3>1
    <3> HIDE DEF ready, st1
    <3>3. sent = [ready EXCEPT !.b.toolCalls[i] = st2]
      BY <2>7, <3>2, CallUpdates
    <3>4. Quiet(ready, sent)
      <4> HIDE DEF st2, sent
      <4> QED BY <2>3, <2>4, <2>7, <2>8, <3>2, <3>3, CallQuiet
    <3>5. sent.b.toolCalls = [ready.b.toolCalls EXCEPT ![i] = st2]
      <4> HIDE DEF st2, sent
      <4>1. LET x == [ready EXCEPT !.b.toolCalls[i] = st2] IN
            x.b.toolCalls = [ready.b.toolCalls EXCEPT ![i] = st2]
        BY <2>4, <2>7, <2>8, CallOnward, ZenonT(60)
      <4> QED BY <3>3, <4>1
    <3>6. ready.b.toolCalls \in [Indexes -> CallStates]
      BY <2>7 DEF Works, Builders
    <3> HIDE DEF sent, st2
    <3>7. sent \in Works /\ Quiet(w, sent) /\ sent.b.toolCalls[i] = st2
      <4>1. sent \in Works
        BY <3>4 DEF Quiet, Onward
      <4>2. Quiet(w, sent)
        BY <2>7, <3>4, QuietMore
      <4>3. sent.b.toolCalls[i] = st2
        BY <3>5, <3>6
      <4> QED BY <4>1, <4>2, <4>3
    <3>8. Quiet(sent, Emit(sent, f)) /\ f \in Events
      BY <1>3, <3>7, EmitQuiet DEF Events
    <3>9. Emit(sent, f).b = sent.b
      BY <3>7, <3>8, EmitIs
    <3> QED BY <3>7, <3>8, <3>9, QuietMore
  <2>9. ~ Failed(ready) => ready.b.toolCalls[i] = st1
    BY <2>5, <2>6
  <2> HIDE DEF ready, sent, st1, st2
  <2>10. ASSUME Failed(ready) \/ st.pending = <<>> PROVE v = ready
    <3>1. v = IF Failed(ready) \/ st.pending = <<>> THEN ready ELSE Emit(sent, f)
      BY <1>1, <1>6
    <3> QED BY <2>10, <3>1
  <2>11. ASSUME ~ (Failed(ready) \/ st.pending = <<>>) PROVE v = Emit(sent, f)
    <3>1. v = IF Failed(ready) \/ st.pending = <<>> THEN ready ELSE Emit(sent, f)
      BY <1>1, <1>6
    <3> QED BY <2>11, <3>1
  <2>12. CASE Failed(ready) \/ st.pending = <<>>
    <3>1. Quiet(w, v)
      BY <2>7, <2>10, <2>12
    <3>2. ~ Failed(ready) => ~ Idless(ready.b, i)
      BY <2>3, <2>9 DEF Idless
    <3> QED BY <2>10, <2>12, <3>1, <3>2 DEF v
  <2>13. CASE ~ (Failed(ready) \/ st.pending = <<>>)
    <3>1. ~ Idless(Emit(sent, f).b, i)
      BY <2>4, <2>8, <2>13 DEF Idless
    <3>2. Quiet(w, Emit(sent, f))
      BY <2>8, <2>13
    <3>3. v = Emit(sent, f)
      BY <2>11, <2>13
    <3>4. Quiet(w, v) /\ ~ Idless(v.b, i)
      BY <3>1, <3>2, <3>3
    <3> QED BY <3>4 DEF v
  <2> QED BY <2>12, <2>13
<1> QED BY <1>4, <1>5, <1>6

-----------------------------------------------------------------------------
(* The loops over parts and calls *)

KindOf(part) == IF part.reasoning THEN "reasoning" ELSE "text"

\* A part of the content goes to a block of its kind.
LEMMA PartIsBlock ==
  ASSUME NEW part \in Parts PROVE KindOf(part) \in Kinds /\ part.text \in Texts
BY DEF Parts, KindOf, Kinds, Texts

\* What writing one part keeps, writing all of them keeps.
WritesStay(S) == \A v \in S, kind \in Kinds, delta \in Texts : WriteBlock(v, kind, delta) \in S

\* What writing a delta keeps, writing the parts keeps.
LEMMA PartsStay ==
  ASSUME NEW S, WritesStay(S), NEW w \in S, NEW parts \in Seq(Parts)
  PROVE  WriteParts(w, parts) \in S
<1> DEFINE n == Len(parts)
           Written(v, k) == WriteBlock(v, KindOf(parts[k]), parts[k].text)
           g == [k \in 1..n |-> [v \in S |-> Written(v, k)]]
           f == WritingParts(w, parts)
           Reads(h) == h = [k \in 0..n |-> IF k = 0 THEN w ELSE Written(h[k - 1], k)]
<1>1. n \in Nat
  OBVIOUS
<1>2. ASSUME NEW k \in 1..n, NEW v \in S PROVE Written(v, k) \in S
  <2>1. parts[k] \in Parts
    OBVIOUS
  <2> QED BY <2>1, PartIsBlock DEF WritesStay
<1> HIDE DEF Written
<1>3. g \in [1..n -> [S -> S]]
  BY <1>2
<1>4. PICK h \in [0..n -> S] : Step(n, w, g, h)
  <2> HIDE DEF n, g
  <2> QED BY <1>1, <1>3, Recursion
<1>5. Reads(h)
  <2>1. ASSUME NEW k \in 1..n PROVE g[k][h[k - 1]] = Written(h[k - 1], k)
    BY <1>1
  <2>2. h = [k \in 0..n |-> IF k = 0 THEN w ELSE g[k][h[k - 1]]]
    BY <1>4 DEF Step
  <2> HIDE DEF g, n
  <2>3. \A k \in 0..n : k # 0 => k \in 1..n
    BY <1>1
  <2> QED BY <2>1, <2>2, <2>3
<1>6. Reads(f)
  <2>1. Reads(CHOOSE x : Reads(x))
    <3> HIDE DEF Reads
    <3> QED BY <1>5
  <2>2. f = CHOOSE x : Reads(x)
    BY DEF WritingParts, Written, KindOf
  <2> HIDE DEF f, Reads
  <2> QED BY <2>1, <2>2
<1> HIDE DEF f
<1>7. f[0] = w /\ \A k \in 1..n : f[k] = Written(f[k - 1], k)
  <2> HIDE DEF n
  <2> QED BY <1>1, <1>6
<1> DEFINE K == {k \in 0..n : f[k] \in S}
<1>8. \A k \in 0..n : k \in K
  <2>1. 0 \in K
    BY <1>1, <1>7
  <2>2. ASSUME NEW k \in 0..(n - 1), k \in K PROVE k + 1 \in K
    <3>1. k + 1 \in 1..n /\ (k + 1) - 1 = k
      BY <1>1
    <3>2. f[k + 1] = Written(f[k], k + 1)
      BY <1>7, <3>1
    <3> QED BY <1>2, <2>2, <3>1, <3>2
  <2> HIDE DEF K, n
  <2> QED BY <1>1, <2>1, <2>2, Upwards
<1>9. f[n] \in S
  <2>1. n \in 0..n
    BY <1>1
  <2> QED BY <1>8, <2>1
<1> QED BY <1>9 DEF WriteParts, f

\* The same for the calls of a message.
CallsStay(S) == \A v \in S, call \in Calls : writeToolCall(v, call) \in S

\* What writing a piece of a call keeps, writing the pieces keeps.
LEMMA AllCallsStay ==
  ASSUME NEW S, CallsStay(S), NEW w \in S, NEW calls \in Seq(Calls)
  PROVE  WriteCalls(w, calls) \in S
<1> DEFINE n == Len(calls)
           g == [k \in 1..n |-> [v \in S |-> writeToolCall(v, calls[k])]]
           f == WritingCalls(w, calls)
           Reads(h) == h = [k \in 0..n |-> IF k = 0 THEN w ELSE writeToolCall(h[k - 1], calls[k])]
<1>1. n \in Nat
  OBVIOUS
<1>2. ASSUME NEW k \in 1..n, NEW v \in S PROVE writeToolCall(v, calls[k]) \in S
  <2>1. calls[k] \in Calls
    OBVIOUS
  <2> QED BY <2>1 DEF CallsStay
<1>3. g \in [1..n -> [S -> S]]
  BY <1>2
<1>4. PICK h \in [0..n -> S] : Step(n, w, g, h)
  <2> HIDE DEF n, g
  <2> QED BY <1>1, <1>3, Recursion
<1>5. Reads(h)
  <2>1. ASSUME NEW k \in 1..n PROVE g[k][h[k - 1]] = writeToolCall(h[k - 1], calls[k])
    BY <1>1
  <2>2. h = [k \in 0..n |-> IF k = 0 THEN w ELSE g[k][h[k - 1]]]
    BY <1>4 DEF Step
  <2> HIDE DEF g, n
  <2>3. \A k \in 0..n : k # 0 => k \in 1..n
    BY <1>1
  <2> QED BY <2>1, <2>2, <2>3
<1>6. Reads(f)
  <2>1. Reads(CHOOSE x : Reads(x))
    <3> HIDE DEF Reads
    <3> QED BY <1>5
  <2>2. f = CHOOSE x : Reads(x)
    BY DEF WritingCalls
  <2> HIDE DEF f, Reads
  <2> QED BY <2>1, <2>2
<1> HIDE DEF f
<1>7. f[0] = w /\ \A k \in 1..n : f[k] = writeToolCall(f[k - 1], calls[k])
  <2> HIDE DEF n
  <2> QED BY <1>1, <1>6
<1> DEFINE K == {k \in 0..n : f[k] \in S}
<1>8. \A k \in 0..n : k \in K
  <2>1. 0 \in K
    BY <1>1, <1>7
  <2>2. ASSUME NEW k \in 0..(n - 1), k \in K PROVE k + 1 \in K
    <3>1. k + 1 \in 1..n /\ (k + 1) - 1 = k
      BY <1>1
    <3>2. f[k + 1] = writeToolCall(f[k], calls[k + 1])
      BY <1>7, <3>1
    <3> QED BY <1>2, <2>2, <3>1, <3>2
  <2> HIDE DEF K, n
  <2> QED BY <1>1, <2>1, <2>2, Upwards
<1>9. f[n] \in S
  <2>1. n \in 0..n
    BY <1>1
  <2> QED BY <1>8, <2>1
<1> QED BY <1>9 DEF WriteCalls, f

\* All calls are flushed, or one lacks its id.
LEMMA FlushAllQuiet ==
  ASSUME NEW w \in Works
  PROVE  /\ Quiet(w, flushToolCalls(w))
         /\ ~ Failed(flushToolCalls(w)) => \A i \in Indexes : ~ Idless(flushToolCalls(w).b, i)
<1> DEFINE n == MaxCalls
           S == {v \in Works : Quiet(w, v)}
           g == [i \in 1..n |-> [v \in S |-> flushToolCall(v, i)]]
           f == FlushingCalls(w)
           Reads(h) == h = [i \in 0..n |-> IF i = 0 THEN w ELSE flushToolCall(h[i - 1], i)]
<1>1. n \in Nat
  BY MessageAssumption
<1>2. ASSUME NEW i \in 1..n, NEW v \in S PROVE flushToolCall(v, i) \in S
  <2>1. i \in Indexes /\ v \in Works /\ Quiet(w, v)
    BY DEF Indexes
  <2>2. Quiet(v, flushToolCall(v, i))
    BY <2>1, FlushQuiet
  <2>3. Quiet(w, flushToolCall(v, i))
    BY <2>1, <2>2, QuietMore
  <2> QED BY <2>2, <2>3 DEF Quiet, Onward
<1>3. w \in S
  BY QuietSelf
<1> HIDE DEF S
<1>4. g \in [1..n -> [S -> S]]
  BY <1>2
<1>5. PICK h \in [0..n -> S] : Step(n, w, g, h)
  <2> HIDE DEF n, g
  <2> QED BY <1>1, <1>3, <1>4, Recursion
<1>6. Reads(h)
  <2>1. ASSUME NEW i \in 1..n PROVE g[i][h[i - 1]] = flushToolCall(h[i - 1], i)
    BY <1>1
  <2>2. h = [i \in 0..n |-> IF i = 0 THEN w ELSE g[i][h[i - 1]]]
    BY <1>5 DEF Step
  <2> HIDE DEF g, n
  <2>3. \A i \in 0..n : i # 0 => i \in 1..n
    BY <1>1
  <2> QED BY <2>1, <2>2, <2>3
<1>7. Reads(f)
  <2>1. Reads(CHOOSE x : Reads(x))
    <3> HIDE DEF Reads
    <3> QED BY <1>6
  <2>2. f = CHOOSE x : Reads(x)
    BY DEF FlushingCalls
  <2> HIDE DEF f, Reads
  <2> QED BY <2>1, <2>2
<1> HIDE DEF f
<1>8. f[0] = w /\ \A i \in 1..n : f[i] = flushToolCall(f[i - 1], i)
  <2> HIDE DEF n
  <2> QED BY <1>1, <1>7
<1> DEFINE Full(k) == \A i \in 1..k : ~ Idless(f[k].b, i)
           K == {k \in 0..n : f[k] \in S /\ (~ Failed(f[k]) => Full(k))}
<1>9. \A k \in 0..n : k \in K
  <2>1. 0 \in K
    BY <1>1, <1>3, <1>8
  <2>2. ASSUME NEW k \in 0..(n - 1), k \in K PROVE k + 1 \in K
    <3>1. k + 1 \in 1..n /\ (k + 1) - 1 = k /\ k + 1 \in Indexes
      BY <1>1 DEF Indexes
    <3>2. f[k + 1] = flushToolCall(f[k], k + 1)
      BY <1>8, <3>1
    <3>3. f[k] \in S /\ f[k] \in Works /\ (~ Failed(f[k]) => Full(k))
      BY <2>2 DEF S
    <3>4. Quiet(f[k], f[k + 1]) /\ (~ Failed(f[k + 1]) => ~ Idless(f[k + 1].b, k + 1))
      BY <3>1, <3>2, <3>3, FlushQuiet
    <3>5. f[k + 1] \in S
      BY <1>2, <3>1, <3>2, <3>3
    <3>6. ASSUME ~ Failed(f[k + 1]), NEW i \in 1..(k + 1) PROVE ~ Idless(f[k + 1].b, i)
      <4>1. CASE i = k + 1
        BY <3>4, <3>6, <4>1
      <4>2. CASE i \in 1..k
        <5>1. ~ Failed(f[k])
          BY <3>4, <3>6 DEF Quiet, Onward
        <5>2. i \in Indexes
          BY <1>1, <4>2 DEF Indexes
        <5> QED BY <3>3, <3>4, <4>2, <5>1, <5>2 DEF Quiet
      <4> QED BY <1>1, <4>1, <4>2
    <3> QED BY <3>1, <3>5, <3>6
  <2> HIDE DEF K, n
  <2> QED BY <1>1, <2>1, <2>2, Upwards
<1>10. f[n] \in S /\ (~ Failed(f[n]) => Full(n))
  <2>1. n \in 0..n
    BY <1>1
  <2> QED BY <1>9, <2>1
<1>11. flushToolCalls(w) = f[n]
  BY DEF flushToolCalls, f
<1> QED BY <1>10, <1>11 DEF S, Indexes

-----------------------------------------------------------------------------
(* The blocks of a log *)

\* An event of block k of step s.
About(e, k, s) == IsBlock(e) /\ e.block = <<k, s>>

\* How the flags of the builder and the events so far belong together: open says which
\* blocks of step s have started and not ended, and no other block is left open.
Sound(q, open, s) ==
    /\ \A i \in 1..Len(q) : IsBlock(q[i]) => \E k \in Kinds, t \in 0..s : q[i].block = <<k, t>>
    /\ \A k \in Kinds : open[k] =>
         /\ \E i \in 1..Len(q) : q[i].type = "start" /\ q[i].block = <<k, s>>
         /\ \A i \in 1..Len(q) : q[i].type = "end" => q[i].block # <<k, s>>
    /\ \A i \in 1..Len(q) : q[i].type = "start" =>
         \/ \E j \in i..Len(q) : q[j].type = "end" /\ q[j].block = q[i].block
         \/ \E k \in Kinds : open[k] /\ q[i].block = <<k, s>>
    /\ \A i \in 1..Len(q), j \in 1..Len(q) :
         j < i /\ IsBlock(q[i]) /\ IsBlock(q[j]) /\ q[j].block = q[i].block =>
           q[i].type # "start" /\ q[j].type # "end"
    /\ \A i \in 1..Len(q) : IsBlock(q[i]) /\ q[i].type # "start" =>
         \E j \in 1..Len(q) : j < i /\ IsBlock(q[j]) /\ q[j].block = q[i].block

\* A block of step s that is not open has not begun.
Fresh(q, open, s) ==
    \A k \in Kinds : ~ open[k] => \A i \in 1..Len(q) : ~ About(q[i], k, s)

\* Every finish comes after the end of what was opened before it.
Closing(q) ==
    \A f \in 1..Len(q), i \in 1..Len(q) :
      i < f /\ q[f].type = "finish" /\ q[i].type = "start" =>
        \E j \in i..f : q[j].type = "end" /\ q[j].block = q[i].block

\* Events that are about no block.
LEMMA SoundMore ==
  ASSUME NEW q \in Seq(Events), NEW r \in Seq(Events), NEW open \in [Kinds -> BOOLEAN],
         NEW s \in Nat, Longer(q, r),
         \A i \in (Len(q) + 1)..Len(r) : ~ IsBlock(r[i]),
         Sound(q, open, s)
  PROVE  Sound(r, open, s) /\ (Fresh(q, open, s) => Fresh(r, open, s))
<1>1. Len(q) \in Nat /\ Len(r) \in Nat /\ Len(q) <= Len(r) /\ \A i \in 1..Len(q) : i \in 1..Len(r) /\ r[i] = q[i]
  BY DEF Longer
<1>2. \A i \in 1..Len(r) : IsBlock(r[i]) => i \in 1..Len(q) /\ r[i] = q[i]
  BY <1>1
<1>3. \A i \in 1..Len(r) : r[i].type \in {"start", "delta", "end"} => i \in 1..Len(q) /\ r[i] = q[i]
  BY <1>2 DEF IsBlock
<1>4. \A i \in 1..Len(r) : IsBlock(r[i]) => \E k \in Kinds, t \in 0..s : r[i].block = <<k, t>>
  BY <1>2 DEF Sound
<1>5. ASSUME NEW k \in Kinds, open[k]
      PROVE  /\ \E i \in 1..Len(r) : r[i].type = "start" /\ r[i].block = <<k, s>>
             /\ \A i \in 1..Len(r) : r[i].type = "end" => r[i].block # <<k, s>>
  <2>1. /\ \E i \in 1..Len(q) : q[i].type = "start" /\ q[i].block = <<k, s>>
        /\ \A i \in 1..Len(q) : q[i].type = "end" => q[i].block # <<k, s>>
    BY <1>5 DEF Sound
  <2>2. \E i \in 1..Len(r) : r[i].type = "start" /\ r[i].block = <<k, s>>
    BY <1>1, <2>1
  <2>3. \A i \in 1..Len(r) : r[i].type = "end" => r[i].block # <<k, s>>
    BY <1>3, <2>1
  <2> QED BY <2>2, <2>3
<1>6. ASSUME NEW i \in 1..Len(r), r[i].type = "start"
      PROVE  \/ \E j \in i..Len(r) : r[j].type = "end" /\ r[j].block = r[i].block
             \/ \E k \in Kinds : open[k] /\ r[i].block = <<k, s>>
  <2>1. i \in 1..Len(q) /\ r[i] = q[i]
    BY <1>3, <1>6
  <2>2. CASE \E j \in i..Len(q) : q[j].type = "end" /\ q[j].block = q[i].block
    <3>1. PICK j \in i..Len(q) : q[j].type = "end" /\ q[j].block = q[i].block
      BY <2>2
    <3>2. j \in i..Len(r) /\ r[j] = q[j]
      BY <1>1, <2>1
    <3> QED BY <2>1, <3>1, <3>2
  <2>3. CASE \E k \in Kinds : open[k] /\ q[i].block = <<k, s>>
    BY <2>1, <2>3
  <2> QED BY <1>6, <2>1, <2>2, <2>3 DEF Sound
<1>7. \A i \in 1..Len(r), j \in 1..Len(r) :
         j < i /\ IsBlock(r[i]) /\ IsBlock(r[j]) /\ r[j].block = r[i].block =>
           r[i].type # "start" /\ r[j].type # "end"
  <2>1. \A i \in 1..Len(q), j \in 1..Len(q) :
          j < i /\ IsBlock(q[i]) /\ IsBlock(q[j]) /\ q[j].block = q[i].block =>
            q[i].type # "start" /\ q[j].type # "end"
    BY DEF Sound
  <2>2. ASSUME NEW i \in 1..Len(r), NEW j \in 1..Len(r),
               j < i, IsBlock(r[i]), IsBlock(r[j]), r[j].block = r[i].block
        PROVE  r[i].type # "start" /\ r[j].type # "end"
    <3>1. i \in 1..Len(q) /\ r[i] = q[i] /\ j \in 1..Len(q) /\ r[j] = q[j]
      BY <1>2, <2>2
    <3> QED BY <2>1, <2>2, <3>1
  <2> QED BY <2>2
<1>8. \A i \in 1..Len(r) : IsBlock(r[i]) /\ r[i].type # "start" =>
         \E j \in 1..Len(r) : j < i /\ IsBlock(r[j]) /\ r[j].block = r[i].block
  BY <1>1, <1>2 DEF Sound
<1>9. Fresh(q, open, s) => Fresh(r, open, s)
  BY <1>2 DEF Fresh, About
<1> QED BY <1>4, <1>5, <1>6, <1>7, <1>8, <1>9 DEF Sound

\* So is what an event must not leave open.
LEMMA ClosingMore ==
  ASSUME NEW q \in Seq(Events), NEW r \in Seq(Events), Longer(q, r),
         \A i \in (Len(q) + 1)..Len(r) : r[i].type # "finish",
         Closing(q)
  PROVE  Closing(r)
<1>1. Len(q) \in Nat /\ Len(r) \in Nat /\ Len(q) <= Len(r) /\ \A i \in 1..Len(q) : i \in 1..Len(r) /\ r[i] = q[i]
  BY DEF Longer
<1>2. SUFFICES ASSUME NEW f \in 1..Len(r), NEW i \in 1..Len(r),
                      i < f, r[f].type = "finish", r[i].type = "start"
               PROVE  \E j \in i..f : r[j].type = "end" /\ r[j].block = r[i].block
  BY DEF Closing
<1>3. f \in 1..Len(q) /\ i \in 1..Len(q)
  BY <1>1, <1>2
<1>4. PICK j \in i..f : q[j].type = "end" /\ q[j].block = q[i].block
  BY <1>1, <1>2, <1>3 DEF Closing
<1>5. j \in 1..Len(q)
  BY <1>1, <1>3
<1> QED BY <1>1, <1>3, <1>4, <1>5

\* A log and one more event.
LEMMA AppendIs ==
  ASSUME NEW q \in Seq(Events), NEW e \in Events
  PROVE  LET r == Append(q, e) IN
         /\ r \in Seq(Events) /\ Len(q) \in Nat /\ Len(r) = Len(q) + 1
         /\ r[Len(q) + 1] = e
         /\ \A i \in 1..Len(q) : i \in 1..Len(r) /\ r[i] = q[i]
         /\ \A i \in 1..Len(r) : i \in 1..Len(q) \/ i = Len(q) + 1
         /\ Longer(q, r)
<1> DEFINE r == Append(q, e)
<1>1. r \in Seq(Events) /\ Len(q) \in Nat /\ Len(r) = Len(q) + 1 /\ r[Len(q) + 1] = e
  OBVIOUS
<1>2. \A i \in 1..Len(q) : r[i] = q[i]
  OBVIOUS
<1> HIDE DEF r
<1>3. \A i \in 1..Len(q) : i \in 1..Len(r)
  BY <1>1
<1>4. \A i \in 1..Len(r) : i \in 1..Len(q) \/ i = Len(q) + 1
  BY <1>1
<1>5. Longer(q, r)
  BY <1>1, <1>2 DEF Longer
<1> QED BY <1>1, <1>2, <1>3, <1>4, <1>5 DEF r

\* A block is opened.
LEMMA SoundStart ==
  ASSUME NEW q \in Seq(Events), NEW open \in [Kinds -> BOOLEAN], NEW s \in Nat,
         NEW k \in Kinds, NEW e \in Events, e.type = "start", e.block = <<k, s>>,
         ~ open[k], Sound(q, open, s), Fresh(q, open, s)
  PROVE  /\ Sound(Append(q, e), [open EXCEPT ![k] = TRUE], s)
         /\ Fresh(Append(q, e), [open EXCEPT ![k] = TRUE], s)
<1> DEFINE r == Append(q, e)
           o == [open EXCEPT ![k] = TRUE]
           n == Len(q) + 1
<1>1. /\ Len(q) \in Nat /\ Len(r) = n /\ r[n] = e /\ n \in 1..Len(r)
      /\ \A i \in 1..Len(q) : i \in 1..Len(r) /\ r[i] = q[i]
      /\ \A i \in 1..Len(r) : i \in 1..Len(q) \/ i = n
  BY AppendIs
<1>2. o[k] = TRUE /\ \A l \in Kinds : l # k => o[l] = open[l]
  OBVIOUS
<1>3. \A i \in 1..Len(q) : ~ About(q[i], k, s)
  BY DEF Fresh
<1>4. IsBlock(e) /\ e.type # "end"
  BY DEF IsBlock
<1> HIDE DEF r, o
<1>5. \A i \in 1..Len(r) : IsBlock(r[i]) => \E l \in Kinds, t \in 0..s : r[i].block = <<l, t>>
  BY <1>1 DEF Sound
<1>6. ASSUME NEW l \in Kinds, o[l]
      PROVE  /\ \E i \in 1..Len(r) : r[i].type = "start" /\ r[i].block = <<l, s>>
             /\ \A i \in 1..Len(r) : r[i].type = "end" => r[i].block # <<l, s>>
  <2>1. CASE l = k
    <3>1. \E i \in 1..Len(r) : r[i].type = "start" /\ r[i].block = <<l, s>>
      BY <1>1, <2>1
    <3>2. \A i \in 1..Len(r) : r[i].type = "end" => r[i].block # <<l, s>>
      BY <1>1, <1>3, <1>4, <2>1 DEF About, IsBlock
    <3> QED BY <3>1, <3>2
  <2>2. CASE l # k
    <3>1. open[l]
      BY <1>2, <1>6, <2>2
    <3>2. /\ \E i \in 1..Len(q) : q[i].type = "start" /\ q[i].block = <<l, s>>
          /\ \A i \in 1..Len(q) : q[i].type = "end" => q[i].block # <<l, s>>
      BY <3>1 DEF Sound
    <3>3. \E i \in 1..Len(r) : r[i].type = "start" /\ r[i].block = <<l, s>>
      BY <1>1, <3>2
    <3>4. \A i \in 1..Len(r) : r[i].type = "end" => r[i].block # <<l, s>>
      BY <1>1, <1>4, <3>2
    <3> QED BY <3>3, <3>4
  <2> QED BY <2>1, <2>2
<1>7. ASSUME NEW i \in 1..Len(r), r[i].type = "start"
      PROVE  \/ \E j \in i..Len(r) : r[j].type = "end" /\ r[j].block = r[i].block
             \/ \E l \in Kinds : o[l] /\ r[i].block = <<l, s>>
  <2>1. CASE i = n
    BY <1>1, <1>2, <2>1
  <2>2. CASE i \in 1..Len(q)
    <3>1. r[i] = q[i]
      BY <1>1, <2>2
    <3>2. CASE \E j \in i..Len(q) : q[j].type = "end" /\ q[j].block = q[i].block
      <4>1. PICK j \in i..Len(q) : q[j].type = "end" /\ q[j].block = q[i].block
        BY <3>2
      <4>2. j \in i..Len(r) /\ r[j] = q[j]
        BY <1>1, <2>2
      <4> QED BY <3>1, <4>1, <4>2
    <3>3. CASE \E l \in Kinds : open[l] /\ q[i].block = <<l, s>>
      BY <1>2, <3>1, <3>3
    <3> QED BY <1>7, <2>2, <3>1, <3>2, <3>3 DEF Sound
  <2> QED BY <1>1, <2>1, <2>2
<1>8. ASSUME NEW i \in 1..Len(r), NEW j \in 1..Len(r), j < i, IsBlock(r[i]), IsBlock(r[j]),
             r[j].block = r[i].block
      PROVE  r[i].type # "start" /\ r[j].type # "end"
  <2>1. j \in 1..Len(q) /\ r[j] = q[j]
    BY <1>1, <1>8
  <2>2. CASE i = n
    BY <1>1, <1>3, <1>8, <2>1, <2>2 DEF About
  <2>3. CASE i \in 1..Len(q)
    BY <1>1, <1>8, <2>1, <2>3 DEF Sound
  <2> QED BY <1>1, <2>2, <2>3
<1>9. ASSUME NEW i \in 1..Len(r), IsBlock(r[i]), r[i].type # "start"
      PROVE  \E j \in 1..Len(r) : j < i /\ IsBlock(r[j]) /\ r[j].block = r[i].block
  <2>1. i \in 1..Len(q) /\ r[i] = q[i]
    BY <1>1, <1>9
  <2>2. \A l \in 1..Len(q) : IsBlock(q[l]) /\ q[l].type # "start" =>
          \E j \in 1..Len(q) : j < l /\ IsBlock(q[j]) /\ q[j].block = q[l].block
    BY DEF Sound
  <2>3. PICK j \in 1..Len(q) : j < i /\ IsBlock(q[j]) /\ q[j].block = q[i].block
    BY <1>9, <2>1, <2>2
  <2>4. j \in 1..Len(r) /\ r[j] = q[j]
    BY <1>1
  <2> QED BY <2>1, <2>3, <2>4
<1>10. Sound(r, o, s)
  BY <1>5, <1>6, <1>7, <1>8, <1>9 DEF Sound
<1>11. Fresh(r, o, s)
  <2>1. SUFFICES ASSUME NEW l \in Kinds, ~ o[l], NEW i \in 1..Len(r) PROVE ~ About(r[i], l, s)
    BY DEF Fresh
  <2>2. l # k /\ ~ open[l]
    BY <1>2, <2>1
  <2>3. CASE i = n
    BY <1>1, <2>2, <2>3 DEF About
  <2>4. CASE i \in 1..Len(q)
    BY <1>1, <2>2, <2>4 DEF Fresh
  <2> QED BY <1>1, <2>3, <2>4
<1> QED BY <1>10, <1>11 DEF r, o

\* A delta is written to an open block.
LEMMA SoundDelta ==
  ASSUME NEW q \in Seq(Events), NEW open \in [Kinds -> BOOLEAN], NEW s \in Nat,
         NEW k \in Kinds, NEW e \in Events, e.type = "delta", e.block = <<k, s>>,
         open[k], Sound(q, open, s)
  PROVE  Sound(Append(q, e), open, s) /\ (Fresh(q, open, s) => Fresh(Append(q, e), open, s))
<1> DEFINE r == Append(q, e)
           n == Len(q) + 1
<1>1. /\ Len(q) \in Nat /\ Len(r) = n /\ r[n] = e /\ n \in 1..Len(r)
      /\ \A i \in 1..Len(q) : i \in 1..Len(r) /\ r[i] = q[i]
      /\ \A i \in 1..Len(r) : i \in 1..Len(q) \/ i = n
  BY AppendIs
<1>2. /\ \E i \in 1..Len(q) : q[i].type = "start" /\ q[i].block = <<k, s>>
      /\ \A i \in 1..Len(q) : q[i].type = "end" => q[i].block # <<k, s>>
  BY DEF Sound
<1>3. e.type # "start" /\ e.type # "end"
  OBVIOUS
<1> HIDE DEF r
<1>4. \A i \in 1..Len(r) : IsBlock(r[i]) => \E l \in Kinds, t \in 0..s : r[i].block = <<l, t>>
  BY <1>1 DEF Sound
<1>5. ASSUME NEW l \in Kinds, open[l]
      PROVE  /\ \E i \in 1..Len(r) : r[i].type = "start" /\ r[i].block = <<l, s>>
             /\ \A i \in 1..Len(r) : r[i].type = "end" => r[i].block # <<l, s>>
  <2>1. /\ \E i \in 1..Len(q) : q[i].type = "start" /\ q[i].block = <<l, s>>
        /\ \A i \in 1..Len(q) : q[i].type = "end" => q[i].block # <<l, s>>
    BY <1>5 DEF Sound
  <2>2. \E i \in 1..Len(r) : r[i].type = "start" /\ r[i].block = <<l, s>>
    BY <1>1, <2>1
  <2>3. \A i \in 1..Len(r) : r[i].type = "end" => r[i].block # <<l, s>>
    BY <1>1, <1>3, <2>1
  <2> QED BY <2>2, <2>3
<1>6. ASSUME NEW i \in 1..Len(r), r[i].type = "start"
      PROVE  \/ \E j \in i..Len(r) : r[j].type = "end" /\ r[j].block = r[i].block
             \/ \E l \in Kinds : open[l] /\ r[i].block = <<l, s>>
  <2>1. i \in 1..Len(q) /\ r[i] = q[i]
    BY <1>1, <1>3, <1>6
  <2>2. CASE \E j \in i..Len(q) : q[j].type = "end" /\ q[j].block = q[i].block
    <3>1. PICK j \in i..Len(q) : q[j].type = "end" /\ q[j].block = q[i].block
      BY <2>2
    <3>2. j \in i..Len(r) /\ r[j] = q[j]
      BY <1>1, <2>1
    <3> QED BY <2>1, <3>1, <3>2
  <2>3. CASE \E l \in Kinds : open[l] /\ q[i].block = <<l, s>>
    BY <2>1, <2>3
  <2> QED BY <1>6, <2>1, <2>2, <2>3 DEF Sound
<1>7. ASSUME NEW i \in 1..Len(r), NEW j \in 1..Len(r), j < i, IsBlock(r[i]), IsBlock(r[j]),
             r[j].block = r[i].block
      PROVE  r[i].type # "start" /\ r[j].type # "end"
  <2>1. j \in 1..Len(q) /\ r[j] = q[j]
    BY <1>1, <1>7
  <2>2. CASE i = n
    BY <1>1, <1>2, <1>3, <1>7, <2>1, <2>2
  <2>3. CASE i \in 1..Len(q)
    BY <1>1, <1>7, <2>1, <2>3 DEF Sound
  <2> QED BY <1>1, <2>2, <2>3
<1>8. ASSUME NEW i \in 1..Len(r), IsBlock(r[i]), r[i].type # "start"
      PROVE  \E j \in 1..Len(r) : j < i /\ IsBlock(r[j]) /\ r[j].block = r[i].block
  <2>1. CASE i = n
    <3>1. PICK j \in 1..Len(q) : q[j].type = "start" /\ q[j].block = <<k, s>>
      BY <1>2
    <3>2. j \in 1..Len(r) /\ j < i /\ r[j] = q[j] /\ r[i] = e
      BY <1>1, <2>1
    <3> QED BY <3>1, <3>2 DEF IsBlock
  <2>2. CASE i \in 1..Len(q)
    <3>1. r[i] = q[i]
      BY <1>1, <2>2
    <3>2. PICK j \in 1..Len(q) : j < i /\ IsBlock(q[j]) /\ q[j].block = q[i].block
      BY <1>8, <2>2, <3>1 DEF Sound
    <3> QED BY <1>1, <3>1, <3>2
  <2> QED BY <1>1, <2>1, <2>2
<1>9. Sound(r, open, s)
  <2>1. \A l \in Kinds : open[l] =>
             /\ \E i \in 1..Len(r) : r[i].type = "start" /\ r[i].block = <<l, s>>
             /\ \A i \in 1..Len(r) : r[i].type = "end" => r[i].block # <<l, s>>
    BY <1>5
  <2>2. \A i \in 1..Len(r) : r[i].type = "start" =>
             \/ \E j \in i..Len(r) : r[j].type = "end" /\ r[j].block = r[i].block
             \/ \E l \in Kinds : open[l] /\ r[i].block = <<l, s>>
    BY <1>6
  <2>3. \A i \in 1..Len(r), j \in 1..Len(r) :
         j < i /\ IsBlock(r[i]) /\ IsBlock(r[j]) /\ r[j].block = r[i].block =>
           r[i].type # "start" /\ r[j].type # "end"
    BY <1>7
  <2>4. \A i \in 1..Len(r) : IsBlock(r[i]) /\ r[i].type # "start" =>
         \E j \in 1..Len(r) : j < i /\ IsBlock(r[j]) /\ r[j].block = r[i].block
    BY <1>8
  <2> QED BY <1>4, <2>1, <2>2, <2>3, <2>4, Zenon DEF Sound
<1>10. ASSUME Fresh(q, open, s) PROVE Fresh(r, open, s)
  <2>1. SUFFICES ASSUME NEW l \in Kinds, ~ open[l], NEW i \in 1..Len(r) PROVE ~ About(r[i], l, s)
    BY DEF Fresh
  <2>2. l # k
    BY <2>1
  <2>3. CASE i = n
    BY <1>1, <2>2, <2>3 DEF About
  <2>4. CASE i \in 1..Len(q)
    BY <1>1, <1>10, <2>1, <2>4 DEF Fresh
  <2> QED BY <1>1, <2>3, <2>4
<1> QED BY <1>9, <1>10 DEF r

\* An open block is closed.
LEMMA SoundEnd ==
  ASSUME NEW q \in Seq(Events), NEW open \in [Kinds -> BOOLEAN], NEW s \in Nat,
         NEW k \in Kinds, NEW e \in Events, e.type = "end", e.block = <<k, s>>,
         open[k], Sound(q, open, s)
  PROVE  Sound(Append(q, e), [open EXCEPT ![k] = FALSE], s)
<1> DEFINE r == Append(q, e)
           o == [open EXCEPT ![k] = FALSE]
           n == Len(q) + 1
<1>1. /\ Len(q) \in Nat /\ Len(r) = n /\ r[n] = e /\ n \in 1..Len(r)
      /\ \A i \in 1..Len(q) : i \in 1..Len(r) /\ r[i] = q[i]
      /\ \A i \in 1..Len(r) : i \in 1..Len(q) \/ i = n
  BY AppendIs
<1>2. /\ \E i \in 1..Len(q) : q[i].type = "start" /\ q[i].block = <<k, s>>
      /\ \A i \in 1..Len(q) : q[i].type = "end" => q[i].block # <<k, s>>
  BY DEF Sound
<1>3. e.type # "start"
  OBVIOUS
<1>o. ~ o[k] /\ \A l \in Kinds : l # k => o[l] = open[l]
  OBVIOUS
<1> HIDE DEF r, o
<1>4. \A i \in 1..Len(r) : IsBlock(r[i]) => \E l \in Kinds, t \in 0..s : r[i].block = <<l, t>>
  BY <1>1 DEF Sound
<1>5. ASSUME NEW l \in Kinds, o[l]
      PROVE  /\ \E i \in 1..Len(r) : r[i].type = "start" /\ r[i].block = <<l, s>>
             /\ \A i \in 1..Len(r) : r[i].type = "end" => r[i].block # <<l, s>>
  <2>1. l # k /\ open[l]
    BY <1>5, <1>o
  <2>2. /\ \E i \in 1..Len(q) : q[i].type = "start" /\ q[i].block = <<l, s>>
        /\ \A i \in 1..Len(q) : q[i].type = "end" => q[i].block # <<l, s>>
    BY <2>1 DEF Sound
  <2>3. \E i \in 1..Len(r) : r[i].type = "start" /\ r[i].block = <<l, s>>
    BY <1>1, <2>2
  <2>4. \A i \in 1..Len(r) : r[i].type = "end" => r[i].block # <<l, s>>
    BY <1>1, <2>1, <2>2
  <2> QED BY <2>3, <2>4
<1>6. ASSUME NEW i \in 1..Len(r), r[i].type = "start"
      PROVE  \/ \E j \in i..Len(r) : r[j].type = "end" /\ r[j].block = r[i].block
             \/ \E l \in Kinds : o[l] /\ r[i].block = <<l, s>>
  <2>1. i \in 1..Len(q) /\ r[i] = q[i]
    BY <1>1, <1>3, <1>6
  <2>2. CASE \E j \in i..Len(q) : q[j].type = "end" /\ q[j].block = q[i].block
    <3>1. PICK j \in i..Len(q) : q[j].type = "end" /\ q[j].block = q[i].block
      BY <2>2
    <3>2. j \in i..Len(r) /\ r[j] = q[j]
      BY <1>1, <2>1
    <3> QED BY <2>1, <3>1, <3>2
  <2>3. CASE \E l \in Kinds : open[l] /\ q[i].block = <<l, s>>
    <3>1. PICK l \in Kinds : open[l] /\ q[i].block = <<l, s>>
      BY <2>3
    <3>2. CASE l = k
      <4>1. n \in i..Len(r)
        BY <1>1, <2>1
      <4> QED BY <1>1, <2>1, <3>1, <3>2, <4>1
    <3>3. CASE l # k
      BY <1>o, <2>1, <3>1, <3>3
    <3> QED BY <3>2, <3>3
  <2> QED BY <1>6, <2>1, <2>2, <2>3 DEF Sound
<1>7. ASSUME NEW i \in 1..Len(r), NEW j \in 1..Len(r), j < i, IsBlock(r[i]), IsBlock(r[j]),
             r[j].block = r[i].block
      PROVE  r[i].type # "start" /\ r[j].type # "end"
  <2>1. j \in 1..Len(q) /\ r[j] = q[j]
    BY <1>1, <1>7
  <2>2. CASE i = n
    BY <1>1, <1>2, <1>3, <1>7, <2>1, <2>2
  <2>3. CASE i \in 1..Len(q)
    BY <1>1, <1>7, <2>1, <2>3 DEF Sound
  <2> QED BY <1>1, <2>2, <2>3
<1>8. ASSUME NEW i \in 1..Len(r), IsBlock(r[i]), r[i].type # "start"
      PROVE  \E j \in 1..Len(r) : j < i /\ IsBlock(r[j]) /\ r[j].block = r[i].block
  <2>1. CASE i = n
    <3>1. PICK j \in 1..Len(q) : q[j].type = "start" /\ q[j].block = <<k, s>>
      BY <1>2
    <3>2. j \in 1..Len(r) /\ j < i /\ r[j] = q[j] /\ r[i] = e
      BY <1>1, <2>1
    <3> QED BY <3>1, <3>2 DEF IsBlock
  <2>2. CASE i \in 1..Len(q)
    <3>1. r[i] = q[i]
      BY <1>1, <2>2
    <3>2. PICK j \in 1..Len(q) : j < i /\ IsBlock(q[j]) /\ q[j].block = q[i].block
      BY <1>8, <2>2, <3>1 DEF Sound
    <3> QED BY <1>1, <3>1, <3>2
  <2> QED BY <1>1, <2>1, <2>2
<1>9. Sound(r, o, s)
  BY <1>4, <1>5, <1>6, <1>7, <1>8 DEF Sound
<1> QED BY <1>9 DEF r, o

\* A finish after which no block is open.
LEMMA ClosingFinish ==
  ASSUME NEW q \in Seq(Events), NEW open \in [Kinds -> BOOLEAN], NEW s \in Nat,
         NEW e \in Events, \A k \in Kinds : ~ open[k], Sound(q, open, s), Closing(q)
  PROVE  Closing(Append(q, e))
<1> DEFINE r == Append(q, e)
           n == Len(q) + 1
<1>1. /\ Len(q) \in Nat /\ Len(r) = n /\ r[n] = e /\ n \in 1..Len(r)
      /\ \A i \in 1..Len(q) : i \in 1..Len(r) /\ r[i] = q[i]
      /\ \A i \in 1..Len(r) : i \in 1..Len(q) \/ i = n
  BY AppendIs
<1> SUFFICES Closing(r)
  OBVIOUS
<1> HIDE DEF r
<1>2. SUFFICES ASSUME NEW f \in 1..Len(r), NEW i \in 1..Len(r),
                      i < f, r[f].type = "finish", r[i].type = "start"
               PROVE  \E j \in i..f : r[j].type = "end" /\ r[j].block = r[i].block
  BY DEF Closing
<1>3. i \in 1..Len(q) /\ r[i] = q[i]
  BY <1>1, <1>2
<1>4. \E j \in i..f : j \in 1..Len(q) /\ q[j].type = "end" /\ q[j].block = q[i].block
  <2>1. CASE f = n
    <3>1. PICK j \in i..Len(q) : q[j].type = "end" /\ q[j].block = q[i].block
      BY <1>2, <1>3 DEF Sound
    <3>2. j \in i..f /\ j \in 1..Len(q)
      BY <1>1, <1>3, <2>1
    <3> QED BY <3>1, <3>2
  <2>2. CASE f \in 1..Len(q)
    <3>1. PICK j \in i..f : q[j].type = "end" /\ q[j].block = q[i].block
      BY <1>1, <1>2, <1>3, <2>2 DEF Closing
    <3>2. j \in 1..Len(q)
      BY <1>1, <1>3, <2>2
    <3> QED BY <3>1, <3>2
  <2> QED BY <1>1, <2>1, <2>2
<1> QED BY <1>1, <1>3, <1>4

\* The next step has not begun.
LEMMA SoundStep ==
  ASSUME NEW q \in Seq(Events), NEW open \in [Kinds -> BOOLEAN], NEW s \in Nat,
         \A k \in Kinds : ~ open[k], Sound(q, open, s)
  PROVE  Sound(q, open, s + 1) /\ Fresh(q, open, s + 1)
<1>1. \A i \in 1..Len(q) : IsBlock(q[i]) => \E k \in Kinds, t \in 0..(s + 1) : q[i].block = <<k, t>>
  <2>1. \A t \in 0..s : t \in 0..(s + 1)
    OBVIOUS
  <2> QED BY <2>1 DEF Sound
<1>2. Sound(q, open, s + 1)
  BY <1>1 DEF Sound
<1>3. ASSUME NEW k \in Kinds, NEW i \in 1..Len(q) PROVE ~ About(q[i], k, s + 1)
  <2>1. \A t \in 0..s : t # s + 1
    OBVIOUS
  <2> QED BY <2>1 DEF About, Sound
<1> QED BY <1>2, <1>3 DEF Fresh

-----------------------------------------------------------------------------
(* What the handlers do to the blocks *)

Solid(w) == Sound(w.log, w.b.open, w.b.stepIndex) /\ Closing(w.log)
Unbegun(w) == Fresh(w.log, w.b.open, w.b.stepIndex)

\* The fields of a handler's record.
LEMMA WorkIs ==
  ASSUME NEW w \in Works
  PROVE  /\ w.b \in Builders /\ w.log \in Seq(Events) /\ w.room \in Nat
         /\ w.b.open \in [Kinds -> BOOLEAN] /\ w.b.stepIndex \in Nat
         /\ w.b.think \in Split /\ w.b.toolCalls \in [Indexes -> CallStates]
<1>1. w.b \in Builders /\ w.log \in Seq(Events) /\ w.room \in Nat
  BY DEF Works
<1>2. /\ w.b.open \in [Kinds -> BOOLEAN] /\ w.b.stepIndex \in Nat
      /\ w.b.think \in Split /\ w.b.toolCalls \in [Indexes -> CallStates]
  BY <1>1 DEF Builders
<1> QED BY <1>1, <1>2

\* An append succeeds, fails for want of room, or is left out after an error.
LEMMA EmitCases ==
  ASSUME NEW w \in Works, NEW e \in Events
  PROVE  LET v == Emit(w, e) IN
         /\ v \in Works /\ v.b = w.b
         /\ \/ ~ Failed(w) /\ ~ Failed(v) /\ v.log = Append(w.log, e)
            \/ Failed(v) /\ v.log = w.log /\ (Failed(w) \/ v.room = 0)
         /\ Failed(w) => v = w
<1> DEFINE v == Emit(w, e)
<1>1. w.room \in Nat
  BY WorkIs
<1>2. v \in Works /\ v.b = w.b /\ (Failed(w) => v = w)
  BY EmitIs
<1>3. CASE Failed(w)
  BY <1>2, <1>3
<1>4. CASE ~ Failed(w) /\ w.room > 0
  BY <1>2, <1>4, EmitIs
<1>5. CASE ~ Failed(w) /\ ~ (w.room > 0)
  <2>1. w.room = 0
    BY <1>1, <1>5
  <2> QED BY <1>2, <1>5, <2>1, EmitIs
<1> QED BY <1>3, <1>4, <1>5

\* The blocks depend on the stream, the step and what is open only.
LEMMA SameSolid ==
  ASSUME NEW w, NEW v, v.log = w.log, v.b.open = w.b.open, v.b.stepIndex = w.b.stepIndex
  PROVE  (Solid(v) <=> Solid(w)) /\ (Unbegun(v) <=> Unbegun(w))
BY DEF Solid, Unbegun

\* Only a finish has to find all blocks closed.
LEMMA ClosingAppend ==
  ASSUME NEW q \in Seq(Events), NEW e \in Parted, Closing(q) PROVE Closing(Append(q, e))
<1> DEFINE r == Append(q, e)
<1>1. e \in Events /\ e.type # "finish"
  BY DEF Events, Parted
<1>2. r \in Seq(Events) /\ Longer(q, r) /\ Len(r) = Len(q) + 1 /\ r[Len(q) + 1] = e /\ Len(q) \in Nat
  BY <1>1, AppendIs
<1> HIDE DEF r
<1>3. \A i \in (Len(q) + 1)..Len(r) : i = Len(q) + 1
  BY <1>2
<1>4. \A i \in (Len(q) + 1)..Len(r) : r[i].type # "finish"
  BY <1>1, <1>2, <1>3
<1>5. Closing(r)
  BY <1>2, <1>4, ClosingMore
<1> QED BY <1>5 DEF r

\* What follows the opening of a block.
LEMMA StartSolid ==
  ASSUME NEW w \in Works, NEW kind \in Kinds, ~ Failed(w), ~ w.b.open[kind],
         Solid(w), Unbegun(w)
  PROVE  LET opened == Emit(w, Event("start", Block(w, kind), <<>>))
             marked == [opened EXCEPT !.b.open[kind] = TRUE]
         IN /\ Failed(opened) => Solid(opened) /\ Unbegun(opened)
            /\ ~ Failed(opened) => Solid(marked) /\ Unbegun(marked)
<1> DEFINE e == Event("start", Block(w, kind), <<>>)
           opened == Emit(w, e)
           marked == [opened EXCEPT !.b.open[kind] = TRUE]
           o == [w.b.open EXCEPT ![kind] = TRUE]
           s == w.b.stepIndex
<1>1. e \in Parted /\ e \in Events /\ e.type = "start" /\ e.block = <<kind, s>>
  <2>1. <<>> \in Texts
    BY DEF Texts
  <2>2. e \in Parted
    BY <2>1, BlockEvent
  <2> QED BY <2>2 DEF Events, Event, Block
<1> HIDE DEF e
<1>2. w.log \in Seq(Events) /\ w.b.open \in [Kinds -> BOOLEAN] /\ s \in Nat
  BY WorkIs
<1>3. /\ opened \in Works /\ opened.b = w.b
      /\ Failed(opened) => opened.log = w.log
      /\ ~ Failed(opened) => opened.log = Append(w.log, e)
  BY <1>1, EmitCases
<1> HIDE DEF opened, s
<1>4. Failed(opened) => Solid(opened) /\ Unbegun(opened)
  BY <1>3, SameSolid
<1>5. ASSUME ~ Failed(opened) PROVE Solid(marked) /\ Unbegun(marked)
  <2>1. /\ marked.log = opened.log /\ marked.b.open = o /\ Onward(opened, marked)
    <3>1. TRUE \in BOOLEAN
      OBVIOUS
    <3>2. marked.log = opened.log /\ Onward(opened, marked) /\ marked.b.open = [opened.b.open EXCEPT ![kind] = TRUE]
      BY <1>3, <1>5, <3>1, OpenOnward
    <3> HIDE DEF marked
    <3> QED BY <1>3, <3>2
  <2>2. marked.b.stepIndex = s
    BY <1>3, <2>1 DEF Onward, Frame, s
  <2> HIDE DEF marked
  <2>3. Sound(Append(w.log, e), o, s) /\ Fresh(Append(w.log, e), o, s)
    <3>1. Sound(w.log, w.b.open, s) /\ Fresh(w.log, w.b.open, s)
      BY DEF Solid, Unbegun, s
    <3> QED BY <1>1, <1>2, <3>1, SoundStart
  <2>4. Closing(Append(w.log, e))
    BY <1>1, <1>2, ClosingAppend DEF Solid
  <2> QED BY <1>3, <1>5, <2>1, <2>2, <2>3, <2>4 DEF Solid, Unbegun
<1> QED BY <1>4, <1>5 DEF opened, e

\* A delta of an open block.
LEMMA DeltaSolid ==
  ASSUME NEW w \in Works, NEW kind \in Kinds, NEW e \in Parted, e.type = "delta",
         e.block = Block(w, kind), w.b.open[kind], Solid(w), Unbegun(w)
  PROVE  Solid(Emit(w, e)) /\ Unbegun(Emit(w, e))
<1> DEFINE v == Emit(w, e)
           s == w.b.stepIndex
<1>1. w.log \in Seq(Events) /\ w.b.open \in [Kinds -> BOOLEAN] /\ s \in Nat
  BY WorkIs
<1>2. e \in Events /\ e.block = <<kind, s>>
  BY DEF Events, Block
<1>3. v.b = w.b /\ (v.log = w.log \/ v.log = Append(w.log, e))
  BY <1>2, EmitCases
<1>4. Sound(w.log, w.b.open, s) /\ Fresh(w.log, w.b.open, s) /\ Closing(w.log)
  BY DEF Solid, Unbegun
<1> SUFFICES Solid(v) /\ Unbegun(v)
  OBVIOUS
<1> HIDE DEF v
<1>5. CASE v.log = w.log
  BY <1>3, <1>5, SameSolid
<1>6. CASE v.log = Append(w.log, e)
  <2>1. Sound(Append(w.log, e), w.b.open, s) /\ Fresh(Append(w.log, e), w.b.open, s)
    <3> HIDE DEF s
    <3> QED BY <1>1, <1>2, <1>4, SoundDelta
  <2>2. Closing(Append(w.log, e))
    BY <1>1, <1>4, ClosingAppend
  <2> QED BY <1>3, <1>6, <2>1, <2>2 DEF Solid, Unbegun
<1> QED BY <1>3, <1>5, <1>6

\* Blocks are written without the splitter and the calls, and fail for want of room only.
Writing(w, v) ==
    /\ Onward(w, v)
    /\ v.b.think = w.b.think /\ v.b.toolCalls = w.b.toolCalls
    /\ Failed(v) => Failed(w) \/ v.room = 0

\* Steps that write to the stream and leave the step, the splitter and the calls.
LEMMA WritingSelf == ASSUME NEW w \in Works PROVE Writing(w, w)
BY OnwardSelf DEF Writing

LEMMA WritingMore ==
  ASSUME NEW w \in Works, NEW v, NEW u, Writing(w, v), Writing(v, u) PROVE Writing(w, u)
<1>1. Onward(w, u) /\ Onward(v, u)
  BY OnwardMore DEF Writing
<1>2. Failed(v) => u = v
  BY <1>1 DEF Onward
<1> QED BY <1>1, <1>2 DEF Writing

LEMMA EmitWriting == ASSUME NEW w \in Works, NEW e \in Parted PROVE Writing(w, Emit(w, e))
<1>1. e \in Events
  BY DEF Events
<1> QED BY <1>1, EmitOnward, EmitCases DEF Writing

\* A block that is marked as open.
LEMMA OpenWriting ==
  ASSUME NEW w \in Works, ~ Failed(w), NEW kind \in Kinds, NEW x \in BOOLEAN
  PROVE  Writing(w, [w EXCEPT !.b.open[kind] = x])
<1> DEFINE v == [w EXCEPT !.b.open[kind] = x]
<1>1. Onward(w, v) /\ v.err = w.err /\ v.b.think = w.b.think /\ v.b.toolCalls = w.b.toolCalls
  BY OpenOnward, ZenonT(60)
<1> HIDE DEF v
<1>2. Writing(w, v)
  BY <1>1 DEF Writing, Failed
<1> QED BY <1>2 DEF v

\* A delta leaves the blocks well formed, and opens its block unless an append fails.
LEMMA WriteBlockSolid ==
  ASSUME NEW w \in Works, NEW kind \in Kinds, NEW delta \in Texts
  PROVE  LET v == WriteBlock(w, kind, delta) IN
         Writing(w, v) /\ (Solid(w) /\ Unbegun(w) => Solid(v) /\ Unbegun(v))
<1> DEFINE started == Event("start", Block(w, kind), <<>>)
           told == Event("delta", Block(w, kind), delta)
           opened == Emit(w, started)
           marked == [opened EXCEPT !.b.open[kind] = TRUE]
           v == WriteBlock(w, kind, delta)
           Kept2(u) == Writing(w, u) /\ (Solid(w) /\ Unbegun(w) => Solid(u) /\ Unbegun(u))
<1>1. started \in Parted /\ told \in Parted
  BY BlockEvent
<1>2. told.type = "delta" /\ told.block = Block(w, kind)
  BY DEF Event
<1>3. v = IF Failed(w) \/ delta = <<>> THEN w
          ELSE Emit(IF w.b.open[kind] THEN w ELSE IF Failed(opened) THEN opened ELSE marked, told)
  BY DEF WriteBlock
<1>4. CASE Failed(w) \/ delta = <<>>
  BY <1>3, <1>4, WritingSelf
<1>5. CASE ~ (Failed(w) \/ delta = <<>>) /\ w.b.open[kind]
  <2>1. v = Emit(w, told)
    BY <1>3, <1>5
  <2> HIDE DEF told, v
  <2>2. Writing(w, Emit(w, told))
    BY <1>1, EmitWriting
  <2>3. Solid(w) /\ Unbegun(w) => Solid(Emit(w, told)) /\ Unbegun(Emit(w, told))
    BY <1>1, <1>2, <1>5, DeltaSolid
  <2>4. Kept2(v)
    BY <2>1, <2>2, <2>3
  <2> QED BY <2>4 DEF v
<1>6. CASE ~ (Failed(w) \/ delta = <<>>) /\ ~ w.b.open[kind]
  <2>1. Writing(w, opened) /\ opened \in Works /\ opened.b = w.b
    <3>1. started \in Events
      BY <1>1 DEF Events
    <3> HIDE DEF started
    <3> QED BY <1>1, <3>1, EmitWriting, EmitIs
  <2>2. Solid(w) /\ Unbegun(w) =>
          /\ Failed(opened) => Solid(opened) /\ Unbegun(opened)
          /\ ~ Failed(opened) => Solid(marked) /\ Unbegun(marked)
    BY <1>6, StartSolid
  <2>3. CASE Failed(opened)
    <3>1. v = Emit(opened, told)
      BY <1>3, <1>6, <2>3
    <3> HIDE DEF opened, told, v
    <3>2. Emit(opened, told) = opened
      BY <2>3 DEF Emit
    <3>3. Kept2(v)
      BY <2>1, <2>2, <2>3, <3>1, <3>2
    <3> QED BY <3>3 DEF v
  <2>4. CASE ~ Failed(opened)
    <3>1. v = Emit(marked, told)
      BY <1>3, <1>6, <2>4
    <3>2. Writing(opened, marked)
      <4>1. TRUE \in BOOLEAN
        OBVIOUS
      <4> HIDE DEF opened
      <4> QED BY <2>1, <2>4, <4>1, OpenWriting
    <3>3. marked.b.open[kind]
      <4>1. TRUE \in BOOLEAN
        OBVIOUS
      <4>2. opened.b.open \in [Kinds -> BOOLEAN]
        BY <2>1, WorkIs
      <4> HIDE DEF opened
      <4>3. marked.b.open = [opened.b.open EXCEPT ![kind] = TRUE]
        BY <2>1, <2>4, <4>1, OpenOnward
      <4> HIDE DEF marked
      <4> QED BY <4>2, <4>3
    <3> HIDE DEF marked, opened, told, v
    <3>4. Writing(w, marked) /\ marked \in Works
      BY <2>1, <3>2, WritingMore DEF Writing, Onward
    <3>5. told.block = Block(marked, kind)
      BY <1>2, <3>4 DEF Block, Writing, Onward, Frame
    <3>6. Writing(w, Emit(marked, told))
      BY <1>1, <3>4, EmitWriting, WritingMore
    <3>7. Solid(w) /\ Unbegun(w) => Solid(Emit(marked, told)) /\ Unbegun(Emit(marked, told))
      BY <1>1, <1>2, <2>2, <2>4, <3>3, <3>4, <3>5, DeltaSolid
    <3>8. Kept2(v)
      BY <3>1, <3>6, <3>7
    <3> QED BY <3>8 DEF v
  <2> QED BY <2>3, <2>4
<1> QED BY <1>4, <1>5, <1>6

\* The end of a block leaves the blocks well formed and the block closed.
LEMMA EndBlockSolid ==
  ASSUME NEW w \in Works, NEW kind \in Kinds
  PROVE  LET v == EndBlock(w, kind) IN
         /\ Writing(w, v) /\ (Solid(w) => Solid(v))
         /\ ~ Failed(v) => v.b.open = [w.b.open EXCEPT ![kind] = FALSE]
<1> DEFINE e == Event("end", Block(w, kind), <<>>)
           ended == Emit(w, e)
           marked == [ended EXCEPT !.b.open[kind] = FALSE]
           v == EndBlock(w, kind)
           s == w.b.stepIndex
           o == [w.b.open EXCEPT ![kind] = FALSE]
           Ends(u) == /\ Writing(w, u) /\ (Solid(w) => Solid(u))
                      /\ ~ Failed(u) => u.b.open = o
<1>1. e \in Parted /\ e \in Events /\ e.type = "end" /\ e.block = <<kind, s>>
  <2>1. <<>> \in Texts
    BY DEF Texts
  <2>2. e \in Parted
    BY <2>1, BlockEvent
  <2> QED BY <2>2 DEF Events, Event, Block
<1>2. v = IF Failed(w) \/ ~ w.b.open[kind] THEN w
          ELSE IF Failed(ended) THEN ended ELSE marked
  BY DEF EndBlock
<1>3. w.log \in Seq(Events) /\ w.b.open \in [Kinds -> BOOLEAN] /\ s \in Nat
  BY WorkIs
<1> SUFFICES Ends(v)
  OBVIOUS
<1> HIDE DEF e, v
<1>4. /\ ended \in Works /\ ended.b = w.b /\ Writing(w, ended)
      /\ Failed(ended) => ended.log = w.log
      /\ ~ Failed(ended) => ended.log = Append(w.log, e)
  BY <1>1, EmitCases, EmitWriting
<1> HIDE DEF ended
<1>5. CASE Failed(w) \/ ~ w.b.open[kind]
  <2>1. ~ w.b.open[kind] => w.b.open = o
    BY <1>3
  <2> QED BY <1>2, <1>5, <2>1, WritingSelf
<1>6. CASE ~ (Failed(w) \/ ~ w.b.open[kind]) /\ Failed(ended)
  BY <1>2, <1>4, <1>6, SameSolid
<1>7. CASE ~ (Failed(w) \/ ~ w.b.open[kind]) /\ ~ Failed(ended)
  <2>1. v = marked
    BY <1>2, <1>7
  <2>2. /\ marked.log = ended.log /\ Onward(ended, marked) /\ marked.b.open = [ended.b.open EXCEPT ![kind] = FALSE]
        /\ Writing(ended, marked)
    BY <1>4, <1>7, OpenOnward, OpenWriting
  <2> HIDE DEF marked
  <2>3. marked.b.stepIndex = s /\ marked.b.open = o /\ marked.log = Append(w.log, e)
    BY <1>4, <1>7, <2>2 DEF Onward, Frame
  <2>4. Writing(w, marked)
    BY <1>4, <2>2, WritingMore
  <2>5. ASSUME Solid(w) PROVE Solid(marked)
    <3>1. Sound(w.log, w.b.open, s) /\ Closing(w.log)
      BY <2>5 DEF Solid
    <3> HIDE DEF s, o
    <3>2. Sound(Append(w.log, e), o, s)
      BY <1>1, <1>3, <1>7, <3>1, SoundEnd DEF o
    <3>3. Closing(Append(w.log, e))
      BY <1>1, <1>3, <3>1, ClosingAppend
    <3> QED BY <2>3, <3>2, <3>3 DEF Solid
  <2> HIDE DEF o
  <2> QED BY <2>1, <2>3, <2>4, <2>5
<1> QED BY <1>5, <1>6, <1>7

\* Tool calls are about no block.
LEMMA QuietSolid ==
  ASSUME NEW w \in Works, NEW v, Onward(w, v), v.b.open = w.b.open,
         \A i \in (Len(w.log) + 1)..Len(v.log) : v.log[i].type \in {"tool_call", "tool_result", "error"}
  PROVE  (Solid(w) => Solid(v)) /\ (Solid(w) /\ Unbegun(w) => Unbegun(v))
<1>1. v \in Works /\ Longer(w.log, v.log) /\ v.b.stepIndex = w.b.stepIndex
  BY DEF Onward, Frame
<1>2. /\ w.log \in Seq(Events) /\ v.log \in Seq(Events)
      /\ w.b.open \in [Kinds -> BOOLEAN] /\ w.b.stepIndex \in Nat
  BY <1>1, WorkIs
<1>3. \A i \in (Len(w.log) + 1)..Len(v.log) : ~ IsBlock(v.log[i]) /\ v.log[i].type # "finish"
  BY DEF IsBlock
<1>4. Closing(w.log) => Closing(v.log)
  BY <1>1, <1>2, <1>3, ClosingMore
<1>5. Sound(w.log, w.b.open, w.b.stepIndex) =>
        /\ Sound(v.log, w.b.open, w.b.stepIndex)
        /\ Fresh(w.log, w.b.open, w.b.stepIndex) => Fresh(v.log, w.b.open, w.b.stepIndex)
  BY <1>1, <1>2, <1>3, SoundMore
<1> QED BY <1>1, <1>4, <1>5 DEF Solid, Unbegun

-----------------------------------------------------------------------------
(* The handlers of a message *)

Complete(w) == \A i \in Indexes : ~ Idless(w.b, i)

\* What a handler of the parts of a message keeps: while it does not fail every call with
\* arguments has its id, and a block that is not open has not begun.
Calm(w, v) ==
    /\ Onward(w, v)
    /\ Failed(v) => Failed(w) \/ v.room = 0 \/ ~ Complete(v)
    /\ ~ Failed(v) /\ Complete(w) => Complete(v)
    /\ Solid(w) /\ Unbegun(w) => Solid(v) /\ Unbegun(v)

\* Steps that leave the step, the chunks, the output and the usage.
LEMMA CalmSelf == ASSUME NEW w \in Works PROVE Calm(w, w)
BY OnwardSelf DEF Calm

LEMMA CalmMore ==
  ASSUME NEW w \in Works, NEW v, NEW u, Calm(w, v), Calm(v, u) PROVE Calm(w, u)
<1>1. Onward(w, u) /\ Onward(v, u)
  BY OnwardMore DEF Calm
<1>2. Failed(v) => u = v
  BY <1>1 DEF Onward
<1>3. Failed(u) => Failed(w) \/ u.room = 0 \/ ~ Complete(u)
  BY <1>2 DEF Calm
<1>4. ~ Failed(u) /\ Complete(w) => Complete(u)
  BY <1>2 DEF Calm
<1>5. Solid(w) /\ Unbegun(w) => Solid(u) /\ Unbegun(u)
  BY DEF Calm
<1> QED BY <1>1, <1>3, <1>4, <1>5 DEF Calm

LEMMA WritingCalm ==
  ASSUME NEW w \in Works, NEW v, Writing(w, v), Solid(w) /\ Unbegun(w) => Solid(v) /\ Unbegun(v)
  PROVE  Calm(w, v)
<1>1. Complete(v) <=> Complete(w)
  BY DEF Complete, Idless, Writing
<1> QED BY <1>1 DEF Calm, Writing

LEMMA QuietCalm == ASSUME NEW w \in Works, NEW v, Quiet(w, v) PROVE Calm(w, v)
<1>1. Complete(v) <=> Complete(w)
  BY DEF Complete, Quiet
<1>2. (Solid(w) => Solid(v)) /\ (Solid(w) /\ Unbegun(w) => Unbegun(v))
  BY QuietSolid DEF Quiet
<1>3. Failed(v) => Failed(w) \/ v.room = 0 \/ ~ Complete(v)
  BY DEF Quiet, Complete
<1> QED BY <1>1, <1>2, <1>3 DEF Calm, Quiet

\* The parts of a content leave the blocks well formed.
LEMMA WritePartsSolid ==
  ASSUME NEW w \in Works, NEW parts \in Seq(Parts)
  PROVE  LET v == WriteParts(w, parts) IN
         Writing(w, v) /\ (Solid(w) /\ Unbegun(w) => Solid(v) /\ Unbegun(v))
<1> DEFINE S == {v \in Works : Writing(w, v) /\ (Solid(w) /\ Unbegun(w) => Solid(v) /\ Unbegun(v))}
<1>1. w \in S
  BY WritingSelf
<1>2. ASSUME NEW v \in S, NEW kind \in Kinds, NEW delta \in Texts PROVE WriteBlock(v, kind, delta) \in S
  <2> DEFINE u == WriteBlock(v, kind, delta)
  <2>1. v \in Works /\ Writing(w, v) /\ (Solid(w) /\ Unbegun(w) => Solid(v) /\ Unbegun(v))
    OBVIOUS
  <2>2. Writing(v, u) /\ (Solid(v) /\ Unbegun(v) => Solid(u) /\ Unbegun(u))
    BY <2>1, WriteBlockSolid
  <2> HIDE DEF u
  <2>3. Writing(w, u) /\ u \in Works
    BY <2>1, <2>2, WritingMore DEF Writing, Onward
  <2>4. u \in S
    BY <2>1, <2>2, <2>3
  <2> QED BY <2>4 DEF u
<1>3. WritesStay(S)
  <2> HIDE DEF S
  <2> QED BY <1>2 DEF WritesStay
<1>4. WriteParts(w, parts) \in S
  <2> HIDE DEF S
  <2> QED BY <1>1, <1>3, PartsStay
<1> QED BY <1>4

\* No part, nothing written.
LEMMA NoParts == ASSUME NEW w PROVE WriteParts(w, <<>>) = w
<1> DEFINE Reads(h) == h = [k \in 0..Len(<<>>) |->
                              IF k = 0 THEN w
                              ELSE WriteBlock(h[k - 1], IF <<>>[k].reasoning THEN "reasoning" ELSE "text",
                                              <<>>[k].text)]
           f == WritingParts(w, <<>>)
<1>1. Reads([k \in 0..0 |-> w])
  OBVIOUS
<1>2. Reads(f)
  <2>1. Reads(CHOOSE x : Reads(x))
    <3> HIDE DEF Reads
    <3> QED BY <1>1
  <2>2. f = CHOOSE x : Reads(x)
    BY DEF WritingParts
  <2> HIDE DEF f, Reads
  <2> QED BY <2>1, <2>2
<1> HIDE DEF f
<1>3. f[0] = w
  BY <1>2
<1> QED BY <1>3 DEF WriteParts, f

\* The splitter returns a state and parts of text.
LEMMA FeedType ==
  ASSUME NEW s \in Split, NEW content \in Texts
  PROVE  feed(s, content).split \in Split /\ feed(s, content).parts \in Seq(Parts)
<1> DEFINE p == s.pending \o content
           s1 == [s EXCEPT !.pending = p]
<1>1. p \in Seq(Symbols)
  BY DEF Split, Texts
<1> HIDE DEF p
<1>2. s1 \in Split
  BY <1>1 DEF Split
<1>3. drain(s1, FALSE) \in Drains
  <2> HIDE DEF s1
  <2> QED BY <1>2, DrainType
<1>4. feed(s, content) = drain(s1, FALSE)
  BY DEF feed, p
<1> HIDE DEF s1
<1> QED BY <1>3, <1>4 DEF Drains

\* A flushed splitter has nothing left.
LEMMA FlushType ==
  ASSUME NEW s \in Split
  PROVE  /\ flush(s).split \in Split /\ flush(s).parts \in Seq(Parts)
         /\ flush(s).split.pending = <<>>
         /\ s.pending = <<>> => flush(s).parts = <<>>
<1>1. flush(s) = drain(s, TRUE)
  BY DEF flush
<1>2. drain(s, TRUE) \in Drains
  BY DrainType
<1>3. drain(s, TRUE).split.pending = <<>>
  BY DrainWaits
<1>4. ASSUME s.pending = <<>> PROVE drain(s, TRUE).parts = <<>>
  <2> DEFINE d == [split |-> s, parts |-> <<>>]
  <2>1. Len(s.pending) = 0
    BY <1>4
  <2>2. Rounds(s)[0] = d
    BY RoundsIs
  <2>3. drain(s, TRUE) = TellRest(d, TRUE)
    BY <2>1, <2>2 DEF drain
  <2>4. d \in Drains /\ d.split = s /\ d.parts = <<>>
    BY DEF Drains
  <2> HIDE DEF d
  <2>5. TellRest(d, TRUE) = Tell(d, 0)
    BY <2>1, <2>4, TellIs
  <2>6. 0 \in 0..Len(d.split.pending)
    BY <2>1, <2>4
  <2>7. Tell(d, 0).parts = d.parts \o Part(s, 0)
    BY <2>4, <2>6, TellType
  <2>8. Part(s, 0) = <<>>
    BY DEF Part
  <2>9. d.parts \o Part(s, 0) = <<>>
    BY <2>4, <2>8
  <2> QED BY <2>3, <2>5, <2>7, <2>9
<1> QED BY <1>1, <1>2, <1>3, <1>4 DEF Drains

\* The splitter's state is no part of the blocks.
LEMMA ThinkCalm ==
  ASSUME NEW w \in Works, ~ Failed(w), NEW s \in Split
  PROVE  Calm(w, [w EXCEPT !.b.think = s])
<1> DEFINE v == [w EXCEPT !.b.think = s]
<1>1. Onward(w, v) /\ v.log = w.log /\ v.err = w.err /\ v.b.open = w.b.open /\ v.b.toolCalls = w.b.toolCalls
  BY ThinkOnward
<1> SUFFICES Calm(w, v)
  OBVIOUS
<1> HIDE DEF v
<1>2. Complete(v) <=> Complete(w)
  BY <1>1 DEF Complete, Idless
<1>3. v.b.stepIndex = w.b.stepIndex
  BY <1>1 DEF Onward, Frame
<1>4. (Solid(v) <=> Solid(w)) /\ (Unbegun(v) <=> Unbegun(w))
  BY <1>1, <1>3, SameSolid
<1> QED BY <1>1, <1>2, <1>4 DEF Calm, Failed

\* Content leaves the blocks well formed.
LEMMA ContentCalm ==
  ASSUME NEW w \in Works, NEW content \in Texts PROVE Calm(w, writeContent(w, content))
<1> DEFINE d == feed(w.b.think, content)
           v == [w EXCEPT !.b.think = d.split]
<1>1. writeContent(w, content) = IF Failed(w) \/ content = <<>> THEN w ELSE WriteParts(v, d.parts)
  BY DEF writeContent
<1>2. d.split \in Split /\ d.parts \in Seq(Parts)
  BY WorkIs, FeedType
<1> HIDE DEF d
<1>3. ASSUME ~ Failed(w) PROVE Calm(w, WriteParts(v, d.parts))
  <2>1. Calm(w, v)
    BY <1>2, <1>3, ThinkCalm
  <2> HIDE DEF v
  <2>2. v \in Works
    BY <2>1 DEF Calm, Onward
  <2>3. Calm(v, WriteParts(v, d.parts))
    BY <1>2, <2>2, WritePartsSolid, WritingCalm
  <2> QED BY <2>1, <2>3, CalmMore
<1> QED BY <1>1, <1>3, CalmSelf

\* A piece of a tool call leaves the blocks as they are.
LEMMA ToolCallCalm ==
  ASSUME NEW w \in Works, NEW call \in Calls PROVE Calm(w, writeToolCall(w, call))
<1> DEFINE i == call.index
           old == w.b.toolCalls[i]
           args == old.pending \o call.args
           id == IF call.id # "" THEN call.id ELSE old.id
           st == [id |-> id, pending |-> args, started |-> old.started]
           v == [w EXCEPT !.b.toolCalls[i] = st]
           u == flushToolCall(v, i)
<1>1. i \in Indexes /\ call.args \in Texts /\ call.id \in STRING
  BY DEF Calls
<1>2. old \in CallStates
  BY <1>1, WorkIs
<1>3. args \in Texts
  BY <1>1, <1>2 DEF CallStates, Texts
<1>4. id \in Ids
  BY <1>1, <1>2 DEF CallStates, Ids
<1>6. writeToolCall(w, call) = IF Failed(w) THEN w ELSE u
  BY DEF writeToolCall
<1>7. ASSUME ~ Failed(w) PROVE Calm(w, u)
  <2>1. st \in CallStates
    <3> HIDE DEF args, id
    <3> QED BY <1>2, <1>3, <1>4 DEF CallStates
  <2> HIDE DEF st, i
  <2>2. /\ Onward(w, v) /\ v.log = w.log /\ v.err = w.err
        /\ v.b.toolCalls = [w.b.toolCalls EXCEPT ![i] = st] /\ v.b.open = w.b.open
    BY <1>1, <1>7, <2>1, CallOnward
  <2> HIDE DEF v
  <2>3. v \in Works /\ v.b.stepIndex = w.b.stepIndex
    BY <2>2 DEF Onward, Frame
  <2>4. Quiet(v, u) /\ (~ Failed(u) => ~ Idless(u.b, i))
    BY <1>1, <2>3, FlushQuiet
  <2> HIDE DEF u
  <2>5. Calm(v, u)
    BY <2>3, <2>4, QuietCalm
  <2>6. Onward(w, u)
    BY <2>2, <2>5, OnwardMore DEF Calm
  <2>7. Solid(w) /\ Unbegun(w) => Solid(u) /\ Unbegun(u)
    BY <2>2, <2>3, <2>5, SameSolid DEF Calm
  <2>8. ~ Failed(v)
    BY <1>7, <2>2 DEF Failed
  <2>9. ASSUME ~ Failed(u), Complete(w) PROVE Complete(u)
    <3>1. \A j \in Indexes : j # i => v.b.toolCalls[j] = w.b.toolCalls[j]
      BY <2>2, WorkIs
    <3>2. \A j \in Indexes : j # i => ~ Idless(v.b, j)
      BY <2>9, <3>1 DEF Complete, Idless
    <3> QED BY <2>4, <2>9, <3>2 DEF Complete, Quiet
  <2> QED BY <2>5, <2>6, <2>7, <2>8, <2>9 DEF Calm
<1> HIDE DEF u
<1> QED BY <1>6, <1>7, CalmSelf

\* All its pieces do.
LEMMA AllCallsCalm ==
  ASSUME NEW w \in Works, NEW calls \in Seq(Calls) PROVE Calm(w, WriteCalls(w, calls))
<1> DEFINE S == {v \in Works : Calm(w, v)}
<1>1. w \in S
  BY CalmSelf
<1>2. ASSUME NEW v \in S, NEW call \in Calls PROVE writeToolCall(v, call) \in S
  <2>1. v \in Works /\ Calm(w, v)
    OBVIOUS
  <2>2. Calm(v, writeToolCall(v, call))
    BY <2>1, ToolCallCalm
  <2>3. Calm(w, writeToolCall(v, call))
    BY <2>1, <2>2, CalmMore
  <2> QED BY <2>3 DEF Calm, Onward
<1>3. CallsStay(S)
  <2> HIDE DEF S
  <2> QED BY <1>2 DEF CallsStay
<1>4. WriteCalls(w, calls) \in S
  <2> HIDE DEF S
  <2> QED BY <1>1, <1>3, AllCallsStay
<1> QED BY <1>4

-----------------------------------------------------------------------------
(* The end of a step *)

Steady(w) == Solid(w) /\ (Unbegun(w) \/ w.b.think.pending = <<>>)

\* Blocks are closed, or the rest of closing waits for a later call: what is left in the
\* splitter is flushed once, before the first block is closed.
LEMMA CloseIs ==
  ASSUME NEW w \in Works
  PROVE  LET v == closeOpenBlocks(w) IN
         /\ Onward(w, v)
         /\ Complete(v) <=> Complete(w)
         /\ Failed(v) => Failed(w) \/ v.room = 0 \/ ~ Complete(v)
         /\ Steady(w) => Steady(v)
         /\ ~ Failed(v) => Complete(v) /\ \A kind \in Kinds : ~ v.b.open[kind]
<1> DEFINE calls == flushToolCalls(w)
           d == flush(calls.b.think)
           emptied == [calls EXCEPT !.b.think = d.split]
           rest == IF Failed(calls) THEN calls ELSE WriteParts(emptied, d.parts)
           thought == EndBlock(rest, "reasoning")
           v == EndBlock(thought, "text")
<1>1. closeOpenBlocks(w) = v
  BY DEF closeOpenBlocks
<1>2. Quiet(w, calls) /\ (~ Failed(calls) => Complete(calls))
  BY FlushAllQuiet DEF Complete
<1> HIDE DEF calls
<1>3. calls \in Works
  BY <1>2 DEF Quiet, Onward
<1>4. /\ Onward(w, calls) /\ (Complete(calls) <=> Complete(w))
      /\ (Solid(w) => Solid(calls)) /\ (Solid(w) /\ Unbegun(w) => Unbegun(calls))
      /\ calls.b.think = w.b.think
      /\ Failed(calls) => Failed(w) \/ calls.room = 0 \/ ~ Complete(calls)
  BY <1>2, QuietSolid DEF Quiet, Complete
<1>5. /\ Onward(w, rest) /\ (Complete(rest) <=> Complete(w))
      /\ Steady(w) => Steady(rest)
      /\ Failed(rest) => Failed(w) \/ rest.room = 0 \/ ~ Complete(rest)
      /\ ~ Failed(rest) => Complete(rest) /\ rest.b.think.pending = <<>>
  <2>1. CASE Failed(calls)
    <3>1. rest = calls
      BY <2>1
    <3> HIDE DEF rest
    <3> QED BY <1>4, <2>1, <3>1 DEF Steady
  <2>2. CASE ~ Failed(calls)
    <3>1. rest = WriteParts(emptied, d.parts)
      BY <2>2
    <3>2. /\ d.split \in Split /\ d.parts \in Seq(Parts) /\ d.split.pending = <<>>
          /\ calls.b.think.pending = <<>> => d.parts = <<>>
      BY <1>3, WorkIs, FlushType
    <3> HIDE DEF d, rest
    <3>3. /\ Onward(calls, emptied) /\ emptied.log = calls.log /\ emptied.err = calls.err
          /\ emptied.b.think = d.split /\ emptied.b.open = calls.b.open /\ emptied.b.toolCalls = calls.b.toolCalls
      BY <1>3, <2>2, <3>2, ThinkOnward
    <3> HIDE DEF emptied
    <3>4. emptied \in Works /\ emptied.b.stepIndex = calls.b.stepIndex
      BY <3>3 DEF Onward, Frame
    <3>5. /\ Writing(emptied, rest)
          /\ Solid(emptied) /\ Unbegun(emptied) => Solid(rest) /\ Unbegun(rest)
          /\ d.parts = <<>> => rest = emptied
      BY <3>1, <3>2, <3>4, WritePartsSolid, NoParts
    <3>6. (Solid(emptied) <=> Solid(calls)) /\ (Unbegun(emptied) <=> Unbegun(calls))
      BY <3>3, <3>4, SameSolid
    <3>7. rest.b.think.pending = <<>>
      BY <3>2, <3>3, <3>5 DEF Writing
    <3>8. Steady(w) => Steady(rest)
      BY <1>4, <3>2, <3>5, <3>6, <3>7 DEF Steady
    <3>9. (Complete(rest) <=> Complete(calls)) /\ (Failed(rest) => rest.room = 0)
      BY <2>2, <3>3, <3>5 DEF Writing, Complete, Idless, Failed
    <3>10. Onward(w, rest)
      BY <1>3, <1>4, <3>3, <3>5, OnwardMore DEF Writing
    <3> QED BY <1>2, <1>4, <2>2, <3>7, <3>8, <3>9, <3>10
  <2> HIDE DEF rest
  <2> QED BY <2>1, <2>2
<1> HIDE DEF rest
<1>6. rest \in Works
  BY <1>5 DEF Onward
<1>7. "reasoning" \in Kinds /\ "text" \in Kinds /\ \A kind \in Kinds : kind \in {"reasoning", "text"}
  BY DEF Kinds
<1>8. /\ Writing(rest, thought) /\ (Solid(rest) => Solid(thought))
      /\ ~ Failed(thought) => thought.b.open = [rest.b.open EXCEPT !["reasoning"] = FALSE]
  BY <1>6, <1>7, EndBlockSolid
<1> HIDE DEF thought
<1>9. thought \in Works
  BY <1>8 DEF Writing, Onward
<1>10. /\ Writing(thought, v) /\ (Solid(thought) => Solid(v))
       /\ ~ Failed(v) => v.b.open = [thought.b.open EXCEPT !["text"] = FALSE]
  BY <1>7, <1>9, EndBlockSolid
<1> HIDE DEF v
<1>11. Writing(rest, v) /\ Onward(rest, v) /\ Onward(w, v)
  BY <1>5, <1>6, <1>8, <1>10, WritingMore, OnwardMore DEF Writing
<1>12. Complete(v) <=> Complete(w)
  BY <1>5, <1>11 DEF Writing, Complete, Idless
<1>13. Failed(v) => Failed(w) \/ v.room = 0 \/ ~ Complete(v)
  <2>1. Failed(rest) => v = rest
    BY <1>11 DEF Onward
  <2> QED BY <1>5, <1>11, <2>1 DEF Writing
<1>14. Steady(w) => Steady(v)
  <2>1. CASE Failed(rest)
    <3>1. v = rest
      BY <1>11, <2>1 DEF Onward
    <3> QED BY <1>5, <3>1
  <2>2. CASE ~ Failed(rest)
    <3>1. v.b.think.pending = <<>>
      BY <1>5, <1>11, <2>2 DEF Writing
    <3> QED BY <1>5, <1>8, <1>10, <3>1 DEF Steady
  <2> QED BY <2>1, <2>2
<1>15. ASSUME ~ Failed(v) PROVE Complete(v) /\ \A kind \in Kinds : ~ v.b.open[kind]
  <2>1. ~ Failed(thought) /\ ~ Failed(rest)
    <3>1. Failed(thought) => v = thought
      BY <1>10 DEF Writing, Onward
    <3>2. Failed(rest) => v = rest
      BY <1>11 DEF Onward
    <3> QED BY <1>15, <3>1, <3>2
  <2>2. rest.b.open \in [Kinds -> BOOLEAN]
    BY <1>6, WorkIs
  <2>3. \A kind \in Kinds : ~ v.b.open[kind]
    BY <1>7, <1>8, <1>10, <1>15, <2>1, <2>2
  <2> QED BY <1>5, <1>12, <2>1, <2>3
<1> QED BY <1>1, <1>11, <1>12, <1>13, <1>14, <1>15

-----------------------------------------------------------------------------
(* Sequences that are joined and numbers that are added up *)

Glue(a, b) == a \o b

\* One text after another.
LEMMA GlueType == ASSUME NEW X, NEW a \in Seq(X), NEW b \in Seq(X) PROVE Glue(a, b) \in Seq(X)
BY DEF Glue

\* Texts are joined one by one.
LEMMA JoiningIs ==
  ASSUME NEW X, NEW texts \in Seq(Seq(X))
  PROVE  /\ Len(texts) \in Nat
         /\ Joining(texts) \in [0..Len(texts) -> Seq(X)]
         /\ Joining(texts)[0] = <<>>
         /\ \A k \in 1..Len(texts) : Joining(texts)[k] = Glue(Joining(texts)[k - 1], texts[k])
<1> DEFINE n == Len(texts)
           e == <<>>
           g == [k \in 1..n |-> [a \in Seq(X) |-> Glue(a, texts[k])]]
           Reads(f) == f = [k \in 0..n |-> IF k = 0 THEN e ELSE Glue(f[k - 1], texts[k])]
           f == Joining(texts)
<1>1. e \in Seq(X) /\ n \in Nat
  OBVIOUS
<1>2. ASSUME NEW k \in 1..n, NEW a \in Seq(X) PROVE Glue(a, texts[k]) \in Seq(X)
  <2>1. texts[k] \in Seq(X)
    OBVIOUS
  <2> QED BY <2>1, GlueType
<1>3. g \in [1..n -> [Seq(X) -> Seq(X)]]
  BY <1>2
<1>4. PICK h \in [0..n -> Seq(X)] : Step(n, e, g, h)
  <2> HIDE DEF n, g, e
  <2> QED BY <1>1, <1>3, Recursion
<1>5. Reads(h)
  <2>1. ASSUME NEW k \in 1..n PROVE g[k][h[k - 1]] = Glue(h[k - 1], texts[k])
    <3>1. h[k - 1] \in Seq(X)
      <4>1. k - 1 \in 0..n
        BY <1>1
      <4> HIDE DEF n, g
      <4> QED BY <4>1
    <3>2. g[k] = [a \in Seq(X) |-> Glue(a, texts[k])]
      OBVIOUS
    <3> HIDE DEF g
    <3> QED BY <3>1, <3>2
  <2>2. h = [k \in 0..n |-> IF k = 0 THEN e ELSE g[k][h[k - 1]]]
    BY <1>4 DEF Step
  <2> HIDE DEF e, g, n
  <2>3. \A k \in 0..n : k # 0 => k \in 1..n
    BY <1>1
  <2> QED BY <2>1, <2>2, <2>3
<1>6. Reads(f)
  <2>1. Reads(CHOOSE x : Reads(x))
    <3> HIDE DEF Reads
    <3> QED BY <1>5
  <2>2. f = CHOOSE x : Reads(x)
    BY DEF Joining, Glue
  <2> HIDE DEF f, Reads
  <2> QED BY <2>1, <2>2
<1> HIDE DEF f, e
<1>7. f[0] = e /\ \A k \in 1..n : f[k] = Glue(f[k - 1], texts[k])
  <2> HIDE DEF n
  <2> QED BY <1>1, <1>6
<1> DEFINE K == {k \in 0..n : f[k] \in Seq(X)}
<1>8. \A k \in 0..n : k \in K
  <2>1. 0 \in K
    BY <1>1, <1>7
  <2>2. ASSUME NEW k \in 0..(n - 1), k \in K PROVE k + 1 \in K
    <3>1. k + 1 \in 1..n /\ (k + 1) - 1 = k
      BY <1>1
    <3>2. f[k + 1] = Glue(f[k], texts[k + 1])
      BY <1>7, <3>1
    <3>3. f[k] \in Seq(X)
      BY <2>2
    <3>4. f[k + 1] \in Seq(X)
      BY <1>2, <3>1, <3>2, <3>3
    <3> QED BY <3>1, <3>4
  <2> HIDE DEF K, n
  <2> QED BY <1>1, <2>1, <2>2, Upwards
<1>9. f \in [0..n -> Seq(X)]
  <2>1. f = [k \in 0..n |-> f[k]]
    <3> HIDE DEF n
    <3> QED BY <1>6
  <2>2. \A k \in 0..n : f[k] \in Seq(X)
    BY <1>8
  <2> HIDE DEF n, Reads
  <2> QED BY <2>1, <2>2
<1> QED BY <1>1, <1>7, <1>9 DEF f, e

\* No texts.
LEMMA JoinedNone == Joined(<<>>) = <<>>
<1>1. <<>> \in Seq(Seq({})) /\ Len(<<>>) = 0
  OBVIOUS
<1>2. Joining(<<>>)[0] = <<>>
  BY <1>1, JoiningIs
<1> QED BY <1>1, <1>2 DEF Joined

\* One text more.
LEMMA JoinedMore ==
  ASSUME NEW X, NEW texts \in Seq(Seq(X)), NEW t \in Seq(X)
  PROVE  /\ Joined(texts) \in Seq(X)
         /\ Joined(Append(texts, t)) = Joined(texts) \o t
<1> DEFINE n == Len(texts)
           more == Append(texts, t)
<1>1. /\ more \in Seq(Seq(X)) /\ Len(more) = n + 1 /\ n \in Nat /\ more[n + 1] = t
      /\ \A k \in 1..n : more[k] = texts[k]
  OBVIOUS
<1>2. /\ Joining(texts) \in [0..n -> Seq(X)] /\ Joining(texts)[0] = <<>>
      /\ \A k \in 1..n : Joining(texts)[k] = Glue(Joining(texts)[k - 1], texts[k])
  BY JoiningIs
<1> HIDE DEF more
<1>3. /\ Joining(more)[0] = <<>>
      /\ \A k \in 1..(n + 1) : Joining(more)[k] = Glue(Joining(more)[k - 1], more[k])
  BY <1>1, JoiningIs
<1> DEFINE S == {k \in 0..n : Joining(more)[k] = Joining(texts)[k]}
<1>4. \A k \in 0..n : k \in S
  <2>1. 0 \in S
    BY <1>1, <1>2, <1>3
  <2>2. ASSUME NEW k \in 0..(n - 1), k \in S PROVE k + 1 \in S
    <3>1. k + 1 \in 1..n /\ (k + 1) - 1 = k /\ k + 1 \in 1..(n + 1)
      BY <1>1
    <3>2. Joining(more)[k + 1] = Glue(Joining(more)[k], more[k + 1])
      BY <1>3, <3>1
    <3>3. Joining(texts)[k + 1] = Glue(Joining(texts)[k], texts[k + 1])
      BY <1>2, <3>1
    <3> QED BY <1>1, <2>2, <3>1, <3>2, <3>3
  <2> HIDE DEF S, n
  <2> QED BY <1>1, <2>1, <2>2, Upwards
<1>5. Joining(more)[n + 1] = Glue(Joining(more)[n], more[n + 1])
  BY <1>1, <1>3
<1>6. Joining(more)[n] = Joining(texts)[n] /\ Joining(texts)[n] \in Seq(X)
  BY <1>1, <1>2, <1>4
<1>7. Joined(more) = Glue(Joined(texts), t) /\ Joined(texts) \in Seq(X)
  BY <1>1, <1>5, <1>6 DEF Joined
<1> QED BY <1>7 DEF more, Glue

\* The same for the numbers of Total.
LEMMA TotallingIs ==
  ASSUME NEW numbers \in Seq(Nat)
  PROVE  /\ Len(numbers) \in Nat
         /\ Totalling(numbers) \in [0..Len(numbers) -> Nat]
         /\ Totalling(numbers)[0] = 0
         /\ \A k \in 1..Len(numbers) :
              Totalling(numbers)[k] = Totalling(numbers)[k - 1] + numbers[k]
<1> DEFINE n == Len(numbers)
           g == [k \in 1..n |-> [a \in Nat |-> a + numbers[k]]]
           Reads(f) == f = [k \in 0..n |-> IF k = 0 THEN 0 ELSE f[k - 1] + numbers[k]]
           f == Totalling(numbers)
<1>1. n \in Nat
  OBVIOUS
<1>2. ASSUME NEW k \in 1..n, NEW a \in Nat PROVE a + numbers[k] \in Nat
  <2>1. numbers[k] \in Nat
    OBVIOUS
  <2> QED BY <2>1
<1>3. g \in [1..n -> [Nat -> Nat]]
  BY <1>2
<1>4. PICK h \in [0..n -> Nat] : Step(n, 0, g, h)
  <2>1. 0 \in Nat
    OBVIOUS
  <2> HIDE DEF n, g
  <2> QED BY <1>1, <1>3, <2>1, Recursion
<1>5. Reads(h)
  <2>1. ASSUME NEW k \in 1..n PROVE g[k][h[k - 1]] = h[k - 1] + numbers[k]
    <3>1. h[k - 1] \in Nat
      BY <1>1
    <3>2. g[k] = [a \in Nat |-> a + numbers[k]]
      OBVIOUS
    <3> HIDE DEF g
    <3> QED BY <3>1, <3>2
  <2>2. h = [k \in 0..n |-> IF k = 0 THEN 0 ELSE g[k][h[k - 1]]]
    BY <1>4 DEF Step
  <2> HIDE DEF g, n
  <2>3. \A k \in 0..n : k # 0 => k \in 1..n
    BY <1>1
  <2> QED BY <2>1, <2>2, <2>3
<1>6. Reads(f)
  <2>1. Reads(CHOOSE x : Reads(x))
    <3> HIDE DEF Reads
    <3> QED BY <1>5
  <2>2. f = CHOOSE x : Reads(x)
    BY DEF Totalling
  <2> HIDE DEF f, Reads
  <2> QED BY <2>1, <2>2
<1> HIDE DEF f
<1>7. f[0] = 0 /\ \A k \in 1..n : f[k] = f[k - 1] + numbers[k]
  <2> HIDE DEF n
  <2> QED BY <1>1, <1>6
<1> DEFINE K == {k \in 0..n : f[k] \in Nat}
<1>8. \A k \in 0..n : k \in K
  <2>1. 0 \in K
    BY <1>1, <1>7
  <2>2. ASSUME NEW k \in 0..(n - 1), k \in K PROVE k + 1 \in K
    <3>1. k + 1 \in 1..n /\ (k + 1) - 1 = k
      BY <1>1
    <3>2. f[k + 1] = f[k] + numbers[k + 1]
      BY <1>7, <3>1
    <3>3. f[k] \in Nat
      BY <2>2
    <3>4. f[k + 1] \in Nat
      BY <1>2, <3>1, <3>2, <3>3
    <3> QED BY <3>1, <3>4
  <2> HIDE DEF K, n
  <2> QED BY <1>1, <2>1, <2>2, Upwards
<1>9. f \in [0..n -> Nat]
  <2>1. f = [k \in 0..n |-> f[k]]
    <3> HIDE DEF n
    <3> QED BY <1>6
  <2>2. \A k \in 0..n : f[k] \in Nat
    BY <1>8
  <2> HIDE DEF n, Reads
  <2> QED BY <2>1, <2>2
<1> QED BY <1>1, <1>7, <1>9 DEF f

\* The order of a sum is free.
LEMMA Sums ==
  ASSUME NEW a \in Nat, NEW b \in Nat, NEW d \in Int
  PROVE  a + (b + d) = (a + b) + d /\ (a + d) + b = (a + b) + d
OBVIOUS

\* The total of numbers whose k-th has grown by d.
LEMMA TotalGrows ==
  ASSUME NEW p \in Seq(Nat), NEW q \in Seq(Nat), Len(q) = Len(p), NEW k \in 1..Len(p),
         NEW d \in Int, q[k] = p[k] + d, \A i \in 1..Len(p) : i # k => q[i] = p[i]
  PROVE  Total(p) \in Nat /\ Total(q) \in Nat /\ Total(q) = Total(p) + d
<1> DEFINE n == Len(p)
           f == Totalling(p)
           g == Totalling(q)
           S == {i \in 0..n : g[i] = IF i < k THEN f[i] ELSE f[i] + d}
<1>1. /\ n \in Nat /\ f \in [0..n -> Nat] /\ f[0] = 0
      /\ \A i \in 1..n : f[i] = f[i - 1] + p[i]
  BY TotallingIs
<1>2. g \in [0..n -> Nat] /\ g[0] = 0 /\ \A i \in 1..n : g[i] = g[i - 1] + q[i]
  BY TotallingIs
<1>3. \A i \in 1..n : p[i] \in Nat /\ q[i] \in Nat
  OBVIOUS
<1> HIDE DEF f, g
<1>4. \A i \in 0..n : i \in S
  <2>1. 0 \in S
    BY <1>1, <1>2
  <2>2. ASSUME NEW i \in 0..(n - 1), i \in S PROVE i + 1 \in S
    <3>1. i + 1 \in 1..n /\ (i + 1) - 1 = i /\ i + 1 \in 0..n /\ i \in 0..n
      BY <1>1
    <3>2. g[i + 1] = g[i] + q[i + 1] /\ f[i + 1] = f[i] + p[i + 1]
      BY <1>1, <1>2, <3>1
    <3>3. g[i] \in Nat /\ f[i] \in Nat /\ p[i + 1] \in Nat /\ q[i + 1] \in Nat /\ k \in Nat
      <4>1. p[i + 1] \in Nat /\ q[i + 1] \in Nat
        BY <1>3, <3>1
      <4>2. g[i] \in Nat /\ f[i] \in Nat
        <5> HIDE DEF n
        <5> QED BY <1>1, <1>2, <3>1
      <4> QED BY <4>1, <4>2
    <3>4. g[i] = IF i < k THEN f[i] ELSE f[i] + d
      BY <2>2
    <3>5. q[i + 1] = IF i + 1 = k THEN p[i + 1] + d ELSE p[i + 1]
      BY <3>1
    <3>6. g[i + 1] = IF i + 1 < k THEN f[i + 1] ELSE f[i + 1] + d
      <4> HIDE DEF n
      <4>1. k \in Int /\ i \in Int
        BY <3>1, <3>3
      <4>2. CASE i + 1 < k
        <5>1. i < k /\ i + 1 # k
          BY <4>1, <4>2
        <5>2. g[i] = f[i] /\ q[i + 1] = p[i + 1]
          BY <3>4, <3>5, <5>1
        <5>3. g[i + 1] = f[i + 1]
          BY <3>2, <5>2
        <5> QED BY <4>2, <5>3
      <4>3. CASE i + 1 = k
        <5>1. i < k /\ ~ (i + 1 < k)
          BY <4>1, <4>3
        <5>2. g[i] = f[i] /\ q[i + 1] = p[i + 1] + d
          BY <3>4, <3>5, <4>3, <5>1
        <5>3. f[i] + (p[i + 1] + d) = (f[i] + p[i + 1]) + d
          BY <3>3, Sums
        <5>4. g[i + 1] = f[i + 1] + d
          BY <3>2, <5>2, <5>3
        <5> QED BY <5>1, <5>4
      <4>4. CASE i + 1 > k
        <5>1. ~ (i < k) /\ i + 1 # k /\ ~ (i + 1 < k)
          BY <4>1, <4>4
        <5>2. g[i] = f[i] + d /\ q[i + 1] = p[i + 1]
          BY <3>4, <3>5, <5>1
        <5>3. (f[i] + d) + p[i + 1] = (f[i] + p[i + 1]) + d
          BY <3>3, Sums
        <5>4. g[i + 1] = f[i + 1] + d
          BY <3>2, <5>2, <5>3
        <5> QED BY <5>1, <5>4
      <4> QED BY <4>1, <4>2, <4>3, <4>4
    <3> QED BY <3>1, <3>6
  <2> HIDE DEF S, n
  <2> QED BY <1>1, <2>1, <2>2, Upwards
<1>5. n \in 0..n /\ ~ (n < k)
  BY <1>1
<1>6. g[n] = f[n] + d /\ f[n] \in Nat /\ g[n] \in Nat
  BY <1>1, <1>2, <1>4, <1>5
<1> QED BY <1>6 DEF Total, f, g

\* One number more.
LEMMA TotalMore ==
  ASSUME NEW p \in Seq(Nat)
  PROVE  Total(p) \in Nat /\ Total(Append(p, 0)) = Total(p)
<1> DEFINE n == Len(p)
           q == Append(p, 0)
           f == Totalling(p)
           g == Totalling(q)
           S == {i \in 0..n : g[i] = f[i]}
<1>1. /\ q \in Seq(Nat) /\ Len(q) = n + 1 /\ n \in Nat /\ q[n + 1] = 0
      /\ \A i \in 1..n : q[i] = p[i]
  OBVIOUS
<1>2. f \in [0..n -> Nat] /\ f[0] = 0 /\ \A i \in 1..n : f[i] = f[i - 1] + p[i]
  BY TotallingIs
<1> HIDE DEF q
<1>3. g \in [0..(n + 1) -> Nat] /\ g[0] = 0 /\ \A i \in 1..(n + 1) : g[i] = g[i - 1] + q[i]
  BY <1>1, TotallingIs
<1> HIDE DEF f, g
<1>4. \A i \in 0..n : i \in S
  <2>1. 0 \in S
    BY <1>1, <1>2, <1>3
  <2>2. ASSUME NEW i \in 0..(n - 1), i \in S PROVE i + 1 \in S
    <3>1. i + 1 \in 1..n /\ (i + 1) - 1 = i /\ i + 1 \in 1..(n + 1) /\ i + 1 \in 0..n
      BY <1>1
    <3>2. g[i + 1] = g[i] + q[i + 1] /\ f[i + 1] = f[i] + p[i + 1]
      BY <1>2, <1>3, <3>1
    <3>3. q[i + 1] = p[i + 1] /\ g[i] = f[i]
      BY <1>1, <2>2, <3>1
    <3> QED BY <3>1, <3>2, <3>3
  <2> HIDE DEF S, n
  <2> QED BY <1>1, <2>1, <2>2, Upwards
<1>5. g[n + 1] = g[n] + 0
  <2>1. n + 1 \in 1..(n + 1) /\ (n + 1) - 1 = n
    BY <1>1
  <2> QED BY <1>1, <1>3, <2>1
<1>6. g[n] = f[n] /\ f[n] \in Nat
  BY <1>1, <1>2, <1>4
<1> QED BY <1>1, <1>5, <1>6 DEF Total, f, g, q

-----------------------------------------------------------------------------
(* The output *)

MessageSet(S) == \A m \in S : m.content \in Texts /\ m.reasoning \in Texts /\ m.calls \in Seq(Calls)

\* Messages are what their types say.
LEMMA MessageType ==
  /\ MessageSet(Messages) /\ MessageSet(Outputs)
  /\ \A m \in Messages : m.toolCallID \in STRING /\ m.usage \in Nat /\ m.finish \in STRING
<1>1. MessageSet(Messages)
  BY MessageAssumption DEF MessageSet, MessageAssumption
<1>2. MessageSet(Outputs)
  BY DEF MessageSet, Outputs
<1>3. \A m \in Messages : m.toolCallID \in STRING /\ m.usage \in Nat /\ m.finish \in STRING
  BY MessageAssumption DEF MessageAssumption
<1> QED BY <1>1, <1>2, <1>3

\* One message more.
LEMMA ContentsMore ==
  ASSUME NEW S, MessageSet(S), NEW messages \in Seq(S), NEW m \in S
  PROVE  /\ Contents(messages) \in Texts
         /\ Contents(Append(messages, m)) = Contents(messages) \o m.content
<1> DEFINE texts == [k \in 1..Len(messages) |-> messages[k].content]
           more == Append(messages, m)
           n == Len(messages)
<1>1. n \in Nat /\ \A k \in 1..n : messages[k] \in S
  OBVIOUS
<1>2. \A k \in 1..n : messages[k].content \in Seq(Symbols)
  BY <1>1 DEF MessageSet, Texts
<1>3. texts \in Seq(Seq(Symbols)) /\ Len(texts) = n
  BY <1>1, <1>2
<1>4. m.content \in Seq(Symbols)
  BY DEF MessageSet, Texts
<1>5. [k \in 1..Len(more) |-> more[k].content] = Append(texts, m.content)
  <2> DEFINE a == [k \in 1..Len(more) |-> more[k].content]
             b == Append(texts, m.content)
  <2>1. Len(more) = n + 1 /\ more[n + 1] = m /\ \A k \in 1..n : more[k] = messages[k]
    OBVIOUS
  <2> HIDE DEF more
  <2>2. \A k \in 1..(n + 1) : k \in 1..n \/ k = n + 1
    BY <1>1
  <2>3. \A k \in 1..(n + 1) : a[k] = IF k = n + 1 THEN m.content ELSE messages[k].content
    BY <1>1, <2>1, <2>2
  <2>4. b \in Seq(Seq(Symbols)) /\ Len(b) = n + 1 /\ b[n + 1] = m.content /\ \A k \in 1..n : b[k] = texts[k]
    <3> HIDE DEF texts
    <3> QED BY <1>1, <1>3, <1>4
  <2>5. \A k \in 1..(n + 1) : b[k] = IF k = n + 1 THEN m.content ELSE messages[k].content
    <3> HIDE DEF b
    <3> QED BY <1>1, <2>2, <2>4
  <2>6. a = [k \in 1..(n + 1) |-> a[k]]
    BY <2>1
  <2>7. b = [k \in 1..(n + 1) |-> b[k]]
    <3> HIDE DEF b
    <3> QED BY <2>4
  <2> HIDE DEF a, b
  <2>8. \A k \in 1..(n + 1) : a[k] = b[k]
    BY <2>3, <2>5
  <2>9. a = b
    BY <2>6, <2>7, <2>8
  <2> QED BY <2>9 DEF a, b
<1>6. Contents(messages) = Joined(texts) /\ Contents(more) = Joined(Append(texts, m.content))
  BY <1>5 DEF Contents
<1> HIDE DEF texts, more
<1>7. Joined(texts) \in Seq(Symbols) /\ Joined(Append(texts, m.content)) = Joined(texts) \o m.content
  BY <1>3, <1>4, JoinedMore
<1> QED BY <1>6, <1>7 DEF Texts, more

\* No messages.
LEMMA ContentsNone == Contents(<<>>) = <<>>
<1>1. [k \in 1..Len(<<>>) |-> (<<>>)[k].content] = <<>>
  OBVIOUS
<1> QED BY <1>1, JoinedNone DEF Contents

\* The chunks of a step become one message with their contents.
LEMMA ConcatIs ==
  ASSUME NEW chunks \in Seq(Messages)
  PROVE  ConcatMessages(chunks) \in Outputs /\ ConcatMessages(chunks).content = Contents(chunks)
<1> DEFINE n == Len(chunks)
           c == [k \in 1..n |-> chunks[k].content]
           r == [k \in 1..n |-> chunks[k].reasoning]
           t == [k \in 1..n |-> chunks[k].calls]
<1>1. n \in Nat /\ \A k \in 1..n : chunks[k] \in Messages
  OBVIOUS
<1>2. \A k \in 1..n : chunks[k].content \in Texts /\ chunks[k].reasoning \in Texts /\ chunks[k].calls \in Seq(Calls)
  BY <1>1, MessageType DEF MessageSet
<1>3. c \in Seq(Texts) /\ r \in Seq(Texts) /\ t \in Seq(Seq(Calls))
  BY <1>1, <1>2
<1>4. \A X : \A texts \in Seq(Seq(X)) : Joined(texts) \in Seq(X)
  <2>1. ASSUME NEW X, NEW texts \in Seq(Seq(X)) PROVE Joined(texts) \in Seq(X)
    <3>1. <<>> \in Seq(X)
      OBVIOUS
    <3> QED BY <3>1, JoinedMore
  <2> QED BY <2>1
<1>5. Contents(chunks) \in Texts
  BY <1>3, <1>4 DEF Contents, Texts
<1>6. Reasonings(chunks) \in Texts
  BY <1>3, <1>4 DEF Reasonings, Texts
<1>7. CallsOf(chunks) \in Seq(Calls)
  BY <1>3, <1>4 DEF CallsOf
<1>8. ConcatMessages(chunks) = [role |-> "assistant", content |-> Contents(chunks),
                                reasoning |-> Reasonings(chunks), calls |-> CallsOf(chunks)]
  BY DEF ConcatMessages
<1>9. \A a \in Texts, b \in Texts, d \in Seq(Calls) :
        LET x == [role |-> "assistant", content |-> a, reasoning |-> b, calls |-> d] IN
        x \in Outputs /\ x.content = a
  BY DEF Outputs
<1> QED BY <1>5, <1>6, <1>7, <1>8, <1>9

Output(b) == Glue(Contents(b.outputMessages), Contents(b.assistantChunks))

\* What a commit leaves alone, and a change of the usage too, which cannot fail.
Beside(w, v) ==
    /\ v \in Works /\ v.log = w.log /\ v.room = w.room /\ v.cause = w.cause
    /\ v.b.stepIndex = w.b.stepIndex /\ v.b.open = w.b.open /\ v.b.think = w.b.think
    /\ v.b.toolCalls = w.b.toolCalls /\ v.b.finished = w.b.finished
Apart(w, v) == Beside(w, v) /\ v.err = w.err

\* Nothing is added by an empty text.
LEMMA GlueNone == ASSUME NEW a \in Texts PROVE Glue(a, <<>>) = a /\ Glue(<<>>, a) = a
BY DEF Glue, Texts

\* Committing moves the chunks to the output: both together say what they said.  Chunks
\* that contradict each other stay where they are.
LEMMA CommitIs ==
  ASSUME NEW w \in Works
  PROVE  LET v == commitAssistantMessage(w) IN
         /\ Beside(w, v) /\ v.b.usage = w.b.usage /\ v.b.stepUsage = w.b.stepUsage
         /\ Output(v.b) = Output(w.b)
         /\ Failed(w) => v = w
         /\ ~ Failed(v) => v.b.assistantChunks = <<>> /\ Contents(v.b.outputMessages) = Output(w.b)
         /\ Failed(v) /\ ~ Failed(w) => ~ Concatenates(v.b.assistantChunks)
<1> DEFINE m == ConcatMessages(w.b.assistantChunks)
           out == Append(w.b.outputMessages, m)
           x == [w EXCEPT !.b.outputMessages = out, !.b.assistantChunks = <<>>]
           y == [w EXCEPT !.err = "concat"]
           v == commitAssistantMessage(w)
<1>1. v = IF Failed(w) \/ w.b.assistantChunks = <<>> THEN w
          ELSE IF ~ Concatenates(w.b.assistantChunks) THEN y ELSE x
  BY DEF commitAssistantMessage
<1>2. w.b \in Builders /\ w.b.outputMessages \in Seq(Outputs) /\ w.b.assistantChunks \in Seq(Messages)
  BY WorkIs DEF Builders
<1>3. m \in Outputs /\ m.content = Contents(w.b.assistantChunks)
  BY <1>2, ConcatIs
<1>4. Contents(w.b.outputMessages) \in Texts /\ Contents(out) = Glue(Contents(w.b.outputMessages), m.content)
  BY <1>2, <1>3, MessageType, ContentsMore DEF Glue
<1> HIDE DEF m
<1>5. out \in Seq(Outputs)
  BY <1>2, <1>3
<1> HIDE DEF out, v
<1>6. CASE Failed(w) \/ w.b.assistantChunks = <<>>
  <2>1. v = w
    BY <1>1, <1>6
  <2>2. w.b.assistantChunks = <<>> => Output(w.b) = Contents(w.b.outputMessages)
    BY <1>4, ContentsNone, GlueNone DEF Output
  <2>3. Beside(w, w)
    BY DEF Beside
  <2>4. ~ Failed(w) => w.b.assistantChunks = <<>>
    BY <1>6
  <2> QED BY <2>1, <2>2, <2>3, <2>4 DEF v
<1>7. CASE ~ (Failed(w) \/ w.b.assistantChunks = <<>>) /\ ~ Concatenates(w.b.assistantChunks)
  <2>1. v = y
    BY <1>1, <1>7
  <2>2. "concat" \in Errors
    BY DEF Errors
  <2>3. y \in Works /\ y.b = w.b /\ y.log = w.log /\ y.room = w.room /\ y.cause = w.cause /\ y.err = "concat"
    BY <2>2 DEF Works
  <2> HIDE DEF y
  <2>4. Beside(w, y)
    BY <2>3 DEF Beside
  <2>5. Failed(y)
    BY <2>3 DEF Failed
  <2> QED BY <1>7, <2>1, <2>3, <2>4, <2>5 DEF v
<1>8. CASE ~ (Failed(w) \/ w.b.assistantChunks = <<>>) /\ Concatenates(w.b.assistantChunks)
  <2>1. v = x
    BY <1>1, <1>8
  <2>2. x \in Works
    <3> DEFINE c == [w.b EXCEPT !.outputMessages = out, !.assistantChunks = <<>>]
    <3>1. <<>> \in Seq(Messages)
      OBVIOUS
    <3>2. c \in Builders
      BY <1>2, <1>5, <3>1 DEF Builders
    <3>3. x = [w EXCEPT !.b = c]
      BY <1>2 DEF Works, Builders
    <3> HIDE DEF c, x
    <3> QED BY <3>2, <3>3 DEF Works
  <2>3. /\ x.log = w.log /\ x.err = w.err /\ x.room = w.room /\ x.cause = w.cause
        /\ x.b.stepIndex = w.b.stepIndex /\ x.b.open = w.b.open /\ x.b.think = w.b.think
        /\ x.b.toolCalls = w.b.toolCalls /\ x.b.finished = w.b.finished
        /\ x.b.usage = w.b.usage /\ x.b.stepUsage = w.b.stepUsage
    BY <1>2 DEF Works, Builders
  <2>4. x.b.assistantChunks = <<>> /\ x.b.outputMessages = out
    BY <1>2 DEF Works, Builders
  <2> HIDE DEF x
  <2>5. Contents(out) = Output(w.b)
    BY <1>3, <1>4 DEF Output
  <2>6. Output(x.b) = Output(w.b)
    <3>1. Contents(out) \in Texts
      BY <1>5, <1>3, MessageType, ContentsMore
    <3> QED BY <2>4, <2>5, <3>1, ContentsNone, GlueNone DEF Output
  <2>7. ~ Failed(x)
    BY <1>8, <2>3 DEF Failed
  <2> QED BY <1>8, <2>1, <2>2, <2>3, <2>4, <2>5, <2>6, <2>7 DEF Beside, v
<1> QED BY <1>6, <1>7, <1>8

-----------------------------------------------------------------------------
(* The finish of a step or of the run *)

\* The usage of a run that its next finish reports.
Tokens(b) == b.usage + b.stepUsage

\* The usage of a step becomes part of the run's.
LEMMA AddUsageIs ==
  ASSUME NEW w \in Works
  PROVE  LET v == AddUsage(w) IN
         /\ Apart(w, v) /\ v.b.usage = Tokens(w.b) /\ v.b.stepUsage = 0
         /\ v.b.assistantChunks = w.b.assistantChunks
         /\ v.b.outputMessages = w.b.outputMessages
<1> DEFINE t == Tokens(w.b)
           c == [w.b EXCEPT !.usage = t, !.stepUsage = 0]
           x == [w EXCEPT !.b = c]
           v == AddUsage(w)
<1>1. w.b \in Builders
  BY WorkIs
<1>2. t \in Nat
  BY <1>1 DEF Builders, Tokens
<1>3. v = x
  <2>1. v = [w EXCEPT !.b.usage = @ + w.b.stepUsage, !.b.stepUsage = 0]
    BY DEF AddUsage
  <2>2. t = w.b.usage + w.b.stepUsage
    BY DEF Tokens
  <2>3. v = [w EXCEPT !.b.usage = t, !.b.stepUsage = 0]
    <3> HIDE DEF t, v
    <3> QED BY <1>1, <2>1, <2>2 DEF Works, Builders
  <2> HIDE DEF t, v
  <2> QED BY <1>1, <2>3 DEF Works, Builders
<1> HIDE DEF t, v
<1>4. /\ c \in Builders /\ c.usage = t /\ c.stepUsage = 0
      /\ c.stepIndex = w.b.stepIndex /\ c.open = w.b.open /\ c.think = w.b.think
      /\ c.toolCalls = w.b.toolCalls /\ c.finished = w.b.finished
      /\ c.assistantChunks = w.b.assistantChunks /\ c.outputMessages = w.b.outputMessages
  BY <1>1, <1>2 DEF Builders
<1> HIDE DEF c
<1>5. /\ x \in Works /\ x.b = c /\ x.log = w.log /\ x.err = w.err
      /\ x.room = w.room /\ x.cause = w.cause
  BY <1>4 DEF Works
<1> HIDE DEF x
<1>6. Apart(w, v)
  BY <1>3, <1>4, <1>5 DEF Apart, Beside
<1> QED BY <1>3, <1>4, <1>5, <1>6 DEF t, v

\* The next step begins with closed blocks, an empty splitter and no calls.
LEMMA NextStepIs ==
  ASSUME NEW w \in Works
  PROVE  LET v == advanceStep(w) IN
         /\ v \in Works /\ v.log = w.log /\ v.err = w.err /\ v.room = w.room
         /\ v.b.stepIndex = w.b.stepIndex + 1 /\ \A kind \in Kinds : ~ v.b.open[kind]
         /\ v.b.finished = w.b.finished /\ v.b.usage = w.b.usage /\ v.b.stepUsage = 0
         /\ v.b.assistantChunks = <<>> /\ v.b.outputMessages = w.b.outputMessages
         /\ Complete(v)
<1> DEFINE none == [i \in Indexes |-> NoCall]
           closed == [kind \in Kinds |-> FALSE]
           c == NextStep(w.b, none)
           v == advanceStep(w)
<1>1. v = [w EXCEPT !.b = c]
  BY DEF advanceStep
<1>2. w.b \in Builders
  BY WorkIs
<1>3. newThinkSplitter \in Split
  BY DEF newThinkSplitter, Split
<1>4. NoCall \in CallStates /\ NoCall.pending = <<>>
  BY DEF NoCall, CallStates, Ids, Texts
<1>5. none \in [Indexes -> CallStates]
  BY <1>4
<1>6. closed \in [Kinds -> BOOLEAN] /\ \A kind \in Kinds : ~ closed[kind]
  OBVIOUS
<1>7. <<>> \in Seq(Messages) /\ w.b.stepIndex + 1 \in Nat
  BY <1>2 DEF Builders
<1>8. \A i \in Indexes : none[i].pending = <<>>
  BY <1>4
<1>9. c = [stepIndex |-> w.b.stepIndex + 1, open |-> closed, think |-> newThinkSplitter,
           toolCalls |-> none, finished |-> w.b.finished, usage |-> w.b.usage, stepUsage |-> 0,
           assistantChunks |-> <<>>, outputMessages |-> w.b.outputMessages]
  BY DEF NextStep
<1> HIDE DEF none, closed, c, v
<1>10. /\ c \in Builders /\ c.stepIndex = w.b.stepIndex + 1 /\ c.open = closed
       /\ c.toolCalls = none /\ c.finished = w.b.finished /\ c.usage = w.b.usage
       /\ c.stepUsage = 0 /\ c.assistantChunks = <<>>
       /\ c.outputMessages = w.b.outputMessages
  BY <1>2, <1>3, <1>5, <1>6, <1>7, <1>9 DEF Builders
<1>11. v \in Works /\ v.b = c /\ v.log = w.log /\ v.err = w.err /\ v.room = w.room
  BY <1>1, <1>10 DEF Works
<1>12. Complete(v)
  BY <1>8, <1>10, <1>11 DEF Complete, Idless
<1> QED BY <1>6, <1>10, <1>11, <1>12 DEF v

\* Output and usage are no part of the blocks.
LEMMA BesideIs ==
  ASSUME NEW w, NEW v, Beside(w, v)
  PROVE  /\ Complete(v) <=> Complete(w)
         /\ Solid(v) <=> Solid(w)
         /\ Unbegun(v) <=> Unbegun(w)
         /\ Steady(v) <=> Steady(w)
<1>1. v.log = w.log /\ v.b.open = w.b.open /\ v.b.stepIndex = w.b.stepIndex
  BY DEF Beside
<1>2. (Solid(v) <=> Solid(w)) /\ (Unbegun(v) <=> Unbegun(w))
  BY <1>1, SameSolid
<1>3. Complete(v) <=> Complete(w)
  BY DEF Beside, Complete, Idless
<1>4. v.b.think = w.b.think
  BY DEF Beside
<1> QED BY <1>2, <1>3, <1>4 DEF Steady

LEMMA ApartIs ==
  ASSUME NEW w, NEW v, Apart(w, v)
  PROVE  /\ Complete(v) <=> Complete(w)
         /\ Solid(v) <=> Solid(w)
         /\ Unbegun(v) <=> Unbegun(w)
         /\ Steady(v) <=> Steady(w)
         /\ Failed(v) <=> Failed(w)
<1>1. Beside(w, v) /\ v.err = w.err
  BY DEF Apart
<1> QED BY <1>1, BesideIs DEF Failed

\* What leaves chunks and output leaves what both say.
LEMMA OnwardOutput ==
  ASSUME NEW w, NEW v, Onward(w, v)
  PROVE  /\ v \in Works /\ Output(v.b) = Output(w.b) /\ Tokens(v.b) = Tokens(w.b)
         /\ v.b.finished = w.b.finished /\ v.b.usage = w.b.usage
BY DEF Onward, Frame, Output, Tokens

\* What the log has grown by: parts, or parts and then one finish.
Adds(q, r) == Longer(q, r) /\ \A i \in (Len(q) + 1)..Len(r) : r[i] \in Parted
Ends(q, r, f) ==
    /\ Longer(q, r) /\ Len(q) < Len(r) /\ r[Len(r)] = f
    /\ \A i \in (Len(q) + 1)..Len(r) : i # Len(r) => r[i] \in Parted

\* A stream to which a finish was added at last.
LEMMA AddsEnds ==
  ASSUME NEW q \in Seq(Events), NEW r \in Seq(Events), Adds(q, r), NEW f \in Events
  PROVE  Ends(q, Append(r, f), f)
<1> DEFINE s == Append(r, f)
<1>1. /\ Len(q) \in Nat /\ Len(r) \in Nat /\ Len(s) = Len(r) + 1 /\ s[Len(s)] = f
      /\ \A i \in 1..Len(r) : s[i] = r[i]
  BY AppendIs
<1> HIDE DEF s
<1>2. Longer(q, s) /\ Len(q) < Len(s)
  BY <1>1 DEF Adds, Longer
<1>3. ASSUME NEW i \in (Len(q) + 1)..Len(s), i # Len(s) PROVE s[i] \in Parted
  <2>1. i \in (Len(q) + 1)..Len(r) /\ i \in 1..Len(r)
    BY <1>1, <1>3
  <2> QED BY <1>1, <2>1 DEF Adds
<1> QED BY <1>1, <1>2, <1>3 DEF Ends, s

\* A finish in the log ends no block and begins none.
LEMMA FinishSolid ==
  ASSUME NEW w \in Works, NEW v \in Works, NEW f \in Finishes, v.log = Append(w.log, f),
         v.b.open = w.b.open, v.b.stepIndex = w.b.stepIndex, v.b.think = w.b.think, Steady(w)
  PROVE  /\ Sound(v.log, v.b.open, v.b.stepIndex)
         /\ Unbegun(v) \/ v.b.think.pending = <<>>
         /\ (\A kind \in Kinds : ~ w.b.open[kind]) => Steady(v)
<1> DEFINE q == w.log
           r == v.log
<1>1. q \in Seq(Events) /\ r \in Seq(Events) /\ w.b.open \in [Kinds -> BOOLEAN] /\ w.b.stepIndex \in Nat
  BY WorkIs
<1>2. f \in Events
  BY DEF Events
<1>3. Longer(q, r) /\ Len(r) = Len(q) + 1 /\ r[Len(q) + 1] = f /\ Len(q) \in Nat
  BY <1>1, <1>2, AppendIs
<1>4. \A i \in (Len(q) + 1)..Len(r) : ~ IsBlock(r[i])
  <2>1. ~ IsBlock(f)
    BY DEF Finishes, IsBlock
  <2> HIDE DEF q, r
  <2>2. \A i \in (Len(q) + 1)..Len(r) : i = Len(q) + 1
    BY <1>3
  <2> QED BY <1>3, <2>1, <2>2
<1>5. Sound(q, w.b.open, w.b.stepIndex) /\ Closing(q)
  BY DEF Steady, Solid
<1> HIDE DEF q, r
<1>6. /\ Sound(r, w.b.open, w.b.stepIndex)
      /\ Fresh(q, w.b.open, w.b.stepIndex) => Fresh(r, w.b.open, w.b.stepIndex)
  BY <1>1, <1>3, <1>4, <1>5, SoundMore
<1>7. ASSUME \A kind \in Kinds : ~ w.b.open[kind] PROVE Closing(r)
  <2>1. Closing(Append(q, f))
    BY <1>1, <1>2, <1>5, <1>7, ClosingFinish
  <2> QED BY <2>1 DEF q, r
<1>8. Unbegun(v) \/ v.b.think.pending = <<>>
  BY <1>6 DEF Steady, Unbegun, q, r
<1> QED BY <1>6, <1>7, <1>8 DEF Steady, Solid, r

\* A finish is an event.
LEMMA FinishIs ==
  ASSUME NEW reason \in Reasons, NEW usage \in Nat, NEW output \in Seq(Outputs)
  PROVE  FinishEvent(reason, usage, output) \in Finishes
BY DEF FinishEvent, Finishes

\* The step is closed, committed and counted, and then its finish is appended; what an
\* append that failed leaves undone is left to the end of the run.
WroteFinish(w, reason, v) ==
    /\ v \in Works /\ Output(v.b) = Output(w.b) /\ Tokens(v.b) = Tokens(w.b)
    /\ Failed(v) =>
         /\ Adds(w.log, v.log) /\ v.b.finished = w.b.finished
         /\ Steady(w) => Steady(v)
    /\ ~ Failed(v) =>
         /\ \E output \in Seq(Outputs) :
              /\ Ends(w.log, v.log, FinishEvent(reason, Tokens(w.b), output))
              /\ reason # "tool_calls" => Contents(output) = Output(w.b)
         /\ v.b.usage = Tokens(w.b) /\ v.b.stepUsage = 0
         /\ v.b.finished <=> (reason # "tool_calls" \/ w.b.finished)
         /\ Steady(w) => Steady(v) /\ (reason = "tool_calls" => Unbegun(v))

\* writeFinish: without an error the finish is appended behind closed blocks with the
\* output and the usage so far, and with one no finish is.
LEMMA WriteFinishIs ==
  ASSUME NEW w \in Works, NEW reason \in Reasons
  PROVE  WroteFinish(w, reason, writeFinish(w, reason))
<1> DEFINE closed == closeOpenBlocks(w)
           ready == commitAssistantMessage(closed)
           added == AddUsage(ready)
           step == reason = "tool_calls"
           output == IF step THEN <<>> ELSE added.b.outputMessages
           f == FinishEvent(reason, added.b.usage, output)
           sent == Emit(added, f)
           next == advanceStep(sent)
           last == [sent EXCEPT !.b.finished = TRUE]
           v == writeFinish(w, reason)
<1>1. v = IF Failed(ready) THEN ready ELSE IF Failed(sent) THEN sent
          ELSE IF step THEN next ELSE last
  BY DEF writeFinish
<1>2. /\ Onward(w, closed) /\ (Steady(w) => Steady(closed))
      /\ ~ Failed(closed) => \A kind \in Kinds : ~ closed.b.open[kind]
  BY CloseIs
<1> HIDE DEF closed, v
<1>3. /\ closed \in Works /\ Output(closed.b) = Output(w.b) /\ Tokens(closed.b) = Tokens(w.b)
      /\ closed.b.finished = w.b.finished
  BY <1>2, OnwardOutput
<1>4. /\ Beside(closed, ready) /\ ready.b.usage = closed.b.usage
      /\ ready.b.stepUsage = closed.b.stepUsage /\ Output(ready.b) = Output(closed.b)
      /\ Failed(closed) => ready = closed
      /\ ~ Failed(ready) => /\ ready.b.assistantChunks = <<>>
                            /\ Contents(ready.b.outputMessages) = Output(closed.b)
  BY <1>3, CommitIs
<1> HIDE DEF ready
<1>5. /\ ready \in Works /\ ready.log = closed.log /\ ready.b.finished = w.b.finished
      /\ ready.b.open = closed.b.open /\ ready.b.stepIndex = closed.b.stepIndex
  BY <1>3, <1>4 DEF Beside
<1>6. Tokens(ready.b) = Tokens(w.b) /\ Output(ready.b) = Output(w.b)
  BY <1>3, <1>4 DEF Tokens
<1>7. (Steady(w) => Steady(ready)) /\ (Failed(closed) => Failed(ready))
  BY <1>2, <1>4, BesideIs
<1>8. Adds(w.log, ready.log)
  BY <1>2, <1>5 DEF Adds, Onward
<1>9. /\ Apart(ready, added) /\ added.b.usage = Tokens(ready.b) /\ added.b.stepUsage = 0
      /\ added.b.assistantChunks = ready.b.assistantChunks
      /\ added.b.outputMessages = ready.b.outputMessages
  BY <1>5, AddUsageIs
<1> HIDE DEF added
<1>10. /\ added \in Works /\ added.log = ready.log /\ added.b.finished = w.b.finished
       /\ added.b.open = closed.b.open /\ added.b.usage = Tokens(w.b)
  BY <1>5, <1>6, <1>9 DEF Apart, Beside
<1>11. (Steady(w) => Steady(added)) /\ (Failed(added) <=> Failed(ready))
  BY <1>7, <1>9, ApartIs
<1>12. Output(added.b) = Output(w.b) /\ Tokens(added.b) = Tokens(w.b)
  <2>1. Output(added.b) = Output(w.b)
    BY <1>6, <1>9 DEF Output
  <2>2. Tokens(w.b) \in Nat
    BY WorkIs DEF Builders, Tokens
  <2>3. Tokens(added.b) = Tokens(w.b) + 0
    BY <1>9, <1>10 DEF Tokens
  <2> QED BY <2>1, <2>2, <2>3
<1>13. added.b \in Builders /\ added.b.usage \in Nat /\ added.b.outputMessages \in Seq(Outputs)
  BY <1>10, WorkIs DEF Builders
<1>14. output \in Seq(Outputs)
  <2>1. <<>> \in Seq(Outputs)
    OBVIOUS
  <2> QED BY <1>13, <2>1
<1> HIDE DEF output
<1>15. f \in Finishes /\ f \in Events /\ f = FinishEvent(reason, Tokens(w.b), output)
  <2>1. f \in Finishes
    BY <1>13, <1>14, FinishIs
  <2>2. f = FinishEvent(reason, Tokens(w.b), output)
    BY <1>10
  <2> HIDE DEF f
  <2> QED BY <2>1, <2>2 DEF Events
<1> HIDE DEF f
<1>16. /\ sent \in Works /\ sent.b = added.b
       /\ \/ ~ Failed(added) /\ ~ Failed(sent) /\ sent.log = Append(added.log, f)
          \/ Failed(sent) /\ sent.log = added.log
       /\ Failed(added) => sent = added
  BY <1>10, <1>15, EmitCases
<1> HIDE DEF sent
<1>17. CASE Failed(ready)
  <2>1. v = ready
    BY <1>1, <1>17
  <2> QED BY <1>5, <1>6, <1>7, <1>8, <1>17, <2>1 DEF WroteFinish, v
<1>18. CASE ~ Failed(ready) /\ Failed(sent)
  <2>1. v = sent
    BY <1>1, <1>18
  <2>2. Steady(w) => Steady(sent)
    <3>1. sent.log = added.log
      BY <1>16, <1>18
    <3>2. (Solid(sent) <=> Solid(added)) /\ (Unbegun(sent) <=> Unbegun(added))
      BY <1>16, <3>1, SameSolid
    <3> QED BY <1>11, <1>16, <3>2 DEF Steady
  <2>3. Adds(w.log, sent.log)
    BY <1>8, <1>10, <1>16, <1>18
  <2>4. sent.b.finished = w.b.finished /\ Output(sent.b) = Output(w.b) /\ Tokens(sent.b) = Tokens(w.b)
    BY <1>10, <1>12, <1>16
  <2> QED BY <1>16, <1>18, <2>1, <2>2, <2>3, <2>4 DEF WroteFinish, v
<1>19. CASE ~ Failed(ready) /\ ~ Failed(sent)
  <2>1. sent.log = Append(added.log, f)
    BY <1>16, <1>19
  <2>2. Ends(w.log, sent.log, f)
    <3>1. w.log \in Seq(Events) /\ ready.log \in Seq(Events)
      BY <1>5, WorkIs
    <3> QED BY <1>8, <1>10, <1>15, <2>1, <3>1, AddsEnds
  <2>3. \A kind \in Kinds : ~ sent.b.open[kind]
    BY <1>2, <1>7, <1>10, <1>16, <1>19
  <2>4. ASSUME Steady(w) PROVE Steady(sent)
    <3>1. Steady(added)
      BY <1>11, <2>4
    <3> QED BY <1>10, <1>15, <1>16, <2>1, <2>3, <3>1, FinishSolid
  <2>5. ~ step => Contents(output) = Output(w.b)
    BY <1>3, <1>4, <1>7, <1>9, <1>19 DEF output
  <2>6. sent.b.usage = Tokens(w.b) /\ sent.b.stepUsage = 0 /\ sent.b.finished = w.b.finished
    BY <1>9, <1>10, <1>16
  <2>7. sent.b.assistantChunks = <<>>
    BY <1>4, <1>7, <1>9, <1>16, <1>19
  <2>8. Output(sent.b) = Output(w.b) /\ Tokens(sent.b) = Tokens(w.b)
    BY <1>12, <1>16
  <2>9. ASSUME NEW u \in Works, u.log = sent.log, Output(u.b) = Output(w.b), Tokens(u.b) = Tokens(w.b),
               ~ Failed(u), u.b.usage = Tokens(w.b), u.b.stepUsage = 0,
               u.b.finished <=> (reason # "tool_calls" \/ w.b.finished),
               Steady(w) => Steady(u) /\ (reason = "tool_calls" => Unbegun(u))
        PROVE  WroteFinish(w, reason, u)
    <3>1. \E out \in Seq(Outputs) :
            /\ Ends(w.log, u.log, FinishEvent(reason, Tokens(w.b), out))
            /\ reason # "tool_calls" => Contents(out) = Output(w.b)
      BY <1>14, <1>15, <2>2, <2>5, <2>9
    <3> QED BY <2>9, <3>1 DEF WroteFinish
  <2>10. CASE step
    <3>1. v = next
      BY <1>1, <1>19, <2>10
    <3>2. /\ next \in Works /\ next.log = sent.log /\ next.err = sent.err
          /\ next.b.stepIndex = sent.b.stepIndex + 1 /\ (\A kind \in Kinds : ~ next.b.open[kind])
          /\ next.b.finished = sent.b.finished /\ next.b.usage = sent.b.usage /\ next.b.stepUsage = 0
          /\ next.b.assistantChunks = <<>> /\ next.b.outputMessages = sent.b.outputMessages
      BY <1>16, NextStepIs
    <3> HIDE DEF next
    <3>3. Output(next.b) = Output(w.b)
      BY <2>7, <2>8, <3>2 DEF Output
    <3>4. Tokens(next.b) = Tokens(w.b)
      BY <2>6, <2>8, <3>2 DEF Tokens
    <3>5. ASSUME Steady(w) PROVE Steady(next) /\ Unbegun(next)
      <4> DEFINE o == sent.b.open
                 p == next.b.open
                 s == sent.b.stepIndex
      <4>1. Sound(sent.log, o, s) /\ Closing(sent.log)
        BY <2>4, <3>5 DEF Steady, Solid
      <4>2. sent.log \in Seq(Events) /\ o \in [Kinds -> BOOLEAN] /\ p \in [Kinds -> BOOLEAN] /\ s \in Nat
        BY <1>16, <3>2, WorkIs
      <4> HIDE DEF o, p, s
      <4>3. Sound(sent.log, o, s + 1) /\ Fresh(sent.log, o, s + 1)
        BY <2>3, <4>1, <4>2, SoundStep DEF o
      <4>4. o = p
        <5>1. \A kind \in Kinds : o[kind] = FALSE /\ p[kind] = FALSE
          BY <2>3, <3>2, <4>2 DEF o, p
        <5> QED BY <4>2, <5>1
      <4> QED BY <3>2, <4>1, <4>3, <4>4 DEF Steady, Solid, Unbegun, p, s
    <3>6. ~ Failed(next)
      BY <1>19, <3>2 DEF Failed
    <3>7. WroteFinish(w, reason, next)
      BY <2>6, <2>9, <2>10, <3>2, <3>3, <3>4, <3>5, <3>6
    <3> QED BY <3>1, <3>7 DEF v
  <2>11. CASE ~ step
    <3> DEFINE c == [sent.b EXCEPT !.finished = TRUE]
    <3>1. v = last
      BY <1>1, <1>19, <2>11
    <3>2. sent.b \in Builders
      BY <1>16, WorkIs
    <3>3. last = [sent EXCEPT !.b = c]
      BY <1>16, <3>2 DEF Works, Builders
    <3>4. /\ c \in Builders /\ c.finished = TRUE /\ c.open = sent.b.open /\ c.think = sent.b.think
          /\ c.stepIndex = sent.b.stepIndex /\ c.usage = sent.b.usage /\ c.stepUsage = sent.b.stepUsage
          /\ c.assistantChunks = sent.b.assistantChunks /\ c.outputMessages = sent.b.outputMessages
      BY <3>2 DEF Builders
    <3> HIDE DEF last, c
    <3>5. last \in Works /\ last.b = c /\ last.log = sent.log /\ last.err = sent.err
      BY <1>16, <3>3, <3>4 DEF Works
    <3>6. Output(last.b) = Output(w.b) /\ Tokens(last.b) = Tokens(w.b)
      BY <2>8, <3>4, <3>5 DEF Output, Tokens
    <3>7. (Solid(last) <=> Solid(sent)) /\ (Unbegun(last) <=> Unbegun(sent))
      BY <3>4, <3>5, SameSolid
    <3>8. Steady(w) => Steady(last)
      BY <2>4, <3>4, <3>5, <3>7 DEF Steady
    <3>9. ~ Failed(last)
      BY <1>19, <3>5 DEF Failed
    <3>10. WroteFinish(w, reason, last)
      BY <2>6, <2>9, <2>11, <3>4, <3>5, <3>6, <3>8, <3>9
    <3> QED BY <3>1, <3>10 DEF v
  <2> QED BY <2>10, <2>11
<1> QED BY <1>17, <1>18, <1>19

-----------------------------------------------------------------------------
(* A message *)

\* What was appended, in two steps.
LEMMA AddsMore ==
  ASSUME NEW p \in Seq(Events), NEW q \in Seq(Events), NEW r \in Seq(Events), Adds(p, q), Adds(q, r)
  PROVE  Adds(p, r)
<1>1. Len(p) \in Nat /\ Len(q) \in Nat /\ Len(r) \in Nat
  OBVIOUS
<1>2. Longer(p, r)
  BY <1>1 DEF Adds, Longer
<1>3. ASSUME NEW i \in (Len(p) + 1)..Len(r) PROVE r[i] \in Parted
  <2>1. CASE i <= Len(q)
    <3>1. i \in (Len(p) + 1)..Len(q) /\ i \in 1..Len(q)
      BY <1>1, <2>1
    <3> QED BY <3>1 DEF Adds, Longer
  <2>2. CASE ~ (i <= Len(q))
    <3>1. i \in (Len(q) + 1)..Len(r)
      BY <1>1, <2>2
    <3> QED BY <3>1 DEF Adds
  <2> QED BY <2>1, <2>2
<1> QED BY <1>2, <1>3 DEF Adds

LEMMA AddsSelf == ASSUME NEW q \in Seq(Events) PROVE Adds(q, q)
<1>1. Len(q) \in Nat
  OBVIOUS
<1>2. \A i \in (Len(q) + 1)..Len(q) : FALSE
  BY <1>1
<1> QED BY <1>1, <1>2 DEF Adds, Longer

LEMMA EndsMore ==
  ASSUME NEW p \in Seq(Events), NEW q \in Seq(Events), NEW r \in Seq(Events), NEW f,
         Adds(p, q), Ends(q, r, f)
  PROVE  Ends(p, r, f)
<1>1. Len(p) \in Nat /\ Len(q) \in Nat /\ Len(r) \in Nat
  OBVIOUS
<1>2. Longer(p, r) /\ Len(p) < Len(r)
  BY <1>1 DEF Adds, Ends, Longer
<1>3. ASSUME NEW i \in (Len(p) + 1)..Len(r), i # Len(r) PROVE r[i] \in Parted
  <2>1. CASE i <= Len(q)
    <3>1. i \in (Len(p) + 1)..Len(q) /\ i \in 1..Len(q)
      BY <1>1, <2>1
    <3> QED BY <3>1 DEF Adds, Ends, Longer
  <2>2. CASE ~ (i <= Len(q))
    <3>1. i \in (Len(q) + 1)..Len(r)
      BY <1>1, <2>2
    <3> QED BY <1>3, <3>1 DEF Ends
  <2> QED BY <2>1, <2>2
<1> QED BY <1>2, <1>3 DEF Ends

\* What every part of a message keeps.
Went(w, v) ==
    /\ v \in Works /\ Adds(w.log, v.log)
    /\ v.b.finished = w.b.finished /\ v.b.usage = w.b.usage /\ v.b.stepUsage = w.b.stepUsage
    /\ Solid(w) /\ Unbegun(w) => Solid(v) /\ Unbegun(v)

\* Steps of a handler add up.
LEMMA WentMore ==
  ASSUME NEW w \in Works, NEW v, NEW u, Went(w, v), Went(v, u) PROVE Went(w, u)
<1>1. v \in Works /\ u \in Works
  BY DEF Went
<1>2. w.log \in Seq(Events) /\ v.log \in Seq(Events) /\ u.log \in Seq(Events)
  BY <1>1, WorkIs
<1>3. Adds(w.log, u.log)
  BY <1>2, AddsMore DEF Went
<1> QED BY <1>1, <1>3 DEF Went

\* A calm step goes on.
LEMMA CalmWent ==
  ASSUME NEW w \in Works, NEW v, Calm(w, v)
  PROVE  /\ Went(w, v) /\ Output(v.b) = Output(w.b)
         /\ v.b.assistantChunks = w.b.assistantChunks
<1>1. Onward(w, v) /\ (Solid(w) /\ Unbegun(w) => Solid(v) /\ Unbegun(v))
  BY DEF Calm
<1>2. Adds(w.log, v.log)
  BY <1>1 DEF Onward, Adds
<1>3. Frame(w.b, v.b) /\ v \in Works
  BY <1>1 DEF Onward
<1> QED BY <1>1, <1>2, <1>3 DEF Went, Frame, Output

\* So does a commit or a count.
LEMMA ApartWent ==
  ASSUME NEW w \in Works, NEW v, Apart(w, v), v.b.usage = w.b.usage, v.b.stepUsage = w.b.stepUsage
  PROVE  Went(w, v)
<1>1. v \in Works /\ v.log = w.log /\ v.b.finished = w.b.finished
  BY DEF Apart, Beside
<1>2. Adds(w.log, v.log)
  BY <1>1, WorkIs, AddsSelf
<1>3. (Solid(v) <=> Solid(w)) /\ (Unbegun(v) <=> Unbegun(w))
  BY ApartIs
<1> QED BY <1>1, <1>2, <1>3 DEF Went

\* Texts are joined in any grouping.
LEMMA GlueMore ==
  ASSUME NEW a \in Texts, NEW b \in Texts, NEW c \in Texts PROVE Glue(Glue(a, b), c) = Glue(a, Glue(b, c))
BY DEF Glue, Texts

\* A chunk of the model is kept for the output before any of it is an event.
LEMMA CollectedIs ==
  ASSUME NEW w \in Works, NEW m \in Messages
  PROVE  LET v == Collected(w, m) IN
         /\ v \in Works /\ Went(w, v) /\ v.err = w.err
         /\ m.role = "tool" => v = w
         /\ m.role # "tool" => Output(v.b) = Glue(Output(w.b), m.content)
<1> DEFINE chunks == Append(w.b.assistantChunks, m)
           x == [w EXCEPT !.b.assistantChunks = chunks]
           v == Collected(w, m)
           some == m.role # "tool" /\ (m.content # <<>> \/ m.reasoning # <<>> \/ m.calls # <<>>)
<1>1. v = IF some THEN x ELSE w
  <2>1. x = [w EXCEPT !.b.assistantChunks = Append(@, m)]
    BY WorkIs DEF Works, Builders
  <2> HIDE DEF x
  <2> QED BY <2>1 DEF Collected
<1> HIDE DEF v
<1>2. w.b \in Builders /\ w.b.assistantChunks \in Seq(Messages) /\ w.b.outputMessages \in Seq(Outputs)
  BY WorkIs DEF Builders
<1>3. /\ Contents(w.b.assistantChunks) \in Texts
      /\ Contents(chunks) = Glue(Contents(w.b.assistantChunks), m.content)
  BY <1>2, MessageType, ContentsMore DEF Glue
<1>4. Contents(w.b.outputMessages) \in Texts
  <2>1. PICK o : o \in Outputs
    <3>1. <<>> \in Texts /\ <<>> \in Seq(Calls)
      BY DEF Texts
    <3>2. [role |-> "tool", content |-> <<>>, reasoning |-> <<>>, calls |-> <<>>] \in Outputs
      BY <3>1 DEF Outputs
    <3> QED BY <3>2
  <2> QED BY <1>2, <2>1, MessageType, ContentsMore
<1>5. m.content \in Texts
  BY MessageType DEF MessageSet
<1>6. Went(w, w)
  <2>1. Apart(w, w)
    BY DEF Apart, Beside
  <2> QED BY <2>1, ApartWent
<1>7. CASE some
  <2>1. v = x
    BY <1>1, <1>7
  <2>2. chunks \in Seq(Messages)
    BY <1>2
  <2> HIDE DEF chunks
  <2>3. /\ x \in Works /\ x.log = w.log /\ x.err = w.err /\ x.room = w.room /\ x.cause = w.cause
        /\ x.b = [w.b EXCEPT !.assistantChunks = chunks]
    BY <1>2, <2>2 DEF Works, Builders
  <2> HIDE DEF x
  <2>4. /\ x.b.stepIndex = w.b.stepIndex /\ x.b.open = w.b.open /\ x.b.think = w.b.think
        /\ x.b.toolCalls = w.b.toolCalls /\ x.b.finished = w.b.finished
        /\ x.b.usage = w.b.usage /\ x.b.stepUsage = w.b.stepUsage
        /\ x.b.outputMessages = w.b.outputMessages /\ x.b.assistantChunks = chunks
    BY <1>2, <2>3 DEF Builders
  <2>5. Apart(w, x)
    BY <2>3, <2>4 DEF Apart, Beside
  <2>6. Went(w, x)
    BY <2>4, <2>5, ApartWent
  <2>7. Output(x.b) = Glue(Output(w.b), m.content)
    BY <1>3, <1>4, <1>5, <2>4, GlueMore DEF Output
  <2> QED BY <1>7, <2>1, <2>3, <2>6, <2>7 DEF v
<1>8. CASE ~ some
  <2>1. v = w
    BY <1>1, <1>8
  <2>2. Output(w.b) \in Texts
    BY <1>3, <1>4 DEF Output, Glue, Texts
  <2>3. m.role # "tool" => Output(w.b) = Glue(Output(w.b), m.content)
    BY <1>8, <2>2, GlueNone
  <2> QED BY <1>6, <2>1, <2>3 DEF v
<1> QED BY <1>7, <1>8

\* No pieces of calls.
LEMMA NoCalls == ASSUME NEW w PROVE WriteCalls(w, <<>>) = w
<1> DEFINE f == [n \in 0..Len(<<>>) |-> w]
           Reads(written) ==
             written = [n \in 0..Len(<<>>) |->
               IF n = 0 THEN w ELSE writeToolCall(written[n - 1], <<>>[n])]
<1>1. Len(<<>>) = 0 /\ 0..Len(<<>>) = {0}
  OBVIOUS
<1>2. Reads(f)
  BY <1>1
<1>3. WritingCalls(w, <<>>) = CHOOSE written : Reads(written)
  BY DEF WritingCalls
<1> HIDE DEF f, Reads
<1>4. Reads(WritingCalls(w, <<>>))
  BY <1>2, <1>3
<1>5. WritingCalls(w, <<>>)[0] = w
  BY <1>1, <1>4 DEF Reads
<1> QED BY <1>1, <1>5 DEF WriteCalls

\* The result of a tool comes after all that its model said.
LEMMA ToolResultIs ==
  ASSUME NEW w \in Works, NEW m \in Messages
  PROVE  LET v == WriteToolResult(w, m) IN
         /\ Went(w, v)
         /\ m.role # "tool" \/ Failed(w) => v = w
         /\ m.role = "tool" /\ ~ Failed(w) /\ w.b.assistantChunks = <<>> =>
              Output(v.b) = Glue(Output(w.b), m.content)
<1> DEFINE result == [role |-> "tool", content |-> m.content, reasoning |-> <<>>, calls |-> m.calls]
           out == Append(w.b.outputMessages, result)
           x == [w EXCEPT !.b.outputMessages = out]
           e == Event("tool_result", <<m.toolCallID>>, m.content)
           sent == Emit(x, e)
           v == WriteToolResult(w, m)
<1>1. v = IF Failed(w) \/ m.role # "tool" THEN w ELSE sent
  <2>1. x = [w EXCEPT !.b.outputMessages = Append(@, result)]
    BY WorkIs DEF Works, Builders
  <2>2. v = IF Failed(w) \/ m.role # "tool" THEN w ELSE Emit([w EXCEPT !.b.outputMessages = Append(@, result)], e)
    BY DEF WriteToolResult
  <2> HIDE DEF x, v, e, out, result
  <2> QED BY <2>1, <2>2
<1> HIDE DEF v
<1>2. w.b \in Builders /\ w.b.outputMessages \in Seq(Outputs)
  BY WorkIs DEF Builders
<1>3. m.content \in Texts /\ m.calls \in Seq(Calls) /\ m.toolCallID \in STRING
  BY MessageType DEF MessageSet
<1>4. result \in Outputs /\ result.content = m.content
  BY <1>3 DEF Outputs, Texts
<1>5. e \in Parted /\ e.type = "tool_result"
  <2>1. <<m.toolCallID>> \in Seq(STRING)
    BY <1>3
  <2>2. <<m.toolCallID>> \in Blocks
    BY <2>1 DEF Blocks
  <2> QED BY <1>3, <2>2 DEF Event, Parted
<1> HIDE DEF result, e
<1>6. out \in Seq(Outputs)
  BY <1>2, <1>4
<1>7. /\ Contents(w.b.outputMessages) \in Texts
      /\ Contents(out) \in Texts
      /\ Contents(out) = Glue(Contents(w.b.outputMessages), m.content)
  <2>1. Contents(out) \in Texts
    BY <1>4, <1>6, MessageType, ContentsMore
  <2> QED BY <1>2, <1>4, <2>1, MessageType, ContentsMore DEF Glue
<1> HIDE DEF out
<1>8. /\ x \in Works /\ x.log = w.log /\ x.err = w.err /\ x.room = w.room /\ x.cause = w.cause
      /\ x.b = [w.b EXCEPT !.outputMessages = out]
  BY <1>2, <1>6 DEF Works, Builders
<1> HIDE DEF x
<1>9. /\ x.b.stepIndex = w.b.stepIndex /\ x.b.open = w.b.open /\ x.b.think = w.b.think
      /\ x.b.toolCalls = w.b.toolCalls /\ x.b.finished = w.b.finished
      /\ x.b.usage = w.b.usage /\ x.b.stepUsage = w.b.stepUsage
      /\ x.b.outputMessages = out /\ x.b.assistantChunks = w.b.assistantChunks
  BY <1>2, <1>8 DEF Builders
<1>10. Went(w, x)
  <2>1. Apart(w, x)
    BY <1>8, <1>9 DEF Apart, Beside
  <2> QED BY <1>9, <2>1, ApartWent
<1>11. Went(x, sent) /\ sent.b = x.b
  <2>1. Onward(x, sent)
    BY <1>5, <1>8, EmitOnward
  <2>2. /\ sent.b = x.b
        /\ sent.log = Append(x.log, e) \/ sent.log = x.log
    <3>1. e \in Events
      BY <1>5 DEF Events
    <3> QED BY <1>8, <3>1, EmitCases
  <2>3. x.log \in Seq(Events)
    BY <1>8, WorkIs
  <2>4. ASSUME NEW i \in (Len(x.log) + 1)..Len(sent.log) PROVE sent.log[i] = e
    <3>1. Len(x.log) \in Nat
      BY <2>3
    <3>2. e \in Events
      BY <1>5 DEF Events
    <3>3. CASE sent.log = x.log
      BY <2>4, <3>1, <3>3
    <3>4. CASE sent.log = Append(x.log, e)
      <4>1. Len(sent.log) = Len(x.log) + 1 /\ sent.log[Len(x.log) + 1] = e
        BY <2>3, <3>2, <3>4, AppendIs
      <4>2. i = Len(x.log) + 1
        BY <2>4, <3>1, <4>1
      <4> QED BY <4>1, <4>2
    <3> QED BY <2>2, <3>3, <3>4
  <2> HIDE DEF sent
  <2>5. \A i \in (Len(x.log) + 1)..Len(sent.log) : sent.log[i].type \in {"tool_call", "tool_result", "error"}
    BY <1>5, <2>4
  <2>6. (Solid(x) => Solid(sent)) /\ (Solid(x) /\ Unbegun(x) => Unbegun(sent))
    BY <1>8, <2>1, <2>2, <2>5, QuietSolid
  <2>7. Adds(x.log, sent.log) /\ sent \in Works
    BY <2>1 DEF Onward, Adds
  <2> QED BY <2>2, <2>6, <2>7 DEF Went
<1> HIDE DEF sent
<1>12. Went(w, sent)
  BY <1>10, <1>11, WentMore
<1>13. Went(w, w)
  BY CalmSelf, CalmWent
<1>14. ASSUME w.b.assistantChunks = <<>> PROVE Output(sent.b) = Glue(Output(w.b), m.content)
  <2>1. Output(sent.b) = Contents(out)
    BY <1>7, <1>9, <1>11, <1>14, ContentsNone, GlueNone DEF Output
  <2>2. Output(w.b) = Contents(w.b.outputMessages)
    BY <1>7, <1>14, ContentsNone, GlueNone DEF Output
  <2> QED BY <1>7, <2>1, <2>2
<1> QED BY <1>1, <1>12, <1>13, <1>14 DEF v

\* The usage of the step once m has been counted: the last report holds.
Counted(w, m) == IF m.usage = 0 THEN w.b.stepUsage ELSE m.usage

\* A result without reasoning and calls, of a step that is committed.
Orderly(w, m) ==
    m.role = "tool" => m.reasoning = <<>> /\ m.calls = <<>> /\ w.b.assistantChunks = <<>>

\* The usage a message reports replaces that of its step.
LEMMA MeteredIs ==
  ASSUME NEW w \in Works, NEW m \in Messages
  PROVE  LET v == IF m.usage = 0 THEN w ELSE [w EXCEPT !.b.stepUsage = m.usage] IN
         /\ Apart(w, v) /\ v.b.usage = w.b.usage /\ v.b.stepUsage = Counted(w, m)
         /\ Output(v.b) = Output(w.b)
<1> DEFINE x == [w EXCEPT !.b.stepUsage = m.usage]
<1>1. Apart(w, w)
  BY DEF Apart, Beside
<1>2. /\ Apart(w, x) /\ x.b.usage = w.b.usage /\ x.b.stepUsage = m.usage
      /\ Output(x.b) = Output(w.b)
  <2>1. w.b \in Builders /\ m.usage \in Nat
    BY WorkIs, MessageType
  <2>2. /\ x \in Works /\ x.log = w.log /\ x.err = w.err /\ x.room = w.room /\ x.cause = w.cause
        /\ x.b = [w.b EXCEPT !.stepUsage = m.usage]
    BY <2>1 DEF Works, Builders
  <2> HIDE DEF x
  <2>3. /\ x.b.stepIndex = w.b.stepIndex /\ x.b.open = w.b.open /\ x.b.think = w.b.think
        /\ x.b.toolCalls = w.b.toolCalls /\ x.b.finished = w.b.finished
        /\ x.b.usage = w.b.usage /\ x.b.stepUsage = m.usage
        /\ x.b.outputMessages = w.b.outputMessages /\ x.b.assistantChunks = w.b.assistantChunks
    BY <2>1, <2>2 DEF Builders
  <2> QED BY <2>2, <2>3 DEF Apart, Beside, Output
<1> HIDE DEF x
<1>3. CASE m.usage = 0
  BY <1>1, <1>3 DEF Counted
<1>4. CASE m.usage # 0
  BY <1>2, <1>4 DEF Counted, x
<1> QED BY <1>3, <1>4

\* What a message does, in each of its ends.
WroteMessage(w, m, v) ==
    /\ v \in Works
    /\ Orderly(w, m) => Output(v.b) = Glue(Output(w.b), m.content)
    /\ Failed(v) =>
         /\ Adds(w.log, v.log) /\ v.b.finished = w.b.finished
         /\ Tokens(v.b) = Tokens(w.b) \/ Tokens(v.b) = w.b.usage + Counted(w, m)
         /\ Solid(w) /\ Unbegun(w) => Steady(v)
    /\ ~ Failed(v) /\ m.finish = "" =>
         /\ Adds(w.log, v.log) /\ v.b.finished = w.b.finished
         /\ v.b.usage = w.b.usage /\ v.b.stepUsage = Counted(w, m)
         /\ Solid(w) /\ Unbegun(w) => Solid(v) /\ Unbegun(v)
    /\ ~ Failed(v) /\ m.finish # "" =>
         /\ \E output \in Seq(Outputs) :
              /\ Ends(w.log, v.log, FinishEvent(m.finish, w.b.usage + Counted(w, m), output))
              /\ Orderly(w, m) /\ m.finish # "tool_calls" =>
                   Contents(output) = Glue(Output(w.b), m.content)
         /\ v.b.usage = w.b.usage + Counted(w, m) /\ v.b.stepUsage = 0
         /\ v.b.finished <=> (m.finish # "tool_calls" \/ w.b.finished)
         /\ Solid(w) /\ Unbegun(w) => Steady(v) /\ (m.finish = "tool_calls" => Unbegun(v))

\* writeMessage: a message is in the chunks or the output once it is taken, whether or not
\* an append fails, and only its finish is a finish in the stream.
LEMMA WriteMessageIs ==
  ASSUME NEW w \in Works, ~ Failed(w), NEW m \in Messages
  PROVE  WroteMessage(w, m, writeMessage(w, m))
<1> DEFINE kept == Collected(w, m)
           thought == WriteBlock(kept, "reasoning", m.reasoning)
           spoken == IF m.role = "tool" THEN thought ELSE writeContent(thought, m.content)
           called == WriteCalls(spoken, m.calls)
           done == WriteToolResult(called, m)
           metered == IF m.usage = 0 THEN done ELSE [done EXCEPT !.b.stepUsage = m.usage]
           finish == writeFinish(metered, m.finish)
           v == writeMessage(w, m)
<1>1. v = IF Failed(done) THEN done ELSE IF m.finish = "" THEN metered ELSE finish
  BY DEF writeMessage
<1> HIDE DEF v
<1>2. /\ m.content \in Texts /\ m.reasoning \in Texts /\ m.calls \in Seq(Calls)
      /\ m.usage \in Nat /\ m.finish \in STRING
  BY MessageType DEF MessageSet
<1>3. /\ kept \in Works /\ Went(w, kept) /\ kept.err = w.err
      /\ m.role = "tool" => kept = w
      /\ m.role # "tool" => Output(kept.b) = Glue(Output(w.b), m.content)
  BY CollectedIs
<1> HIDE DEF kept
<1>4. Calm(kept, thought)
  <2>1. Writing(kept, thought) /\ (Solid(kept) /\ Unbegun(kept) => Solid(thought) /\ Unbegun(thought))
    <3>1. "reasoning" \in Kinds
      BY DEF Kinds
    <3> QED BY <1>2, <1>3, <3>1, WriteBlockSolid
  <2> QED BY <1>3, <2>1, WritingCalm
<1>5. m.reasoning = <<>> => thought = kept
  BY DEF WriteBlock
<1> HIDE DEF thought
<1>6. thought \in Works
  BY <1>4 DEF Calm, Onward
<1>7. Calm(thought, spoken) /\ (m.role = "tool" => spoken = thought)
  <2>1. Calm(thought, thought) /\ Calm(thought, writeContent(thought, m.content))
    BY <1>2, <1>6, CalmSelf, ContentCalm
  <2> QED BY <2>1
<1> HIDE DEF spoken
<1>8. spoken \in Works
  BY <1>7 DEF Calm, Onward
<1>9. Calm(spoken, called) /\ (m.calls = <<>> => called = spoken)
  <2>1. m.calls = <<>> => called = spoken
    BY NoCalls
  <2> QED BY <1>2, <1>8, <2>1, AllCallsCalm
<1> HIDE DEF called
<1>10. called \in Works /\ Calm(kept, called)
  <2>1. Calm(kept, spoken)
    BY <1>3, <1>4, <1>7, CalmMore
  <2> QED BY <1>3, <1>9, <2>1, CalmMore DEF Calm, Onward
<1>11. Went(kept, called) /\ Output(called.b) = Output(kept.b)
  BY <1>3, <1>10, CalmWent
<1>12. /\ Went(called, done)
       /\ m.role # "tool" \/ Failed(called) => done = called
       /\ m.role = "tool" /\ ~ Failed(called) /\ called.b.assistantChunks = <<>> =>
            Output(done.b) = Glue(Output(called.b), m.content)
  BY <1>10, ToolResultIs
<1> HIDE DEF done
<1>13. Went(w, done)
  BY <1>3, <1>10, <1>11, <1>12, WentMore
<1>14. done \in Works
  BY <1>13 DEF Went
<1>15. ASSUME Orderly(w, m) PROVE Output(done.b) = Glue(Output(w.b), m.content)
  <2>1. CASE m.role # "tool"
    BY <1>3, <1>11, <1>12, <2>1
  <2>2. CASE m.role = "tool"
    <3>1. m.reasoning = <<>> /\ m.calls = <<>> /\ w.b.assistantChunks = <<>>
      BY <1>15, <2>2 DEF Orderly
    <3>2. called = w
      BY <1>3, <1>5, <1>7, <1>9, <2>2, <3>1
    <3> QED BY <1>12, <2>2, <3>1, <3>2
  <2> QED BY <2>1, <2>2
<1>16. /\ Apart(done, metered) /\ metered.b.usage = done.b.usage
       /\ metered.b.stepUsage = Counted(done, m) /\ Output(metered.b) = Output(done.b)
  BY <1>14, MeteredIs
<1>17. Counted(done, m) = Counted(w, m) /\ done.b.usage = w.b.usage /\ done.b.stepUsage = w.b.stepUsage
  BY <1>13 DEF Went, Counted
<1> HIDE DEF metered
<1>18. /\ metered \in Works /\ metered.log = done.log /\ metered.b.finished = w.b.finished
       /\ metered.err = done.err
  BY <1>13, <1>16 DEF Apart, Beside, Went
<1>19. /\ Solid(w) /\ Unbegun(w) => Solid(metered) /\ Unbegun(metered)
       /\ Failed(metered) <=> Failed(done)
  BY <1>13, <1>16, ApartIs DEF Went
<1>20. Tokens(metered.b) = w.b.usage + Counted(w, m) /\ metered.b.stepUsage = Counted(w, m)
  BY <1>16, <1>17 DEF Tokens
<1>21. Adds(w.log, done.log) /\ w.log \in Seq(Events) /\ done.log \in Seq(Events)
  BY <1>13, <1>14, WorkIs DEF Went
<1>22. CASE Failed(done)
  <2>1. v = done
    BY <1>1, <1>22
  <2>2. Tokens(done.b) = Tokens(w.b)
    BY <1>17 DEF Tokens
  <2>3. Solid(w) /\ Unbegun(w) => Steady(done)
    BY <1>13 DEF Went, Steady
  <2>4. done.b.finished = w.b.finished
    BY <1>13 DEF Went
  <2> QED BY <1>14, <1>15, <1>21, <1>22, <2>1, <2>2, <2>3, <2>4 DEF WroteMessage, v
<1>23. CASE ~ Failed(done) /\ m.finish = ""
  <2>1. v = metered
    BY <1>1, <1>23
  <2> QED BY <1>15, <1>16, <1>17, <1>18, <1>19, <1>20, <1>21, <1>23, <2>1 DEF WroteMessage, v
<1>24. CASE ~ Failed(done) /\ m.finish # ""
  <2>1. v = finish
    BY <1>1, <1>24
  <2>2. WroteFinish(metered, m.finish, finish)
    <3>1. m.finish \in Reasons
      BY <1>2 DEF Reasons
    <3> QED BY <1>18, <3>1, WriteFinishIs
  <2> HIDE DEF finish
  <2>3. finish \in Works /\ Output(finish.b) = Output(metered.b) /\ Tokens(finish.b) = w.b.usage + Counted(w, m)
    BY <1>20, <2>2 DEF WroteFinish
  <2>4. Solid(w) /\ Unbegun(w) => Steady(metered)
    BY <1>19 DEF Steady
  <2>5. Orderly(w, m) => Output(metered.b) = Glue(Output(w.b), m.content)
    BY <1>15, <1>16
  <2>6. CASE Failed(finish)
    <3>1. Adds(w.log, finish.log) /\ finish.b.finished = w.b.finished /\ (Steady(metered) => Steady(finish))
      <4>1. finish.log \in Seq(Events)
        BY <2>3, WorkIs
      <4>2. Adds(metered.log, finish.log)
        BY <2>2, <2>6 DEF WroteFinish
      <4>3. Adds(w.log, finish.log)
        BY <1>18, <1>21, <4>1, <4>2, AddsMore
      <4> QED BY <1>18, <2>2, <2>6, <4>3 DEF WroteFinish
    <3> QED BY <2>1, <2>3, <2>4, <2>5, <2>6, <3>1 DEF WroteMessage, v
  <2>7. CASE ~ Failed(finish)
    <3>1. PICK output \in Seq(Outputs) :
            /\ Ends(metered.log, finish.log, FinishEvent(m.finish, Tokens(metered.b), output))
            /\ m.finish # "tool_calls" => Contents(output) = Output(metered.b)
      BY <2>2, <2>7 DEF WroteFinish
    <3>2. Ends(w.log, finish.log, FinishEvent(m.finish, w.b.usage + Counted(w, m), output))
      <4>1. finish.log \in Seq(Events)
        BY <2>3, WorkIs
      <4> QED BY <1>18, <1>20, <1>21, <3>1, <4>1, EndsMore
    <3>3. \E out \in Seq(Outputs) :
            /\ Ends(w.log, finish.log, FinishEvent(m.finish, w.b.usage + Counted(w, m), out))
            /\ Orderly(w, m) /\ m.finish # "tool_calls" => Contents(out) = Glue(Output(w.b), m.content)
      BY <2>5, <3>1, <3>2
    <3>4. /\ finish.b.usage = w.b.usage + Counted(w, m) /\ finish.b.stepUsage = 0
          /\ finish.b.finished <=> (m.finish # "tool_calls" \/ w.b.finished)
          /\ Steady(metered) => Steady(finish) /\ (m.finish = "tool_calls" => Unbegun(finish))
      BY <1>18, <1>20, <2>2, <2>7 DEF WroteFinish
    <3> QED BY <1>24, <2>1, <2>3, <2>4, <2>5, <2>7, <3>3, <3>4 DEF WroteMessage, v
  <2> QED BY <2>6, <2>7
<1> QED BY <1>22, <1>23, <1>24

-----------------------------------------------------------------------------
(* A run that is cancelled or fails *)

\* An error that is forgiven is all that changes.
LEMMA ForgivenIs ==
  ASSUME NEW w \in Works
  PROVE  LET v == Forgiven(w) IN
         /\ v \in Works /\ v.b = w.b /\ v.log = w.log /\ v.room = w.room /\ v.cause = w.cause
         /\ ~ Failed(v)
<1> DEFINE v == Forgiven(w)
<1> SUFFICES /\ v \in Works /\ v.b = w.b /\ v.log = w.log /\ v.room = w.room /\ v.cause = w.cause
             /\ ~ Failed(v)
  OBVIOUS
<1>1. v = [w EXCEPT !.err = ""]
  BY DEF Forgiven
<1>2. "" \in Errors
  BY DEF Errors
<1> HIDE DEF v
<1>3. v \in Works /\ v.err = ""
  BY <1>1, <1>2 DEF Works
<1>4. v.b = w.b /\ v.log = w.log /\ v.room = w.room /\ v.cause = w.cause
  BY <1>1 DEF Works
<1> QED BY <1>3, <1>4 DEF Failed

\* What is ready for the last finish: all output is committed, but for a step whose chunks
\* contradict each other, all usage is counted, and no block is open unless the log can no
\* longer grow or a call has no id.
Ready(w, c) ==
    /\ c \in Works /\ ~ Failed(c) /\ Adds(w.log, c.log)
    /\ Output(c.b) = Output(w.b)
    /\ Contents(c.b.outputMessages) = Output(w.b) \/ ~ Concatenates(c.b.assistantChunks)
    /\ c.b.usage = Tokens(w.b) /\ c.b.stepUsage = 0 /\ c.b.finished = w.b.finished
    /\ Steady(w) => Steady(c)
    /\ c.room = 0 \/ ~ Complete(c) \/ \A kind \in Kinds : ~ c.b.open[kind]
    /\ w.room = 0 => c.room = 0 /\ c.log = w.log

\* A log that cannot grow.
LEMMA NoRoom ==
  ASSUME NEW w \in Works, NEW v, Onward(w, v), w.room = 0 PROVE v.room = 0 /\ v.log = w.log
<1>1. v \in Works
  BY DEF Onward
<1>2. w.log \in Seq(Events) /\ v.log \in Seq(Events) /\ v.room \in Nat
  BY <1>1, WorkIs
<1>3. Len(w.log) \in Nat /\ Len(v.log) \in Nat
  BY <1>2
<1>4. Len(w.log) <= Len(v.log) /\ Len(v.log) + v.room = Len(w.log) + w.room
  BY DEF Onward, Longer
<1>5. v.room = 0 /\ Len(v.log) = Len(w.log)
  BY <1>2, <1>3, <1>4
<1>6. \A i \in 1..Len(w.log) : v.log[i] = w.log[i]
  BY DEF Onward, Longer
<1>7. v.log = w.log
  BY <1>2, <1>5, <1>6
<1> QED BY <1>5, <1>7

\* What finishCancelled and finishFailed do before their last appends.
LEMMA ClosedIs ==
  ASSUME NEW w \in Works, ~ Failed(w) PROVE Ready(w, Closed(w))
<1> DEFINE closed == closeOpenBlocks(w)
           free == Forgiven(closed)
           tried == commitAssistantMessage(free)
           ready == Forgiven(tried)
           c == Closed(w)
<1> SUFFICES Ready(w, c)
  OBVIOUS
<1>1. c = AddUsage(ready)
  BY DEF Closed
<1> HIDE DEF c
<1>2. /\ Onward(w, closed) /\ (Steady(w) => Steady(closed))
      /\ Failed(closed) => Failed(w) \/ closed.room = 0 \/ ~ Complete(closed)
      /\ ~ Failed(closed) => \A kind \in Kinds : ~ closed.b.open[kind]
  BY CloseIs
<1> HIDE DEF closed
<1>3. /\ closed \in Works /\ Output(closed.b) = Output(w.b) /\ Tokens(closed.b) = Tokens(w.b)
      /\ closed.b.finished = w.b.finished
  BY <1>2, OnwardOutput
<1>4. free \in Works /\ free.b = closed.b /\ free.log = closed.log /\ free.room = closed.room /\ ~ Failed(free)
  BY <1>3, ForgivenIs
<1> HIDE DEF free
<1>5. /\ Beside(free, tried) /\ tried.b.usage = free.b.usage
      /\ tried.b.stepUsage = free.b.stepUsage /\ Output(tried.b) = Output(free.b)
      /\ ~ Failed(tried) => Contents(tried.b.outputMessages) = Output(free.b)
      /\ Failed(tried) => ~ Concatenates(tried.b.assistantChunks)
  BY <1>4, CommitIs
<1> HIDE DEF tried
<1>6. /\ ready \in Works /\ ready.b = tried.b /\ ready.log = tried.log
      /\ ready.room = tried.room /\ ~ Failed(ready)
  BY <1>5, ForgivenIs DEF Beside
<1> HIDE DEF ready
<1>7. /\ Apart(ready, c) /\ c.b.usage = Tokens(ready.b) /\ c.b.stepUsage = 0
      /\ c.b.assistantChunks = ready.b.assistantChunks
      /\ c.b.outputMessages = ready.b.outputMessages
  BY <1>1, <1>6, AddUsageIs
<1>8. /\ c \in Works /\ c.log = closed.log /\ c.room = closed.room /\ ~ Failed(c)
      /\ c.b.finished = w.b.finished /\ c.b.open = closed.b.open
  BY <1>3, <1>4, <1>5, <1>6, <1>7 DEF Apart, Beside, Failed
<1>9. Steady(w) => Steady(c)
  <2>1. Steady(closed) => Steady(free)
    <3>1. (Solid(free) <=> Solid(closed)) /\ (Unbegun(free) <=> Unbegun(closed))
      BY <1>4, SameSolid
    <3> QED BY <1>4, <3>1 DEF Steady
  <2>2. Steady(tried) => Steady(ready)
    <3>1. (Solid(ready) <=> Solid(tried)) /\ (Unbegun(ready) <=> Unbegun(tried))
      BY <1>6, SameSolid
    <3> QED BY <1>6, <3>1 DEF Steady
  <2>3. Steady(free) => Steady(tried)
    BY <1>5, BesideIs
  <2>4. Steady(ready) => Steady(c)
    BY <1>7, ApartIs
  <2> QED BY <1>2, <2>1, <2>2, <2>3, <2>4
<1>10. Complete(c) <=> Complete(closed)
  <2>1. (Complete(free) <=> Complete(closed)) /\ (Complete(ready) <=> Complete(tried))
    BY <1>4, <1>6 DEF Complete
  <2>2. Complete(tried) <=> Complete(free)
    BY <1>5, BesideIs
  <2>3. Complete(c) <=> Complete(ready)
    BY <1>7, ApartIs
  <2> QED BY <2>1, <2>2, <2>3
<1>11. Adds(w.log, c.log)
  BY <1>2, <1>8 DEF Onward, Adds
<1>12. /\ Output(c.b) = Output(w.b)
       /\ Contents(c.b.outputMessages) = Output(w.b) \/ ~ Concatenates(c.b.assistantChunks)
  <2>1. Output(c.b) = Output(w.b)
    BY <1>3, <1>4, <1>5, <1>6, <1>7 DEF Output
  <2>2. CASE Failed(tried)
    BY <1>5, <1>6, <1>7, <2>1, <2>2
  <2>3. CASE ~ Failed(tried)
    BY <1>3, <1>4, <1>5, <1>6, <1>7, <2>1, <2>3
  <2> QED BY <2>2, <2>3
<1>13. c.b.usage = Tokens(w.b)
  BY <1>3, <1>4, <1>5, <1>6, <1>7 DEF Tokens
<1>14. w.room = 0 => c.room = 0 /\ c.log = w.log
  BY <1>2, <1>8, NoRoom
<1>15. c.room = 0 \/ ~ Complete(c) \/ \A kind \in Kinds : ~ c.b.open[kind]
  BY <1>2, <1>8, <1>10
<1> QED BY <1>7, <1>8, <1>9, <1>11, <1>12, <1>13, <1>14, <1>15 DEF Ready

\* The error of a failed run comes before its finish.
LEMMA ErrorIs ==
  ASSUME NEW w \in Works, NEW c, Ready(w, c)
  PROVE  Ready(w, Forgiven(Emit(c, Event("error", <<>>, <<>>))))
<1> DEFINE e == Event("error", <<>>, <<>>)
           sent == Emit(c, e)
           v == Forgiven(sent)
<1> SUFFICES Ready(w, v)
  OBVIOUS
<1>1. e \in Parted /\ e.type = "error"
  <2>1. <<>> \in Seq(STRING) /\ <<>> \in Texts
    BY DEF Texts
  <2>2. <<>> \in Blocks
    BY <2>1 DEF Blocks
  <2> HIDE DEF Texts
  <2> QED BY <2>1, <2>2 DEF Event, Parted
<1> HIDE DEF e
<1>2. c \in Works /\ c.log \in Seq(Events)
  BY WorkIs DEF Ready
<1>3. e \in Events
  BY <1>1 DEF Events
<1>4. /\ Onward(c, sent) /\ sent.b = c.b
      /\ sent.log = c.log \/ sent.log = Append(c.log, e)
  BY <1>1, <1>2, <1>3, EmitOnward, EmitCases
<1>5. \A i \in (Len(c.log) + 1)..Len(sent.log) : sent.log[i] = e
  <2>1. ASSUME NEW i \in (Len(c.log) + 1)..Len(sent.log) PROVE sent.log[i] = e
    <3> HIDE DEF sent
    <3>1. Len(c.log) \in Nat
      BY <1>2
    <3>2. CASE sent.log = c.log
      BY <2>1, <3>1, <3>2
    <3>3. CASE sent.log = Append(c.log, e)
      <4>1. Len(sent.log) = Len(c.log) + 1 /\ sent.log[Len(c.log) + 1] = e
        BY <1>2, <1>3, <3>3, AppendIs
      <4>2. i = Len(c.log) + 1
        BY <2>1, <3>1, <4>1
      <4> QED BY <4>1, <4>2
    <3> QED BY <1>4, <3>2, <3>3
  <2> QED BY <2>1
<1> HIDE DEF sent
<1>6. \A i \in (Len(c.log) + 1)..Len(sent.log) : sent.log[i].type \in {"tool_call", "tool_result", "error"}
  BY <1>1, <1>5
<1>7. (Solid(c) => Solid(sent)) /\ (Solid(c) /\ Unbegun(c) => Unbegun(sent)) /\ sent \in Works
  BY <1>2, <1>4, <1>6, QuietSolid DEF Onward
<1>8. v \in Works /\ v.b = sent.b /\ v.log = sent.log /\ v.room = sent.room /\ ~ Failed(v)
  BY <1>7, ForgivenIs
<1> HIDE DEF v
<1>9. Steady(w) => Steady(v)
  <2>1. (Solid(v) <=> Solid(sent)) /\ (Unbegun(v) <=> Unbegun(sent))
    BY <1>8, SameSolid
  <2> QED BY <1>4, <1>7, <1>8, <2>1 DEF Ready, Steady
<1>10. c.room = 0 => v.room = 0 /\ v.log = c.log
  BY <1>2, <1>4, <1>8, NoRoom
<1>11. Complete(v) <=> Complete(c)
  BY <1>4, <1>8 DEF Complete
<1>12. Adds(w.log, v.log)
  <2>1. Adds(c.log, v.log) /\ v.log \in Seq(Events) /\ w.log \in Seq(Events)
    BY <1>4, <1>8, WorkIs DEF Onward, Adds
  <2> QED BY <1>2, <2>1, AddsMore DEF Ready
<1>13. v.b = c.b
  BY <1>4, <1>8
<1>14. v.room = 0 \/ ~ Complete(v) \/ \A kind \in Kinds : ~ v.b.open[kind]
  BY <1>10, <1>11, <1>13 DEF Ready
<1>15. w.room = 0 => v.room = 0 /\ v.log = w.log
  BY <1>10 DEF Ready
<1>16. /\ Output(v.b) = Output(w.b)
       /\ Contents(v.b.outputMessages) = Output(w.b) \/ ~ Concatenates(v.b.assistantChunks)
  BY <1>13 DEF Ready
<1>17. v.b.usage = Tokens(w.b) /\ v.b.stepUsage = 0 /\ v.b.finished = w.b.finished
  BY <1>13 DEF Ready
<1> QED BY <1>8, <1>9, <1>12, <1>14, <1>15, <1>16, <1>17 DEF Ready

\* The last output has all that is in the builder, but for a step that contradicts itself.
Lasting(output, b) ==
    \/ Contents(output) = Output(b)
    \/ /\ ~ Concatenates(b.assistantChunks)
       /\ Glue(Contents(output), Contents(b.assistantChunks)) = Output(b)

\* The last finish, or none if the run has ended or is ended by somebody else.
Stopped(w, reason, v) ==
    /\ v \in Works /\ Output(v.b) = Output(w.b) /\ Tokens(v.b) = Tokens(w.b)
    /\ v.b.finished = w.b.finished
    /\ \/ Adds(w.log, v.log)
       \/ \E output \in Seq(Outputs) :
            /\ Ends(w.log, v.log, FinishEvent(reason, Tokens(w.b), output))
            /\ Lasting(output, v.b)
    /\ w.room = 0 => v.log = w.log
    /\ Steady(w) =>
         /\ Sound(v.log, v.b.open, v.b.stepIndex)
         /\ Unbegun(v) \/ v.b.think.pending = <<>>
         /\ Complete(v) => Closing(v.log)

\* The end of a run that was cancelled or has failed.
LEMMA EndWithIs ==
  ASSUME NEW w \in Works, NEW c, Ready(w, c), NEW reason \in Reasons
  PROVE  Stopped(w, reason, EndWith(c, reason))
<1> DEFINE output == c.b.outputMessages
           f == FinishEvent(reason, c.b.usage, output)
           v == EndWith(c, reason)
<1> SUFFICES Stopped(w, reason, v)
  OBVIOUS
<1>1. v = Emit(c, f)
  BY DEF EndWith
<1> HIDE DEF v
<1>2. c \in Works /\ c.log \in Seq(Events) /\ w.log \in Seq(Events) /\ c.b \in Builders
  BY WorkIs DEF Ready
<1>3. output \in Seq(Outputs) /\ c.b.usage \in Nat
  BY <1>2 DEF Builders
<1> HIDE DEF output
<1>4. f \in Finishes /\ f = FinishEvent(reason, Tokens(w.b), output)
  BY <1>3, FinishIs DEF Ready
<1>5. f \in Events
  BY <1>4 DEF Events
<1> HIDE DEF f
<1>6. /\ v \in Works /\ v.b = c.b
      /\ ~ Failed(c) /\ ~ (c.room > 0) => v.log = c.log
      /\ v.log = c.log \/ (c.room > 0 /\ v.log = Append(c.log, f))
  <2>1. ~ Failed(c)
    BY DEF Ready
  <2> QED BY <1>1, <1>2, <1>5, <2>1, EmitIs
<1>7. Output(v.b) = Output(w.b) /\ v.b.finished = w.b.finished
  BY <1>6 DEF Ready
<1>8. Tokens(v.b) = Tokens(w.b)
  <2>1. Tokens(w.b) \in Nat
    BY WorkIs DEF Builders, Tokens
  <2>2. Tokens(v.b) = Tokens(w.b) + 0
    BY <1>6 DEF Ready, Tokens
  <2> QED BY <2>1, <2>2
<1>9. w.room = 0 => v.log = w.log
  BY <1>6 DEF Ready
<1>10. CASE v.log = c.log
  <2>1. Adds(w.log, v.log)
    BY <1>10 DEF Ready
  <2>2. (Solid(v) <=> Solid(c)) /\ (Unbegun(v) <=> Unbegun(c))
    BY <1>6, <1>10, SameSolid
  <2>3. ASSUME Steady(w)
        PROVE  /\ Sound(v.log, v.b.open, v.b.stepIndex) /\ Closing(v.log)
               /\ Unbegun(v) \/ v.b.think.pending = <<>>
    BY <1>6, <2>2, <2>3 DEF Ready, Steady, Solid
  <2> QED BY <1>6, <1>7, <1>8, <1>9, <2>1, <2>3 DEF Stopped
<1>11. CASE c.room > 0 /\ v.log = Append(c.log, f)
  <2>1. Ends(w.log, v.log, f)
    BY <1>2, <1>5, <1>11, AddsEnds DEF Ready
  <2>2. Lasting(output, v.b)
    BY <1>6 DEF Ready, Lasting, Output, output
  <2>3. \E out \in Seq(Outputs) :
          /\ Ends(w.log, v.log, FinishEvent(reason, Tokens(w.b), out))
          /\ Lasting(out, v.b)
    BY <1>3, <1>4, <2>1, <2>2
  <2>4. ASSUME Steady(w)
        PROVE  /\ Sound(v.log, v.b.open, v.b.stepIndex)
               /\ Unbegun(v) \/ v.b.think.pending = <<>>
               /\ Complete(v) => Closing(v.log)
    <3>1. Steady(c)
      BY <2>4 DEF Ready
    <3>2. /\ Sound(v.log, v.b.open, v.b.stepIndex)
          /\ Unbegun(v) \/ v.b.think.pending = <<>>
          /\ (\A kind \in Kinds : ~ c.b.open[kind]) => Steady(v)
      BY <1>2, <1>4, <1>6, <1>11, <3>1, FinishSolid
    <3>3. Complete(v) <=> Complete(c)
      BY <1>6 DEF Complete
    <3>4. c.room # 0
      BY <1>2, <1>11, WorkIs
    <3>5. Complete(v) => \A kind \in Kinds : ~ c.b.open[kind]
      BY <3>3, <3>4 DEF Ready
    <3> QED BY <3>2, <3>5 DEF Steady, Solid
  <2> QED BY <1>6, <1>7, <1>8, <1>9, <2>3, <2>4 DEF Stopped
<1> QED BY <1>6, <1>10, <1>11

-----------------------------------------------------------------------------
(* The run *)

Typed ==
    /\ builder \in Builders /\ log \in Seq(Events)
    /\ pc \in {"streaming", "cancelled", "failed", "done"}
    /\ spent \in Seq(Nat) /\ Len(spent) >= 1 /\ said \in Texts /\ late \in BOOLEAN

\* What a handler finds when it begins.
LEMMA AttemptIs ==
  ASSUME Typed, NEW causes \in SUBSET Causes, NEW w \in Attempts(causes)
  PROVE  /\ w \in Works /\ w.b = builder /\ w.log = log /\ ~ Failed(w)
         /\ sealed \/ builder.finished => w.room = 0
<1>1. PICK room \in 0..MaxRoom, cause \in Causes : w = Work(room, cause)
  <2>1. "terminal" \in Causes
    BY DEF Causes
  <2> QED BY <2>1 DEF Attempts
<1> DEFINE r == IF sealed \/ builder.finished THEN 0 ELSE room
<1>2. r \in Nat
  BY MessageAssumption DEF MessageAssumption
<1>3. "" \in Errors
  BY DEF Errors
<1>4. w = [b |-> builder, log |-> log, err |-> "", cause |-> cause, room |-> r]
  BY <1>1 DEF Work
<1>5. r = 0 \/ ~ (sealed \/ builder.finished)
  OBVIOUS
<1> HIDE DEF r
<1>6. w \in Works
  BY <1>2, <1>3, <1>4 DEF Works, Typed
<1> QED BY <1>4, <1>5, <1>6 DEF Failed

\* Where executeRun goes on.
LEMMA AfterErrorIs == \A err : AfterError(err) \in {"done", "cancelled", "failed"}
BY DEF AfterError

\* Only a finish ends a run.
LEMMA AddsTerminals ==
  ASSUME NEW q \in Seq(Events), NEW r \in Seq(Events), Adds(q, r),
         NEW i \in 1..Len(r), IsTerminal(r[i])
  PROVE  i \in 1..Len(q) /\ r[i] = q[i]
<1>1. Len(q) \in Nat /\ Len(r) \in Nat
  OBVIOUS
<1>2. r[i] \notin Parted
  BY DEF Parted, IsTerminal
<1>3. i \in 1..Len(q)
  BY <1>1, <1>2 DEF Adds
<1> QED BY <1>3 DEF Adds, Longer

\* One finish more.
LEMMA EndsTerminals ==
  ASSUME NEW q \in Seq(Events), NEW r \in Seq(Events), NEW f, Ends(q, r, f),
         NEW i \in 1..Len(r), IsTerminal(r[i])
  PROVE  (i \in 1..Len(q) /\ r[i] = q[i]) \/ r[i] = f
<1>1. Len(q) \in Nat /\ Len(r) \in Nat
  OBVIOUS
<1>2. r[i] \notin Parted
  BY DEF Parted, IsTerminal
<1>3. CASE i \in 1..Len(q)
  BY <1>3 DEF Ends, Longer
<1>4. CASE i \notin 1..Len(q)
  <2>1. i \in (Len(q) + 1)..Len(r)
    BY <1>1, <1>4
  <2> QED BY <1>2, <2>1 DEF Ends
<1> QED BY <1>3, <1>4

\* What a call has cost once m is counted.
Reported(m) == IF m.usage = 0 THEN spent[Len(spent)] ELSE m.usage

\* The usage reported so far.
LEMMA SpendIs ==
  ASSUME Typed, NEW m \in Messages, Spend(m)
  PROVE  /\ spent' \in Seq(Nat) /\ Len(spent') >= 1
         /\ spent[Len(spent)] \in Nat /\ Reported(m) \in Nat
         /\ Total(spent) \in Nat /\ Total(spent') \in Nat
         /\ Total(spent') + spent[Len(spent)] = Total(spent) + Reported(m)
         /\ spent'[Len(spent')] = IF m.finish = "tool_calls" THEN 0 ELSE Reported(m)
<1> DEFINE n == Len(spent)
           last == spent[n]
           more == IF m.usage = 0 THEN spent ELSE [spent EXCEPT ![n] = m.usage]
<1>1. spent \in Seq(Nat) /\ n \in Nat /\ n >= 1 /\ n \in 1..n
  BY DEF Typed
<1>2. m.usage \in Nat
  BY MessageType
<1>3. last \in Nat
  BY <1>1
<1>4. more \in Seq(Nat) /\ Len(more) = n /\ more[n] = Reported(m) /\ \A i \in 1..n : i # n => more[i] = spent[i]
  <2>1. CASE m.usage = 0
    BY <1>1, <2>1 DEF Reported
  <2>2. CASE m.usage # 0
    <3> DEFINE x == [spent EXCEPT ![n] = m.usage]
    <3>1. x \in Seq(Nat) /\ Len(x) = n /\ x[n] = m.usage /\ \A i \in 1..n : i # n => x[i] = spent[i]
      BY <1>1, <1>2
    <3> HIDE DEF x
    <3> QED BY <2>2, <3>1 DEF Reported, x
  <2> QED BY <2>1, <2>2
<1>5. spent' = IF m.finish = "tool_calls" THEN Append(more, 0) ELSE more
  BY DEF Spend
<1> HIDE DEF more
<1>6. Reported(m) \in Nat
  BY <1>1, <1>4
<1> DEFINE d == Reported(m) - last
<1>7. d \in Int /\ more[n] = spent[n] + d
  BY <1>3, <1>4, <1>6
<1> HIDE DEF d
<1>8. Total(spent) \in Nat /\ Total(more) \in Nat /\ Total(more) = Total(spent) + d
  BY <1>1, <1>4, <1>7, TotalGrows
<1>9. Total(more) + last = Total(spent) + Reported(m)
  <2> HIDE DEF last
  <2> QED BY <1>3, <1>6, <1>8 DEF d
<1>10. CASE m.finish = "tool_calls"
  <2>1. spent' = Append(more, 0)
    BY <1>5, <1>10
  <2>2. Total(spent') = Total(more)
    BY <1>4, <2>1, TotalMore
  <2>3. spent' \in Seq(Nat) /\ Len(spent') = n + 1 /\ spent'[n + 1] = 0
    BY <1>1, <1>4, <2>1
  <2> QED BY <1>1, <1>3, <1>6, <1>8, <1>9, <1>10, <2>2, <2>3
<1>11. CASE m.finish # "tool_calls"
  <2>1. spent' = more
    BY <1>5, <1>11
  <2> QED BY <1>1, <1>3, <1>4, <1>6, <1>8, <1>9, <1>11, <2>1
<1> QED BY <1>10, <1>11

\* Usage after the finish of its call.
LEMMA LateIs ==
  ASSUME Typed, NEW u \in Nat, LateUsage(u)
  PROVE  /\ spent' \in Seq(Nat) /\ Len(spent') = Len(spent)
         /\ Total(spent) \in Nat /\ Total(spent') = Total(spent) + u
         /\ ~ builder.finished => spent'[Len(spent')] = spent[Len(spent)]
<1> DEFINE i == IF builder.finished THEN Len(spent) ELSE Len(spent) - 1
           x == [spent EXCEPT ![i] = u]
<1>1. i \in 1..Len(spent) /\ spent[i] = 0 /\ spent' = x /\ spent \in Seq(Nat) /\ Len(spent) \in Nat
  BY DEF LateUsage, Typed
<1>2. ~ builder.finished => i # Len(spent)
  BY <1>1
<1> HIDE DEF i
<1>3. x \in Seq(Nat) /\ Len(x) = Len(spent) /\ x[i] = u /\ \A j \in 1..Len(spent) : j # i => x[j] = spent[j]
  BY <1>1
<1> HIDE DEF x
<1>4. x[i] = spent[i] + u
  BY <1>1, <1>3
<1>5. Total(spent) \in Nat /\ Total(x) = Total(spent) + u
  <2>1. u \in Int
    OBVIOUS
  <2>2. spent \in Seq(Nat) /\ x \in Seq(Nat) /\ Len(x) = Len(spent) /\ i \in 1..Len(spent)
    BY <1>1, <1>3
  <2>3. \A j \in 1..Len(spent) : j # i => x[j] = spent[j]
    BY <1>3
  <2> QED BY <1>4, <2>1, <2>2, <2>3, TotalGrows, Zenon
<1>6. Len(spent) >= 1
  BY DEF Typed
<1>7. Len(spent) \in 1..Len(spent)
  BY <1>1, <1>6
<1> QED BY <1>1, <1>2, <1>3, <1>5, <1>7

\* The actions, as far as the invariants see them.
Streamed(m, w, v) ==
    /\ pc = "streaming" /\ ~ builder.finished /\ Plausible(m) /\ Spend(m)
    /\ w \in Works /\ w.b = builder /\ w.log = log /\ ~ Failed(w)
    /\ WroteMessage(w, m, v) /\ builder' = v.b /\ log' = v.log
    /\ pc' \in (IF Failed(v) THEN {"done", "cancelled", "failed"} ELSE {"streaming"})
    /\ said' = said \o m.content /\ late' = late

\* A message in terms of its handler.
LEMMA MessageIs ==
  ASSUME Typed, NEW m \in Messages, Message(m) PROVE \E w, v : Streamed(m, w, v)
<1>1. PICK w \in Attempts({"canceled", "deadline", "terminal"}) :
        /\ Take(writeMessage(w, m))
        /\ pc' = IF Failed(writeMessage(w, m)) THEN AfterError(writeMessage(w, m).err)
                 ELSE "streaming"
  BY DEF Message
<1> DEFINE v == writeMessage(w, m)
<1>2. {"canceled", "deadline", "terminal"} \in SUBSET Causes
  BY DEF Causes
<1>3. w \in Works /\ w.b = builder /\ w.log = log /\ ~ Failed(w)
  BY <1>1, <1>2, AttemptIs
<1>4. WroteMessage(w, m, v)
  BY <1>3, WriteMessageIs
<1>5. builder' = v.b /\ log' = v.log
  BY <1>1 DEF Take
<1>6. pc' \in (IF Failed(v) THEN {"done", "cancelled", "failed"} ELSE {"streaming"})
  <2> HIDE DEF v
  <2> QED BY <1>1, AfterErrorIs DEF v
<1>7. /\ pc = "streaming" /\ ~ builder.finished /\ Plausible(m) /\ Spend(m)
      /\ said' = said \o m.content /\ late' = late
  BY DEF Message, Plausible
<1> HIDE DEF v
<1> QED BY <1>3, <1>4, <1>5, <1>6, <1>7 DEF Streamed

\* A run without a finish is given one; a finish of the builder is not a step's.
Rested(w, v) ==
    /\ pc = "streaming" /\ ~ builder.finished
    /\ w \in Works /\ w.b = builder /\ w.log = log /\ ~ Failed(w)
    /\ WroteFinish(w, "stop", v) /\ builder' = v.b /\ log' = v.log
    /\ pc' \in {"done", "failed"} /\ (~ Failed(v) => pc' = "done")
    /\ spent' = spent /\ said' = said /\ late' = late

\* The end of an agent.
LEMMA AgentEndIs ==
  ASSUME Typed, AgentEnd, ~ builder.finished PROVE \E w, v : Rested(w, v)
<1>1. PICK w \in Attempts({"terminal"}) :
        /\ Take(writeFinish(w, "stop"))
        /\ pc' = IF writeFinish(w, "stop").err \in {"toolcall", "concat"} THEN "failed" ELSE "done"
  BY DEF AgentEnd
<1> DEFINE v == writeFinish(w, "stop")
<1>2. {"terminal"} \in SUBSET Causes
  BY DEF Causes
<1>3. w \in Works /\ w.b = builder /\ w.log = log /\ ~ Failed(w)
  BY <1>1, <1>2, AttemptIs
<1>4. WroteFinish(w, "stop", v)
  <2>1. "stop" \in Reasons
    BY DEF Reasons
  <2> QED BY <1>3, <2>1, WriteFinishIs
<1>5. builder' = v.b /\ log' = v.log
  BY <1>1 DEF Take
<1>6. pc' = IF v.err \in {"toolcall", "concat"} THEN "failed" ELSE "done"
  BY <1>1
<1> HIDE DEF v
<1>7. pc' \in {"done", "failed"} /\ (~ Failed(v) => pc' = "done")
  BY <1>6 DEF Failed
<1>8. pc = "streaming" /\ spent' = spent /\ said' = said /\ late' = late
  BY DEF AgentEnd, history
<1> QED BY <1>3, <1>4, <1>5, <1>7, <1>8 DEF Rested

Ended(w, reason, v) ==
    /\ pc # "done" /\ pc # "streaming" /\ pc' = "done"
    /\ w \in Works /\ w.b = builder /\ w.log = log /\ ~ Failed(w)
    /\ sealed \/ builder.finished => w.room = 0
    /\ Stopped(w, reason, v) /\ builder' = v.b /\ log' = v.log
    /\ spent' = spent /\ said' = said /\ late' = late

\* A run that is cancelled.
LEMMA CancelledIs ==
  ASSUME Typed, finishCancelled PROVE \E w, v : Ended(w, "cancelled", v)
<1>1. PICK w \in Attempts({"terminal"}) : Take(EndWith(Closed(w), "cancelled"))
  BY DEF finishCancelled
<1>2. {"terminal"} \in SUBSET Causes
  BY DEF Causes
<1>3. w \in Works /\ w.b = builder /\ w.log = log /\ ~ Failed(w) /\ (sealed \/ builder.finished => w.room = 0)
  BY <1>1, <1>2, AttemptIs
<1> DEFINE v == EndWith(Closed(w), "cancelled")
<1>4. Stopped(w, "cancelled", v)
  <2>1. "cancelled" \in Reasons
    BY DEF Reasons
  <2> QED BY <1>3, <2>1, ClosedIs, EndWithIs
<1>5. builder' = v.b /\ log' = v.log
  BY <1>1 DEF Take
<1>6. pc = "cancelled" /\ pc' = "done" /\ spent' = spent /\ said' = said /\ late' = late
  BY DEF finishCancelled, history
<1> HIDE DEF v
<1> QED BY <1>3, <1>4, <1>5, <1>6 DEF Ended

\* A run that fails.
LEMMA FailedIs ==
  ASSUME Typed, finishFailed PROVE \E w, v : Ended(w, "error", v)
<1>1. PICK w \in Attempts({"terminal"}) :
        Take(EndWith(Forgiven(Emit(Closed(w), Event("error", <<>>, <<>>))), "error"))
  BY DEF finishFailed
<1>2. {"terminal"} \in SUBSET Causes
  BY DEF Causes
<1>3. w \in Works /\ w.b = builder /\ w.log = log /\ ~ Failed(w) /\ (sealed \/ builder.finished => w.room = 0)
  BY <1>1, <1>2, AttemptIs
<1> DEFINE c == Forgiven(Emit(Closed(w), Event("error", <<>>, <<>>)))
           v == EndWith(c, "error")
<1>4. Stopped(w, "error", v)
  <2>1. "error" \in Reasons
    BY DEF Reasons
  <2>2. Ready(w, c)
    BY <1>3, ClosedIs, ErrorIs
  <2> HIDE DEF c
  <2> QED BY <1>3, <2>1, <2>2, EndWithIs
<1>5. builder' = v.b /\ log' = v.log
  BY <1>1 DEF Take
<1>6. pc = "failed" /\ pc' = "done" /\ spent' = spent /\ said' = said /\ late' = late
  BY DEF finishFailed, history
<1> HIDE DEF v
<1> QED BY <1>3, <1>4, <1>5, <1>6 DEF Ended

\* What a usage chunk changes.
LEMMA LateBuilder ==
  ASSUME Typed, NEW u \in Nat, LateUsage(u)
  PROVE  /\ builder' \in Builders /\ builder'.stepUsage = u
         /\ builder'.stepIndex = builder.stepIndex /\ builder'.open = builder.open
         /\ builder'.think = builder.think /\ builder'.toolCalls = builder.toolCalls
         /\ builder'.finished = builder.finished /\ builder'.usage = builder.usage
         /\ Output(builder') = Output(builder)
         /\ log' = log /\ pc' = pc /\ pc = "streaming" /\ sealed' = sealed /\ said' = said /\ late' = TRUE
<1>1. builder \in Builders
  BY DEF Typed
<1>2. builder' = [builder EXCEPT !.stepUsage = u]
  BY DEF LateUsage
<1>3. /\ builder' \in Builders /\ builder'.stepUsage = u
      /\ builder'.stepIndex = builder.stepIndex /\ builder'.open = builder.open
      /\ builder'.think = builder.think /\ builder'.toolCalls = builder.toolCalls
      /\ builder'.finished = builder.finished /\ builder'.usage = builder.usage
      /\ builder'.assistantChunks = builder.assistantChunks
      /\ builder'.outputMessages = builder.outputMessages
  BY <1>1, <1>2 DEF Builders
<1>4. log' = log /\ pc' = pc /\ pc = "streaming" /\ sealed' = sealed /\ said' = said /\ late' = TRUE
  BY DEF LateUsage
<1> QED BY <1>3, <1>4 DEF Output

\* The ends that change nothing but what comes next.
Halted ==
    /\ pc = "streaming" /\ pc' \in {"done", "cancelled", "failed"}
    /\ builder' = builder /\ log' = log /\ sealed' = sealed
    /\ spent' = spent /\ said' = said /\ late' = late

\* The cases of a step.
LEMMA StepIs ==
  ASSUME Typed, [Next]_vars
  PROVE  \/ \E m \in Messages : \E w, v : Streamed(m, w, v)
         \/ \E u \in Nat : LateUsage(u)
         \/ \E w, v : Rested(w, v)
         \/ \E w, v : Ended(w, "cancelled", v) \/ Ended(w, "error", v)
         \/ Halted
         \/ UNCHANGED vars
<1>1. ASSUME NEW m \in Messages, Message(m) PROVE \E w, v : Streamed(m, w, v)
  BY <1>1, MessageIs
<1>2. ASSUME NEW u \in {m.usage : m \in Messages} \ {0}, LateUsage(u) PROVE \E x \in Nat : LateUsage(x)
  <2>1. u \in Nat
    BY MessageType
  <2> QED BY <1>2, <2>1
<1>3. ASSUME NEW err, StreamError(err) PROVE Halted
  BY <1>3, AfterErrorIs DEF StreamError, Halted, history
<1>4. ASSUME finishCancelled PROVE \E w, v : Ended(w, "cancelled", v)
  BY <1>4, CancelledIs
<1>5. ASSUME finishFailed PROVE \E w, v : Ended(w, "error", v)
  BY <1>5, FailedIs
<1>6. ASSUME AgentEnd PROVE (\E w, v : Rested(w, v)) \/ Halted
  <2>1. CASE builder.finished
    BY <1>6, <2>1 DEF AgentEnd, Halted, history
  <2>2. CASE ~ builder.finished
    BY <1>6, <2>2, AgentEndIs
  <2> QED BY <2>1, <2>2
<1>7. CASE UNCHANGED vars
  BY <1>7
<1>8. CASE Next
  BY <1>1, <1>2, <1>3, <1>4, <1>5, <1>6, <1>8 DEF Next
<1> QED BY <1>7, <1>8

\* The beginning.
LEMMA InitIs ==
  ASSUME Init
  PROVE  /\ Typed /\ log = <<>> /\ pc = "streaming" /\ said = <<>> /\ spent = <<0>>
         /\ ~ builder.finished /\ builder.usage = 0 /\ builder.stepUsage = 0
         /\ builder.open \in [Kinds -> BOOLEAN] /\ (\A kind \in Kinds : ~ builder.open[kind])
         /\ builder.stepIndex = 0 /\ Output(builder) = <<>>
<1> DEFINE closed == [kind \in Kinds |-> FALSE]
           none == [i \in Indexes |-> NoCall]
<1>1. closed \in [Kinds -> BOOLEAN] /\ \A kind \in Kinds : ~ closed[kind]
  OBVIOUS
<1>2. none \in [Indexes -> CallStates]
  <2>1. NoCall \in CallStates
    BY DEF NoCall, CallStates, Ids, Texts
  <2> QED BY <2>1
<1>3. newThinkSplitter \in Split
  BY DEF newThinkSplitter, Split
<1>4. builder = [stepIndex |-> 0, open |-> closed, think |-> newThinkSplitter, toolCalls |-> none,
                 finished |-> FALSE, usage |-> 0, stepUsage |-> 0,
                 assistantChunks |-> <<>>, outputMessages |-> <<>>]
  BY DEF Init
<1> HIDE DEF closed, none
<1>5. <<>> \in Seq(Messages) /\ <<>> \in Seq(Outputs) /\ <<>> \in Seq(Events) /\ <<>> \in Texts
  BY DEF Texts
<1>6. builder \in Builders
  BY <1>1, <1>2, <1>3, <1>4, <1>5 DEF Builders
<1>7. log = <<>> /\ pc = "streaming" /\ said = <<>> /\ spent = <<0>> /\ late = FALSE
  BY DEF Init
<1>8. Typed
  <2>1. spent \in Seq(Nat) /\ Len(spent) = 1
    BY <1>7
  <2>2. log \in Seq(Events) /\ said \in Texts
    BY <1>5, <1>7
  <2>3. late \in BOOLEAN /\ pc \in {"streaming", "cancelled", "failed", "done"}
    BY <1>7
  <2>4. Len(spent) >= 1
    BY <2>1
  <2> QED BY <1>6, <2>1, <2>2, <2>3, <2>4 DEF Typed
<1>9. Output(builder) = <<>>
  BY <1>4, <1>5, ContentsNone, GlueNone DEF Output
<1> QED BY <1>1, <1>4, <1>7, <1>8, <1>9

\* Each step keeps the types.
LEMMA TypedStep == Typed /\ [Next]_vars => Typed'
<1> SUFFICES ASSUME Typed, [Next]_vars PROVE Typed'
  OBVIOUS
<1>1. ASSUME NEW v \in Works, builder' = v.b, log' = v.log PROVE builder' \in Builders /\ log' \in Seq(Events)
  BY <1>1, WorkIs
<1>2. ASSUME NEW m \in Messages, NEW w, NEW v, Streamed(m, w, v) PROVE Typed'
  <2>1. builder' \in Builders /\ log' \in Seq(Events)
    BY <1>1, <1>2 DEF Streamed, WroteMessage
  <2>2. spent' \in Seq(Nat) /\ Len(spent') >= 1
    BY <1>2, SpendIs DEF Streamed
  <2>3. said' \in Texts
    <3>1. m.content \in Texts
      BY MessageType DEF MessageSet
    <3> QED BY <1>2, <3>1 DEF Streamed, Typed, Texts
  <2>4. pc' \in {"streaming", "cancelled", "failed", "done"} /\ late' \in BOOLEAN
    BY <1>2 DEF Streamed, Typed
  <2> QED BY <2>1, <2>2, <2>3, <2>4 DEF Typed
<1>3. ASSUME NEW u \in Nat, LateUsage(u) PROVE Typed'
  BY <1>3, LateIs, LateBuilder DEF Typed
<1>4. ASSUME NEW w, NEW v, Rested(w, v) PROVE Typed'
  <2>1. builder' \in Builders /\ log' \in Seq(Events)
    BY <1>1, <1>4 DEF Rested, WroteFinish
  <2> QED BY <1>4, <2>1 DEF Rested, Typed
<1>5. ASSUME NEW w, NEW v, Ended(w, "cancelled", v) \/ Ended(w, "error", v) PROVE Typed'
  <2>1. builder' \in Builders /\ log' \in Seq(Events)
    BY <1>1, <1>5 DEF Ended, Stopped
  <2> QED BY <1>5, <2>1 DEF Ended, Typed
<1>6. ASSUME Halted PROVE Typed'
  BY <1>6 DEF Halted, Typed
<1>7. ASSUME UNCHANGED vars PROVE Typed'
  BY <1>7 DEF vars, history, Typed
<1> QED BY <1>2, <1>3, <1>4, <1>5, <1>6, <1>7, StepIs

\* The state of the run is what its handlers expect of it, and what they leave.
THEOREM TypeCorrect == Spec => []Typed
<1>1. Init => Typed
  BY InitIs
<1> QED BY <1>1, TypedStep, PTL DEF Spec

-----------------------------------------------------------------------------
(* The blocks *)

NoIdless(b) == \A i \in Indexes : ~ Idless(b, i)

\* While the run streams, a block that is not open has not begun; once it does not, nothing
\* waits in the splitter for a block that has ended.
BlocksInv ==
    /\ Sound(log, builder.open, builder.stepIndex)
    /\ Fresh(log, builder.open, builder.stepIndex) \/ builder.think.pending = <<>>
    /\ pc = "streaming" /\ ~ builder.finished => Fresh(log, builder.open, builder.stepIndex)
    /\ pc # "done" \/ NoIdless(builder) => Closing(log)

\* The blocks at the beginning.
LEMMA BlocksInit == Init => BlocksInv
<1> SUFFICES ASSUME Init PROVE BlocksInv
  OBVIOUS
<1>1. log = <<>> /\ Len(log) = 0 /\ \A i \in 1..Len(log) : FALSE
  BY InitIs
<1>2. \A kind \in Kinds : ~ builder.open[kind]
  BY InitIs
<1>3. Sound(log, builder.open, builder.stepIndex)
  BY <1>1, <1>2 DEF Sound
<1>4. Fresh(log, builder.open, builder.stepIndex)
  BY <1>1 DEF Fresh
<1>5. Closing(log)
  BY <1>1 DEF Closing
<1> QED BY <1>3, <1>4, <1>5 DEF BlocksInv

\* What a handler leaves, as the state has it.
LEMMA SteadyState ==
  ASSUME NEW v, builder' = v.b, log' = v.log, Steady(v),
         pc' = "streaming" /\ ~ v.b.finished => Unbegun(v)
  PROVE  BlocksInv'
<1>1. Sound(log', builder'.open, builder'.stepIndex) /\ Closing(log')
  BY DEF Steady, Solid
<1>2. Fresh(log', builder'.open, builder'.stepIndex) \/ builder'.think.pending = <<>>
  BY DEF Steady, Unbegun
<1>3. pc' = "streaming" /\ ~ builder'.finished => Fresh(log', builder'.open, builder'.stepIndex)
  BY DEF Unbegun
<1> QED BY <1>1, <1>2, <1>3 DEF BlocksInv

\* Each step keeps the blocks.
LEMMA BlocksStep == Typed /\ BlocksInv /\ [Next]_vars => BlocksInv'
<1> SUFFICES ASSUME Typed, BlocksInv, [Next]_vars PROVE BlocksInv'
  OBVIOUS
<1>1. ASSUME NEW w, w.b = builder, w.log = log, pc # "done"
      PROVE  Steady(w) /\ (pc = "streaming" /\ ~ builder.finished => Solid(w) /\ Unbegun(w))
  BY <1>1 DEF BlocksInv, Steady, Solid, Unbegun
<1>2. ASSUME NEW m \in Messages, NEW w, NEW v, Streamed(m, w, v) PROVE BlocksInv'
  <2>1. Solid(w) /\ Unbegun(w)
    BY <1>1, <1>2 DEF Streamed
  <2>2. WroteMessage(w, m, v) /\ builder' = v.b /\ log' = v.log /\ w.b.finished = FALSE
    BY <1>2 DEF Streamed, Typed, Builders
  <2>3. CASE Failed(v)
    <3>1. Steady(v) /\ pc' # "streaming"
      BY <1>2, <2>1, <2>2, <2>3 DEF WroteMessage, Streamed
    <3> QED BY <2>2, <3>1, SteadyState
  <2>4. CASE ~ Failed(v) /\ m.finish = ""
    <3>1. Solid(v) /\ Unbegun(v)
      BY <2>1, <2>2, <2>4 DEF WroteMessage
    <3>2. Steady(v)
      BY <3>1 DEF Steady
    <3> QED BY <2>2, <3>1, <3>2, SteadyState
  <2>5. CASE ~ Failed(v) /\ m.finish # ""
    <3>1. Steady(v) /\ (m.finish = "tool_calls" => Unbegun(v)) /\ (v.b.finished <=> (m.finish # "tool_calls" \/ w.b.finished))
      BY <2>1, <2>2, <2>5 DEF WroteMessage
    <3>2. ~ v.b.finished => Unbegun(v)
      BY <3>1
    <3> QED BY <2>2, <3>1, <3>2, SteadyState
  <2> QED BY <2>3, <2>4, <2>5
<1>3. ASSUME NEW u \in Nat, LateUsage(u) PROVE BlocksInv'
  <2>1. /\ log' = log /\ pc' = pc /\ builder'.open = builder.open /\ builder'.stepIndex = builder.stepIndex
        /\ builder'.think = builder.think /\ builder'.toolCalls = builder.toolCalls /\ builder'.finished = builder.finished
    BY <1>3, LateBuilder
  <2>2. NoIdless(builder') <=> NoIdless(builder)
    BY <2>1 DEF NoIdless, Idless
  <2> QED BY <2>1, <2>2 DEF BlocksInv
<1>4. ASSUME NEW w, NEW v, Rested(w, v) PROVE BlocksInv'
  <2>1. Steady(w) /\ WroteFinish(w, "stop", v) /\ builder' = v.b /\ log' = v.log /\ pc' # "streaming"
    BY <1>1, <1>4 DEF Rested
  <2>2. Steady(v)
    BY <2>1 DEF WroteFinish
  <2> QED BY <2>1, <2>2, SteadyState
<1>5. ASSUME NEW w, NEW v, NEW reason, Ended(w, reason, v) PROVE BlocksInv'
  <2>1. Steady(w) /\ Stopped(w, reason, v) /\ builder' = v.b /\ log' = v.log /\ pc' = "done"
    BY <1>1, <1>5 DEF Ended
  <2>2. /\ Sound(v.log, v.b.open, v.b.stepIndex)
        /\ Unbegun(v) \/ v.b.think.pending = <<>>
        /\ Complete(v) => Closing(v.log)
    BY <2>1 DEF Stopped
  <2>3. NoIdless(builder') <=> Complete(v)
    BY <2>1 DEF NoIdless, Complete
  <2> QED BY <2>1, <2>2, <2>3 DEF BlocksInv, Unbegun
<1>6. ASSUME Halted PROVE BlocksInv'
  BY <1>6 DEF Halted, BlocksInv, NoIdless
<1>7. ASSUME UNCHANGED vars PROVE BlocksInv'
  BY <1>7 DEF vars, BlocksInv, NoIdless
<1> QED BY <1>2, <1>3, <1>4, <1>5, <1>6, <1>7, StepIs

\* Whatever messages come and whichever appends fail, the blocks of the stream are well
\* formed, every finish finds them closed, and the builder knows which are open.
THEOREM BlocksInvariant == Spec => []BlocksInv
<1> QED BY BlocksInit, BlocksStep, TypeCorrect, PTL DEF Spec

\* Each block of a run starts once and before its first delta, and nothing follows its end:
\* EndBlock keeps a block open whose end could not be appended, and no step goes back to the
\* blocks of another.
THEOREM BlocksAreWellFormed == Spec => []BlocksWellFormed
<1>1. Typed /\ BlocksInv => BlocksWellFormed
  <2> SUFFICES ASSUME Typed, BlocksInv, NEW i \in 1..Len(log), IsBlock(log[i])
               PROVE  LET before == {j \in 1..(i - 1) : IsBlock(log[j]) /\ log[j].block = log[i].block} IN
                      /\ log[i].type = "start" <=> before = {}
                      /\ \A j \in before : log[j].type # "end"
    BY DEF BlocksWellFormed
  <2> DEFINE before == {j \in 1..(i - 1) : IsBlock(log[j]) /\ log[j].block = log[i].block}
  <2>1. Len(log) \in Nat /\ i \in Nat
    BY DEF Typed
  <2>2. \A j \in before : j \in 1..Len(log) /\ j < i
    BY <2>1
  <2>3. \A j \in 1..Len(log) : j < i => j \in 1..(i - 1)
    BY <2>1
  <2>4. \A j \in before : log[i].type # "start" /\ log[j].type # "end"
    BY <2>2 DEF BlocksInv, Sound
  <2>5. log[i].type # "start" => before # {}
    BY <2>3 DEF BlocksInv, Sound
  <2> QED BY <2>4, <2>5
<1> QED BY <1>1, TypeCorrect, BlocksInvariant, PTL

\* No finish of a step or of the run leaves a block open, however the run ends and whichever
\* appends fail on the way; only a tool call without an id keeps closeOpenBlocks from it.
THEOREM FinishesCloseBlocks == Spec => []FinishClosesBlocks
<1>1. BlocksInv => FinishClosesBlocks
  <2> SUFFICES ASSUME BlocksInv, \A i \in Indexes : builder.toolCalls[i].id = "" => builder.toolCalls[i].pending = <<>>
               PROVE  Closing(log)
    BY DEF FinishClosesBlocks, Closing
  <2>1. NoIdless(builder)
    BY DEF NoIdless, Idless
  <2> QED BY <2>1 DEF BlocksInv
<1> QED BY <1>1, BlocksInvariant, PTL

-----------------------------------------------------------------------------
(* The usage *)

Latest == spent[Len(spent)]

\* What the builder has added up is what the calls before this one reported, and what it
\* has of this call is what the call reported last; both may only be less once a report
\* came late.
UsageInv ==
    /\ builder.usage + builder.stepUsage <= Total(spent)
    /\ pc = "streaming" /\ ~ builder.finished => builder.usage + Latest <= Total(spent)
    /\ pc = "streaming" /\ ~ builder.finished /\ ~ late =>
         builder.usage + Latest = Total(spent) /\ builder.stepUsage = Latest
    /\ \A f \in 1..Len(log) : IsTerminal(log[f]) /\ pc = "streaming" => builder.finished
    /\ UsageCountedOnce

\* What UsageCountedOnce says of one event.
Tallied(total, same, e) ==
    /\ IsTerminal(e) => e.usage <= total
    /\ Completes(e) /\ same => e.usage = total

\* It says so of all.
LEMMA Tally ==
  UsageCountedOnce <=> \A f \in 1..Len(log) : Tallied(Total(spent), ~ late, log[f])
BY DEF UsageCountedOnce, Tallied

\* The fields of a finish.
LEMMA FinishFields ==
  ASSUME NEW reason, NEW usage, NEW output
  PROVE  LET e == FinishEvent(reason, usage, output) IN
         e.usage = usage /\ e.output = output /\ e.reason = reason /\ e.type = "finish"
BY DEF FinishEvent

\* The usages are numbers.
LEMMA Numbers ==
  ASSUME Typed
  PROVE  /\ builder.usage \in Nat /\ builder.stepUsage \in Nat /\ Latest \in Nat /\ Total(spent) \in Nat
         /\ \A f \in 1..Len(log) : IsTerminal(log[f]) => log[f].usage \in Nat
<1>1. builder.usage \in Nat /\ builder.stepUsage \in Nat
  BY DEF Typed, Builders
<1>2. Latest \in Nat
  BY DEF Typed, Latest
<1>3. Total(spent) \in Nat
  BY TotalMore DEF Typed
<1>4. ASSUME NEW f \in 1..Len(log), IsTerminal(log[f]) PROVE log[f].usage \in Nat
  <2>1. log[f] \in Events
    BY DEF Typed
  <2>2. log[f] \in Finishes
    BY <1>4, <2>1 DEF Events, Parted, IsTerminal
  <2> QED BY <2>2 DEF Finishes
<1> QED BY <1>1, <1>2, <1>3, <1>4

\* The usage at the beginning.
LEMMA UsageInit == Init => UsageInv
<1> SUFFICES ASSUME Init PROVE UsageInv
  OBVIOUS
<1>1. /\ builder.usage = 0 /\ builder.stepUsage = 0 /\ spent = <<0>> /\ log = <<>>
  BY InitIs
<1>2. spent \in Seq(Nat) /\ Len(spent) = 1 /\ spent[1] = 0
  BY <1>1
<1>3. Total(spent) = 0
  <2> DEFINE t == Totalling(spent)
  <2>1. t[0] = 0 /\ \A k \in 1..Len(spent) : t[k] = t[k - 1] + spent[k]
    BY <1>2, TotallingIs
  <2>2. Total(spent) = t[Len(spent)]
    BY DEF Total
  <2> HIDE DEF t
  <2>3. t[1] = t[0] + spent[1]
    <3>1. 1 \in 1..Len(spent) /\ 1 - 1 = 0
      BY <1>2
    <3> QED BY <2>1, <3>1
  <2> QED BY <1>2, <2>1, <2>2, <2>3
<1>4. Latest = 0
  BY <1>2 DEF Latest
<1>5. \A f \in 1..Len(log) : FALSE
  BY <1>1
<1>6. UsageCountedOnce
  BY <1>5 DEF UsageCountedOnce
<1>7. builder.usage + builder.stepUsage = 0 /\ builder.usage + Latest = 0
  BY <1>1, <1>4
<1> QED BY <1>1, <1>3, <1>4, <1>5, <1>6, <1>7 DEF UsageInv

\* The old events are still right when the total grows, and not at all late events when it
\* stays.
LEMMA OldTally ==
  ASSUME Typed, UsageInv, NEW total \in Nat, NEW same \in BOOLEAN, total >= Total(spent),
         same => ~ late, NEW f \in 1..Len(log),
         total = Total(spent) \/ ~ same \/ (pc = "streaming" /\ ~ builder.finished)
  PROVE  Tallied(total, same, log[f])
<1>1. Tallied(Total(spent), ~ late, log[f])
  BY Tally DEF UsageInv
<1>2. Total(spent) \in Nat /\ (IsTerminal(log[f]) => log[f].usage \in Nat)
  BY Numbers
<1>3. pc = "streaming" /\ ~ builder.finished => ~ IsTerminal(log[f])
  BY DEF UsageInv
<1>4. IsTerminal(log[f]) => log[f].usage <= total
  BY <1>1, <1>2 DEF Tallied
<1>5. Completes(log[f]) => IsTerminal(log[f])
  BY DEF Completes
<1>6. Completes(log[f]) /\ same => log[f].usage = total
  BY <1>1, <1>3, <1>5 DEF Tallied
<1> QED BY <1>4, <1>6 DEF Tallied

\* Other events say nothing of usage.
LEMMA PartTally ==
  ASSUME Typed, UsageInv, NEW total \in Nat, NEW same \in BOOLEAN, total >= Total(spent),
         same => ~ late,
         total = Total(spent) \/ ~ same \/ (pc = "streaming" /\ ~ builder.finished),
         NEW q \in Seq(Events), Adds(log, q)
  PROVE  \A f \in 1..Len(q) : Tallied(total, same, q[f])
<1> SUFFICES ASSUME NEW f \in 1..Len(q) PROVE Tallied(total, same, q[f])
  OBVIOUS
<1>1. CASE IsTerminal(q[f])
  <2>1. f \in 1..Len(log) /\ q[f] = log[f]
    BY <1>1, AddsTerminals DEF Typed
  <2> QED BY <2>1, OldTally
<1>2. CASE ~ IsTerminal(q[f])
  BY <1>2 DEF Tallied, Completes
<1> QED BY <1>1, <1>2

\* A finish with a usage that fits.
LEMMA EndTally ==
  ASSUME Typed, UsageInv, NEW total \in Nat, NEW same \in BOOLEAN, total >= Total(spent),
         same => ~ late,
         total = Total(spent) \/ ~ same \/ (pc = "streaming" /\ ~ builder.finished),
         NEW q \in Seq(Events), NEW e, Ends(log, q, e), Tallied(total, same, e)
  PROVE  \A f \in 1..Len(q) : Tallied(total, same, q[f])
<1> SUFFICES ASSUME NEW f \in 1..Len(q) PROVE Tallied(total, same, q[f])
  OBVIOUS
<1>1. CASE IsTerminal(q[f])
  <2>1. (f \in 1..Len(log) /\ q[f] = log[f]) \/ q[f] = e
    BY <1>1, EndsTerminals DEF Typed
  <2> QED BY <2>1, OldTally
<1>2. CASE ~ IsTerminal(q[f])
  BY <1>2 DEF Tallied, Completes
<1> QED BY <1>1, <1>2

\* A run that has not finished is without a terminal event.
LEMMA NoneAdded ==
  ASSUME Typed, UsageInv, pc = "streaming", ~ builder.finished, NEW q \in Seq(Events), Adds(log, q)
  PROVE  \A f \in 1..Len(q) : ~ IsTerminal(q[f])
BY AddsTerminals DEF Typed, UsageInv

\* A message keeps the count of the usage.
LEMMA UsageStepMessage ==
  ASSUME Typed, Typed', UsageInv, NEW m \in Messages, NEW w, NEW v, Streamed(m, w, v)
  PROVE  UsageInv'
<1> DEFINE us == builder.usage
           su == builder.stepUsage
           c == Counted(w, m)
           r == Reported(m)
           t == Total(spent)
           u == Total(spent')
<1>1. /\ pc = "streaming" /\ ~ builder.finished /\ Plausible(m) /\ Spend(m)
      /\ w.b = builder /\ w.log = log /\ WroteMessage(w, m, v) /\ builder' = v.b /\ log' = v.log
      /\ late' = late
  BY DEF Streamed
<1>2. us \in Nat /\ su \in Nat /\ Latest \in Nat /\ t \in Nat /\ m.usage \in Nat
  BY Numbers, MessageType
<1>3. /\ r \in Nat /\ u \in Nat /\ u + Latest = t + r
      /\ Latest' = IF m.finish = "tool_calls" THEN 0 ELSE r
  BY <1>1, SpendIs DEF Latest
<1>4. /\ m.usage = 0 => c = su /\ r = Latest
      /\ m.usage # 0 => c = m.usage /\ r = m.usage /\ m.usage >= Latest
  BY <1>1 DEF Counted, Reported, Plausible, Latest
<1>5. us + su <= t /\ us + Latest <= t /\ (~ late => us + Latest = t /\ su = Latest)
  BY <1>1 DEF UsageInv
<1>6. w.b.usage = us /\ Tokens(w.b) = us + su
  BY <1>1 DEF Tokens
<1>7. log' \in Seq(Events) /\ v.log \in Seq(Events)
  BY <1>1 DEF Typed
<1>8. (~ late) \in BOOLEAN
  BY DEF Typed
<1> HIDE DEF us, su, c, r, t, u
<1>9. c \in Nat /\ u >= t /\ us + c <= u /\ us + su <= u /\ us + r <= u
  BY <1>2, <1>3, <1>4, <1>5
<1>10. ~ late => us + c = u /\ us + r = u /\ c = r
  BY <1>2, <1>3, <1>4, <1>5
<1>11. CASE Failed(v)
  <2>1. /\ Adds(log, log') /\ pc' # "streaming"
        /\ Tokens(v.b) = us + su \/ Tokens(v.b) = us + c
    BY <1>1, <1>6, <1>11 DEF WroteMessage, Streamed, c
  <2>2. builder'.usage + builder'.stepUsage <= u
    BY <1>1, <1>9, <2>1 DEF Tokens
  <2>3. \A f \in 1..Len(log') : Tallied(u, ~ late, log'[f])
    BY <1>1, <1>3, <1>7, <1>8, <1>9, <2>1, PartTally DEF t
  <2>4. UsageCountedOnce'
    BY <1>1, <2>3, Tally DEF u, UsageCountedOnce, Tallied
  <2> QED BY <2>1, <2>2, <2>4 DEF UsageInv, u
<1>12. CASE ~ Failed(v) /\ m.finish = ""
  <2>1. Adds(log, log') /\ builder'.usage = us /\ builder'.stepUsage = c
    BY <1>1, <1>6, <1>12 DEF WroteMessage, c
  <2>2. \A f \in 1..Len(log') : Tallied(u, ~ late, log'[f])
    BY <1>1, <1>3, <1>7, <1>8, <1>9, <2>1, PartTally DEF t
  <2>3. UsageCountedOnce'
    BY <1>1, <2>2 DEF u, UsageCountedOnce, Tallied
  <2>4. Latest' = r
    BY <1>3, <1>12
  <2>5. \A f \in 1..Len(log') : ~ IsTerminal(log'[f])
    BY <1>1, <1>7, <2>1, NoneAdded
  <2> QED BY <1>1, <1>9, <1>10, <2>1, <2>3, <2>4, <2>5 DEF UsageInv, u
<1>13. CASE ~ Failed(v) /\ m.finish # ""
  <2>1. PICK output \in Seq(Outputs) : Ends(log, log', FinishEvent(m.finish, us + c, output))
    BY <1>1, <1>6, <1>13 DEF WroteMessage, c
  <2>2. /\ builder'.usage = us + c /\ builder'.stepUsage = 0
        /\ builder'.finished <=> m.finish # "tool_calls"
    BY <1>1, <1>6, <1>13 DEF WroteMessage, c
  <2> DEFINE e == FinishEvent(m.finish, us + c, output)
  <2>3. e.usage = us + c /\ e.reason = m.finish
    BY FinishFields
  <2> HIDE DEF e
  <2>4. Tallied(u, ~ late, e)
    BY <1>9, <1>10, <2>3 DEF Tallied
  <2>5. \A f \in 1..Len(log') : Tallied(u, ~ late, log'[f])
    BY <1>1, <1>3, <1>7, <1>8, <1>9, <2>1, <2>4, EndTally DEF t, e
  <2>6. UsageCountedOnce'
    BY <1>1, <2>5 DEF u, UsageCountedOnce, Tallied
  <2>7. ASSUME NEW f \in 1..Len(log'), IsTerminal(log'[f]) PROVE m.finish # "tool_calls"
    <3>1. (f \in 1..Len(log) /\ log'[f] = log[f]) \/ log'[f] = e
      BY <1>7, <2>1, <2>7, EndsTerminals DEF Typed, e
    <3>2. CASE f \in 1..Len(log) /\ log'[f] = log[f]
      BY <1>1, <2>7, <3>2 DEF UsageInv
    <3>3. CASE log'[f] = e
      BY <2>3, <2>7, <3>3 DEF IsTerminal
    <3> QED BY <3>1, <3>2, <3>3
  <2>8. us + c \in Nat /\ us + c + 0 = us + c
    BY <1>2, <1>9
  <2>9. builder'.usage + builder'.stepUsage <= u
    BY <1>9, <2>2, <2>8
  <2>10. ASSUME ~ builder'.finished
         PROVE  /\ builder'.usage + Latest' <= u
                /\ ~ late' => builder'.usage + Latest' = u /\ builder'.stepUsage = Latest'
    <3>1. Latest' = 0
      BY <1>3, <2>2, <2>10
    <3> QED BY <1>1, <1>9, <1>10, <2>2, <2>8, <3>1
  <2>11. \A f \in 1..Len(log') : IsTerminal(log'[f]) /\ pc' = "streaming" => builder'.finished
    BY <2>2, <2>7
  <2> QED BY <2>6, <2>9, <2>10, <2>11 DEF UsageInv, u
<1> QED BY <1>11, <1>12, <1>13

\* So does every step.
LEMMA UsageStep == Typed /\ Typed' /\ UsageInv /\ [Next]_vars => UsageInv'
<1> SUFFICES ASSUME Typed, Typed', UsageInv, [Next]_vars PROVE UsageInv'
  OBVIOUS
<1>1. /\ builder.usage \in Nat /\ builder.stepUsage \in Nat /\ Latest \in Nat /\ Total(spent) \in Nat
      /\ log \in Seq(Events) /\ log' \in Seq(Events) /\ (~ late) \in BOOLEAN
  BY Numbers DEF Typed
<1>2. ASSUME NEW m \in Messages, NEW w, NEW v, Streamed(m, w, v) PROVE UsageInv'
  BY <1>2, UsageStepMessage
<1>3. ASSUME NEW u \in Nat, LateUsage(u) PROVE UsageInv'
  <2> DEFINE t == Total(spent')
  <2>1. t = Total(spent) + u /\ (~ builder.finished => Latest' = Latest)
    BY <1>3, LateIs DEF Latest
  <2>2. /\ builder'.stepUsage = u /\ builder'.usage = builder.usage /\ builder'.finished = builder.finished
        /\ log' = log /\ pc' = pc /\ late' = TRUE
    BY <1>3, LateBuilder
  <2> HIDE DEF t
  <2>3. t \in Nat /\ t >= Total(spent)
    BY <1>1, <2>1
  <2>4. FALSE \in BOOLEAN
    OBVIOUS
  <2>5. \A f \in 1..Len(log) : Tallied(t, FALSE, log[f])
    BY <2>3, <2>4, OldTally
  <2>6. UsageCountedOnce'
    BY <2>2, <2>5 DEF t, UsageCountedOnce, Tallied
  <2>7. builder.usage + builder.stepUsage <= Total(spent) /\ (pc = "streaming" /\ ~ builder.finished => builder.usage + Latest <= Total(spent))
    BY DEF UsageInv
  <2>8. builder.usage + u <= t
    BY <1>1, <2>1, <2>7
  <2>9. pc = "streaming" /\ ~ builder.finished => builder.usage + Latest <= t
    BY <1>1, <2>1, <2>7
  <2>10. \A f \in 1..Len(log) : IsTerminal(log[f]) /\ pc = "streaming" => builder.finished
    BY DEF UsageInv
  <2> QED BY <2>1, <2>2, <2>6, <2>8, <2>9, <2>10 DEF UsageInv, t
<1>4. ASSUME NEW w, NEW v, Rested(w, v) PROVE UsageInv'
  <2>1. /\ pc = "streaming" /\ ~ builder.finished /\ w.b = builder /\ w.log = log
        /\ WroteFinish(w, "stop", v) /\ builder' = v.b /\ log' = v.log /\ pc' # "streaming"
        /\ spent' = spent /\ late' = late
    BY <1>4 DEF Rested
  <2>2. Tokens(w.b) = builder.usage + builder.stepUsage
    BY <2>1 DEF Tokens
  <2>3. builder'.usage + builder'.stepUsage <= Total(spent)
    BY <2>1, <2>2 DEF WroteFinish, Tokens, UsageInv
  <2>4. ~ late => Tokens(w.b) = Total(spent)
    BY <2>1, <2>2 DEF UsageInv
  <2>5. Tokens(w.b) <= Total(spent)
    BY <2>2 DEF UsageInv
  <2>6. Total(spent) >= Total(spent) /\ ((~ late) => ~ late)
    BY <1>1
  <2>7. \A f \in 1..Len(log') : Tallied(Total(spent), ~ late, log'[f])
    <3>1. CASE Failed(v)
      <4>1. Adds(log, log')
        BY <2>1, <3>1 DEF WroteFinish
      <4> QED BY <1>1, <2>6, <4>1, PartTally
    <3>2. CASE ~ Failed(v)
      <4>1. PICK output \in Seq(Outputs) : Ends(log, log', FinishEvent("stop", Tokens(w.b), output))
        BY <2>1, <3>2 DEF WroteFinish
      <4> DEFINE e == FinishEvent("stop", Tokens(w.b), output)
      <4>2. e.usage = Tokens(w.b)
        BY FinishFields
      <4> HIDE DEF e
      <4>3. Tallied(Total(spent), ~ late, e)
        BY <2>4, <2>5, <4>2 DEF Tallied
      <4> QED BY <1>1, <2>6, <4>1, <4>3, EndTally DEF e
    <3> QED BY <3>1, <3>2
  <2>8. UsageCountedOnce'
    BY <2>1, <2>7 DEF UsageCountedOnce, Tallied
  <2> QED BY <2>1, <2>3, <2>8 DEF UsageInv
<1>5. ASSUME NEW w, NEW v, NEW reason \in {"cancelled", "error"}, Ended(w, reason, v) PROVE UsageInv'
  <2>1. /\ w.b = builder /\ w.log = log /\ Stopped(w, reason, v) /\ builder' = v.b /\ log' = v.log
        /\ pc' # "streaming" /\ spent' = spent /\ late' = late
    BY <1>5 DEF Ended
  <2>2. Tokens(w.b) = builder.usage + builder.stepUsage /\ Tokens(w.b) <= Total(spent)
    BY <2>1 DEF Tokens, UsageInv
  <2>3. builder'.usage + builder'.stepUsage <= Total(spent)
    BY <2>1, <2>2 DEF Stopped, Tokens
  <2>4. Total(spent) >= Total(spent) /\ ((~ late) => ~ late)
    BY <1>1
  <2>5. \A f \in 1..Len(log') : Tallied(Total(spent), ~ late, log'[f])
    <3>1. CASE Adds(log, log')
      BY <1>1, <2>4, <3>1, PartTally
    <3>2. CASE \E output \in Seq(Outputs) : Ends(log, log', FinishEvent(reason, Tokens(w.b), output))
      <4>1. PICK output \in Seq(Outputs) : Ends(log, log', FinishEvent(reason, Tokens(w.b), output))
        BY <3>2
      <4> DEFINE e == FinishEvent(reason, Tokens(w.b), output)
      <4>2. e.usage = Tokens(w.b) /\ e.reason = reason
        BY FinishFields
      <4> HIDE DEF e
      <4>3. Tallied(Total(spent), ~ late, e)
        BY <1>5, <2>2, <4>2 DEF Tallied, Completes
      <4> QED BY <1>1, <2>4, <4>1, <4>3, EndTally DEF e
    <3> QED BY <2>1, <3>1, <3>2 DEF Stopped
  <2>6. UsageCountedOnce'
    BY <2>1, <2>5 DEF UsageCountedOnce, Tallied
  <2> QED BY <2>1, <2>3, <2>6 DEF UsageInv
<1>6. ASSUME Halted PROVE UsageInv'
  BY <1>6 DEF Halted, UsageInv, UsageCountedOnce
<1>7. ASSUME UNCHANGED vars PROVE UsageInv'
  BY <1>7 DEF vars, history, UsageInv, UsageCountedOnce, Latest
<1> QED BY <1>2, <1>3, <1>4, <1>5, <1>6, <1>7, StepIs

\* However a run ends, its usage counts no model call twice, and a completed run counts
\* every call that reported before or with its finish: a step that failed after it was
\* counted is not counted again.
THEOREM UsageIsCountedOnce == Spec => []UsageCountedOnce
<1>1. Spec => []UsageInv
  BY UsageInit, UsageStep, TypeCorrect, PTL DEF Spec
<1>2. UsageInv => UsageCountedOnce
  BY DEF UsageInv
<1> QED BY <1>1, <1>2, PTL

-----------------------------------------------------------------------------
(* The output *)

\* The results of tools are content only.
PlainResults == \A m \in Messages : m.role = "tool" => m.reasoning = <<>> /\ m.calls = <<>>

\* What is handed over by the events of a log.
HandsOver(q, output) == \A f \in 1..Len(q) : IsTerminal(q[f]) => Contents(q[f].output) = output

\* What the builder has committed and what it holds of this step are all that was yielded;
\* only the finish of a run that is cancelled or fails may lack what it holds.
OutputInv ==
    /\ Output(builder) = said
    /\ \A f \in 1..Len(log) : IsTerminal(log[f]) /\ pc = "streaming" => builder.finished
    /\ pc # "done" => HandsOver(log, said)
    /\ OutputComplete

\* The output at the beginning.
LEMMA OutputInit == Init => OutputInv
<1> SUFFICES ASSUME Init PROVE OutputInv
  OBVIOUS
<1>1. Output(builder) = <<>> /\ said = <<>> /\ log = <<>>
  BY InitIs
<1>2. \A f \in 1..Len(log) : FALSE
  BY <1>1
<1> QED BY <1>1, <1>2 DEF OutputInv, OutputComplete, HandsOver

\* Other events hand over nothing.
LEMMA PartsHandOver ==
  ASSUME NEW p \in Seq(Events), NEW q \in Seq(Events), Adds(p, q), NEW output, HandsOver(p, output)
  PROVE  HandsOver(q, output)
<1>1. ASSUME NEW f \in 1..Len(q), IsTerminal(q[f]) PROVE Contents(q[f].output) = output
  <2>1. f \in 1..Len(p) /\ q[f] = p[f]
    BY <1>1, AddsTerminals
  <2> QED BY <1>1, <2>1 DEF HandsOver
<1> QED BY <1>1 DEF HandsOver

\* A finish that hands over what was said.
LEMMA EndHandsOver ==
  ASSUME NEW p \in Seq(Events), NEW q \in Seq(Events), NEW e, Ends(p, q, e), NEW output,
         HandsOver(p, output), IsTerminal(e) => Contents(e.output) = output
  PROVE  HandsOver(q, output)
<1>1. ASSUME NEW f \in 1..Len(q), IsTerminal(q[f]) PROVE Contents(q[f].output) = output
  <2>1. (f \in 1..Len(p) /\ q[f] = p[f]) \/ q[f] = e
    BY <1>1, EndsTerminals
  <2> QED BY <1>1, <2>1 DEF HandsOver
<1> QED BY <1>1 DEF HandsOver

\* A message keeps the output complete.
LEMMA OutputStepMessage ==
  ASSUME Unfinished = FALSE, PlainResults, Typed, Typed', OutputInv,
         NEW m \in Messages, NEW w, NEW v, Streamed(m, w, v)
  PROVE  OutputInv'
<1>1. /\ pc = "streaming" /\ ~ builder.finished /\ Plausible(m)
      /\ w.b = builder /\ w.log = log /\ WroteMessage(w, m, v) /\ builder' = v.b /\ log' = v.log
      /\ said' = said \o m.content
      /\ Failed(v) => pc' # "streaming"
  BY DEF Streamed
<1>2. Orderly(w, m)
  <2>1. m.role = "tool" => builder.assistantChunks = <<>>
    BY <1>1 DEF Plausible
  <2> QED BY <1>1, <2>1 DEF Orderly, PlainResults
<1>3. said' = Glue(said, m.content)
  BY <1>1 DEF Glue
<1>4. Output(builder') = said'
  BY <1>1, <1>2, <1>3 DEF WroteMessage, OutputInv
<1>5. log \in Seq(Events) /\ log' \in Seq(Events)
  BY DEF Typed
<1>6. \A f \in 1..Len(log) : ~ IsTerminal(log[f])
  BY <1>1 DEF OutputInv
<1>7. HandsOver(log, said')
  BY <1>6 DEF HandsOver
<1>8. CASE Failed(v) \/ m.finish = ""
  <2>1. Adds(log, log')
    BY <1>1, <1>8 DEF WroteMessage
  <2>2. HandsOver(log', said')
    BY <1>5, <1>7, <2>1, PartsHandOver
  <2>3. \A f \in 1..Len(log') : ~ IsTerminal(log'[f])
    BY <1>5, <1>6, <2>1, AddsTerminals
  <2> QED BY <1>4, <2>2, <2>3 DEF OutputInv, OutputComplete, HandsOver
<1>9. CASE ~ Failed(v) /\ m.finish # ""
  <2>1. PICK output \in Seq(Outputs) :
          /\ Ends(log, log', FinishEvent(m.finish, w.b.usage + Counted(w, m), output))
          /\ m.finish # "tool_calls" => Contents(output) = said'
    BY <1>1, <1>2, <1>3, <1>9 DEF WroteMessage, OutputInv
  <2> DEFINE e == FinishEvent(m.finish, w.b.usage + Counted(w, m), output)
  <2>2. e.output = output /\ e.reason = m.finish
    BY FinishFields
  <2> HIDE DEF e
  <2>3. IsTerminal(e) => Contents(e.output) = said'
    BY <2>1, <2>2 DEF IsTerminal
  <2>4. HandsOver(log', said')
    BY <1>5, <1>7, <2>1, <2>3, EndHandsOver DEF e
  <2>5. builder'.finished <=> m.finish # "tool_calls"
    BY <1>1, <1>9 DEF WroteMessage
  <2>6. ASSUME NEW f \in 1..Len(log'), IsTerminal(log'[f]) PROVE builder'.finished
    <3>1. (f \in 1..Len(log) /\ log'[f] = log[f]) \/ log'[f] = e
      BY <1>5, <2>1, <2>6, EndsTerminals DEF e
    <3>2. log'[f] = e
      BY <1>6, <2>6, <3>1
    <3> QED BY <2>2, <2>5, <2>6, <3>2 DEF IsTerminal
  <2> QED BY <1>4, <2>4, <2>6 DEF OutputInv, OutputComplete, HandsOver
<1> QED BY <1>8, <1>9

\* So does every step.
LEMMA OutputStep ==
  ASSUME Unfinished = FALSE, PlainResults
  PROVE  Typed /\ Typed' /\ OutputInv /\ [Next]_vars => OutputInv'
<1> SUFFICES ASSUME Typed, Typed', OutputInv, [Next]_vars PROVE OutputInv'
  OBVIOUS
<1>1. log \in Seq(Events) /\ log' \in Seq(Events)
  BY DEF Typed
<1>2. (pc # "done" => HandsOver(log, said)) /\ Output(builder) = said
  BY DEF OutputInv
<1>3. ASSUME HandsOver(log', said'), Output(builder') = said', pc' # "streaming" PROVE OutputInv'
  BY <1>3 DEF OutputInv, OutputComplete, HandsOver
<1>4. ASSUME NEW m \in Messages, NEW w, NEW v, Streamed(m, w, v) PROVE OutputInv'
  BY <1>4, OutputStepMessage
<1>5. ASSUME NEW u \in Nat, LateUsage(u) PROVE OutputInv'
  <2>1. /\ log' = log /\ pc' = pc /\ pc = "streaming" /\ said' = said
        /\ Output(builder') = Output(builder) /\ builder'.finished = builder.finished
    BY <1>5, LateBuilder
  <2>2. HandsOver(log', said') /\ Output(builder') = said'
    BY <1>2, <2>1
  <2> QED BY <2>1, <2>2 DEF OutputInv, OutputComplete, HandsOver
<1>6. ASSUME NEW w, NEW v, Rested(w, v) PROVE OutputInv'
  <2>1. /\ w.b = builder /\ w.log = log /\ WroteFinish(w, "stop", v) /\ builder' = v.b /\ log' = v.log
        /\ pc = "streaming" /\ pc' # "streaming" /\ said' = said
    BY <1>6 DEF Rested
  <2>2. Output(builder') = said'
    BY <1>2, <2>1 DEF WroteFinish
  <2>3. HandsOver(log, said)
    BY <1>2, <2>1
  <2>4. CASE Failed(v)
    <3>1. Adds(log, log')
      BY <2>1, <2>4 DEF WroteFinish
    <3> QED BY <1>1, <1>3, <2>1, <2>2, <2>3, <3>1, PartsHandOver
  <2>5. CASE ~ Failed(v)
    <3>1. PICK output \in Seq(Outputs) :
            /\ Ends(log, log', FinishEvent("stop", Tokens(w.b), output))
            /\ Contents(output) = said
      BY <1>2, <2>1, <2>5 DEF WroteFinish
    <3> DEFINE e == FinishEvent("stop", Tokens(w.b), output)
    <3>2. e.output = output
      BY FinishFields
    <3> HIDE DEF e
    <3>3. HandsOver(log', said)
      BY <1>1, <2>3, <3>1, <3>2, EndHandsOver DEF e
    <3> QED BY <1>3, <2>1, <2>2, <3>3
  <2> QED BY <2>4, <2>5
<1>7. ASSUME NEW w, NEW v, NEW reason, reason = "cancelled" \/ reason = "error", Ended(w, reason, v)
      PROVE  OutputInv'
  <2>1. /\ w.b = builder /\ w.log = log /\ Stopped(w, reason, v) /\ builder' = v.b /\ log' = v.log
        /\ pc # "done" /\ pc' = "done" /\ said' = said
    BY <1>7 DEF Ended
  <2>2. Output(builder') = said'
    BY <1>2, <2>1 DEF Stopped
  <2>3. CASE Adds(log, log')
    BY <1>1, <1>2, <1>3, <2>1, <2>2, <2>3, PartsHandOver
  <2>4. CASE \E output \in Seq(Outputs) :
               /\ Ends(log, log', FinishEvent(reason, Tokens(w.b), output))
               /\ Lasting(output, v.b)
    <3>1. PICK output \in Seq(Outputs) :
            /\ Ends(log, log', FinishEvent(reason, Tokens(w.b), output))
            /\ Lasting(output, builder')
      BY <2>1, <2>4
    <3> DEFINE e == FinishEvent(reason, Tokens(w.b), output)
               Handed(q) == \/ Contents(q) = said'
                          \/ /\ ~ Concatenates(builder'.assistantChunks)
                             /\ Contents(q) \o Contents(builder'.assistantChunks) = said'
    <3>2. e.output = output /\ e.reason = reason
      BY FinishFields
    <3> HIDE DEF e
    <3>3. Handed(output)
      BY <2>2, <3>1 DEF Lasting, Glue
    <3> HIDE DEF Handed
    <3>4. ASSUME NEW f \in 1..Len(log'), IsTerminal(log'[f])
          PROVE  Contents(log'[f].output) = said' \/ (~ Completes(log'[f]) /\ Handed(log'[f].output))
      <4>1. (f \in 1..Len(log) /\ log'[f] = log[f]) \/ log'[f] = e
        BY <1>1, <3>1, <3>4, EndsTerminals DEF e
      <4>2. CASE f \in 1..Len(log) /\ log'[f] = log[f]
        BY <1>2, <2>1, <3>4, <4>2 DEF HandsOver
      <4>3. CASE log'[f] = e
        <5>1. ~ Completes(e)
          BY <1>7, <3>2 DEF Completes
        <5> QED BY <3>2, <3>3, <4>3, <5>1
      <4> QED BY <4>1, <4>2, <4>3
    <3>5. OutputComplete'
      BY <3>4 DEF OutputComplete, Handed
    <3> QED BY <2>1, <2>2, <3>5 DEF OutputInv
  <2> QED BY <2>1, <2>3, <2>4 DEF Stopped
<1>8. ASSUME Halted PROVE OutputInv'
  <2>1. log' = log /\ builder' = builder /\ said' = said /\ pc = "streaming" /\ pc' # "streaming"
    BY <1>8 DEF Halted
  <2> QED BY <1>2, <1>3, <2>1
<1>9. ASSUME UNCHANGED vars PROVE OutputInv'
  BY <1>9 DEF vars, history, OutputInv, OutputComplete, HandsOver
<1> QED BY <1>4, <1>5, <1>6, <1>7, <1>8, <1>9, StepIs

\* A run that completes hands over all that models and tools yielded, once and in its
\* order; one that is cancelled or fails does too, also the message whose events could not
\* be appended, but may lack its last step if the chunks of that step contradict each other.
\* Models finish a step before its tools answer: a result would otherwise come before what
\* is not committed yet.
THEOREM OutputIsComplete ==
  ASSUME Unfinished = FALSE, PlainResults PROVE Spec => []OutputComplete
<1>1. Typed /\ Typed' /\ OutputInv /\ [Next]_vars => OutputInv'
  BY OutputStep
<1>2. Spec => []OutputInv
  BY <1>1, OutputInit, TypeCorrect, PTL DEF Spec
<1>3. OutputInv => OutputComplete
  BY DEF OutputInv
<1> QED BY <1>2, <1>3, PTL
=============================================================================
