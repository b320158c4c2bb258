------------------------------ MODULE RunEvents ------------------------------
(***************************************************************************)
(* The events of one run in the order runEventBuilder stores them          *)
(* (runner.go), as the protocol writers read them.  The delta of a text or *)
(* reasoning block stands for the block.  A run is described by            *)
(*   called   ids of the tool calls of the current step                    *)
(*   waiting  ids of the calls of the last step that have no result yet    *)
(*   phase    "created" until run_created is stored, then "model",         *)
(*            "failed" (an error event was stored) or "ended"              *)
(* run_started, which no writer tells from run_created, is left out.       *)
(***************************************************************************)
EXTENDS Naturals, Sequences, FiniteSets

CONSTANTS ToolIDs,
          TextKinds  \* the kinds of blocks that are told apart: "text", "reasoning"

ASSUME RunEventsAssumption == TextKinds \subseteq {"text", "reasoning"}

NewRun == [called |-> {}, waiting |-> {}, phase |-> "created"]

Created        == [type |-> "run_created", id |-> "", reason |-> ""]
Delta(kind)    == [type |-> kind, id |-> "", reason |-> ""]
ToolCall(i)    == [type |-> "tool_call", id |-> i, reason |-> ""]
ToolArgs(i)    == [type |-> "tool_args", id |-> i, reason |-> ""]
ToolResult(i)  == [type |-> "tool_result", id |-> i, reason |-> ""]
Error          == [type |-> "error", id |-> "", reason |-> ""]
Finish(reason) == [type |-> "finish", id |-> "", reason |-> reason]

StepReasons == {"tool_calls", "tool-calls"}

\* A model speaks once all tools it called have answered, but the agent may end before
\* that; a call is announced before its arguments; an error is followed by its finish, and
\* by nothing else.
NextEvents(run) ==
    CASE run.phase = "created" -> {Created}
      [] run.phase = "ended" -> {}
      [] run.phase = "failed" -> {Finish("error")}
      [] OTHER ->
           {Error, Finish("cancelled"), Finish("stop"), Finish("length")}
             \cup {ToolResult(i) : i \in run.waiting}
             \cup (IF run.waiting # {} THEN {}
                   ELSE {Delta(kind) : kind \in TextKinds}
                          \cup {Finish(reason) : reason \in StepReasons}
                          \cup {ToolArgs(i) : i \in run.called}
                          \cup {ToolCall(i) : i \in ToolIDs \ run.called})

After(run, e) ==
    CASE e.type = "run_created" -> [run EXCEPT !.phase = "model"]
      [] e.type = "tool_call" -> [run EXCEPT !.called = @ \cup {e.id}]
      [] e.type = "tool_result" -> [run EXCEPT !.waiting = @ \ {e.id}]
      [] e.type = "error" -> [run EXCEPT !.phase = "failed"]
      [] e.type = "finish" /\ e.reason \in StepReasons ->
           [run EXCEPT !.called = {}, !.waiting = run.called]
      [] e.type = "finish" /\ e.reason \notin StepReasons -> [run EXCEPT !.phase = "ended"]
      [] OTHER -> run
=============================================================================
