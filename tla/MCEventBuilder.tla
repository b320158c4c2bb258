--------------------------- MODULE MCEventBuilder ---------------------------
(* Instance of EventBuilder for TLC: tags of two symbols, and messages that *)
(* cut tags, tool calls and reports of usage in the places that matter.     *)
EXTENDS EventBuilder

MCOpenTag  == <<"<", "t">>
MCCloseTag == <<"<", "/">>

Say(content)    == [role |-> "assistant", name |-> "", content |-> content,
                    reasoning |-> <<>>, calls |-> <<>>, toolCallID |-> "", usage |-> 0, finish |-> ""]
Call(i, id, args) == [index |-> i, id |-> id, args |-> args]

\* A model that thinks aloud: tags cut in two, an explicit reasoning, a tag never closed,
\* names that contradict each other.
Thoughts == {[Say(<<"a">>) EXCEPT !.name = "n1"], [Say(<<"a", "<">>) EXCEPT !.name = "n2"], Say(<<"t", "b">>), Say(<<"<", "/", "c">>),
             [Say(<<>>) EXCEPT !.reasoning = <<"r">>]}

\* A model that calls tools, in fragments or at once; fragments may lack their id.
ToolUse == {[Say(<<>>) EXCEPT !.calls = <<Call(1, "c1", <<>>)>>],
            [Say(<<>>) EXCEPT !.calls = <<Call(1, "", <<"x">>)>>],
            [Say(<<"a">>) EXCEPT !.calls = <<Call(1, "c1", <<"x">>), Call(2, "c2", <<"y">>)>>,
                           !.finish = "tool_calls"],
            [Say(<<"o">>) EXCEPT !.role = "tool", !.toolCallID = "c1"],
            [Say(<<"o">>) EXCEPT !.role = "tool", !.toolCallID = "c2"]}

Ends == {[Say(<<>>) EXCEPT !.usage = 1],
         [Say(<<>>) EXCEPT !.finish = "tool_calls", !.usage = 2],
         [Say(<<"<">>) EXCEPT !.finish = "stop"]}

MCMessages == Thoughts \cup ToolUse \cup Ends
=============================================================================
