--------------------------- MODULE MCConversation ---------------------------
(* Instance of Conversation for TLC.  Tool ids are used again in every run. *)
EXTENDS Conversation

Step(speaks, calls, answered) == [speaks |-> speaks, calls |-> calls, answered |-> answered]

Answer   == Step(TRUE, <<>>, <<>>)
Parallel == Step(TRUE, <<"c1", "c2">>, <<"c2", "c1">>)
Silent   == Step(FALSE, <<"c3">>, <<"c3">>)
Cut      == Step(TRUE, <<"c1", "c2">>, <<"c2">>)

\* Parallel calls answered in the other order, then another call, then an answer; an
\* interrupted run; one that ended before the model spoke.  Later runs do less.
MCReplies == <<{<<Parallel, Silent, Answer>>, <<Cut>>, <<>>},
               {<<Parallel, Silent, Answer>>, <<Cut>>},
               {<<Parallel, Silent, Answer>>}>>

\* Tool c1 is called again by a later step of the run.
RepliesReused == <<{<<Parallel, Step(FALSE, <<"c1">>, <<"c1">>), Answer>>}>>

File(form, kind, named) == [form |-> form, kind |-> kind, named |-> named]

MCFiles == <<{File("base64", "image", FALSE), File("url", "file", TRUE)}, {}, {}>>
=============================================================================
