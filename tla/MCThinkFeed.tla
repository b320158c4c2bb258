----------------------------- MODULE MCThinkFeed -----------------------------
(* Instance of ThinkFeed for TLC.  As in <think> and </think>, the tags     *)
(* share their first symbol and differ in the second.                       *)
EXTENDS ThinkFeed

MCOpenTag  == <<"<", "t", ">">>
MCCloseTag == <<"<", "/", ">">>
=============================================================================
