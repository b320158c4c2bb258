---------------------------- MODULE ThinkSplitter ----------------------------
(***************************************************************************)
(* thinkSplitter (reasoning.go): the content of a model arrives in chunks  *)
(* cut anywhere, also inside a tag, and is split into text and the         *)
(* reasoning between <think> and </think>.  A string is a sequence of      *)
(* symbols; OpenTag and CloseTag are the two tags.                         *)
(***************************************************************************)
EXTENDS SequencesExt

CONSTANTS Symbols, OpenTag, CloseTag

\* Tags are strings, and not empty.
ASSUME TagAssumption ==
    /\ OpenTag \in Seq(Symbols) \ {<<>>}
    /\ CloseTag \in Seq(Symbols) \ {<<>>}

newThinkSplitter == [inThink |-> FALSE, pending |-> <<>>]

tag(s) == IF s.inThink THEN CloseTag ELSE OpenTag

\* From its symbol i on, text is what tg is, as far as text goes.
Agrees(text, i, tg) ==
    \A j \in 1..Len(tg) : i + j - 1 <= Len(text) => text[i + j - 1] = tg[j]

TagAt(text, i, tg) == i + Len(tg) - 1 <= Len(text) /\ Agrees(text, i, tg)

\* Where tg occurs in text; strings.Index is the first of these places.
Places(text, tg) == {i \in 1..Len(text) : TagAt(text, i, tg)}

\* The length of the longest end of text that a tag could still grow from.
longestTagPrefixSuffix(text, tg) ==
    Max({n \in 0..(Len(tg) - 1) : n <= Len(text) /\ Agrees(text, Len(text) - n + 1, tg)})

\* The first n symbols that are pending, as a part of their kind.
Part(s, n) ==
    IF n = 0 THEN <<>>
    ELSE <<[reasoning |-> s.inThink, text |-> SubSeq(s.pending, 1, n)]>>

Rest(s, n) == [s EXCEPT !.pending = SubSeq(@, n + 1, Len(@))]

\* A round of drain's loop: the text up to the next tag is told, the tag is dropped.
CutTag(d) ==
    LET s == d.split
        places == Places(s.pending, tag(s))
        i == Min(places)
    IN IF places = {} THEN d
       ELSE [split |-> [Rest(s, i - 1 + Len(tag(s))) EXCEPT !.inThink = ~ @],
             parts |-> d.parts \o Part(s, i - 1)]

\* The end of the loop, where no tag is left.
TellRest(d, flush) ==
    LET s == d.split
        n == Len(s.pending) - (IF flush THEN 0
                               ELSE longestTagPrefixSuffix(s.pending, tag(s)))
    IN [split |-> Rest(s, n), parts |-> d.parts \o Part(s, n)]

\* Mutant: nothing is held back.
drainEager(s, flush) == [split |-> Rest(s, Len(s.pending)), parts |-> Part(s, Len(s.pending))]

\* Mutant: what is left after a tag waits for the next chunk.
drainOnce(s, flush) ==
    LET first == [split |-> s, parts |-> <<>>] IN
    IF Places(s.pending, tag(s)) # {} THEN CutTag(first) ELSE TellRest(first, flush)

\* The rounds of the loop; there are no more of them than symbols.
Rounds(s) ==
    LET rounds[k \in 0..Len(s.pending)] ==
          IF k = 0 THEN [split |-> s, parts |-> <<>>] ELSE CutTag(rounds[k - 1])
    IN rounds

\* The parts that can be told, and the splitter with what has to wait.
drain(s, flush) == TellRest(Rounds(s)[Len(s.pending)], flush)

feed(s, chunk) == drain([s EXCEPT !.pending = @ \o chunk], FALSE)
flush(s) == drain(s, TRUE)
=============================================================================
