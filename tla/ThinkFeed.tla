------------------------------ MODULE ThinkFeed ------------------------------
(***************************************************************************)
(* A text fed to thinkSplitter chunk by chunk, and what the whole text     *)
(* means: Reference reads it symbol by symbol and knows nothing of chunks. *)
(***************************************************************************)
EXTENDS ThinkSplitter

CONSTANTS MaxChunk,    \* bound on the length of a chunk
          MaxText      \* bound on the length of the text

ASSUME ChunkAssumption == MaxChunk \in Nat

VARIABLES fed,      \* the text so far
          split,    \* the splitter
          parts,    \* the parts it returned
          flushed

vars == <<fed, split, parts, flushed>>

Init == fed = <<>> /\ split = newThinkSplitter /\ parts = <<>> /\ flushed = FALSE

Feed(chunk) ==
    LET d == feed(split, chunk) IN
    /\ ~ flushed
    /\ Len(fed) + Len(chunk) <= MaxText
    /\ fed' = fed \o chunk
    /\ split' = d.split
    /\ parts' = parts \o d.parts
    /\ UNCHANGED flushed

\* The end of a step: the splitter is flushed, then thrown away.
Flush ==
    LET d == flush(split) IN
    /\ ~ flushed
    /\ flushed' = TRUE
    /\ split' = d.split
    /\ parts' = parts \o d.parts
    /\ UNCHANGED fed

Next == Flush \/ \E chunk \in SeqOf(Symbols, MaxChunk) \ {<<>>} : Feed(chunk)

Spec == Init /\ [][Next]_vars

-----------------------------------------------------------------------------

\* Reading symbol i of a text: whether reasoning is going on, how many symbols of a tag are
\* still to be skipped, and the symbols said so far, each with its kind.
ReadSymbol(text, i, at) ==
    IF at.skip > 0 THEN [at EXCEPT !.skip = @ - 1]
    ELSE IF TagAt(text, i, tag(at))
      THEN [inThink |-> ~ at.inThink, skip |-> Len(tag(at)) - 1, said |-> at.said]
    ELSE [at EXCEPT !.said = Append(@, [reasoning |-> at.inThink, symbol |-> text[i]])]

Reading(text) ==
    LET read[i \in 0..Len(text)] ==
          IF i = 0 THEN [inThink |-> FALSE, skip |-> 0, said |-> <<>>]
          ELSE ReadSymbol(text, i, read[i - 1])
    IN read

Reference(text) == Reading(text)[Len(text)].said

\* The symbols of all parts, each with its kind.
Symbolwise(part) ==
    [i \in 1..Len(part.text) |-> [reasoning |-> part.reasoning, symbol |-> part.text[i]]]

Say(said, part) == said \o Symbolwise(part)

Spelling(ps) ==
    LET spelled[n \in 0..Len(ps)] ==
          IF n = 0 THEN <<>> ELSE Say(spelled[n - 1], ps[n])
    IN spelled

Spelled(ps) == Spelling(ps)[Len(ps)]

-----------------------------------------------------------------------------

\* Wherever a provider cuts the content, the parts spell the same text and the same
\* reasoning as the uncut content: no symbol is lost, doubled or put on the wrong
\* side of a tag (drain keeps what may be half a tag for the next chunk).
ChunkingIrrelevant ==
    /\ IsPrefix(Spelled(parts), Reference(fed))
    /\ flushed => Spelled(parts) = Reference(fed)

\* Streaming is not delayed for longer than it has to be: what waits in the splitter is
\* the beginning of the tag that would come next, never a tag or plain content.
OnlyTagsWait ==
    /\ IsPrefix(split.pending, tag(split)) /\ split.pending # tag(split)
    /\ flushed => split.pending = <<>>
=============================================================================
