--------------------------- MODULE ThinkFeedProofs ---------------------------
(***************************************************************************)
(* Proofs about thinkSplitter, for any two tags, any text and any way of   *)
(* cutting it into chunks.                                                 *)
(***************************************************************************)
EXTENDS ThinkFeed, ThinkSplitterProofs

-----------------------------------------------------------------------------
(* Types *)

Said   == [reasoning : BOOLEAN, symbol : Symbols]
At     == [inThink : BOOLEAN, skip : Nat, said : Seq(Said)]

LEMMA ReadSymbolType ==
  ASSUME NEW text \in Seq(Symbols), NEW i \in 1..Len(text), NEW at \in At
  PROVE  ReadSymbol(text, i, at) \in At
<1>1. Len(tag(at)) - 1 \in Nat
  BY TagType
<1>2. text[i] \in Symbols
  OBVIOUS
<1>3. [reasoning |-> at.inThink, symbol |-> text[i]] \in Said
  BY <1>2 DEF At, Said
<1> DEFINE n == Len(tag(at)) - 1
           b == TagAt(text, i, tag(at))
           e == [reasoning |-> at.inThink, symbol |-> text[i]]
<1> HIDE DEF n, b, e
<1>4. Append(at.said, e) \in Seq(Said)
  BY <1>3 DEF At, e
<1>5. [inThink |-> ~ at.inThink, skip |-> n, said |-> at.said] \in At
  BY <1>1 DEF At, n
<1>6. [at EXCEPT !.said = Append(at.said, e)] \in At
  BY <1>4 DEF At
<1>7. at.skip > 0 => [at EXCEPT !.skip = at.skip - 1] \in At
  BY DEF At
<1> QED BY <1>5, <1>6, <1>7 DEF ReadSymbol, n, b, e

LEMMA ReadingIs ==
  ASSUME NEW text \in Seq(Symbols)
  PROVE  /\ Reading(text) \in [0..Len(text) -> At]
         /\ Reading(text)[0] = [inThink |-> FALSE, skip |-> 0, said |-> <<>>]
         /\ \A i \in 1..Len(text) : Reading(text)[i] = ReadSymbol(text, i, Reading(text)[i - 1])
<1> DEFINE n == Len(text)
           a == [inThink |-> FALSE, skip |-> 0, said |-> <<>>]
           g == [i \in 1..n |-> [at \in At |-> ReadSymbol(text, i, at)]]
           Reads(f) == f = [i \in 0..n |-> IF i = 0 THEN a ELSE ReadSymbol(text, i, f[i - 1])]
<1>1. a \in At /\ n \in Nat
  BY DEF At
<1>2. g \in [1..n -> [At -> At]]
  BY ReadSymbolType
<1>3. PICK f \in [0..n -> At] : Step(n, a, g, f)
  <2> HIDE DEF n, a, g
  <2> QED BY <1>1, <1>2, Recursion
<1>4. Reads(f)
  <2>1. ASSUME NEW i \in 1..n PROVE g[i][f[i - 1]] = ReadSymbol(text, i, f[i - 1])
    BY <1>1
  <2>2. f = [i \in 0..n |-> IF i = 0 THEN a ELSE g[i][f[i - 1]]]
    BY <1>3 DEF Step
  <2> HIDE DEF a, g, n
  <2>3. \A i \in 0..n : i # 0 => i \in 1..n
    BY <1>1
  <2> QED BY <2>1, <2>2, <2>3
<1>5. Reads(Reading(text))
  <2>1. Reads(CHOOSE h : Reads(h))
    <3> HIDE DEF Reads
    <3> QED BY <1>4
  <2> QED BY <2>1 DEF Reading
<1> HIDE DEF a
<1>6. /\ Reading(text)[0] = a
      /\ \A i \in 1..n : Reading(text)[i] = ReadSymbol(text, i, Reading(text)[i - 1])
      /\ Reading(text) = [i \in 0..n |-> Reading(text)[i]]
  BY <1>1, <1>5
<1> DEFINE S == {i \in 0..n : Reading(text)[i] \in At}
<1>7. \A i \in 0..n : i \in S
  <2>1. 0 \in S
    BY <1>1, <1>6
  <2>2. ASSUME NEW i \in 0..(n - 1), i \in S PROVE i + 1 \in S
    <3>1. i + 1 \in 1..n /\ (i + 1) - 1 = i
      BY <1>1
    <3>2. Reading(text)[i + 1] = ReadSymbol(text, i + 1, Reading(text)[i])
      BY <1>6, <3>1
    <3> QED BY <2>2, <3>1, <3>2, ReadSymbolType
  <2> HIDE DEF S, n
  <2> QED BY <1>1, <2>1, <2>2, Upwards
<1> QED BY <1>6, <1>7 DEF a

LEMMA SymbolwiseType ==
  ASSUME NEW part \in Parts
  PROVE  /\ Symbolwise(part) \in Seq(Said) /\ Len(Symbolwise(part)) = Len(part.text)
         /\ \A i \in 1..Len(part.text) :
              Symbolwise(part)[i] = [reasoning |-> part.reasoning, symbol |-> part.text[i]]
<1> DEFINE n == Len(part.text)
<1>1. part.text \in Seq(Symbols) /\ part.reasoning \in BOOLEAN /\ n \in Nat
  BY DEF Parts
<1>2. ASSUME NEW i \in 1..n
      PROVE  [reasoning |-> part.reasoning, symbol |-> part.text[i]] \in Said
  BY <1>1 DEF Said
<1>3. Symbolwise(part) \in Seq(Said) /\ Len(Symbolwise(part)) = n
  BY <1>1, <1>2, IsASeq DEF Symbolwise
<1> QED BY <1>1, <1>3 DEF Symbolwise

LEMMA SayType ==
  ASSUME NEW said \in Seq(Said), NEW part \in Parts PROVE Say(said, part) \in Seq(Said)
<1>1. Symbolwise(part) \in Seq(Said)
  BY SymbolwiseType
<1> QED BY <1>1 DEF Say

LEMMA SpellingIs ==
  ASSUME NEW ps \in Seq(Parts)
  PROVE  /\ Spelling(ps) \in [0..Len(ps) -> Seq(Said)]
         /\ Spelling(ps)[0] = <<>>
         /\ \A n \in 1..Len(ps) : Spelling(ps)[n] = Say(Spelling(ps)[n - 1], ps[n])
<1> DEFINE n == Len(ps)
           g == [i \in 1..n |-> [said \in Seq(Said) |-> Say(said, ps[i])]]
           Spells(f) == f = [i \in 0..n |-> IF i = 0 THEN <<>> ELSE Say(f[i - 1], ps[i])]
<1>1. <<>> \in Seq(Said) /\ n \in Nat
  OBVIOUS
<1>2. g \in [1..n -> [Seq(Said) -> Seq(Said)]]
  <2>1. ASSUME NEW i \in 1..n, NEW said \in Seq(Said) PROVE Say(said, ps[i]) \in Seq(Said)
    BY SayType
  <2> QED BY <2>1
<1>3. PICK f \in [0..n -> Seq(Said)] : Step(n, <<>>, g, f)
  <2> HIDE DEF n, g
  <2> QED BY <1>1, <1>2, Recursion
<1>4. Spells(f)
  <2>1. ASSUME NEW i \in 1..n PROVE g[i][f[i - 1]] = Say(f[i - 1], ps[i])
    BY <1>1
  <2>2. f = [i \in 0..n |-> IF i = 0 THEN <<>> ELSE g[i][f[i - 1]]]
    BY <1>3 DEF Step
  <2> HIDE DEF g, n
  <2>3. \A i \in 0..n : i # 0 => i \in 1..n
    BY <1>1
  <2> QED BY <2>1, <2>2, <2>3
<1>5. Spells(Spelling(ps))
  <2>1. Spells(CHOOSE h : Spells(h))
    <3> HIDE DEF Spells
    <3> QED BY <1>4
  <2> QED BY <2>1 DEF Spelling
<1>6. /\ Spelling(ps)[0] = <<>>
      /\ \A i \in 1..n : Spelling(ps)[i] = Say(Spelling(ps)[i - 1], ps[i])
      /\ Spelling(ps) = [i \in 0..n |-> Spelling(ps)[i]]
  BY <1>1, <1>5
<1> DEFINE S == {i \in 0..n : Spelling(ps)[i] \in Seq(Said)}
<1>7. \A i \in 0..n : i \in S
  <2>1. 0 \in S
    <3>1. Spelling(ps)[0] = <<>>
      BY <1>6
    <3>2. Spelling(ps)[0] \in Seq(Said)
      BY <1>1, <3>1
    <3> QED BY <1>1, <3>2
  <2>2. ASSUME NEW i \in 0..(n - 1), i \in S PROVE i + 1 \in S
    <3>1. i + 1 \in 1..n /\ (i + 1) - 1 = i
      BY <1>1
    <3>2. Spelling(ps)[i + 1] = Say(Spelling(ps)[i], ps[i + 1])
      BY <1>6, <3>1
    <3>3. Say(Spelling(ps)[i], ps[i + 1]) \in Seq(Said)
      <4>1. ps[i + 1] \in Parts /\ Spelling(ps)[i] \in Seq(Said)
        BY <2>2, <3>1
      <4> QED BY <4>1, SayType
    <3> QED BY <2>2, <3>1, <3>2, <3>3
  <2> HIDE DEF S, n
  <2> QED BY <1>1, <2>1, <2>2, Upwards
<1> QED BY <1>6, <1>7

\* What is spelled by no part, and by one part more.
LEMMA SpelledNone == Spelled(<<>>) = <<>>
<1>1. <<>> \in Seq(Parts) /\ Len(<<>>) = 0
  OBVIOUS
<1> QED BY <1>1, SpellingIs DEF Spelled

LEMMA SpelledMore ==
  ASSUME NEW ps \in Seq(Parts), NEW p \in Parts
  PROVE  /\ Spelled(ps) \in Seq(Said)
         /\ Spelled(Append(ps, p)) = Say(Spelled(ps), p)
<1> DEFINE n == Len(ps)
           qs == Append(ps, p)
<1>1. /\ qs \in Seq(Parts) /\ Len(qs) = n + 1 /\ n \in Nat /\ qs[n + 1] = p
      /\ \A i \in 1..n : qs[i] = ps[i]
  OBVIOUS
<1>2. /\ Spelling(ps) \in [0..n -> Seq(Said)] /\ Spelling(ps)[0] = <<>>
      /\ \A i \in 1..n : Spelling(ps)[i] = Say(Spelling(ps)[i - 1], ps[i])
  BY SpellingIs
<1> HIDE DEF qs
<1>3. /\ Spelling(qs)[0] = <<>>
      /\ \A i \in 1..(n + 1) : Spelling(qs)[i] = Say(Spelling(qs)[i - 1], qs[i])
  BY <1>1, SpellingIs
<1> DEFINE S == {i \in 0..n : Spelling(qs)[i] = Spelling(ps)[i]}
<1>4. \A i \in 0..n : i \in S
  <2>1. 0 \in S
    BY <1>1, <1>2, <1>3
  <2>2. ASSUME NEW i \in 0..(n - 1), i \in S PROVE i + 1 \in S
    <3>1. i + 1 \in 1..n /\ (i + 1) - 1 = i /\ i + 1 \in 1..(n + 1)
      BY <1>1
    <3>2. Spelling(qs)[i + 1] = Say(Spelling(qs)[i], qs[i + 1])
      BY <1>3, <3>1
    <3>3. Spelling(ps)[i + 1] = Say(Spelling(ps)[i], ps[i + 1])
      BY <1>2, <3>1
    <3> QED BY <1>1, <2>2, <3>1, <3>2, <3>3
  <2> HIDE DEF S, n
  <2> QED BY <1>1, <2>1, <2>2, Upwards
<1>5. Spelling(qs)[n + 1] = Say(Spelling(qs)[n], qs[n + 1])
  BY <1>1, <1>3
<1>6. Spelling(qs)[n] = Spelling(ps)[n] /\ Spelling(ps)[n] \in Seq(Said)
  BY <1>1, <1>2, <1>4
<1> QED BY <1>1, <1>5, <1>6 DEF Spelled, qs

-----------------------------------------------------------------------------
(* Telling symbols *)

\* An empty part says nothing, and a symbol is said by making the last part longer.
LEMMA SayNothing ==
  ASSUME NEW q \in Seq(Said), NEW b \in BOOLEAN
  PROVE  Say(q, [reasoning |-> b, text |-> <<>>]) = q
<1> DEFINE p == [reasoning |-> b, text |-> <<>>]
<1>1. p \in Parts /\ Len(p.text) = 0
  BY DEF Parts
<1> HIDE DEF p
<1>2. Symbolwise(p) \in Seq(Said) /\ Len(Symbolwise(p)) = 0
  BY <1>1, SymbolwiseType
<1>3. Symbolwise(p) = <<>>
  <2> DEFINE w == Symbolwise(p)
  <2> HIDE DEF w
  <2> QED BY <1>2, EmptySeq DEF w
<1>4. q \o <<>> = q
  BY ConcatEmptySeq
<1> QED BY <1>3, <1>4 DEF Say, p

LEMMA SayMore ==
  ASSUME NEW q \in Seq(Said), NEW b \in BOOLEAN, NEW u \in Seq(Symbols), NEW x \in Symbols
  PROVE  Say(q, [reasoning |-> b, text |-> Append(u, x)])
           = Append(Say(q, [reasoning |-> b, text |-> u]), [reasoning |-> b, symbol |-> x])
<1> DEFINE n == Len(u)
           e == [reasoning |-> b, symbol |-> x]
           p == [reasoning |-> b, text |-> u]
           r == [reasoning |-> b, text |-> Append(u, x)]
           v == Symbolwise(p)
           w == Symbolwise(r)
<1>1. p \in Parts /\ r \in Parts /\ n \in Nat /\ e \in Said
  <2>1. Append(u, x) \in Seq(Symbols)
    OBVIOUS
  <2> QED BY <2>1 DEF Parts, Said
<1>2. /\ v \in Seq(Said) /\ Len(v) = n
      /\ \A i \in 1..n : v[i] = [reasoning |-> b, symbol |-> u[i]]
  <2>1. p.text = u /\ p.reasoning = b
    OBVIOUS
  <2> HIDE DEF p
  <2> QED BY <1>1, <2>1, SymbolwiseType
<1>3. /\ w \in Seq(Said) /\ Len(w) = n + 1
      /\ \A i \in 1..(n + 1) : w[i] = [reasoning |-> b, symbol |-> Append(u, x)[i]]
  <2>1. r.text = Append(u, x) /\ r.reasoning = b /\ Len(Append(u, x)) = n + 1
    OBVIOUS
  <2> HIDE DEF r
  <2> QED BY <1>1, <2>1, SymbolwiseType
<1>4. Append(u, x)[n + 1] = x /\ \A i \in 1..n : Append(u, x)[i] = u[i]
  BY AppendProperties
<1> HIDE DEF v, w, e
<1>5. w[n + 1] = e /\ \A i \in 1..n : w[i] = v[i]
  <2>1. n + 1 \in 1..(n + 1) /\ \A i \in 1..n : i \in 1..(n + 1)
    BY <1>1
  <2> QED BY <1>2, <1>3, <1>4, <2>1 DEF e
<1> HIDE DEF n
<1>6. w = Append(v, e)
  <2> DEFINE z == Append(v, e)
  <2>1. z \in Seq(Said) /\ Len(z) = n + 1 /\ z[n + 1] = e /\ \A i \in 1..n : z[i] = v[i]
    BY <1>1, <1>2, AppendProperties
  <2> HIDE DEF z
  <2>2. \A i \in 1..Len(w) : w[i] = z[i]
    <3>1. \A i \in 1..(n + 1) : i = n + 1 \/ i \in 1..n
      BY <1>1
    <3> QED BY <1>3, <1>5, <2>1, <3>1
  <2>3. w = z
    BY <1>3, <2>1, <2>2, SeqEqual
  <2> QED BY <2>3 DEF z
<1>7. <<e>> \in Seq(Said)
  BY <1>1
<1>8. w = v \o <<e>>
  BY <1>1, <1>2, <1>6, AppendIsConcat
<1>9. q \o (v \o <<e>>) = (q \o v) \o <<e>>
  BY <1>2, <1>7, ConcatAssociative
<1>10. q \o v \in Seq(Said)
  BY <1>2, ConcatProperties
<1>11. Append(q \o v, e) = (q \o v) \o <<e>>
  BY <1>1, <1>10, AppendIsConcat
<1>12. q \o w = Append(q \o v, e)
  BY <1>8, <1>9, <1>11
<1> QED BY <1>12 DEF Say, v, w, e

\* The first symbols that are pending, added to the parts, are said after them.
LEMMA SpelledPart ==
  ASSUME NEW ps \in Seq(Parts), NEW s \in Split, NEW n \in 0..Len(s.pending)
  PROVE  /\ ps \o Part(s, n) \in Seq(Parts)
         /\ Spelled(ps \o Part(s, n))
              = Say(Spelled(ps), [reasoning |-> s.inThink, text |-> SubSeq(s.pending, 1, n)])
<1> DEFINE p == [reasoning |-> s.inThink, text |-> SubSeq(s.pending, 1, n)]
           pt == Part(s, n)
<1>1. p \in Parts /\ pt \in Seq(Parts)
  BY PartIs
<1>2. ps \o pt \in Seq(Parts)
  <2> HIDE DEF pt
  <2> QED BY <1>1, ConcatProperties
<1>3. CASE n = 0
  <2>1. pt = <<>> /\ ps \o <<>> = ps
    BY <1>3, PartIs, ConcatEmptySeq
  <2>2. SubSeq(s.pending, 1, n) = <<>>
    BY <1>3, SubSeqEmpty
  <2>3. s.inThink \in BOOLEAN /\ Spelled(ps) \in Seq(Said)
    BY <1>1, SpelledMore DEF Split
  <2>4. Say(Spelled(ps), [reasoning |-> s.inThink, text |-> <<>>]) = Spelled(ps)
    BY <2>3, SayNothing
  <2> QED BY <1>2, <2>1, <2>2, <2>4
<1>4. CASE n # 0
  <2>1. pt = <<p>>
    BY <1>4, PartIs
  <2> HIDE DEF p, pt
  <2>2. ps \o <<p>> = Append(ps, p)
    BY <1>1, AppendIsConcat
  <2>3. Spelled(Append(ps, p)) = Say(Spelled(ps), p)
    BY <1>1, SpelledMore
  <2> QED BY <1>2, <2>1, <2>2, <2>3 DEF p, pt
<1> QED BY <1>3, <1>4

-----------------------------------------------------------------------------
(* Reading on *)

Standing(b, q) == [inThink |-> b, skip |-> 0, said |-> q]
Marker(b) == IF b THEN CloseTag ELSE OpenTag

\* Symbols at which no tag starts are said.
LEMMA ReadPlain ==
  ASSUME NEW text \in Seq(Symbols), NEW i \in Nat, NEW b \in BOOLEAN, NEW q \in Seq(Said),
         NEW u \in Seq(Symbols), NEW n \in 0..Len(u), i + n <= Len(text),
         Reading(text)[i] = Standing(b, q),
         \A j \in 1..n : text[i + j] = u[j],
         \A j \in 1..n : ~ TagAt(text, i + j, Marker(b))
  PROVE  Reading(text)[i + n]
           = Standing(b, Say(q, [reasoning |-> b, text |-> SubSeq(u, 1, n)]))
<1> DEFINE p(k) == [reasoning |-> b, text |-> SubSeq(u, 1, k)]
           S == {k \in 0..n : Reading(text)[i + k] = Standing(b, Say(q, p(k)))}
<1>1. n \in Nat /\ Len(u) \in Nat /\ n <= Len(u) /\ Len(text) \in Nat
  OBVIOUS
<1>2. 0 \in S
  <2>1. SubSeq(u, 1, 0) = <<>>
    BY SubSeqEmpty
  <2>2. Say(q, p(0)) = q
    BY <2>1, SayNothing
  <2> QED BY <1>1, <2>2
<1>3. ASSUME NEW k \in 0..(n - 1), k \in S PROVE k + 1 \in S
  <2> DEFINE v == SubSeq(u, 1, k)
             at == Standing(b, Say(q, p(k)))
             l == k + 1
  <2>1. l \in 1..n /\ i + l \in 1..Len(text) /\ (i + l) - 1 = i + k /\ l \in 0..n /\ l \in 1..Len(u)
    BY <1>1
  <2>2. /\ Reading(text)[i + l] = ReadSymbol(text, i + l, at)
    <3>1. Reading(text)[i + l] = ReadSymbol(text, i + l, Reading(text)[(i + l) - 1])
      BY <2>1, ReadingIs
    <3>2. Reading(text)[i + k] = at
      BY <1>3
    <3> QED BY <2>1, <3>1, <3>2
  <2>3. v \in Seq(Symbols) /\ u[l] \in Symbols /\ SubSeq(u, 1, l) = Append(v, u[l])
    <3>1. u[l] \in Symbols
      BY <2>1
    <3>2. \A j \in 1..k : u[j] \in Symbols
      BY <1>1
    <3>3. v \in Seq(Symbols)
      BY <3>2, SubSeqProperties
    <3>4. SubSeq(u, 1, l) = SubSeq(u, 1, l - 1) \o <<u[l]>>
      BY <2>1, SubSeqRecursiveSecond
    <3>5. l - 1 = k
      OBVIOUS
    <3> QED BY <3>1, <3>3, <3>4, <3>5, AppendIsConcat
  <2>4. text[i + l] = u[l] /\ ~ TagAt(text, i + l, Marker(b))
    BY <2>1
  <2>5. tag(at) = Marker(b) /\ at.inThink = b /\ at.skip = 0 /\ at.said = Say(q, p(k))
    BY DEF tag, Marker, Standing
  <2>6. ReadSymbol(text, i + l, at)
          = [at EXCEPT !.said = Append(at.said, [reasoning |-> at.inThink, symbol |-> text[i + l]])]
    <3> HIDE DEF at, l
    <3> QED BY <2>4, <2>5 DEF ReadSymbol
  <2>7. Say(q, p(l)) = Append(Say(q, p(k)), [reasoning |-> b, symbol |-> u[l]])
    <3> DEFINE y == u[l]
    <3>1. SubSeq(u, 1, l) = Append(v, y) /\ v \in Seq(Symbols) /\ y \in Symbols
      BY <2>3
    <3> HIDE DEF v, y
    <3>2. Say(q, [reasoning |-> b, text |-> Append(v, y)])
            = Append(Say(q, [reasoning |-> b, text |-> v]), [reasoning |-> b, symbol |-> y])
      BY <3>1, SayMore
    <3> QED BY <3>1, <3>2 DEF v, y
  <2> DEFINE said == Say(q, p(k))
             more == Append(said, [reasoning |-> b, symbol |-> u[l]])
  <2>8. [Standing(b, said) EXCEPT !.said = more] = Standing(b, more)
    <3> HIDE DEF said, more
    <3> QED BY DEF Standing
  <2>9. Reading(text)[i + l] = Standing(b, more)
    BY <2>2, <2>4, <2>5, <2>6, <2>8
  <2> QED BY <2>1, <2>7, <2>9
<1>4. \A k \in 0..n : k \in S
  <2> HIDE DEF S
  <2> QED BY <1>1, <1>2, <1>3, Upwards
<1>5. n \in 0..n
  BY <1>1
<1> QED BY <1>4, <1>5

\* A tag is skipped, and what follows it is of the other kind.
LEMMA ReadTag ==
  ASSUME NEW text \in Seq(Symbols), NEW i \in Nat, NEW b \in BOOLEAN, NEW q \in Seq(Said),
         Reading(text)[i] = Standing(b, q),
         TagAt(text, i + 1, Marker(b))
  PROVE  Reading(text)[i + Len(Marker(b))] = Standing(~ b, q)
<1> DEFINE n == Len(Marker(b)) - 1
           c == ~ b
           In(k) == [inThink |-> c, skip |-> n - k, said |-> q]
           S == {k \in 0..n : Reading(text)[i + 1 + k] = In(k)}
<1>1. n \in Nat /\ Len(text) \in Nat /\ i + 1 + n <= Len(text) /\ c \in BOOLEAN
  <2>1. Marker(b) = tag(Standing(b, q))
    BY DEF tag, Marker, Standing
  <2>2. Len(Marker(b)) \in Nat \ {0}
    BY <2>1, TagType
  <2> QED BY <2>2 DEF TagAt
<1> DEFINE at == Standing(b, q)
<1>2. tag(at) = Marker(b) /\ at.inThink = b /\ at.skip = 0 /\ at.said = q
  BY DEF tag, Marker, Standing
<1>3. ReadSymbol(text, i + 1, at) = [inThink |-> c, skip |-> n, said |-> q]
  <2> HIDE DEF at
  <2> QED BY <1>2 DEF ReadSymbol
<1>4. \A j \in 1..Len(text) : Reading(text)[j] = ReadSymbol(text, j, Reading(text)[j - 1])
  BY ReadingIs
<1>5. 0 \in S
  <2>1. i + 1 \in 1..Len(text) /\ (i + 1) - 1 = i /\ i + 1 + 0 = i + 1 /\ n - 0 = n
    BY <1>1
  <2>2. Reading(text)[i + 1] = [inThink |-> c, skip |-> n, said |-> q]
    BY <1>3, <1>4, <2>1
  <2>3. 0 \in 0..n
    BY <1>1
  <2> HIDE DEF n, c
  <2> QED BY <2>1, <2>2, <2>3
<1> HIDE DEF n, c
<1>6. ASSUME NEW k \in 0..(n - 1), k \in S PROVE k + 1 \in S
  <2> DEFINE l == i + 1 + (k + 1)
             m == n - k
             u == In(k)
  <2>1. l \in 1..Len(text) /\ l - 1 = i + 1 + k /\ k + 1 \in 0..n /\ m > 0 /\ m - 1 = n - (k + 1)
    BY <1>1
  <2>2. Reading(text)[l - 1] = u
    BY <1>6, <2>1
  <2>3. Reading(text)[l] = ReadSymbol(text, l, u)
    BY <1>4, <2>1, <2>2
  <2>4. ReadSymbol(text, l, u) = [u EXCEPT !.skip = u.skip - 1]
    <3>1. u.skip > 0
      <4> HIDE DEF m
      <4> QED BY <2>1 DEF m
    <3> HIDE DEF u, l
    <3> QED BY <3>1 DEF ReadSymbol
  <2>5. [u EXCEPT !.skip = u.skip - 1] = In(k + 1)
    <3> DEFINE m1 == n - (k + 1)
    <3>1. u.skip - 1 = m1
      BY <1>1
    <3> HIDE DEF m1
    <3>2. [u EXCEPT !.skip = m1] = [inThink |-> c, skip |-> m1, said |-> q]
      OBVIOUS
    <3> QED BY <3>1, <3>2 DEF m1
  <2> QED BY <2>1, <2>3, <2>4, <2>5
<1>7. \A k \in 0..n : k \in S
  <2> HIDE DEF S
  <2> QED BY <1>1, <1>5, <1>6, Upwards
<1>8. Reading(text)[i + 1 + n] = In(n)
  BY <1>1, <1>7
<1>9. In(n) = Standing(c, q)
  <2>1. n - n = 0
    BY <1>1
  <2> QED BY <2>1 DEF Standing
<1>10. i + 1 + n = i + Len(Marker(b))
  <2>1. Len(Marker(b)) \in Nat
    <3>1. Marker(b) = tag(at)
      BY <1>2
    <3> QED BY <3>1, TagType
  <2> QED BY <2>1 DEF n
<1> QED BY <1>8, <1>9, <1>10 DEF c

-----------------------------------------------------------------------------
(* The splitter follows the reading of the whole text *)

\* The parts ps spell the text up to its symbol i, of the kind that s expects next, and
\* what is pending in s is what follows.
Follows(text, i, u) == i + Len(u) <= Len(text) /\ \A j \in 1..Len(u) : text[i + j] = u[j]
Stands(text, i, s, ps) ==
    /\ i \in Nat /\ Follows(text, i, s.pending)
    /\ Reading(text)[i] = Standing(s.inThink, Spelled(ps))

LEMMA SpelledType == ASSUME NEW ps \in Seq(Parts) PROVE Spelled(ps) \in Seq(Said)
<1>1. Len(ps) \in Nat /\ Spelling(ps) \in [0..Len(ps) -> Seq(Said)]
  BY SpellingIs
<1> QED BY <1>1 DEF Spelled

\* A tag that starts and ends in what is pending is one in the text, and the other way round.
LEMMA TagInText ==
  ASSUME NEW text \in Seq(Symbols), NEW i \in Nat, NEW u \in Seq(Symbols),
         NEW tg \in Seq(Symbols), Len(tg) > 0,
         Follows(text, i, u), NEW j \in 1..Len(u)
  PROVE  /\ j + Len(tg) - 1 <= Len(u) => (TagAt(text, i + j, tg) <=> TagAt(u, j, tg))
         /\ TagAt(text, i + j, tg) => Agrees(u, j, tg)
<1>1. /\ Len(u) \in Nat /\ Len(tg) \in Nat /\ Len(text) \in Nat
      /\ i + Len(u) <= Len(text) /\ \A k \in 1..Len(u) : text[i + k] = u[k]
  BY DEF Follows
<1>2. ASSUME NEW k \in 1..Len(tg), j + k - 1 <= Len(u)
      PROVE  text[i + j + k - 1] = u[j + k - 1] /\ i + j + k - 1 <= Len(text)
  <2>1. j + k - 1 \in 1..Len(u) /\ i + (j + k - 1) = i + j + k - 1
    BY <1>1, <1>2
  <2>2. text[i + (j + k - 1)] = u[j + k - 1]
    BY <1>1, <2>1
  <2> QED BY <1>1, <2>1, <2>2
<1>3. ASSUME TagAt(text, i + j, tg) PROVE Agrees(u, j, tg)
  <2>1. \A k \in 1..Len(tg) : i + j + k - 1 <= Len(text) => text[i + j + k - 1] = tg[k]
    BY <1>3 DEF TagAt, Agrees
  <2> QED BY <1>2, <2>1 DEF Agrees
<1>4. ASSUME TagAt(u, j, tg) PROVE TagAt(text, i + j, tg)
  <2>1. j + Len(tg) - 1 <= Len(u)
    BY <1>4 DEF TagAt
  <2>2. \A k \in 1..Len(tg) : j + k - 1 <= Len(u) => u[j + k - 1] = tg[k]
    BY <1>4 DEF TagAt, Agrees
  <2>3. \A k \in 1..Len(tg) : j + k - 1 <= Len(u)
    BY <1>1, <2>1
  <2>4. \A k \in 1..Len(tg) : text[i + j + k - 1] = tg[k]
    BY <1>2, <2>2, <2>3
  <2>5. i + j + Len(tg) - 1 <= Len(text)
    BY <1>1, <2>1
  <2> QED BY <2>4, <2>5 DEF TagAt, Agrees
<1> QED BY <1>3, <1>4 DEF TagAt

\* Telling pending symbols at which no tag starts keeps the splitter in step.
LEMMA TellStands ==
  ASSUME NEW text \in Seq(Symbols), NEW i, NEW s \in Split, NEW ps \in Seq(Parts),
         NEW n \in 0..Len(s.pending), Stands(text, i, s, ps),
         \A j \in 1..n : ~ TagAt(text, i + j, tag(s))
  PROVE  /\ Reading(text)[i + n] = Standing(s.inThink, Spelled(ps \o Part(s, n)))
         /\ i + n \in Nat
         /\ Stands(text, i + n, Rest(s, n), ps \o Part(s, n))
<1> DEFINE u == s.pending
           b == s.inThink
           q == Spelled(ps)
           r == Rest(s, n)
           qs == ps \o Part(s, n)
<1>1. u \in Seq(Symbols) /\ b \in BOOLEAN /\ q \in Seq(Said)
  <2>1. Spelled(ps) \in Seq(Said)
    BY SpelledType
  <2> QED BY <2>1 DEF Split
<1>2. /\ i \in Nat /\ i + Len(u) <= Len(text)
      /\ \A j \in 1..Len(u) : text[i + j] = u[j]
      /\ Reading(text)[i] = Standing(b, q)
  BY DEF Stands, Follows
<1>3. n \in Nat /\ n <= Len(u) /\ Len(u) \in Nat /\ Len(text) \in Nat /\ n \in 0..Len(u)
  BY <1>1
<1>4. Reading(text)[i + n] = Standing(b, Say(q, [reasoning |-> b, text |-> SubSeq(u, 1, n)]))
  <2>1. tag(s) = Marker(b)
    BY DEF tag, Marker
  <2>2. \A j \in 1..n : ~ TagAt(text, i + j, Marker(b))
    BY <2>1
  <2>3. i + n <= Len(text) /\ \A j \in 1..n : text[i + j] = u[j]
    BY <1>2, <1>3
  <2> HIDE DEF u, b, q
  <2> QED BY <1>1, <1>2, <1>3, <2>2, <2>3, ReadPlain
<1>5. Spelled(qs) = Say(q, [reasoning |-> b, text |-> SubSeq(u, 1, n)])
  BY SpelledPart
<1>6. Reading(text)[i + n] = Standing(b, Spelled(qs))
  BY <1>4, <1>5
<1>7. /\ r.inThink = b /\ Len(r.pending) = Len(u) - n
      /\ \A j \in 1..(Len(u) - n) : r.pending[j] = u[n + j]
  BY RestIs
<1>8. \A j \in 1..(Len(u) - n) : text[i + n + j] = u[n + j]
  <2> SUFFICES ASSUME NEW j \in 1..(Len(u) - n) PROVE text[i + n + j] = u[n + j]
    OBVIOUS
  <2>1. n + j \in 1..Len(u) /\ i + n + j = i + (n + j)
    BY <1>2, <1>3
  <2> QED BY <1>2, <2>1
<1> HIDE DEF u, b, q, r, qs
<1>9. Stands(text, i + n, r, qs)
  <2>1. Follows(text, i + n, r.pending)
    <3>1. \A j \in 1..Len(r.pending) : text[i + n + j] = r.pending[j]
      BY <1>7, <1>8
    <3>2. i + n + Len(r.pending) <= Len(text)
      BY <1>2, <1>3, <1>7
    <3> QED BY <3>1, <3>2 DEF Follows
  <2> QED BY <1>2, <1>3, <1>6, <1>7, <2>1 DEF Stands
<1> QED BY <1>2, <1>3, <1>6, <1>9 DEF r, qs, b

\* A round of the loop keeps it in step.
LEMMA CutStands ==
  ASSUME NEW text \in Seq(Symbols), NEW i, NEW d \in Drains, NEW ps \in Seq(Parts),
         Stands(text, i, d.split, ps \o d.parts)
  PROVE  \E k \in Nat : /\ k + Len(CutTag(d).split.pending) = i + Len(d.split.pending)
                        /\ Stands(text, k, CutTag(d).split, ps \o CutTag(d).parts)
<1> DEFINE s == d.split
           tg == tag(s)
           u == s.pending
<1>1. s \in Split /\ d.parts \in Seq(Parts) /\ u \in Seq(Symbols) /\ s.inThink \in BOOLEAN
  BY DEF Drains, Split
<1>2. i \in Nat
  BY DEF Stands
<1>3. CASE Places(u, tg) = {}
  <2>1. CutTag(d) = d
    BY <1>3 DEF CutTag
  <2> QED BY <1>2, <2>1
<1>4. CASE Places(u, tg) # {}
  <2> DEFINE m == Min(Places(u, tg))
             n == m - 1
             l == Len(tg)
             c == CutTag(d)
             qs == ps \o d.parts
             k == i + n + l
             rs == qs \o Part(s, n)
             b == s.inThink
  <2>1. /\ c \in Drains /\ c.split.inThink = ~ b
        /\ c.parts = d.parts \o Part(s, n)
        /\ n + l <= Len(u)
        /\ Len(c.split.pending) = Len(u) - (n + l)
        /\ \A j \in 1..Len(c.split.pending) : c.split.pending[j] = u[n + l + j]
    BY <1>4, CutIs
  <2>2. m \in 1..Len(u) /\ TagAt(u, m, tg) /\ \A j \in 1..(m - 1) : ~ TagAt(u, j, tg)
    <3> HIDE DEF u, tg
    <3> QED BY <1>1, <1>4, FirstPlace
  <2>3. tg \in Seq(Symbols) /\ l \in Nat \ {0} /\ tg = Marker(b)
    <3>1. tg = Marker(b)
      BY DEF tag, Marker
    <3> HIDE DEF s
    <3> QED BY <3>1, TagType
  <2>4. /\ i + Len(u) <= Len(text)
        /\ \A j \in 1..Len(u) : text[i + j] = u[j]
        /\ Follows(text, i, u)
    BY DEF Stands, Follows
  <2>5. n \in 0..Len(u) /\ Len(u) \in Nat /\ n \in Nat /\ m = n + 1 /\ k \in Nat /\ Len(text) \in Nat
    <3> HIDE DEF m, u, l
    <3> QED BY <1>1, <1>2, <2>2, <2>3
  <2>6. ASSUME NEW j \in 1..n PROVE ~ TagAt(text, i + j, tg)
    <3>1. ~ TagAt(u, j, tg) /\ j \in 1..Len(u) /\ j + l - 1 <= Len(u)
      <4>1. ~ TagAt(u, j, tg)
        BY <2>2
      <4> HIDE DEF m, n, u, l
      <4> QED BY <2>1, <2>3, <2>5, <4>1
    <3>2. u \in Seq(Symbols) /\ Follows(text, i, u) /\ tg \in Seq(Symbols) /\ Len(tg) > 0
      BY <1>1, <2>3, <2>4
    <3>3. j + Len(tg) - 1 <= Len(u)
      BY <3>1
    <3> HIDE DEF u, tg, n
    <3> QED BY <1>2, <3>1, <3>2, <3>3, TagInText
  <2>7. TagAt(text, i + m, tg)
    <3>1. m + l - 1 <= Len(u)
      BY <2>2 DEF TagAt
    <3>2. u \in Seq(Symbols) /\ Follows(text, i, u) /\ tg \in Seq(Symbols) /\ Len(tg) > 0
      BY <1>1, <2>3, <2>4
    <3>3. m + Len(tg) - 1 <= Len(u) /\ m \in 1..Len(u) /\ TagAt(u, m, tg)
      BY <2>2, <3>1
    <3> HIDE DEF u, tg, m
    <3> QED BY <1>2, <3>2, <3>3, TagInText
  <2>8. qs \in Seq(Parts)
    <3> HIDE DEF s
    <3> QED BY <1>1, ConcatProperties
  <2>9. Reading(text)[i + n] = Standing(b, Spelled(rs)) /\ rs \in Seq(Parts)
    <3>1. \A j \in 1..n : ~ TagAt(text, i + j, tag(s))
      BY <2>6
    <3>2. n \in 0..Len(s.pending) /\ Stands(text, i, s, qs)
      BY <2>5
    <3>3. s \in Split
      BY <1>1
    <3> HIDE DEF s, n, qs, u
    <3>4. qs \o Part(s, n) \in Seq(Parts)
      BY <2>8, <3>2, <3>3, SpelledPart
    <3>5. Reading(text)[i + n] = Standing(s.inThink, Spelled(qs \o Part(s, n)))
      BY <2>8, <3>1, <3>2, <3>3, TellStands
    <3> QED BY <3>4, <3>5
  <2>10. Reading(text)[k] = Standing(~ b, Spelled(rs))
    <3> DEFINE a == i + n
               q == Spelled(rs)
    <3>1. a \in Nat /\ q \in Seq(Said) /\ a + 1 = i + m
      <4>1. q \in Seq(Said)
        <5>1. rs \in Seq(Parts)
          BY <2>9
        <5> HIDE DEF rs
        <5> QED BY <5>1, SpelledType
      <4> HIDE DEF n, m, q
      <4> QED BY <1>2, <2>5, <4>1
    <3>2. Reading(text)[a] = Standing(b, q) /\ TagAt(text, a + 1, Marker(b))
      BY <2>3, <2>7, <2>9, <3>1
    <3>3. Reading(text)[a + Len(Marker(b))] = Standing(~ b, q)
      <4> HIDE DEF a, q, b
      <4>1. b \in BOOLEAN
        BY <1>1 DEF b
      <4> QED BY <3>1, <3>2, <4>1, ReadTag
    <3> QED BY <2>3, <3>3
  <2>11. rs = ps \o c.parts
    <3> DEFINE pt == Part(s, n)
    <3>1. pt \in Seq(Parts)
      <4>1. n \in 0..Len(s.pending)
        BY <2>5
      <4> HIDE DEF s, n
      <4> QED BY <1>1, <4>1, PartIs
    <3>2. (ps \o d.parts) \o pt = ps \o (d.parts \o pt)
      <4> DEFINE e == d.parts
      <4>1. e \in Seq(Parts)
        BY <1>1
      <4> HIDE DEF pt, e
      <4>2. (ps \o e) \o pt = ps \o (e \o pt)
        BY <3>1, <4>1, ConcatAssociative
      <4> QED BY <4>2 DEF e
    <3> QED BY <2>1, <3>2
  <2>12. ASSUME NEW j \in 1..Len(c.split.pending) PROVE text[k + j] = c.split.pending[j]
    <3>1. c.split.pending[j] = u[n + l + j]
      BY <2>1
    <3>2. n + l + j \in 1..Len(u) /\ i + (n + l + j) = k + j
      <4>1. k = i + n + l
        OBVIOUS
      <4> HIDE DEF n, l, u, c, k
      <4> QED BY <1>2, <2>1, <2>3, <2>5, <4>1
    <3>3. text[i + (n + l + j)] = u[n + l + j]
      <4> HIDE DEF n, l, u
      <4> QED BY <2>4, <3>2
    <3> QED BY <3>1, <3>2, <3>3
  <2>13. k + Len(c.split.pending) = i + Len(u)
    <3> HIDE DEF n, l, u, c
    <3> QED BY <1>2, <2>1, <2>3, <2>5
  <2>14. Stands(text, k, c.split, ps \o c.parts)
    <3>1. Reading(text)[k] = Standing(c.split.inThink, Spelled(ps \o c.parts))
      BY <2>1, <2>10, <2>11
    <3>2. k + Len(c.split.pending) <= Len(text)
      BY <2>4, <2>13
    <3> HIDE DEF c, k
    <3>3. Follows(text, k, c.split.pending)
      BY <2>12, <3>2 DEF Follows
    <3> QED BY <2>5, <3>1, <3>3 DEF Stands
  <2> QED BY <2>5, <2>13, <2>14
<1> QED BY <1>3, <1>4

-----------------------------------------------------------------------------
(* drain *)

LEMMA RoundsStand ==
  ASSUME NEW text \in Seq(Symbols), NEW i, NEW s \in Split, NEW ps \in Seq(Parts),
         Stands(text, i, s, ps)
  PROVE  \E k \in Nat :
           /\ k + Len(Rounds(s)[Len(s.pending)].split.pending) = i + Len(s.pending)
           /\ Stands(text, k, Rounds(s)[Len(s.pending)].split,
                     ps \o Rounds(s)[Len(s.pending)].parts)
<1> DEFINE n == Len(s.pending)
           In(d) == \E k \in Nat : /\ k + Len(d.split.pending) = i + n
                                   /\ Stands(text, k, d.split, ps \o d.parts)
           S == {l \in 0..n : In(Rounds(s)[l])}
<1>1. /\ n \in Nat /\ Rounds(s) \in [0..n -> Drains]
      /\ Rounds(s)[0] = [split |-> s, parts |-> <<>>]
      /\ \A l \in 1..n : Rounds(s)[l] = CutTag(Rounds(s)[l - 1])
  BY RoundsIs
<1>2. i \in Nat
  BY DEF Stands
<1>3. 0 \in S
  <2> DEFINE d == [split |-> s, parts |-> <<>>]
  <2>1. d.split = s /\ ps \o d.parts = ps
    BY ConcatEmptySeq
  <2> HIDE DEF d
  <2>2. i + Len(d.split.pending) = i + n /\ Stands(text, i, d.split, ps \o d.parts)
    BY <2>1
  <2>3. In(d)
    BY <1>2, <2>2
  <2>4. Rounds(s)[0] = d /\ 0 \in 0..n
    BY <1>1 DEF d
  <2> HIDE DEF In
  <2> QED BY <2>3, <2>4
<1>4. ASSUME NEW l \in 0..(n - 1), l \in S PROVE l + 1 \in S
  <2> DEFINE d == Rounds(s)[l]
  <2>1. l + 1 \in 1..n /\ (l + 1) - 1 = l /\ l \in 0..n /\ l + 1 \in 0..n
    BY <1>1
  <2>2. Rounds(s)[l + 1] = CutTag(d) /\ d \in Drains
    BY <1>1, <2>1
  <2>3. PICK k \in Nat : k + Len(d.split.pending) = i + n /\ Stands(text, k, d.split, ps \o d.parts)
    BY <1>4
  <2> HIDE DEF d
  <2>4. PICK m \in Nat : /\ m + Len(CutTag(d).split.pending) = k + Len(d.split.pending)
                         /\ Stands(text, m, CutTag(d).split, ps \o CutTag(d).parts)
    BY <2>2, <2>3, CutStands
  <2>5. In(CutTag(d))
    <3>1. m + Len(CutTag(d).split.pending) = i + n
      BY <2>3, <2>4
    <3> QED BY <2>4, <3>1
  <2> QED BY <2>1, <2>2, <2>5
<1>5. \A l \in 0..n : l \in S
  <2> HIDE DEF S, n
  <2> QED BY <1>1, <1>3, <1>4, Upwards
<1>6. n \in S
  <2>1. n \in 0..n
    BY <1>1
  <2> QED BY <1>5, <2>1
<1> QED BY <1>6

LEMMA Told ==
  ASSUME NEW text \in Seq(Symbols), NEW i, NEW d \in Drains, NEW ps \in Seq(Parts),
         NEW n \in 0..Len(d.split.pending),
         Stands(text, i, d.split, ps \o d.parts),
         \A j \in 1..n : ~ TagAt(text, i + j, tag(d.split))
  PROVE  /\ i + n \in Nat
         /\ i + n + Len(Tell(d, n).split.pending) = i + Len(d.split.pending)
         /\ Stands(text, i + n, Tell(d, n).split, ps \o Tell(d, n).parts)
<1> DEFINE s == d.split
           e == d.parts
           p == Part(s, n)
           t == Tell(d, n)
<1>1. s \in Split /\ e \in Seq(Parts) /\ p \in Seq(Parts)
  <2>1. s \in Split /\ e \in Seq(Parts)
    BY DEF Drains
  <2> QED BY <2>1, PartIs
<1>2. t.split = Rest(s, n) /\ t.parts = e \o p
  BY TellType
<1>3. Len(Rest(s, n).pending) = Len(s.pending) - n /\ Len(s.pending) \in Nat /\ n \in Nat
  <2>1. n \in 0..Len(s.pending)
    OBVIOUS
  <2> HIDE DEF s
  <2> QED BY <1>1, <2>1, RestIs
<1>4. ps \o e \in Seq(Parts) /\ (ps \o e) \o p = ps \o (e \o p)
  <2> HIDE DEF e, p
  <2> QED BY <1>1, ConcatProperties, ConcatAssociative
<1>5. i + n \in Nat /\ Stands(text, i + n, Rest(s, n), (ps \o e) \o p)
  <2> DEFINE q == ps \o e
  <2>1. Stands(text, i, s, q) /\ q \in Seq(Parts)
    BY <1>4
  <2>2. \A j \in 1..n : ~ TagAt(text, i + j, tag(s))
    OBVIOUS
  <2>3. n \in 0..Len(s.pending)
    OBVIOUS
  <2> HIDE DEF s, q
  <2>4. i + n \in Nat
    BY <1>1, <2>1, <2>2, <2>3, TellStands
  <2>5. Stands(text, i + n, Rest(s, n), q \o Part(s, n))
    BY <1>1, <2>1, <2>2, <2>3, TellStands
  <2> QED BY <2>4, <2>5 DEF q
<1>6. i \in Nat
  BY DEF Stands
<1>7. i + n + Len(t.split.pending) = i + Len(s.pending)
  <2> DEFINE x == Len(t.split.pending)
             y == Len(s.pending)
  <2>1. x = y - n
    BY <1>2, <1>3
  <2>2. y \in Nat /\ n \in Nat
    BY <1>3
  <2> HIDE DEF x, y
  <2>3. i + n + x = i + y
    BY <1>6, <2>1, <2>2
  <2> QED BY <2>3 DEF x, y
<1> QED BY <1>2, <1>4, <1>5, <1>7

\* Where no tag is left, none starts among the symbols that are told: a shorter end than
\* Kept could not be the beginning of one, whatever the next chunk brings.
LEMMA NoneTold ==
  ASSUME NEW text \in Seq(Symbols), NEW i, NEW d \in Drains, NEW ps,
         Stands(text, i, d.split, ps), NoTagIn(d),
         NEW j \in 1..(Len(d.split.pending) - Kept(d))
  PROVE  ~ TagAt(text, i + j, tag(d.split))
<1> DEFINE u == d.split.pending
           tg == tag(d.split)
           n == Len(u) - j + 1
<1>1. u \in Seq(Symbols) /\ Len(u) \in Nat /\ i \in Nat /\ Follows(text, i, u)
  BY DEF Drains, Split, Stands
<1>2. tg \in Seq(Symbols) /\ Len(tg) > 0 /\ Len(tg) \in Nat
  BY TagType
<1>3. Kept(d) \in 0..Len(u) /\ j \in 1..Len(u)
  <2>1. Kept(d) \in 0..Len(u) /\ j \in 1..(Len(u) - Kept(d))
    BY TellIs
  <2> HIDE DEF u
  <2> QED BY <1>1, <2>1
<1>4. SUFFICES ASSUME TagAt(text, i + j, tg) PROVE FALSE
  OBVIOUS
<1>5. Kept(d) = longestTagPrefixSuffix(u, tg)
  BY DEF Kept
<1>6. Places(u, tg) = {}
  BY DEF NoTagIn
<1> HIDE DEF u, tg
<1>7. Agrees(u, j, tg)
  BY <1>1, <1>2, <1>3, <1>4, TagInText
<1>8. CASE j + Len(tg) - 1 <= Len(u)
  BY <1>3, <1>6, <1>7, <1>8 DEF Places, TagAt
<1>9. CASE ~ (j + Len(tg) - 1 <= Len(u))
  <2>1. n \in 0..(Len(tg) - 1) /\ n <= Len(u) /\ Len(u) - n + 1 = j
    BY <1>1, <1>2, <1>3, <1>9
  <2> HIDE DEF n
  <2>2. n <= Kept(d)
    BY <1>1, <1>2, <1>5, <1>7, <2>1, Longest
  <2>3. j \in 1..(Len(u) - Kept(d))
    BY DEF u
  <2> QED BY <1>1, <1>3, <2>1, <2>2, <2>3
<1> QED BY <1>8, <1>9

\* At the end of the text a tag would have to end in it.
LEMMA NoneLeft ==
  ASSUME NEW text \in Seq(Symbols), NEW i, NEW d \in Drains, NEW ps,
         Stands(text, i, d.split, ps), NoTagIn(d), i + Len(d.split.pending) = Len(text),
         NEW j \in 1..Len(d.split.pending)
  PROVE  ~ TagAt(text, i + j, tag(d.split))
<1> DEFINE u == d.split.pending
           tg == tag(d.split)
<1>1. u \in Seq(Symbols) /\ Len(u) \in Nat /\ i \in Nat /\ Follows(text, i, u)
  BY DEF Drains, Split, Stands
<1>2. tg \in Seq(Symbols) /\ Len(tg) > 0 /\ Len(tg) \in Nat
  BY TagType
<1>3. SUFFICES ASSUME TagAt(text, i + j, tg) PROVE FALSE
  OBVIOUS
<1>4. Places(u, tg) = {} /\ i + Len(u) = Len(text) /\ j \in 1..Len(u)
  BY DEF NoTagIn
<1> HIDE DEF u, tg
<1>5. Agrees(u, j, tg)
  BY <1>1, <1>2, <1>3, <1>4, TagInText
<1>6. j + Len(tg) - 1 <= Len(u)
  BY <1>1, <1>2, <1>3, <1>4 DEF TagAt
<1> QED BY <1>4, <1>5, <1>6 DEF Places, TagAt

\* drain as a whole: the splitter it returns is in step with any text that the pending one was.
LEMMA DrainStands ==
  ASSUME NEW text \in Seq(Symbols), NEW i, NEW s \in Split, NEW ps \in Seq(Parts),
         Stands(text, i, s, ps), NEW fl \in BOOLEAN, fl => i + Len(s.pending) = Len(text)
  PROVE  \E k \in Nat : /\ k + Len(drain(s, fl).split.pending) = i + Len(s.pending)
                        /\ Stands(text, k, drain(s, fl).split, ps \o drain(s, fl).parts)
<1> DEFINE d == Rounds(s)[Len(s.pending)]
<1>1. d \in Drains /\ NoTagIn(d)
  <2>1. Len(s.pending) \in 0..Len(s.pending)
    BY RoundsIs
  <2> QED BY <2>1, RoundsIs, NoTagLeft
<1>2. PICK k \in Nat : /\ k + Len(d.split.pending) = i + Len(s.pending)
                       /\ Stands(text, k, d.split, ps \o d.parts)
  BY RoundsStand
<1>3. drain(s, fl) = TellRest(d, fl)
  BY DEF drain
<1> HIDE DEF d
<1>4. ASSUME NEW n \in 0..Len(d.split.pending), drain(s, fl) = Tell(d, n),
             \A j \in 1..n : ~ TagAt(text, k + j, tag(d.split))
      PROVE  \E m \in Nat : /\ m + Len(drain(s, fl).split.pending) = i + Len(s.pending)
                            /\ Stands(text, m, drain(s, fl).split, ps \o drain(s, fl).parts)
  <2>1. /\ k + n \in Nat
        /\ k + n + Len(Tell(d, n).split.pending) = k + Len(d.split.pending)
        /\ Stands(text, k + n, Tell(d, n).split, ps \o Tell(d, n).parts)
    BY <1>1, <1>2, <1>4, Told
  <2> QED BY <1>2, <1>4, <2>1
<1> DEFINE n == Len(d.split.pending)
           m == n - Kept(d)
<1>5. /\ n \in Nat /\ Kept(d) \in 0..n
      /\ TellRest(d, TRUE) = Tell(d, n) /\ TellRest(d, FALSE) = Tell(d, m)
  BY <1>1, TellIs
<1>6. CASE fl
  <2>1. drain(s, fl) = Tell(d, n) /\ n \in 0..n
    <3>1. fl = TRUE
      BY <1>6
    <3>2. n \in 0..n
      BY <1>5
    <3> HIDE DEF n, m
    <3> QED BY <3>2, <1>3, <1>5, <3>1
  <2>2. \A j \in 1..n : ~ TagAt(text, k + j, tag(d.split))
    BY <1>1, <1>2, <1>6, NoneLeft
  <2> QED BY <1>4, <2>1, <2>2
<1>7. CASE ~ fl
  <2>1. drain(s, fl) = Tell(d, m) /\ m \in 0..n
    <3>1. fl = FALSE
      BY <1>7
    <3>2. m \in 0..n
      <4> HIDE DEF n
      <4> QED BY <1>5
    <3> HIDE DEF n, m
    <3> QED BY <3>2, <1>3, <1>5, <3>1
  <2>2. \A j \in 1..m : ~ TagAt(text, k + j, tag(d.split))
    BY <1>1, <1>2, NoneTold
  <2> QED BY <1>4, <2>1, <2>2
<1> QED BY <1>6, <1>7

-----------------------------------------------------------------------------
(* The specification *)

\* What a text has said is never taken back by what follows.
Extends(q, r) == Len(q) <= Len(r) /\ \A j \in 1..Len(q) : q[j] = r[j]

LEMMA ReadSymbolExtends ==
  ASSUME NEW text \in Seq(Symbols), NEW i \in 1..Len(text), NEW at \in At
  PROVE  Extends(at.said, ReadSymbol(text, i, at).said)
<1> DEFINE q == at.said
           e == [reasoning |-> at.inThink, symbol |-> text[i]]
           r == Append(q, e)
           l == Len(tag(at)) - 1
           m == at.skip - 1
<1>1. q \in Seq(Said)
  BY DEF At
<1>2. e \in Said
  BY DEF At, Said
<1>3. Extends(q, q)
  BY <1>1 DEF Extends
<1>4. Extends(q, r)
  <2> HIDE DEF e, q
  <2> QED BY <1>1, <1>2 DEF Extends
<1>5. \/ ReadSymbol(text, i, at) = [at EXCEPT !.skip = m]
      \/ ReadSymbol(text, i, at) = [inThink |-> ~ at.inThink, skip |-> l, said |-> q]
      \/ ReadSymbol(text, i, at) = [at EXCEPT !.said = r]
  <2> HIDE DEF e, q, l
  <2> QED BY DEF ReadSymbol, q, e, l
<1>6. at = [inThink |-> at.inThink, skip |-> at.skip, said |-> at.said]
  BY DEF At
<1> HIDE DEF m, l, r
<1>7. [at EXCEPT !.skip = m].said = q
  BY DEF At
<1>8. [at EXCEPT !.said = r].said = r
  BY <1>6
<1>9. [inThink |-> ~ at.inThink, skip |-> l, said |-> q].said = q
  <2> DEFINE c == ~ at.inThink
  <2> HIDE DEF c, q
  <2>1. [inThink |-> c, skip |-> l, said |-> q].said = q
    OBVIOUS
  <2> QED BY <2>1 DEF c
<1> DEFINE new == ReadSymbol(text, i, at)
<1>10. new.said = q \/ new.said = r
  BY <1>5, <1>7, <1>8, <1>9
<1> HIDE DEF new, q
<1> QED BY <1>3, <1>4, <1>10 DEF new, q

LEMMA SaidGrows ==
  ASSUME NEW text \in Seq(Symbols), NEW i \in 0..Len(text)
  PROVE  IsPrefix(Reading(text)[i].said, Reference(text))
<1> DEFINE n == Len(text)
           q == Reading(text)[i].said
           S == {k \in 0..(n - i) : Extends(q, Reading(text)[i + k].said)}
<1>1. /\ n \in Nat /\ i \in Nat /\ i <= n
      /\ Reading(text) \in [0..n -> At]
      /\ \A k \in 1..n : Reading(text)[k] = ReadSymbol(text, k, Reading(text)[k - 1])
  <2>1. n \in Nat
    OBVIOUS
  <2> QED BY <2>1, ReadingIs
<1>2. \A k \in 0..n : Reading(text)[k] \in At /\ Reading(text)[k].said \in Seq(Said)
  <2>1. \A k \in 0..n : Reading(text)[k] \in At
    BY <1>1
  <2> QED BY <2>1 DEF At
<1>3. 0 \in S
  <2>1. q \in Seq(Said) /\ i + 0 = i /\ 0 \in 0..(n - i)
    BY <1>1, <1>2
  <2> QED BY <2>1 DEF Extends
<1>4. ASSUME NEW k \in 0..((n - i) - 1), k \in S PROVE k + 1 \in S
  <2> DEFINE a == Reading(text)[i + k].said
             b == Reading(text)[i + (k + 1)].said
  <2>1. i + (k + 1) \in 1..n /\ (i + (k + 1)) - 1 = i + k /\ i + k \in 0..n /\ k + 1 \in 0..(n - i)
    BY <1>1
  <2>2. Reading(text)[i + (k + 1)] = ReadSymbol(text, i + (k + 1), Reading(text)[i + k])
    BY <1>1, <2>1
  <2>3. Extends(a, b)
    <3>1. Reading(text)[i + k] \in At
      BY <1>2, <2>1
    <3> QED BY <2>1, <2>2, <3>1, ReadSymbolExtends
  <2>4. Extends(q, a)
    BY <1>4
  <2>5. q \in Seq(Said) /\ a \in Seq(Said) /\ b \in Seq(Said)
    <3>1. i + (k + 1) \in 0..n
      BY <2>1
    <3> QED BY <1>1, <1>2, <2>1, <3>1
  <2> HIDE DEF q, a, b
  <2>6. Extends(q, b)
    BY <2>3, <2>4, <2>5 DEF Extends
  <2> QED BY <2>1, <2>6 DEF q, b
<1>5. \A k \in 0..(n - i) : k \in S
  <2>1. n - i \in Nat
    BY <1>1
  <2> DEFINE m == n - i
  <2>2. 0 \in S /\ \A k \in 0..(m - 1) : k \in S => k + 1 \in S
    BY <1>3, <1>4
  <2> HIDE DEF S, m
  <2> QED BY <2>1, <2>2, Upwards DEF m
<1>6. Extends(q, Reading(text)[n].said)
  <2>1. n - i \in 0..(n - i) /\ i + (n - i) = n
    BY <1>1
  <2> QED BY <1>5, <2>1
<1> DEFINE r == Reading(text)[n].said
<1>7. q \in Seq(Said) /\ r \in Seq(Said)
  BY <1>1, <1>2
<1> HIDE DEF q, r
<1>8. IsPrefix(q, r)
  <2> DEFINE k == Len(q)
             x == SubSeq(q, 1, k)
             y == SubSeq(r, 1, k)
  <2>1. k \in Nat /\ k <= Len(r) /\ \A j \in 1..k : q[j] = r[j]
    BY <1>6, <1>7 DEF Extends, r
  <2>2. /\ x \in Seq(Said) /\ Len(x) = k /\ \A j \in 1..k : x[j] = q[j]
        /\ y \in Seq(Said) /\ Len(y) = k /\ \A j \in 1..k : y[j] = r[j]
    BY <1>7, <2>1
  <2> HIDE DEF x, y, k
  <2>3. x = y
    <3>1. \A j \in 1..Len(x) : x[j] = y[j]
      BY <2>1, <2>2
    <3> QED BY <2>2, <3>1, SeqEqual
  <2> QED BY <2>1, <2>3 DEF IsPrefix, x, y, k
<1> QED BY <1>8 DEF Reference, q, r

\* A chunk that follows in the text may be put behind what is pending.
LEMMA Pend ==
  ASSUME NEW s \in Split, NEW chunk \in Seq(Symbols)
  PROVE  LET t == [s EXCEPT !.pending = @ \o chunk] IN
         /\ t \in Split /\ t.inThink = s.inThink /\ t.pending = s.pending \o chunk
<1> DEFINE u == s.pending \o chunk
<1>1. u \in Seq(Symbols)
  <2>1. s.pending \in Seq(Symbols)
    BY DEF Split
  <2> QED BY <2>1, ConcatProperties
<1> HIDE DEF u
<1>2. LET t == [s EXCEPT !.pending = u] IN t \in Split /\ t.inThink = s.inThink /\ t.pending = u
  BY <1>1 DEF Split
<1> QED BY <1>2 DEF u

LEMMA PendStands ==
  ASSUME NEW text \in Seq(Symbols), NEW i, NEW s \in Split, NEW ps \in Seq(Parts),
         NEW chunk \in Seq(Symbols), Stands(text, i, s, ps),
         Follows(text, i + Len(s.pending), chunk)
  PROVE  Stands(text, i, [s EXCEPT !.pending = @ \o chunk], ps)
<1> DEFINE t == [s EXCEPT !.pending = @ \o chunk]
           u == s.pending
           v == t.pending
<1>1. t \in Split /\ t.inThink = s.inThink /\ v = u \o chunk
  BY Pend
<1>2. u \in Seq(Symbols)
  BY DEF Split
<1>3. /\ i \in Nat /\ i + Len(u) <= Len(text)
      /\ \A j \in 1..Len(u) : text[i + j] = u[j]
      /\ Reading(text)[i] = Standing(s.inThink, Spelled(ps))
  BY DEF Stands, Follows
<1>4. /\ i + Len(u) + Len(chunk) <= Len(text)
      /\ \A j \in 1..Len(chunk) : text[i + Len(u) + j] = chunk[j]
  BY DEF Follows
<1> HIDE DEF t, u, v
<1>5. /\ Len(v) = Len(u) + Len(chunk) /\ Len(u) \in Nat /\ Len(chunk) \in Nat
      /\ \A j \in 1..(Len(u) + Len(chunk)) : v[j] = IF j <= Len(u) THEN u[j] ELSE chunk[j - Len(u)]
  BY <1>1, <1>2, ConcatProperties, LenProperties
<1>6. ASSUME NEW j \in 1..Len(v) PROVE text[i + j] = v[j]
  <2>1. CASE j <= Len(u)
    <3>1. j \in 1..Len(u) /\ j \in 1..(Len(u) + Len(chunk))
      BY <1>5, <2>1
    <3>2. v[j] = u[j]
      BY <1>5, <2>1, <3>1
    <3> QED BY <1>3, <3>1, <3>2
  <2>2. CASE ~ (j <= Len(u))
    <3>1. j - Len(u) \in 1..Len(chunk) /\ i + Len(u) + (j - Len(u)) = i + j
      BY <1>3, <1>5, <2>2
    <3>2. text[i + Len(u) + (j - Len(u))] = chunk[j - Len(u)]
      BY <1>4, <3>1
    <3> QED BY <1>5, <2>2, <3>1, <3>2
  <2> QED BY <2>1, <2>2
<1>7. Follows(text, i, v)
  <2>1. i + Len(v) <= Len(text)
    BY <1>3, <1>4, <1>5
  <2> QED BY <1>6, <2>1 DEF Follows
<1>8. Stands(text, i, t, ps)
  BY <1>1, <1>3, <1>7 DEF Stands, v
<1> QED BY <1>8 DEF t

\* The text so far, and whatever may still follow it.
LEMMA Continued ==
  ASSUME NEW t \in Seq(Symbols), NEW e \in Seq(Symbols)
  PROVE  /\ t \o e \in Seq(Symbols) /\ Len(t) \in Nat
         /\ Len(t \o e) = Len(t) + Len(e)
         /\ Follows(t \o e, Len(t), e) /\ Follows(t \o e, 0, t)
<1> DEFINE w == t \o e
<1>1. /\ w \in Seq(Symbols) /\ Len(w) = Len(t) + Len(e) /\ Len(t) \in Nat /\ Len(e) \in Nat
      /\ \A i \in 1..(Len(t) + Len(e)) : w[i] = IF i <= Len(t) THEN t[i] ELSE e[i - Len(t)]
  BY ConcatProperties, LenProperties
<1> HIDE DEF w
<1>2. ASSUME NEW j \in 1..Len(e) PROVE w[Len(t) + j] = e[j]
  <2>1. Len(t) + j \in 1..(Len(t) + Len(e)) /\ ~ (Len(t) + j <= Len(t)) /\ (Len(t) + j) - Len(t) = j
    BY <1>1
  <2> QED BY <1>1, <2>1
<1>3. ASSUME NEW j \in 1..Len(t) PROVE w[0 + j] = t[j]
  <2>1. 0 + j = j /\ j \in 1..(Len(t) + Len(e)) /\ j <= Len(t)
    BY <1>1
  <2> QED BY <1>1, <2>1
<1>4. Follows(w, Len(t), e) /\ Follows(w, 0, t)
  BY <1>1, <1>2, <1>3 DEF Follows
<1> QED BY <1>1, <1>4 DEF w

\* The parts told so far spell the text up to what is pending, whatever may follow it: this
\* is why a chunk can be cut anywhere.
InStep(f, s, ps) ==
    \A e \in Seq(Symbols) : Stands(f \o e, Len(f) - Len(s.pending), s, ps)

TypeInv ==
    /\ fed \in Seq(Symbols) /\ split \in Split /\ parts \in Seq(Parts) /\ flushed \in BOOLEAN
    /\ Len(split.pending) <= Len(fed)

Follow ==
    /\ flushed => Spelled(parts) = Reference(fed)
    /\ ~ flushed => InStep(fed, split, parts)

Inv == TypeInv /\ Follow /\ OnlyTagsWait

LEMMA InitInv == Init => Inv
<1> SUFFICES ASSUME Init PROVE Inv
  OBVIOUS
<1>1. fed = <<>> /\ split = [inThink |-> FALSE, pending |-> <<>>] /\ parts = <<>> /\ flushed = FALSE
  BY DEF Init, newThinkSplitter
<1> DEFINE s == [inThink |-> FALSE, pending |-> <<>>]
<1>2. s \in Split /\ s.pending = <<>> /\ s.inThink = FALSE /\ Len(s.pending) = 0
  BY DEF Split
<1> HIDE DEF s
<1>3. <<>> \in Seq(Symbols) /\ <<>> \in Seq(Parts) /\ Len(<<>>) = 0
  OBVIOUS
<1>4. TypeInv
  <2>1. split = s /\ Len(fed) = 0 /\ fed \in Seq(Symbols) /\ parts \in Seq(Parts)
    BY <1>1, <1>3 DEF s
  <2>2. Len(split.pending) = 0
    BY <1>2, <2>1
  <2>3. split \in Split
    BY <1>2, <2>1
  <2>4. flushed \in BOOLEAN
    BY <1>1
  <2>5. Len(split.pending) <= Len(fed)
    BY <2>1, <2>2
  <2> QED BY <2>1, <2>3, <2>4, <2>5 DEF TypeInv
<1>5. ASSUME NEW e \in Seq(Symbols)
      PROVE  Stands(<<>> \o e, 0, s, <<>>)
  <2>1. <<>> \o e = e /\ Len(e) \in Nat
    BY ConcatEmptySeq
  <2>2. Reading(e)[0] = Standing(FALSE, <<>>)
    BY ReadingIs DEF Standing
  <2>3. Follows(e, 0, s.pending)
    BY <1>2, <2>1 DEF Follows
  <2> QED BY <1>2, <2>1, <2>2, <2>3, SpelledNone DEF Stands
<1>6. Follow
  <2>1. InStep(<<>>, s, <<>>)
    BY <1>2, <1>3, <1>5 DEF InStep
  <2> QED BY <1>1, <2>1 DEF Follow, s
<1>7. OnlyTagsWait
  <2> DEFINE tg == tag(split)
  <2>1. tg \in Seq(Symbols) /\ Len(tg) > 0
    BY TagType
  <2> HIDE DEF tg
  <2>2. SubSeq(<<>>, 1, 0) = <<>> /\ SubSeq(tg, 1, 0) = <<>>
    BY SubSeqEmpty
  <2>3. IsPrefix(<<>>, tg) /\ <<>> # tg
    BY <1>3, <2>1, <2>2 DEF IsPrefix
  <2>4. split.pending = <<>>
    BY <1>1
  <2> QED BY <1>1, <2>3, <2>4 DEF OnlyTagsWait, tg
<1> QED BY <1>4, <1>6, <1>7 DEF Inv

\* feed, for one continuation of the text.
LEMMA FeedStands ==
  ASSUME NEW text \in Seq(Symbols), NEW i, NEW s \in Split, NEW ps \in Seq(Parts),
         NEW chunk \in Seq(Symbols), Stands(text, i, s, ps),
         Follows(text, i + Len(s.pending), chunk)
  PROVE  \E k \in Nat :
           /\ k + Len(feed(s, chunk).split.pending) = i + Len(s.pending) + Len(chunk)
           /\ Stands(text, k, feed(s, chunk).split, ps \o feed(s, chunk).parts)
<1> DEFINE t == [s EXCEPT !.pending = @ \o chunk]
<1>1. t \in Split /\ t.pending = s.pending \o chunk
  BY Pend
<1>2. Stands(text, i, t, ps)
  BY PendStands
<1>3. feed(s, chunk) = drain(t, FALSE)
  BY DEF feed
<1> HIDE DEF t
<1>4. PICK k \in Nat : /\ k + Len(drain(t, FALSE).split.pending) = i + Len(t.pending)
                       /\ Stands(text, k, drain(t, FALSE).split, ps \o drain(t, FALSE).parts)
  BY <1>1, <1>2, DrainStands
<1>5. /\ Len(t.pending) = Len(s.pending) + Len(chunk)
      /\ Len(s.pending) \in Nat /\ Len(chunk) \in Nat /\ i \in Nat
  <2>1. s.pending \in Seq(Symbols)
    BY DEF Split
  <2> QED BY <1>1, <2>1, ConcatProperties, LenProperties DEF Stands
<1>6. i + Len(t.pending) = i + Len(s.pending) + Len(chunk)
  BY <1>5
<1> QED BY <1>3, <1>4, <1>6

LEMMA FeedInv == ASSUME NEW chunk \in Seq(Symbols), Inv, Feed(chunk) PROVE Inv'
<1> DEFINE d == feed(split, chunk)
           t == [split EXCEPT !.pending = @ \o chunk]
<1>1. /\ fed \in Seq(Symbols) /\ split \in Split /\ parts \in Seq(Parts)
      /\ Len(split.pending) <= Len(fed)
  BY DEF Inv, TypeInv
<1>2. /\ flushed = FALSE /\ flushed' = FALSE /\ fed' = fed \o chunk /\ split' = d.split
      /\ parts' = parts \o d.parts
  BY DEF Feed, Inv, TypeInv
<1>3. t \in Split /\ d = drain(t, FALSE)
  <2>1. t \in Split
    BY <1>1, Pend
  <2> QED BY <2>1 DEF feed
<1> HIDE DEF t
<1>4. d \in Drains
  BY <1>3, DrainType
<1>5. IsPrefix(d.split.pending, tag(d.split)) /\ d.split.pending # tag(d.split)
  BY <1>3, DrainWaits
<1> HIDE DEF d
<1>6. d.split \in Split /\ d.split.pending \in Seq(Symbols) /\ parts \o d.parts \in Seq(Parts)
  <2> DEFINE q == d.parts
  <2>1. q \in Seq(Parts) /\ d.split \in Split
    BY <1>4 DEF Drains
  <2>2. parts \o q \in Seq(Parts)
    <3> HIDE DEF q
    <3> QED BY <1>1, <2>1, ConcatProperties
  <2> QED BY <2>1, <2>2 DEF Split
<1>7. ASSUME NEW e \in Seq(Symbols)
      PROVE  /\ Stands((fed \o chunk) \o e, Len(fed \o chunk) - Len(d.split.pending), d.split,
                       parts \o d.parts)
             /\ Len(d.split.pending) <= Len(fed \o chunk)
  <2> DEFINE text == (fed \o chunk) \o e
             i == Len(fed) - Len(split.pending)
             w == chunk \o e
  <2>1. fed \o chunk \in Seq(Symbols) /\ Len(fed \o chunk) = Len(fed) + Len(chunk)
    BY <1>1, ConcatProperties
  <2>2. text = fed \o w /\ w \in Seq(Symbols) /\ text \in Seq(Symbols)
    <3>1. w \in Seq(Symbols)
      BY ConcatProperties
    <3>2. text = fed \o w
      BY <1>1, ConcatAssociative
    <3>3. fed \o w \in Seq(Symbols)
      <4> HIDE DEF w
      <4> QED BY <1>1, <3>1, ConcatProperties
    <3> QED BY <3>1, <3>2, <3>3
  <2>3. Stands(text, i, split, parts)
    <3>1. InStep(fed, split, parts)
      BY <1>2 DEF Inv, Follow
    <3>2. Stands(fed \o w, i, split, parts)
      BY <2>2, <3>1 DEF InStep
    <3> QED BY <2>2, <3>2
  <2>4. /\ Len(fed) \in Nat /\ Len(chunk) \in Nat /\ Len(split.pending) \in Nat
        /\ Len(d.split.pending) \in Nat
    <3>1. split.pending \in Seq(Symbols)
      BY <1>1 DEF Split
    <3> QED BY <1>1, <1>6, <3>1, LenProperties
  <2>5. Follows(text, i + Len(split.pending), chunk)
    <3>1. Follows(fed \o w, Len(fed), w) /\ Follows(w, 0, chunk)
      BY <1>1, <2>2, Continued
    <3>2. i + Len(split.pending) = Len(fed)
      BY <2>4
    <3>3. Len(fed \o w) \in Nat /\ Len(w) \in Nat
      BY <2>2, LenProperties
    <3>4. Follows(fed \o w, Len(fed), chunk)
      <4> HIDE DEF w
      <4>1. \A j \in 1..Len(chunk) : j \in 1..Len(w) /\ 0 + j = j
        BY <2>4, <3>1, <3>3 DEF Follows
      <4>2. \A j \in 1..Len(chunk) : w[j] = chunk[j]
        BY <3>1, <4>1 DEF Follows
      <4>3. \A j \in 1..Len(chunk) : (fed \o w)[Len(fed) + j] = w[j]
        BY <3>1, <4>1 DEF Follows
      <4>4. Len(fed) + Len(chunk) <= Len(fed \o w)
        BY <2>4, <3>1, <3>3 DEF Follows
      <4> QED BY <4>2, <4>3, <4>4 DEF Follows
    <3> QED BY <2>2, <3>2, <3>4
  <2> DEFINE l == Len(d.split.pending)
             m == Len(split.pending)
  <2>6. PICK k \in Nat : /\ k + l = i + m + Len(chunk)
                         /\ Stands(text, k, d.split, parts \o d.parts)
    <3> HIDE DEF text, i
    <3> QED BY <1>1, <2>2, <2>3, <2>5, FeedStands DEF d
  <2>7. k = Len(fed \o chunk) - l /\ l <= Len(fed \o chunk)
    <3>1. k + l = Len(fed) + Len(chunk)
      <4> HIDE DEF l
      <4> QED BY <2>4, <2>6
    <3>2. l \in Nat
      BY <2>4
    <3> HIDE DEF l
    <3> QED BY <2>1, <2>4, <3>1, <3>2
  <2> QED BY <2>6, <2>7
<1>8. Len(d.split.pending) <= Len(fed \o chunk)
  <2>1. <<>> \in Seq(Symbols)
    OBVIOUS
  <2> QED BY <1>7, <2>1
<1>9. InStep(fed \o chunk, d.split, parts \o d.parts)
  BY <1>7 DEF InStep
<1>10. TypeInv'
  <2>1. fed \o chunk \in Seq(Symbols)
    BY <1>1, ConcatProperties
  <2> QED BY <1>2, <1>6, <1>8, <2>1 DEF TypeInv
<1>11. Follow'
  BY <1>2, <1>9 DEF Follow, InStep
<1>12. OnlyTagsWait'
  BY <1>2, <1>5 DEF OnlyTagsWait, tag
<1> QED BY <1>10, <1>11, <1>12 DEF Inv

LEMMA FlushInv == ASSUME Inv, Flush PROVE Inv'
<1> DEFINE d == flush(split)
<1>1. /\ fed \in Seq(Symbols) /\ split \in Split /\ parts \in Seq(Parts)
      /\ Len(split.pending) <= Len(fed)
  BY DEF Inv, TypeInv
<1>2. /\ flushed = FALSE /\ flushed' = TRUE /\ fed' = fed /\ split' = d.split
      /\ parts' = parts \o d.parts
  BY DEF Flush, Inv, TypeInv
<1>3. d = drain(split, TRUE)
  BY DEF flush
<1> HIDE DEF d
<1>4. d \in Drains /\ d.split.pending = <<>>
  BY <1>1, <1>3, DrainType, DrainWaits
<1>5. d.split \in Split /\ parts \o d.parts \in Seq(Parts)
  <2> DEFINE q == d.parts
  <2>1. q \in Seq(Parts) /\ d.split \in Split
    BY <1>4 DEF Drains
  <2>2. parts \o q \in Seq(Parts)
    <3> HIDE DEF q
    <3> QED BY <1>1, <2>1, ConcatProperties
  <2> QED BY <2>1, <2>2
<1>6. Len(d.split.pending) = 0 /\ Len(fed) \in Nat
  BY <1>1, <1>4, LenProperties
<1>7. Spelled(parts \o d.parts) = Reference(fed)
  <2> DEFINE i == Len(fed) - Len(split.pending)
  <2>1. Stands(fed, i, split, parts)
    <3>1. InStep(fed, split, parts)
      BY <1>2 DEF Inv, Follow
    <3>2. <<>> \in Seq(Symbols) /\ fed \o <<>> = fed
      BY <1>1, ConcatEmptySeq
    <3>3. Stands(fed \o <<>>, i, split, parts)
      BY <3>1, <3>2 DEF InStep
    <3> QED BY <3>2, <3>3
  <2>2. i + Len(split.pending) = Len(fed)
    <3>1. split.pending \in Seq(Symbols)
      BY <1>1 DEF Split
    <3>2. Len(split.pending) \in Nat
      BY <3>1, LenProperties
    <3> QED BY <1>6, <3>2
  <2> HIDE DEF i
  <2>3. PICK k \in Nat : /\ k + Len(d.split.pending) = i + Len(split.pending)
                         /\ Stands(fed, k, d.split, parts \o d.parts)
    BY <1>1, <1>3, <2>1, <2>2, DrainStands
  <2>4. k = Len(fed)
    BY <1>6, <2>2, <2>3
  <2>5. Reading(fed)[Len(fed)] = Standing(d.split.inThink, Spelled(parts \o d.parts))
    BY <2>3, <2>4 DEF Stands
  <2> DEFINE q == Spelled(parts \o d.parts)
             b == d.split.inThink
  <2>6. Standing(b, q).said = q
    <3> HIDE DEF q, b
    <3> QED BY DEF Standing
  <2> QED BY <2>5, <2>6 DEF Reference
<1>8. TypeInv'
  BY <1>1, <1>2, <1>5, <1>6 DEF TypeInv
<1>9. Follow'
  <2>1. (Spelled(parts) = Reference(fed))' <=> Spelled(parts') = Reference(fed')
    BY DEF Spelled, Spelling, Reference, Reading
  <2> QED BY <1>2, <1>7, <2>1 DEF Follow
<1>10. OnlyTagsWait'
  <2> DEFINE tg == tag(d.split)
  <2>1. tg \in Seq(Symbols) /\ Len(tg) > 0
    BY TagType
  <2> HIDE DEF tg
  <2>2. SubSeq(<<>>, 1, 0) = <<>> /\ SubSeq(tg, 1, 0) = <<>>
    BY SubSeqEmpty
  <2>3. IsPrefix(<<>>, tg) /\ <<>> # tg
    <3>1. Len(<<>>) = 0
      OBVIOUS
    <3> QED BY <2>1, <2>2, <3>1 DEF IsPrefix
  <2> QED BY <1>2, <1>4, <2>3 DEF OnlyTagsWait, tag, tg
<1> QED BY <1>8, <1>9, <1>10 DEF Inv

LEMMA NextInv == Inv /\ [Next]_vars => Inv'
<1> SUFFICES ASSUME Inv, [Next]_vars PROVE Inv'
  OBVIOUS
<1>1. CASE Flush
  BY <1>1, FlushInv
<1>2. ASSUME NEW chunk \in SeqOf(Symbols, MaxChunk) \ {<<>>}, Feed(chunk) PROVE Inv'
  <2>1. chunk \in Seq(Symbols)
    BY ChunkAssumption DEF SeqOf, ChunkAssumption
  <2> QED BY <1>2, <2>1, FeedInv
<1>3. CASE UNCHANGED vars
  BY <1>3 DEF vars, Inv, TypeInv, Follow, OnlyTagsWait, InStep
<1> QED BY <1>1, <1>2, <1>3 DEF Next

\* However a provider cuts the content into chunks, and whatever the two tags are: the parts
\* that thinkSplitter has told are a beginning of what the uncut content means, and all of it
\* once it is flushed at the end of a step.
THEOREM ChunksDoNotMatter == Spec => []ChunkingIrrelevant
<1>1. Inv => ChunkingIrrelevant
  <2> SUFFICES ASSUME Inv PROVE ChunkingIrrelevant
    OBVIOUS
  <2>1. /\ fed \in Seq(Symbols) /\ split \in Split /\ parts \in Seq(Parts) /\ flushed \in BOOLEAN
        /\ Len(split.pending) <= Len(fed)
    BY DEF Inv, TypeInv
  <2>2. CASE flushed
    <3>1. Spelled(parts) = Reference(fed)
      BY <2>2 DEF Inv, Follow
    <3>2. Reference(fed) \in Seq(Said)
      <4>1. Spelled(parts) \in Seq(Said)
        BY <2>1, SpelledType
      <4> QED BY <3>1, <4>1
    <3>3. IsPrefix(Reference(fed), Reference(fed))
      <4> DEFINE q == Reference(fed)
      <4> HIDE DEF q
      <4>1. Len(q) \in Nat
        BY <3>2 DEF q
      <4> QED BY <4>1 DEF IsPrefix, q
    <3> QED BY <3>1, <3>3 DEF ChunkingIrrelevant
  <2>3. CASE ~ flushed
    <3> DEFINE i == Len(fed) - Len(split.pending)
               q == Spelled(parts)
               b == split.inThink
    <3>1. Reading(fed)[i] = Standing(b, q)
      <4>1. <<>> \in Seq(Symbols) /\ fed \o <<>> = fed
        BY <2>1, ConcatEmptySeq
      <4>2. Stands(fed \o <<>>, i, split, parts)
        BY <2>3, <4>1 DEF Inv, Follow, InStep
      <4> QED BY <4>1, <4>2 DEF Stands
    <3>2. i \in 0..Len(fed)
      <4>1. split.pending \in Seq(Symbols)
        BY <2>1 DEF Split
      <4>2. Len(split.pending) \in Nat /\ Len(fed) \in Nat
        BY <2>1, <4>1, LenProperties
      <4> QED BY <2>1, <4>2
    <3> HIDE DEF i, q, b
    <3>3. Standing(b, q).said = q
      BY DEF Standing
    <3>4. IsPrefix(q, Reference(fed))
      BY <2>1, <3>1, <3>2, <3>3, SaidGrows
    <3> QED BY <2>3, <3>4 DEF ChunkingIrrelevant, q
  <2> QED BY <2>2, <2>3
<1> QED BY InitInv, NextInv, <1>1, PTL DEF Spec

\* What thinkSplitter holds back is a proper beginning of the tag it looks for, and nothing
\* once it is flushed: no plain text and no whole tag ever waits for another chunk.
THEOREM OnlyPiecesOfTagsWait == Spec => []OnlyTagsWait
<1>1. Inv => OnlyTagsWait
  BY DEF Inv
<1> QED BY InitInv, NextInv, <1>1, PTL DEF Spec

=============================================================================
