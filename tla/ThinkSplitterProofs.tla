------------------------ MODULE ThinkSplitterProofs -------------------------
(***************************************************************************)
(* Lemmas about thinkSplitter, for any two tags, and about the functions   *)
(* on 0..n that stand for its loops.                                       *)
(***************************************************************************)
EXTENDS ThinkSplitter, FiniteSetTheorems, SequenceTheorems, WellFoundedInduction, TLAPS

-----------------------------------------------------------------------------
(* Natural numbers and recursion *)


\* A non-empty set of natural numbers has a least element.
LEMMA Least == ASSUME NEW T, T \subseteq Nat, T # {} PROVE \E x \in T : \A y \in T : x <= y
<1> DEFINE R == StrictSubsetOrdering(Nat)
           U == {1..n : n \in T}
<1>1. U \subseteq FiniteSubsetsOf(Nat)
  <2> SUFFICES ASSUME NEW n \in T PROVE 1..n \in FiniteSubsetsOf(Nat)
    OBVIOUS
  <2>1. 1..n \in SUBSET Nat /\ IsFiniteSet(1..n)
    BY FS_Interval
  <2> QED BY <2>1 DEF FiniteSubsetsOf
<1>2. U # {}
  OBVIOUS
<1>3. IsWellFoundedOn(R, FiniteSubsetsOf(Nat))
  BY FS_StrictSubsetOrderingWellFounded
<1> HIDE DEF R, U
<1>4. PICK m \in U : \A k \in U : ~ (<<k, m>> \in R)
  BY <1>1, <1>2, <1>3, WFMin
<1>5. PICK x \in T : m = 1..x
  BY <1>4 DEF U
<1>6. ASSUME NEW y \in T, y < x PROVE FALSE
  <2>1. 1..y \in U
    BY DEF U
  <2>2. 1..y \subseteq 1..x /\ x \in 1..x /\ x \notin 1..y
    BY <1>6
  <2>3. 1..y \in SUBSET Nat /\ 1..x \in SUBSET Nat
    OBVIOUS
  <2>4. <<1..y, 1..x>> \in R
    BY <2>2, <2>3 DEF R, StrictSubsetOrdering
  <2> QED BY <1>4, <1>5, <2>1, <2>4
<1> QED BY <1>6

\* A set of natural numbers with 0 and all successors has all of them.
LEMMA NatInSet ==
  ASSUME NEW S, 0 \in S, \A n \in Nat : n \in S => n + 1 \in S PROVE Nat \subseteq S
<1> SUFFICES ASSUME ~ (Nat \subseteq S) PROVE FALSE
  OBVIOUS
<1> DEFINE T == Nat \ S
<1>1. PICK x \in T : \A y \in T : x <= y
  BY Least
<1>2. x # 0 /\ x - 1 \in Nat /\ x - 1 \notin T
  BY <1>1
<1> QED BY <1>1, <1>2

\* A non-empty set of numbers up to m has a greatest element.
LEMMA Greatest ==
  ASSUME NEW m \in Nat, NEW T \in SUBSET (0..m), T # {}
  PROVE  \E x \in T : \A y \in T : y <= x
<1> DEFINE U == {m - x : x \in T}
<1>1. U \subseteq Nat /\ U # {}
  <2>1. \A x \in T : m - x \in Nat
    OBVIOUS
  <2> QED BY <2>1
<1>2. PICK u \in U : \A v \in U : u <= v
  BY <1>1, Least
<1>3. PICK x \in T : u = m - x
  BY <1>2
<1>4. ASSUME NEW y \in T PROVE y <= x
  <2>1. m - y \in U
    OBVIOUS
  <2>2. u <= m - y
    BY <1>2, <2>1
  <2> QED BY <1>3, <2>2
<1> QED BY <1>4

\* A function on 0..n may be defined by its first value and the step to the next one.
Step(n, a, g, f) == f = [k \in 0..n |-> IF k = 0 THEN a ELSE g[k][f[k - 1]]]

LEMMA Recursion ==
  ASSUME NEW n \in Nat, NEW X, NEW a \in X, NEW g \in [1..n -> [X -> X]]
  PROVE  \E f \in [0..n -> X] : Step(n, a, g, f)
<1> DEFINE Upto(m, f) == f[0] = a /\ \A k \in 1..m : f[k] = g[k][f[k - 1]]
           N == {m \in Nat : m <= n => \E f \in [0..m -> X] : Upto(m, f)}
<1>1. 0 \in N
  <2>1. [k \in 0..0 |-> a] \in [0..0 -> X] /\ Upto(0, [k \in 0..0 |-> a])
    OBVIOUS
  <2> QED BY <2>1
<1>2. ASSUME NEW m \in Nat, m \in N PROVE m + 1 \in N
  <2>1. CASE m + 1 <= n
    <3>1. PICK f \in [0..m -> X] : Upto(m, f)
      BY <1>2, <2>1
    <3> DEFINE h == [k \in 0..(m + 1) |-> IF k = m + 1 THEN g[m + 1][f[m]] ELSE f[k]]
    <3>2. g[m + 1] \in [X -> X] /\ f[m] \in X
      BY <2>1
    <3>3. h \in [0..(m + 1) -> X]
      BY <3>2
    <3>4. h[m + 1] = g[m + 1][f[m]] /\ \A k \in 0..m : h[k] = f[k]
      OBVIOUS
    <3> HIDE DEF h
    <3>5. ASSUME NEW k \in 1..(m + 1) PROVE h[k] = g[k][h[k - 1]]
      <4>1. CASE k = m + 1
        BY <3>4, <4>1
      <4>2. CASE k \in 1..m
        <5>1. k \in 0..m /\ k - 1 \in 0..m
          BY <4>2
        <5> QED BY <3>1, <3>4, <4>2, <5>1
      <4> QED BY <4>1, <4>2
    <3>6. Upto(m + 1, h)
      BY <3>1, <3>4, <3>5
    <3> QED BY <3>3, <3>6
  <2> QED BY <2>1
<1>3. n \in N
  <2> HIDE DEF N
  <2> QED BY <1>1, <1>2, NatInSet
<1>4. PICK f \in [0..n -> X] : Upto(n, f)
  BY <1>3
<1>5. f = [k \in 0..n |-> IF k = 0 THEN a ELSE g[k][f[k - 1]]]
  <2>1. ASSUME NEW k \in 0..n PROVE f[k] = IF k = 0 THEN a ELSE g[k][f[k - 1]]
    BY <1>4
  <2> QED BY <2>1
<1> QED BY <1>4, <1>5 DEF Step

\* What holds at 0, and with k < n also at k + 1, holds up to n.
LEMMA Upwards ==
  ASSUME NEW n \in Nat, NEW S, 0 \in S, \A k \in 0..(n - 1) : k \in S => k + 1 \in S
  PROVE  \A k \in 0..n : k \in S
<1> DEFINE N == {k \in Nat : k <= n => k \in S}
<1>1. 0 \in N
  OBVIOUS
<1>2. ASSUME NEW k \in Nat, k \in N PROVE k + 1 \in N
  BY <1>2
<1>3. Nat \subseteq N
  <2> HIDE DEF N
  <2> QED BY <1>1, <1>2, NatInSet
<1> QED BY <1>3

-----------------------------------------------------------------------------
(* Types *)


Split  == [inThink : BOOLEAN, pending : Seq(Symbols)]
Parts  == [reasoning : BOOLEAN, text : Seq(Symbols)]
Drains == [split : Split, parts : Seq(Parts)]

LEMMA TagType == ASSUME NEW s PROVE tag(s) \in Seq(Symbols) /\ Len(tag(s)) \in Nat \ {0}
<1>1. ASSUME NEW tg \in Seq(Symbols) \ {<<>>} PROVE Len(tg) \in Nat \ {0}
  OBVIOUS
<1> QED BY <1>1, TagAssumption DEF tag, TagAssumption

-----------------------------------------------------------------------------
(* The loop of drain *)

\* The pieces of a splitter's text.
LEMMA PartIs ==
  ASSUME NEW s \in Split, NEW n \in 0..Len(s.pending)
  PROVE  /\ n = 0 => Part(s, n) = <<>>
         /\ n # 0 => Part(s, n) = <<[reasoning |-> s.inThink, text |-> SubSeq(s.pending, 1, n)]>>
         /\ [reasoning |-> s.inThink, text |-> SubSeq(s.pending, 1, n)] \in Parts
         /\ Part(s, n) \in Seq(Parts)
<1>1. s.pending \in Seq(Symbols) /\ s.inThink \in BOOLEAN /\ n \in Nat
  BY DEF Split
<1>2. SubSeq(s.pending, 1, n) \in Seq(Symbols)
  BY <1>1
<1>3. [reasoning |-> s.inThink, text |-> SubSeq(s.pending, 1, n)] \in Parts
  BY <1>1, <1>2 DEF Parts
<1> QED BY <1>3 DEF Part

LEMMA RestIs ==
  ASSUME NEW s \in Split, NEW n \in 0..Len(s.pending)
  PROVE  /\ Rest(s, n) \in Split /\ Rest(s, n).inThink = s.inThink
         /\ Len(s.pending) \in Nat
         /\ Len(Rest(s, n).pending) = Len(s.pending) - n
         /\ \A j \in 1..(Len(s.pending) - n) : Rest(s, n).pending[j] = s.pending[n + j]
<1> DEFINE m == Len(s.pending)
           rest == SubSeq(s.pending, n + 1, m)
<1>1. s.pending \in Seq(Symbols) /\ s.inThink \in BOOLEAN /\ n \in Nat /\ m \in Nat /\ n <= m
  BY DEF Split
<1>2. rest \in Seq(Symbols) /\ Len(rest) = m - n /\ \A j \in 1..(m - n) : rest[j] = s.pending[n + j]
  BY <1>1
<1> HIDE DEF rest
<1>3. Rest(s, n) = [s EXCEPT !.pending = rest]
  BY DEF Rest, rest
<1>4. Rest(s, n) \in Split /\ Rest(s, n).inThink = s.inThink /\ Rest(s, n).pending = rest
  BY <1>2, <1>3 DEF Split
<1> QED BY <1>1, <1>2, <1>4


\* The first place of a tag.
LEMMA FirstPlace ==
  ASSUME NEW text \in Seq(Symbols), NEW tg, Places(text, tg) # {}
  PROVE  LET i == Min(Places(text, tg)) IN
         /\ i \in 1..Len(text) /\ TagAt(text, i, tg)
         /\ \A j \in 1..(i - 1) : ~ TagAt(text, j, tg)
<1> DEFINE T == Places(text, tg)
           i == Min(T)
<1>1. T \subseteq Nat /\ T # {} /\ T \subseteq 1..Len(text)
  BY DEF Places
<1>2. \E x \in T : \A y \in T : x <= y
  <2> HIDE DEF T
  <2> QED BY <1>1, Least
<1>3. i \in T /\ \A y \in T : i <= y
  <2> HIDE DEF T
  <2> QED BY <1>2 DEF Min
<1>4. i \in 1..Len(text) /\ TagAt(text, i, tg)
  <2> HIDE DEF i
  <2> QED BY <1>3 DEF Places
<1>5. ASSUME NEW j \in 1..(i - 1), TagAt(text, j, tg) PROVE FALSE
  <2> HIDE DEF i
  <2>1. j \in 1..Len(text)
    BY <1>4
  <2>2. j \in T
    BY <1>5, <2>1 DEF Places
  <2> QED BY <1>3, <1>4, <2>2
<1> QED BY <1>4, <1>5

\* A round in which there is a tag.
LEMMA CutIs ==
  ASSUME NEW d \in Drains, Places(d.split.pending, tag(d.split)) # {}
  PROVE  LET s == d.split
             i == Min(Places(s.pending, tag(s)))
             c == CutTag(d)
         IN
         /\ c \in Drains /\ c.split.inThink = ~ s.inThink
         /\ c.parts = d.parts \o Part(s, i - 1)
         /\ i - 1 + Len(tag(s)) <= Len(s.pending)
         /\ Len(c.split.pending) = Len(s.pending) - (i - 1 + Len(tag(s)))
         /\ \A j \in 1..Len(c.split.pending) :
              c.split.pending[j] = s.pending[i - 1 + Len(tag(s)) + j]
<1> DEFINE s == d.split
           i == Min(Places(s.pending, tag(s)))
           c == CutTag(d)
           n == i - 1 + Len(tag(s))
           r == Rest(s, n)
<1>1. s \in Split /\ d.parts \in Seq(Parts) /\ s.pending \in Seq(Symbols) /\ s.inThink \in BOOLEAN
  BY DEF Drains, Split
<1>2. /\ i \in 1..Len(s.pending) /\ TagAt(s.pending, i, tag(s))
      /\ Len(tag(s)) \in Nat \ {0}
  <2>1. Places(s.pending, tag(s)) # {}
    OBVIOUS
  <2> HIDE DEF s
  <2>2. i \in 1..Len(s.pending) /\ TagAt(s.pending, i, tag(s))
    BY <1>1, <2>1, FirstPlace
  <2> QED BY <2>2, TagType
<1>3. n \in 0..Len(s.pending) /\ i - 1 \in 0..Len(s.pending)
  <2> HIDE DEF i, s
  <2> QED BY <1>1, <1>2 DEF TagAt
<1>4. /\ r \in Split /\ r.inThink = s.inThink
      /\ Len(r.pending) = Len(s.pending) - n
      /\ \A j \in 1..(Len(s.pending) - n) : r.pending[j] = s.pending[n + j]
  <2> HIDE DEF s, n
  <2> QED BY <1>1, <1>3, RestIs
<1>5. Part(s, i - 1) \in Seq(Parts)
  <2> HIDE DEF s, i
  <2> QED BY <1>1, <1>3, PartIs
<1>6. c = [split |-> [r EXCEPT !.inThink = ~ r.inThink], parts |-> d.parts \o Part(s, i - 1)]
  BY DEF CutTag
<1> DEFINE b == ~ r.inThink
           t == [r EXCEPT !.inThink = b]
           p == d.parts \o Part(s, i - 1)
<1>7. b \in BOOLEAN /\ b = ~ s.inThink
  BY <1>1, <1>4
<1>8. p \in Seq(Parts)
  <2> HIDE DEF s, i
  <2> QED BY <1>1, <1>5
<1>9. t \in Split /\ t.inThink = b /\ t.pending = r.pending
  <2> HIDE DEF b, r, s, n, i
  <2> QED BY <1>4, <1>7 DEF Split
<1>10. c = [split |-> t, parts |-> p]
  BY <1>6
<1> HIDE DEF t, p, b, c
<1>11. c \in Drains /\ c.split = t /\ c.parts = p
  BY <1>8, <1>9, <1>10 DEF Drains
<1> QED BY <1>3, <1>4, <1>7, <1>9, <1>11 DEF p, c

LEMMA CutType == ASSUME NEW d \in Drains PROVE CutTag(d) \in Drains
<1>1. CASE Places(d.split.pending, tag(d.split)) # {}
  BY <1>1, CutIs
<1>2. CASE Places(d.split.pending, tag(d.split)) = {}
  BY <1>2 DEF CutTag
<1> QED BY <1>1, <1>2

LEMMA RoundsIs ==
  ASSUME NEW s \in Split
  PROVE  /\ Len(s.pending) \in Nat
         /\ Rounds(s) \in [0..Len(s.pending) -> Drains]
         /\ Rounds(s)[0] = [split |-> s, parts |-> <<>>]
         /\ \A k \in 1..Len(s.pending) : Rounds(s)[k] = CutTag(Rounds(s)[k - 1])
<1> DEFINE n == Len(s.pending)
           a == [split |-> s, parts |-> <<>>]
           g == [k \in 1..n |-> [d \in Drains |-> CutTag(d)]]
           Loops(f) == f = [k \in 0..n |-> IF k = 0 THEN a ELSE CutTag(f[k - 1])]
<1>1. a \in Drains /\ n \in Nat
  BY DEF Drains, Split
<1>2. g \in [1..n -> [Drains -> Drains]]
  BY CutType
<1>3. PICK f \in [0..n -> Drains] : Step(n, a, g, f)
  <2> HIDE DEF n, a, g
  <2> QED BY <1>1, <1>2, Recursion
<1>4. Loops(f)
  <2>1. ASSUME NEW k \in 1..n PROVE g[k][f[k - 1]] = CutTag(f[k - 1])
    BY <1>1
  <2>2. f = [k \in 0..n |-> IF k = 0 THEN a ELSE g[k][f[k - 1]]]
    BY <1>3 DEF Step
  <2> HIDE DEF a, g, n
  <2>3. \A k \in 0..n : k # 0 => k \in 1..n
    BY <1>1
  <2> QED BY <2>1, <2>2, <2>3
<1>5. Loops(Rounds(s))
  <2>1. Loops(CHOOSE h : Loops(h))
    <3> HIDE DEF Loops
    <3> QED BY <1>4
  <2> QED BY <2>1 DEF Rounds
<1> HIDE DEF a
<1>6. /\ Rounds(s)[0] = a
      /\ \A k \in 1..n : Rounds(s)[k] = CutTag(Rounds(s)[k - 1])
      /\ Rounds(s) = [k \in 0..n |-> Rounds(s)[k]]
  BY <1>1, <1>5
<1> DEFINE S == {k \in 0..n : Rounds(s)[k] \in Drains}
<1>7. \A k \in 0..n : k \in S
  <2>1. 0 \in S
    BY <1>1, <1>6
  <2>2. ASSUME NEW k \in 0..(n - 1), k \in S PROVE k + 1 \in S
    <3>1. k + 1 \in 1..n /\ (k + 1) - 1 = k
      BY <1>1
    <3>2. Rounds(s)[k + 1] = CutTag(Rounds(s)[k])
      BY <1>6, <3>1
    <3> QED BY <2>2, <3>1, <3>2, CutType
  <2> HIDE DEF S, n
  <2> QED BY <1>1, <2>1, <2>2, Upwards
<1> QED BY <1>1, <1>6, <1>7 DEF a

\* The loop ends: after as many rounds as there were symbols no tag is left.
NoTagIn(d) == Places(d.split.pending, tag(d.split)) = {}

LEMMA NoTagLeft ==
  ASSUME NEW s \in Split PROVE NoTagIn(Rounds(s)[Len(s.pending)])
<1> DEFINE n == Len(s.pending)
           left(k) == Len(Rounds(s)[k].split.pending)
           S == {k \in 0..n : NoTagIn(Rounds(s)[k]) \/ left(k) <= n - k}
<1>1. /\ n \in Nat /\ Rounds(s) \in [0..n -> Drains]
      /\ Rounds(s)[0] = [split |-> s, parts |-> <<>>]
      /\ \A k \in 1..n : Rounds(s)[k] = CutTag(Rounds(s)[k - 1])
  BY RoundsIs
<1>2. 0 \in S
  <2>1. left(0) = n
    BY <1>1
  <2> QED BY <1>1, <2>1
<1>3. ASSUME NEW k \in 0..(n - 1), k \in S PROVE k + 1 \in S
  <2> DEFINE d == Rounds(s)[k]
             tg == tag(d.split)
             m == Len(d.split.pending)
  <2>1. k + 1 \in 1..n /\ (k + 1) - 1 = k /\ k \in 0..n /\ k + 1 \in 0..n
    BY <1>1
  <2>2. Rounds(s)[k + 1] = CutTag(d) /\ d \in Drains
    BY <1>1, <2>1
  <2>3. CASE NoTagIn(d)
    <3>1. Rounds(s)[k + 1] = d
      BY <2>2, <2>3 DEF CutTag, NoTagIn
    <3> QED BY <2>1, <2>3, <3>1
  <2>4. CASE ~ NoTagIn(d)
    <3>1. m <= n - k
      BY <1>3, <2>4
    <3> DEFINE i == Min(Places(d.split.pending, tg))
               l == Len(tg)
               c == CutTag(d)
    <3>2. Places(d.split.pending, tg) # {}
      BY <2>4 DEF NoTagIn
    <3>3. Len(c.split.pending) = m - (i - 1 + l)
      <4> HIDE DEF d
      <4> QED BY <2>2, <3>2, CutIs
    <3>4. d.split.pending \in Seq(Symbols) /\ m \in Nat
      BY <2>2 DEF Drains, Split
    <3>5. i \in 1..m
      <4> HIDE DEF d
      <4> QED BY <3>2, <3>4, FirstPlace
    <3>6. l \in Nat \ {0}
      BY TagType
    <3>7. left(k + 1) = m - (i - 1 + l)
      BY <2>2, <3>3
    <3> HIDE DEF c, l, i, m, n
    <3>8. left(k + 1) <= n - (k + 1)
      BY <1>1, <2>1, <3>1, <3>4, <3>5, <3>6, <3>7
    <3> QED BY <2>1, <3>8
  <2> QED BY <2>3, <2>4
<1>4. n \in S
  <2>1. n \in 0..n
    BY <1>1
  <2>2. \A k \in 0..n : k \in S
    <3> HIDE DEF S, n
    <3> QED BY <1>1, <1>2, <1>3, Upwards
  <2> QED BY <2>1, <2>2
<1>5. Rounds(s)[n] \in Drains
  BY <1>1
<1>6. CASE left(n) <= 0
  <2> DEFINE text == Rounds(s)[n].split.pending
             tg == tag(Rounds(s)[n].split)
  <2>1. text \in Seq(Symbols) /\ Len(text) <= 0
    BY <1>5, <1>6 DEF Drains, Split
  <2>2. Places(text, tg) = {}
    <3> HIDE DEF text, tg
    <3> QED BY <2>1 DEF Places
  <2> QED BY <2>2 DEF NoTagIn
<1>7. NoTagIn(Rounds(s)[n]) \/ left(n) <= n - n
  BY <1>4
<1> QED BY <1>1, <1>6, <1>7

-----------------------------------------------------------------------------
(* drain *)

\* What longestTagPrefixSuffix returns.
LEMMA Longest ==
  ASSUME NEW u \in Seq(Symbols), NEW tg \in Seq(Symbols), Len(tg) > 0
  PROVE  LET k == longestTagPrefixSuffix(u, tg) IN
         /\ k \in 0..(Len(tg) - 1) /\ k <= Len(u)
         /\ Agrees(u, Len(u) - k + 1, tg)
         /\ \A n \in 0..(Len(tg) - 1) :
              n <= Len(u) /\ Agrees(u, Len(u) - n + 1, tg) => n <= k
<1> DEFINE T == {n \in 0..(Len(tg) - 1) : n <= Len(u) /\ Agrees(u, Len(u) - n + 1, tg)}
           m == Len(tg) - 1
           k == Max(T)
<1>1. Len(u) \in Nat /\ m \in Nat
  OBVIOUS
<1>2. 0 \in T
  <2>1. Agrees(u, Len(u) - 0 + 1, tg)
    <3>1. \A j \in 1..Len(tg) : ~ ((Len(u) - 0 + 1) + j - 1 <= Len(u))
      BY <1>1
    <3> QED BY <3>1 DEF Agrees
  <2> QED BY <1>1, <2>1
<1>3. T \in SUBSET (0..m)
  OBVIOUS
<1>4. \E x \in T : \A y \in T : y <= x
  <2> HIDE DEF T, m
  <2> QED BY <1>1, <1>2, <1>3, Greatest
<1>5. \E x \in T : \A y \in T : x >= y
  <2>1. PICK x \in T : \A y \in T : y <= x
    BY <1>4
  <2>2. x \in Int /\ \A y \in T : y \in Int
    OBVIOUS
  <2>3. \A y \in T : x >= y
    <3> HIDE DEF T
    <3> QED BY <2>1, <2>2
  <2> QED BY <2>3
<1>6. k \in T /\ \A y \in T : k >= y
  <2> HIDE DEF T
  <2> QED BY <1>5 DEF Max
<1>7. longestTagPrefixSuffix(u, tg) = k
  BY DEF longestTagPrefixSuffix
<1> HIDE DEF k
<1>8. k \in 0..(Len(tg) - 1) /\ k <= Len(u) /\ Agrees(u, Len(u) - k + 1, tg)
  BY <1>6
<1>9. ASSUME NEW n \in 0..(Len(tg) - 1), n <= Len(u), Agrees(u, Len(u) - n + 1, tg)
      PROVE  n <= k
  <2>1. n \in T
    BY <1>9
  <2> QED BY <1>6, <1>8, <2>1
<1> QED BY <1>7, <1>8, <1>9

\* Telling the first n symbols.
Tell(d, n) == [split |-> Rest(d.split, n), parts |-> d.parts \o Part(d.split, n)]
Kept(d) == longestTagPrefixSuffix(d.split.pending, tag(d.split))

LEMMA TellIs ==
  ASSUME NEW d \in Drains
  PROVE  /\ Len(d.split.pending) \in Nat
         /\ Kept(d) \in 0..Len(d.split.pending)
         /\ TellRest(d, TRUE) = Tell(d, Len(d.split.pending))
         /\ TellRest(d, FALSE) = Tell(d, Len(d.split.pending) - Kept(d))
<1> DEFINE u == d.split.pending
           tg == tag(d.split)
<1>1. u \in Seq(Symbols) /\ Len(u) \in Nat
  BY DEF Drains, Split
<1>2. tg \in Seq(Symbols) /\ Len(tg) > 0 /\ Len(tg) \in Nat
  BY TagType
<1>3. Kept(d) \in 0..Len(u)
  <2> DEFINE k == longestTagPrefixSuffix(u, tg)
  <2>1. k \in 0..(Len(tg) - 1) /\ k <= Len(u)
    <3> HIDE DEF u, tg
    <3> QED BY <1>1, <1>2, Longest
  <2>2. k \in 0..Len(u)
    <3> HIDE DEF k
    <3> QED BY <1>1, <1>2, <2>1
  <2> QED BY <2>2 DEF Kept
<1>4. Len(u) - 0 = Len(u)
  BY <1>1
<1>5. TellRest(d, TRUE) = Tell(d, Len(u) - 0)
  BY DEF TellRest, Tell
<1>6. TellRest(d, FALSE) = Tell(d, Len(u) - Kept(d))
  BY DEF TellRest, Tell, Kept
<1> QED BY <1>1, <1>3, <1>4, <1>5, <1>6

LEMMA TellType ==
  ASSUME NEW d \in Drains, NEW n \in 0..Len(d.split.pending)
  PROVE  /\ Tell(d, n) \in Drains /\ Tell(d, n).split = Rest(d.split, n)
         /\ Tell(d, n).parts = d.parts \o Part(d.split, n)
<1> DEFINE r == Rest(d.split, n)
           p == Part(d.split, n)
           q == d.parts
<1>1. d.split \in Split /\ q \in Seq(Parts)
  BY DEF Drains
<1>2. r \in Split
  BY <1>1, RestIs
<1>3. p \in Seq(Parts)
  BY <1>1, PartIs
<1>4. q \o p \in Seq(Parts)
  <2> HIDE DEF p, q
  <2> QED BY <1>1, <1>3, ConcatProperties
<1> QED BY <1>2, <1>4 DEF Tell, Drains

LEMMA DrainType == ASSUME NEW s \in Split, NEW fl \in BOOLEAN PROVE drain(s, fl) \in Drains
<1> DEFINE d == Rounds(s)[Len(s.pending)]
<1>1. d \in Drains
  <2>1. Len(s.pending) \in 0..Len(s.pending)
    BY RoundsIs
  <2> QED BY <2>1, RoundsIs
<1>2. drain(s, fl) = TellRest(d, fl)
  BY DEF drain
<1> HIDE DEF d
<1> DEFINE n == Len(d.split.pending)
           m == n - Kept(d)
<1>3. /\ n \in Nat /\ Kept(d) \in 0..n
      /\ TellRest(d, TRUE) = Tell(d, n) /\ TellRest(d, FALSE) = Tell(d, m)
  BY <1>1, TellIs
<1>4. n \in 0..n /\ m \in 0..n
  BY <1>3
<1>5. TellRest(d, TRUE) \in Drains /\ TellRest(d, FALSE) \in Drains
  BY <1>1, <1>3, <1>4, TellType
<1> QED BY <1>2, <1>5

\* What waits after drain is the beginning of the next tag, or nothing once it is flushed.
LEMMA DrainWaits ==
  ASSUME NEW s \in Split
  PROVE  /\ IsPrefix(drain(s, FALSE).split.pending, tag(drain(s, FALSE).split))
         /\ drain(s, FALSE).split.pending # tag(drain(s, FALSE).split)
         /\ drain(s, TRUE).split.pending = <<>>
<1> DEFINE d == Rounds(s)[Len(s.pending)]
           u == d.split.pending
           tg == tag(d.split)
           k == Kept(d)
           n == Len(u) - k
           r == Rest(d.split, n)
<1>1. d \in Drains
  <2>1. Len(s.pending) \in 0..Len(s.pending)
    BY RoundsIs
  <2> QED BY <2>1, RoundsIs
<1>2. /\ Len(u) \in Nat /\ k \in 0..Len(u)
      /\ drain(s, TRUE) = Tell(d, Len(u)) /\ drain(s, FALSE) = Tell(d, n)
  <2> HIDE DEF d
  <2> QED BY <1>1, TellIs DEF drain, d
<1> HIDE DEF d
<1>3. d.split \in Split /\ u \in Seq(Symbols)
  BY <1>1 DEF Drains, Split
<1>4. drain(s, TRUE).split.pending = <<>>
  <2>1. Len(u) \in 0..Len(d.split.pending)
    BY <1>2
  <2>2. drain(s, TRUE).split = Rest(d.split, Len(u))
    BY <1>1, <1>2, <2>1, TellType
  <2> DEFINE w == Rest(d.split, Len(u)).pending
  <2>3. w \in Seq(Symbols) /\ Len(w) = Len(u) - Len(u)
    BY <1>3, <2>1, RestIs DEF Split
  <2>4. w = <<>>
    <3> HIDE DEF w
    <3>1. Len(w) = 0
      BY <1>2, <2>3
    <3> QED BY <2>3, <3>1, EmptySeq
  <2> QED BY <2>2, <2>4
<1>5. n \in 0..Len(u)
  <2> HIDE DEF u, k
  <2> QED BY <1>2
<1>6. drain(s, FALSE).split = r
  BY <1>1, <1>2, <1>5, TellType
<1>7. /\ r \in Split /\ r.inThink = d.split.inThink /\ Len(r.pending) = Len(u) - n
      /\ \A j \in 1..(Len(u) - n) : r.pending[j] = u[n + j]
  <2> HIDE DEF n
  <2> QED BY <1>3, <1>5, RestIs
<1>8. tag(r) = tg
  <2> HIDE DEF r
  <2> QED BY <1>7 DEF tag
<1>9. tg \in Seq(Symbols) /\ Len(tg) > 0 /\ Len(tg) \in Nat
  BY TagType
<1>10. k \in 0..(Len(tg) - 1) /\ Agrees(u, Len(u) - k + 1, tg)
  <2>1. k = longestTagPrefixSuffix(u, tg)
    BY DEF Kept
  <2> HIDE DEF u, tg, k
  <2> QED BY <1>3, <1>9, <2>1, Longest
<1> DEFINE w == r.pending
<1>11. w \in Seq(Symbols)
  <2> HIDE DEF r
  <2> QED BY <1>7 DEF Split
<1>12. Len(w) = k /\ \A j \in 1..k : w[j] = u[n + j]
  <2>1. Len(u) - n = k
    <3> HIDE DEF u, k
    <3> QED BY <1>2
  <2> QED BY <1>7, <2>1
<1>13. ASSUME NEW j \in 1..k PROVE w[j] = tg[j]
  <2>1. (Len(u) - k + 1) + j - 1 = n + j /\ n + j <= Len(u) /\ j \in 1..Len(tg)
    <3> HIDE DEF u, k, tg
    <3> QED BY <1>2, <1>9, <1>10
  <2> HIDE DEF w, u, tg, n, k
  <2> QED BY <1>10, <1>12, <2>1 DEF Agrees
<1> HIDE DEF w, tg, k
<1>14. IsPrefix(w, tg)
  <2>1. k \in Nat /\ k <= Len(tg) /\ \A j \in 1..k : w[j] \in Symbols /\ tg[j] \in Symbols
    BY <1>9, <1>10, <1>11, <1>12
  <2> DEFINE x == SubSeq(w, 1, k)
             y == SubSeq(tg, 1, k)
  <2>2. /\ x \in Seq(Symbols) /\ Len(x) = k /\ \A j \in 1..k : x[j] = w[j]
        /\ y \in Seq(Symbols) /\ Len(y) = k /\ \A j \in 1..k : y[j] = tg[j]
    BY <1>9, <1>11, <1>12, <2>1
  <2> HIDE DEF x, y
  <2>3. x = y
    <3>1. \A j \in 1..Len(x) : x[j] = y[j]
      BY <1>13, <2>2
    <3> QED BY <2>2, <3>1, SeqEqual
  <2> QED BY <1>12, <2>1, <2>3 DEF IsPrefix, x, y
<1>15. w # tg
  BY <1>9, <1>10, <1>12
<1> QED BY <1>4, <1>6, <1>8, <1>14, <1>15 DEF w

=============================================================================
