--------------------------- MODULE UIStreamProofs ---------------------------
(***************************************************************************)
(* Proofs about the AI SDK adapter, for any tools, runs of any length,     *)
(* clients that come late and writes that fail anywhere.                   *)
(***************************************************************************)
EXTENDS UIStream, FiniteSetTheorems, SequenceTheorems, WellFoundedInduction, TLAPS

-----------------------------------------------------------------------------
(* Natural numbers *)

\* A non-empty set of natural numbers has a least element.
LEMMA Least == ASSUME NEW T, T \subseteq Nat, T # {} PROVE \E x \in T : \A y \in T : x <= y
<1> DEFINE R == StrictSubsetOrdering(Nat)
           U == {1..n : n \in T}
<1>1. U \subseteq FiniteSubsetsOf(Nat)
  <2> SUFFICES ASSUME NEW n \in T PROVE 1..n \in FiniteSubsetsOf(Nat)
    OBVIOUS
  <2>1. 1..n \in SUBSET Nat /\ IsFiniteSet(1..n)
    BY FS_Interval
  <2> QED BY <2>1 DEF FiniteSubsetsOf
<1>2. U # {}
  OBVIOUS
<1>3. IsWellFoundedOn(R, FiniteSubsetsOf(Nat))
  BY FS_StrictSubsetOrderingWellFounded
<1> HIDE DEF R, U
<1>4. PICK m \in U : \A k \in U : ~ (<<k, m>> \in R)
  BY <1>1, <1>2, <1>3, WFMin
<1>5. PICK x \in T : m = 1..x
  BY <1>4 DEF U
<1>6. ASSUME NEW y \in T, y < x PROVE FALSE
  <2>1. 1..y \in U
    BY DEF U
  <2>2. 1..y \subseteq 1..x /\ x \in 1..x /\ x \notin 1..y
    BY <1>6
  <2>3. 1..y \in SUBSET Nat /\ 1..x \in SUBSET Nat
    OBVIOUS
  <2>4. <<1..y, 1..x>> \in R
    BY <2>2, <2>3 DEF R, StrictSubsetOrdering
  <2> QED BY <1>4, <1>5, <2>1, <2>4
<1> QED BY <1>6

\* A set of natural numbers with 0 and all successors has all of them.
LEMMA NatInSet ==
  ASSUME NEW S, 0 \in S, \A n \in Nat : n \in S => n + 1 \in S PROVE Nat \subseteq S
<1> SUFFICES ASSUME ~ (Nat \subseteq S) PROVE FALSE
  OBVIOUS
<1> DEFINE T == Nat \ S
<1>1. PICK x \in T : \A y \in T : x <= y
  BY Least
<1>2. x # 0 /\ x - 1 \in Nat /\ x - 1 \notin T
  BY <1>1
<1> QED BY <1>1, <1>2

\* A set of numbers up to m is finite, with at most m of them.
LEMMA Bounded ==
  ASSUME NEW m \in Nat, NEW S \in SUBSET (1..m)
  PROVE  IsFiniteSet(S) /\ Cardinality(S) \in Nat /\ Cardinality(S) <= m
<1>1. IsFiniteSet(1..m) /\ Cardinality(1..m) = m
  <2>1. 1 \in Int /\ m \in Int
    OBVIOUS
  <2> QED BY <2>1, FS_Interval
<1>2. IsFiniteSet(S) /\ Cardinality(S) <= m
  BY <1>1, FS_Subset
<1> QED BY <1>2, FS_CardinalityType

\* A non-empty set of numbers up to m has a greatest element.
LEMMA Greatest ==
  ASSUME NEW m \in Nat, NEW T \in SUBSET (1..m), T # {}
  PROVE  \E x \in T : \A y \in T : y <= x
<1> DEFINE U == {m - x : x \in T}
<1>1. U \subseteq Nat /\ U # {}
  <2>1. \A x \in T : m - x \in Nat
    OBVIOUS
  <2> QED BY <2>1
<1>2. PICK u \in U : \A v \in U : u <= v
  BY <1>1, Least
<1>3. PICK x \in T : u = m - x
  BY <1>2
<1>4. ASSUME NEW y \in T PROVE y <= x
  <2>1. m - y \in U
    OBVIOUS
  <2>2. u <= m - y
    BY <1>2, <2>1
  <2> QED BY <1>3, <2>2
<1> QED BY <1>4

\* Numbers up to m can be put in ascending order.
LEMMA Sortable ==
  ASSUME NEW m \in Nat, NEW S \in SUBSET (1..m)
  PROVE  \E f \in [1..Cardinality(S) -> S] : \A a, b \in 1..Cardinality(S) : a < b => f[a] < f[b]
<1> DEFINE N == {n \in Nat : \A T \in SUBSET (1..m) : Cardinality(T) = n =>
                   \E f \in [1..n -> T] : \A a, b \in 1..n : a < b => f[a] < f[b]}
<1>1. 0 \in N
  <2> SUFFICES ASSUME NEW T \in SUBSET (1..m)
               PROVE  \E f \in [1..0 -> T] : \A a, b \in 1..0 : a < b => f[a] < f[b]
    OBVIOUS
  <2>1. [x \in 1..0 |-> x] \in [1..0 -> T]
    OBVIOUS
  <2> QED BY <2>1
<1>2. ASSUME NEW n \in Nat, n \in N PROVE n + 1 \in N
  <2> SUFFICES ASSUME NEW T \in SUBSET (1..m), Cardinality(T) = n + 1
               PROVE  \E f \in [1..(n+1) -> T] : \A a, b \in 1..(n+1) : a < b => f[a] < f[b]
    OBVIOUS
  <2>1. IsFiniteSet(T)
    BY Bounded
  <2>2. T # {}
    BY FS_EmptySet
  <2>3. PICK x \in T : \A y \in T : y <= x
    BY <2>2, Greatest
  <2>4. T \ {x} \in SUBSET (1..m) /\ Cardinality(T \ {x}) = n
    BY <2>1, FS_RemoveElement
  <2>5. PICK g \in [1..n -> T \ {x}] : \A a, b \in 1..n : a < b => g[a] < g[b]
    BY <1>2, <2>4
  <2> DEFINE f == [k \in 1..(n+1) |-> IF k = n + 1 THEN x ELSE g[k]]
  <2>6. f \in [1..(n+1) -> T]
    OBVIOUS
  <2>7. ASSUME NEW a \in 1..(n+1), NEW b \in 1..(n+1), a < b PROVE f[a] < f[b]
    <3>1. a \in 1..n /\ g[a] \in T \ {x} /\ f[a] = g[a]
      BY <2>7
    <3>2. CASE b = n + 1
      <4>1. f[b] = x /\ g[a] <= x /\ g[a] # x
        BY <2>3, <3>1, <3>2
      <4>2. g[a] \in 1..m /\ x \in 1..m
        BY <3>1
      <4> QED BY <3>1, <4>1, <4>2
    <3>3. CASE b # n + 1
      BY <2>5, <2>7, <3>1, <3>3
    <3> QED BY <3>2, <3>3
  <2> QED BY <2>6, <2>7
<1>3. Nat \subseteq N
  <2> HIDE DEF N
  <2> QED BY <1>1, <1>2, NatInSet
<1>4. Cardinality(S) \in Nat
  BY Bounded
<1> QED BY <1>3, <1>4

\* Ascending lists a set of numbers in order, and all of them.
LEMMA AscendingSorts ==
  ASSUME NEW m \in Nat, NEW S \in SUBSET (1..m)
  PROVE  /\ Cardinality(S) \in Nat
         /\ Ascending(S) \in [1..Cardinality(S) -> S]
         /\ \A a, b \in 1..Cardinality(S) : a < b => Ascending(S)[a] < Ascending(S)[b]
         /\ \A x \in S : \E n \in 1..Cardinality(S) : Ascending(S)[n] = x
<1> DEFINE n == Cardinality(S)
           f == Ascending(S)
<1>1. n \in Nat /\ IsFiniteSet(S)
  BY Bounded
<1>2. f \in [1..n -> S] /\ \A a, b \in 1..n : a < b => f[a] < f[b]
  BY <1>1, Sortable DEF Ascending
<1> HIDE DEF f
<1>3. ASSUME NEW a \in 1..n, NEW b \in 1..n, f[a] = f[b] PROVE a = b
  <2>1. f[a] \in Nat /\ a \in Nat /\ b \in Nat
    <3>1. f[a] \in S
      BY <1>2
    <3>2. f[a] \in 1..m
      BY <3>1
    <3> HIDE DEF n
    <3> QED BY <1>1, <3>2
  <2>2. ~ (a < b) /\ ~ (b < a)
    BY <1>2, <1>3, <2>1
  <2> QED BY <2>1, <2>2
<1>4. f \in Injection(1..n, S)
  BY <1>2, <1>3 DEF Injection, IsInjective
<1>5. IsFiniteSet(1..n) /\ Cardinality(1..n) = Cardinality(S)
  <2>1. 1 \in Int /\ n \in Int
    BY <1>1
  <2> QED BY <1>1, <2>1, FS_Interval
<1>6. f \in Surjection(1..n, S)
  BY <1>1, <1>4, <1>5, FS_Injection
<1> QED BY <1>1, <1>2, <1>6 DEF Surjection, f

-----------------------------------------------------------------------------
(* Steps of a wire *)

ToolTypes == {"tool-input-start", "tool-input-delta", "tool-input-available",
              "tool-output-available"}

Inner == TextKinds \cup ToolTypes
Outer == {"start", "message-metadata", "finish"}
Always == {"error", "abort", "[DONE]"}

WirePart == [type : Inner \cup Outer \cup Always \cup {"start-step", "finish-step"},
             id : ToolIDs \cup {""}, input : Nat]

\* Opened, Closed and InStep of any wire.
Count(w, type, k) == Cardinality({j \in 1..k : w[j].type = type})
Begun(w, k) == Count(w, "start-step", k)
Ended(w, k) == Count(w, "finish-step", k)
AtStep(w, k, i, type) == {j \in 1..Len(w) : w[j].type = type /\ Begun(w, j) = k /\ w[j].id = i}

SameTools(w, v) == \A k, i : \A type \in ToolTypes : AtStep(v, k, i, type) = AtStep(w, k, i, type)

Inside(w)  == Begun(w, Len(w)) = Ended(w, Len(w)) + 1
Outside(w) == Begun(w, Len(w)) = Ended(w, Len(w))

Bracketed(w) ==
    /\ Inside(w) \/ Outside(w)
    /\ \A k \in 1..Len(w) :
         /\ Begun(w, k) \in {Ended(w, k), Ended(w, k) + 1}
         /\ w[k].type \in Outer => Begun(w, k) = Ended(w, k)
         /\ w[k].type \in Inner => Begun(w, k) = Ended(w, k) + 1

Waits(w) ==
    \A k \in 1..(Begun(w, Len(w)) - 1), i \in ToolIDs :
      AtStep(w, k, i, "tool-input-start") # {} => AtStep(w, k, i, "tool-output-available") # {}

\* The parts of a tool call in one step.
Orderly(w, k, i) ==
    LET Of(type) == AtStep(w, k, i, type) IN
    /\ \A type \in {"tool-input-start", "tool-input-available", "tool-output-available"} :
         \A a, b \in Of(type) : a = b
    /\ \A a \in Of("tool-input-available") :
         /\ \A j \in Of("tool-input-start") \cup Of("tool-input-delta") : j < a
         /\ w[a].input = Cardinality(Of("tool-input-delta"))
         /\ \A o \in Of("tool-output-available") : a < o
    /\ Of("tool-output-available") # {} => Of("tool-input-available") # {}

AllOrderly(w) == \A k \in 1..Begun(w, Len(w)), i \in ToolIDs : Orderly(w, k, i)

\* Counts are natural numbers.
LEMMA CountType ==
  ASSUME NEW w, NEW type, NEW k \in Nat
  PROVE  IsFiniteSet({j \in 1..k : w[j].type = type}) /\ Count(w, type, k) \in Nat
BY Bounded DEF Count

\* No parts, none of any type.
LEMMA CountZero == \A w, type : Count(w, type, 0) = 0
<1> SUFFICES ASSUME NEW w, NEW type PROVE Count(w, type, 0) = 0
  OBVIOUS
<1>1. {j \in 1..0 : w[j].type = type} = {}
  OBVIOUS
<1> QED BY <1>1, FS_EmptySet DEF Count

\* Wires that agree up to k count the same.
LEMMA CountAgrees ==
  ASSUME NEW w, NEW v, NEW k \in Nat, \A j \in 1..k : v[j] = w[j]
  PROVE  \A type : Count(v, type, k) = Count(w, type, k)
<1> SUFFICES ASSUME NEW type PROVE Count(v, type, k) = Count(w, type, k)
  OBVIOUS
<1>1. {j \in 1..k : v[j].type = type} = {j \in 1..k : w[j].type = type}
  OBVIOUS
<1> QED BY <1>1 DEF Count

\* One part more.
LEMMA CountNext ==
  ASSUME NEW w, NEW type, NEW k \in Nat
  PROVE  Count(w, type, k + 1) = Count(w, type, k) + (IF w[k+1].type = type THEN 1 ELSE 0)
<1> DEFINE T == {j \in 1..k : w[j].type = type}
           U == {j \in 1..(k+1) : w[j].type = type}
<1>1. IsFiniteSet(T) /\ k + 1 \notin T /\ Cardinality(T) \in Nat
  BY Bounded
<1>2. Count(w, type, k) = Cardinality(T) /\ Count(w, type, k + 1) = Cardinality(U)
  BY DEF Count
<1>3. CASE w[k+1].type = type
  <2>1. U = T \cup {k + 1}
    BY <1>3
  <2>2. Cardinality(T \cup {k + 1}) = Cardinality(T) + 1
    BY <1>1, FS_AddElement
  <2> HIDE DEF T, U
  <2> QED BY <1>2, <1>3, <2>1, <2>2
<1>4. CASE w[k+1].type # type
  <2>1. U = T
    BY <1>4
  <2> HIDE DEF T, U
  <2> QED BY <1>1, <1>2, <1>4, <2>1
<1> QED BY <1>3, <1>4

\* Counts never fall.
LEMMA CountGrows ==
  ASSUME NEW w, NEW type, NEW k \in Nat, NEW n \in Nat, k <= n
  PROVE  Count(w, type, k) <= Count(w, type, n)
<1> DEFINE T == {j \in 1..k : w[j].type = type}
           U == {j \in 1..n : w[j].type = type}
<1>1. IsFiniteSet(U)
  BY Bounded
<1>2. T \in SUBSET U
  OBVIOUS
<1> QED BY <1>1, <1>2, FS_Subset DEF Count

\* Parts of other types do not count.
LEMMA CountSkips ==
  ASSUME NEW w, NEW type, NEW k \in Nat, NEW n \in Nat, k <= n,
         \A j \in (k+1)..n : w[j].type # type
  PROVE  Count(w, type, n) = Count(w, type, k)
<1>1. {j \in 1..n : w[j].type = type} = {j \in 1..k : w[j].type = type}
  OBVIOUS
<1> QED BY <1>1 DEF Count

-----------------------------------------------------------------------------
(* Prefixes *)

Prefix(v, w) ==
    /\ v \in Seq(WirePart) /\ w \in Seq(WirePart) /\ Len(v) <= Len(w)
    /\ \A k \in 1..Len(v) : v[k] = w[k]

\* A prefix counts its steps like the wire it was cut from.
LEMMA PrefixCounts ==
  ASSUME NEW v, NEW w, Prefix(v, w)
  PROVE  \A k \in 0..Len(v) : Begun(v, k) = Begun(w, k) /\ Ended(v, k) = Ended(w, k)
<1> SUFFICES ASSUME NEW k \in 0..Len(v)
             PROVE  Begun(v, k) = Begun(w, k) /\ Ended(v, k) = Ended(w, k)
  OBVIOUS
<1>1. k \in Nat /\ \A j \in 1..k : v[j] = w[j]
  BY DEF Prefix
<1> QED BY <1>1, CountAgrees DEF Begun, Ended

\* A step of a prefix has the parts of the wire's step that were not cut.
LEMMA PrefixSteps ==
  ASSUME NEW v, NEW w, Prefix(v, w)
  PROVE  /\ \A k, i, type : AtStep(v, k, i, type) = AtStep(w, k, i, type) \cap (1..Len(v))
         /\ \A k, i, type : k < Begun(v, Len(v)) /\ k \in Nat =>
              AtStep(v, k, i, type) = AtStep(w, k, i, type)
<1>0. Len(v) \in Nat /\ Len(w) \in Nat /\ Len(v) <= Len(w)
  BY DEF Prefix
<1>1. ASSUME NEW k, NEW i, NEW type
      PROVE  AtStep(v, k, i, type) = AtStep(w, k, i, type) \cap (1..Len(v))
  <2>1. ASSUME NEW j \in 1..Len(v)
        PROVE  j \in AtStep(v, k, i, type) <=> j \in AtStep(w, k, i, type)
    <3>1. j \in 1..Len(w) /\ v[j] = w[j] /\ j \in 0..Len(v)
      BY <1>0 DEF Prefix
    <3>2. Begun(v, j) = Begun(w, j)
      BY <3>1, PrefixCounts
    <3> QED BY <3>1, <3>2 DEF AtStep
  <2>2. AtStep(v, k, i, type) \subseteq 1..Len(v)
    BY DEF AtStep
  <2> QED BY <2>1, <2>2
<1>2. ASSUME NEW k \in Nat, k < Begun(v, Len(v)), NEW i, NEW type, NEW j \in AtStep(w, k, i, type)
      PROVE  j \in 1..Len(v)
  <2>1. j \in Nat /\ Len(v) \in Nat /\ Begun(w, j) = k /\ j \in 1..Len(w)
    BY DEF AtStep, Prefix
  <2>2. Begun(v, Len(v)) = Begun(w, Len(v))
    BY <2>1, PrefixCounts
  <2>3. ~ (Len(v) <= j)
    <3> SUFFICES ASSUME Len(v) <= j PROVE FALSE
      OBVIOUS
    <3>1. Begun(w, Len(v)) <= Begun(w, j)
      BY <2>1, CountGrows DEF Begun
    <3>2. Begun(w, Len(v)) \in Nat /\ Begun(w, j) \in Nat
      BY <2>1, CountType DEF Begun
    <3> QED BY <1>2, <2>1, <2>2, <3>1, <3>2
  <2> QED BY <2>1, <2>3
<1>3. ASSUME NEW k, NEW i, NEW type, k < Begun(v, Len(v)) /\ k \in Nat
      PROVE  AtStep(v, k, i, type) = AtStep(w, k, i, type)
  <2>1. AtStep(w, k, i, type) \subseteq 1..Len(v)
    BY <1>2, <1>3
  <2> QED BY <1>1, <2>1
<1> QED BY <1>1, <1>3

\* A wire may be cut anywhere without losing its brackets,
LEMMA PrefixBracketed ==
  ASSUME NEW v, NEW w, Prefix(v, w), Bracketed(w)
  PROVE  Bracketed(v)
<1>1. \A k \in 0..Len(v) : Begun(v, k) = Begun(w, k) /\ Ended(v, k) = Ended(w, k)
  BY PrefixCounts
<1>2. Len(v) \in Nat /\ \A k \in 1..Len(v) : k \in 0..Len(v) /\ k \in 1..Len(w) /\ v[k] = w[k]
  BY DEF Prefix
<1>3. Inside(v) \/ Outside(v)
  <2>1. CASE Len(v) = 0
    BY <2>1, CountZero DEF Outside, Begun, Ended
  <2>2. CASE Len(v) # 0
    <3>1. Len(v) \in 1..Len(v)
      BY <1>2, <2>2
    <3> QED BY <1>1, <1>2, <3>1 DEF Bracketed, Inside, Outside
  <2> QED BY <2>1, <2>2
<1> QED BY <1>1, <1>2, <1>3 DEF Bracketed

\* nor an output that one of its finished steps waited for,
LEMMA PrefixWaits ==
  ASSUME NEW v, NEW w, Prefix(v, w), Waits(w)
  PROVE  Waits(v)
<1> SUFFICES ASSUME NEW k \in 1..(Begun(v, Len(v)) - 1), NEW i \in ToolIDs,
                    AtStep(v, k, i, "tool-input-start") # {}
             PROVE  AtStep(v, k, i, "tool-output-available") # {}
  BY DEF Waits
<1>1. /\ Begun(v, Len(v)) = Begun(w, Len(v)) /\ Len(v) \in Nat /\ Len(w) \in Nat
      /\ Len(v) <= Len(w)
  <2>1. Len(v) \in Nat /\ Len(w) \in Nat /\ Len(v) <= Len(w)
    BY DEF Prefix
  <2>2. Len(v) \in 0..Len(v)
    BY <2>1
  <2> QED BY <2>1, <2>2, PrefixCounts
<1>2. /\ Begun(v, Len(v)) <= Begun(w, Len(w))
      /\ Begun(v, Len(v)) \in Nat /\ Begun(w, Len(w)) \in Nat
  BY <1>1, CountGrows, CountType DEF Begun
<1>3. k \in 1..(Begun(w, Len(w)) - 1) /\ k < Begun(v, Len(v)) /\ k \in Nat
  BY <1>2
<1> QED BY <1>3, PrefixSteps DEF Waits

\* nor the order of the parts of a call.
LEMMA PrefixOrderly ==
  ASSUME NEW v, NEW w, Prefix(v, w), AllOrderly(w)
  PROVE  AllOrderly(v)
<1> SUFFICES ASSUME NEW k \in 1..Begun(v, Len(v)), NEW i \in ToolIDs PROVE Orderly(v, k, i)
  BY DEF AllOrderly
<1>1. Len(v) \in Nat /\ Len(w) \in Nat /\ Len(v) <= Len(w) /\ Len(v) \in 0..Len(v)
  BY DEF Prefix
<1>2. Begun(v, Len(v)) = Begun(w, Len(v))
  BY <1>1, PrefixCounts
<1>3. /\ Begun(w, Len(v)) <= Begun(w, Len(w))
      /\ Begun(w, Len(v)) \in Nat /\ Begun(w, Len(w)) \in Nat
  BY <1>1, CountGrows, CountType DEF Begun
<1>4. Orderly(w, k, i)
  BY <1>2, <1>3 DEF AllOrderly
<1> DEFINE V(type) == AtStep(v, k, i, type)
           W(type) == AtStep(w, k, i, type)
<1>5. \A type : V(type) = W(type) \cap (1..Len(v)) /\ V(type) \subseteq Nat /\ W(type) \subseteq Nat
  BY PrefixSteps DEF AtStep
<1>6. ASSUME NEW a \in V("tool-input-available")
      PROVE  V("tool-input-delta") = W("tool-input-delta") /\ v[a] = w[a]
  <2>1. a \in W("tool-input-available") /\ a \in 1..Len(v)
    BY <1>5
  <2>2. \A j \in W("tool-input-delta") : j < a /\ j \in 1..Len(w)
    BY <1>4, <2>1 DEF Orderly, AtStep
  <2>3. \A j \in W("tool-input-delta") : j \in 1..Len(v)
    BY <1>1, <2>1, <2>2
  <2> QED BY <1>5, <2>1, <2>3 DEF Prefix
<1>7. V("tool-output-available") # {} => V("tool-input-available") # {}
  <2> SUFFICES ASSUME NEW o \in V("tool-output-available") PROVE V("tool-input-available") # {}
    OBVIOUS
  <2>1. o \in W("tool-output-available") /\ o \in 1..Len(v)
    BY <1>5
  <2>2. PICK a \in W("tool-input-available") : a < o
    BY <1>4, <2>1 DEF Orderly
  <2>3. a \in 1..Len(w)
    BY DEF AtStep
  <2>4. a \in 1..Len(v)
    BY <1>1, <2>1, <2>2, <2>3
  <2> QED BY <1>5, <2>4
<1> HIDE DEF V, W
<1>8. Orderly(w, k, i) <=>
        /\ \A type \in {"tool-input-start", "tool-input-available", "tool-output-available"} :
             \A a, b \in W(type) : a = b
        /\ \A a \in W("tool-input-available") :
             /\ \A j \in W("tool-input-start") \cup W("tool-input-delta") : j < a
             /\ w[a].input = Cardinality(W("tool-input-delta"))
             /\ \A o \in W("tool-output-available") : a < o
        /\ W("tool-output-available") # {} => W("tool-input-available") # {}
  BY DEF Orderly, W
<1>9. Orderly(v, k, i) <=>
        /\ \A type \in {"tool-input-start", "tool-input-available", "tool-output-available"} :
             \A a, b \in V(type) : a = b
        /\ \A a \in V("tool-input-available") :
             /\ \A j \in V("tool-input-start") \cup V("tool-input-delta") : j < a
             /\ v[a].input = Cardinality(V("tool-input-delta"))
             /\ \A o \in V("tool-output-available") : a < o
        /\ V("tool-output-available") # {} => V("tool-input-available") # {}
  BY DEF Orderly, V
<1> QED BY <1>4, <1>5, <1>6, <1>7, <1>8, <1>9

-----------------------------------------------------------------------------
(* Appending parts *)

StepsOf(w) == Begun(w, Len(w))

StepTypes == {"start-step", "finish-step"}

\* The parts of a wire to which a block was added.
LEMMA Joined ==
  ASSUME NEW w \in Seq(WirePart), NEW b \in Seq(WirePart), NEW v, v = w \o b
  PROVE  /\ v \in Seq(WirePart) /\ Len(w) \in Nat /\ Len(b) \in Nat /\ Len(v) = Len(w) + Len(b)
         /\ \A k \in 1..Len(w) : v[k] = w[k]
         /\ \A n \in 1..Len(b) : v[Len(w) + n] = b[n]
         /\ \A k \in (Len(w)+1)..Len(v) : k - Len(w) \in 1..Len(b) /\ v[k] = b[k - Len(w)]
         /\ Prefix(w, v)
<1>1. v \in Seq(WirePart) /\ Len(w) \in Nat /\ Len(b) \in Nat /\ Len(v) = Len(w) + Len(b)
  OBVIOUS
<1>2. \A k \in 1..Len(w) : v[k] = w[k]
  OBVIOUS
<1>3. \A n \in 1..Len(b) : v[Len(w) + n] = b[n]
  OBVIOUS
<1>4. \A k \in (Len(w)+1)..Len(v) : k - Len(w) \in 1..Len(b) /\ v[k] = b[k - Len(w)]
  <2> SUFFICES ASSUME NEW k \in (Len(w)+1)..Len(v)
               PROVE  k - Len(w) \in 1..Len(b) /\ v[k] = b[k - Len(w)]
    OBVIOUS
  <2>1. k - Len(w) \in 1..Len(b) /\ k = Len(w) + (k - Len(w))
    BY <1>1
  <2> QED BY <1>3, <2>1
<1> QED BY <1>1, <1>2, <1>3, <1>4 DEF Prefix

\* Steps and positions are natural numbers.
LEMMA Numbers ==
  ASSUME NEW w \in Seq(WirePart)
  PROVE  /\ Len(w) \in Nat /\ StepsOf(w) \in Nat
         /\ \A k \in Nat : Begun(w, k) \in Nat /\ Ended(w, k) \in Nat
         /\ \A k, i, type : AtStep(w, k, i, type) \in SUBSET (1..Len(w))
<1>1. Len(w) \in Nat
  OBVIOUS
<1> QED BY <1>1, CountType DEF StepsOf, Begun, Ended, AtStep

\* The parts of a tool call that v has and its prefix w has not.
Fresh(w, v, i, type) == {j \in (Len(w)+1)..Len(v) : v[j].type = type /\ v[j].id = i}

\* The parts of a tool call in the current step.
Now(w, i, type) == AtStep(w, StepsOf(w), i, type)

\* v continues the current step of w.
SameStep(w, v) ==
    /\ Prefix(w, v) /\ StepsOf(v) = StepsOf(w)
    /\ \A i, type : Now(v, i, type) = Now(w, i, type) \cup Fresh(w, v, i, type)
    /\ \A k, i, type : k # StepsOf(w) => AtStep(v, k, i, type) = AtStep(w, k, i, type)

\* Parts that neither start nor finish a step belong to the current one.
LEMMA Block ==
  ASSUME NEW w \in Seq(WirePart), NEW b \in Seq(WirePart), NEW v, v = w \o b,
         \A n \in 1..Len(b) : b[n].type \notin StepTypes
  PROVE  /\ \A k \in Len(w)..Len(v) : Begun(v, k) = StepsOf(w) /\ Ended(v, k) = Ended(w, Len(w))
         /\ SameStep(w, v)
<1>1. /\ Len(w) \in Nat /\ Len(v) \in Nat /\ Len(w) <= Len(v) /\ Prefix(w, v)
      /\ \A k \in 1..Len(w) : v[k] = w[k]
  <2>1. Len(w) \in Nat /\ Len(b) \in Nat /\ Len(v) = Len(w) + Len(b)
    BY Joined
  <2>2. Prefix(w, v)
    BY Joined
  <2> QED BY <2>1, <2>2 DEF Prefix
<1>2. \A k \in (Len(w)+1)..Len(v) : v[k].type \notin StepTypes
  BY Joined
<1>3. Begun(v, Len(w)) = Begun(w, Len(w)) /\ Ended(v, Len(w)) = Ended(w, Len(w))
  <2>1. Len(w) \in 0..Len(w)
    BY <1>1
  <2> QED BY <1>1, <2>1, PrefixCounts
<1>4. ASSUME NEW k \in Len(w)..Len(v)
      PROVE  Begun(v, k) = StepsOf(w) /\ Ended(v, k) = Ended(w, Len(w))
  <2>1. k \in Nat /\ Len(w) <= k /\ \A j \in (Len(w)+1)..k : v[j].type \notin StepTypes
    BY <1>1, <1>2
  <2>2. /\ \A j \in (Len(w)+1)..k : v[j].type # "start-step"
        /\ \A j \in (Len(w)+1)..k : v[j].type # "finish-step"
    BY <2>1 DEF StepTypes
  <2>3. Count(v, "start-step", k) = Count(v, "start-step", Len(w))
    BY <1>1, <2>1, <2>2, CountSkips
  <2>4. Count(v, "finish-step", k) = Count(v, "finish-step", Len(w))
    BY <1>1, <2>1, <2>2, CountSkips
  <2> QED BY <1>3, <2>3, <2>4 DEF Begun, Ended, StepsOf
<1>5. ASSUME NEW k, NEW i, NEW type
      PROVE  AtStep(v, k, i, type) = AtStep(w, k, i, type) \cup
               (IF k = StepsOf(w) THEN Fresh(w, v, i, type) ELSE {})
  <2>1. AtStep(w, k, i, type) = AtStep(v, k, i, type) \cap (1..Len(w))
    BY <1>1, PrefixSteps
  <2>2. ASSUME NEW j \in (Len(w)+1)..Len(v)
        PROVE  j \in AtStep(v, k, i, type)
                 <=> k = StepsOf(w) /\ v[j].type = type /\ v[j].id = i
    <3>1. j \in Len(w)..Len(v) /\ j \in 1..Len(v)
      BY <1>1
    <3>2. Begun(v, j) = StepsOf(w)
      BY <1>4, <3>1
    <3> QED BY <3>1, <3>2 DEF AtStep
  <2>3. AtStep(v, k, i, type) \subseteq 1..Len(v)
    BY DEF AtStep
  <2>4. 1..Len(v) = (1..Len(w)) \cup ((Len(w)+1)..Len(v))
    BY <1>1
  <2> QED BY <2>1, <2>2, <2>3, <2>4 DEF Fresh
<1>6. StepsOf(v) = StepsOf(w)
  <2>1. Len(v) \in Len(w)..Len(v)
    BY <1>1
  <2> QED BY <1>4, <2>1 DEF StepsOf
<1>7. ASSUME NEW i, NEW type
      PROVE  Now(v, i, type) = Now(w, i, type) \cup Fresh(w, v, i, type)
  BY <1>5, <1>6 DEF Now
<1>8. ASSUME NEW k, NEW i, NEW type, k # StepsOf(w)
      PROVE  AtStep(v, k, i, type) = AtStep(w, k, i, type)
  <2>1. AtStep(v, k, i, type) = AtStep(w, k, i, type) \cup {}
    BY <1>5, <1>8
  <2> QED BY <2>1
<1>9. SameStep(w, v)
  BY <1>1, <1>6, <1>7, <1>8 DEF SameStep
<1> QED BY <1>4, <1>9

\* Which parts may be added inside and outside of a step.
LEMMA BlockBracketed ==
  ASSUME NEW w \in Seq(WirePart), NEW b \in Seq(WirePart), NEW v, v = w \o b, Bracketed(w),
         \A n \in 1..Len(b) : \/ b[n].type \in Always
                              \/ Inside(w) /\ b[n].type \in Inner
                              \/ Outside(w) /\ b[n].type \in Outer
  PROVE  /\ Bracketed(v) /\ StepsOf(v) = StepsOf(w)
         /\ Inside(w) => Inside(v)
         /\ Outside(w) => Outside(v)
<1>1. \A n \in 1..Len(b) : b[n].type \notin StepTypes
  BY RunEventsAssumption DEF Always, Inner, Outer, StepTypes, ToolTypes
<1>2. /\ Len(w) \in Nat /\ Len(v) \in Nat /\ Len(w) <= Len(v) /\ Prefix(w, v)
      /\ \A k \in 1..Len(w) : v[k] = w[k]
      /\ \A k \in (Len(w)+1)..Len(v) : k - Len(w) \in 1..Len(b) /\ v[k] = b[k - Len(w)]
  <2>1. Len(w) \in Nat /\ Len(b) \in Nat /\ Len(v) = Len(w) + Len(b)
    BY Joined
  <2>2. Prefix(w, v)
    BY Joined
  <2>3. \A k \in (Len(w)+1)..Len(v) : k - Len(w) \in 1..Len(b) /\ v[k] = b[k - Len(w)]
    BY Joined
  <2> QED BY <2>1, <2>2, <2>3 DEF Prefix
<1>3. \A k \in Len(w)..Len(v) : Begun(v, k) = StepsOf(w) /\ Ended(v, k) = Ended(w, Len(w))
  BY <1>1, Block, ZenonT(40)
<1>4. \A k \in 1..Len(w) : Begun(v, k) = Begun(w, k) /\ Ended(v, k) = Ended(w, k)
  <2>1. \A k \in 1..Len(w) : k \in 0..Len(w)
    BY <1>2
  <2> QED BY <1>2, <2>1, PrefixCounts
<1>5. Begun(v, Len(v)) = StepsOf(w) /\ Ended(v, Len(v)) = Ended(w, Len(w))
  <2>1. Len(v) \in Len(w)..Len(v)
    BY <1>2
  <2> QED BY <1>3, <2>1
<1>6. /\ StepsOf(v) = StepsOf(w)
      /\ Inside(w) => Inside(v)
      /\ Outside(w) => Outside(v)
  BY <1>5 DEF StepsOf, Inside, Outside
<1>7. ASSUME NEW k \in 1..Len(v)
      PROVE  /\ Begun(v, k) \in {Ended(v, k), Ended(v, k) + 1}
             /\ v[k].type \in Outer => Begun(v, k) = Ended(v, k)
             /\ v[k].type \in Inner => Begun(v, k) = Ended(v, k) + 1
  <2>1. CASE k \in 1..Len(w)
    BY <1>2, <1>4, <2>1 DEF Bracketed
  <2>2. CASE k \in (Len(w)+1)..Len(v)
    <3>1. k \in Len(w)..Len(v) /\ k - Len(w) \in 1..Len(b) /\ v[k] = b[k - Len(w)]
      BY <1>2, <2>2
    <3>2. Begun(v, k) = Begun(w, Len(w)) /\ Ended(v, k) = Ended(w, Len(w))
      BY <1>3, <3>1 DEF StepsOf
    <3>3. \/ v[k].type \in Always
          \/ Inside(w) /\ v[k].type \in Inner
          \/ Outside(w) /\ v[k].type \in Outer
      BY <3>1
    <3>4. /\ v[k].type \in Always => v[k].type \notin Outer \cup Inner
          /\ v[k].type \in Outer => v[k].type \notin Inner
      BY RunEventsAssumption DEF Always, Inner, Outer, ToolTypes
    <3>5. Inside(w) \/ Outside(w)
      BY DEF Bracketed
    <3> QED BY <3>2, <3>3, <3>4, <3>5 DEF Inside, Outside
  <2>3. k \in 1..Len(w) \/ k \in (Len(w)+1)..Len(v)
    BY <1>2
  <2> QED BY <2>1, <2>2, <2>3
<1> QED BY <1>6, <1>7 DEF Bracketed

\* finish-step ends the current step.
LEMMA StepEnds ==
  ASSUME NEW w \in Seq(WirePart), NEW p \in WirePart, p.type = "finish-step",
         NEW v, v = w \o <<p>>, Bracketed(w), Inside(w)
  PROVE  /\ Bracketed(v) /\ Outside(v) /\ StepsOf(v) = StepsOf(w)
         /\ SameTools(w, v)
<1> DEFINE n == Len(w)
<1>1. /\ n \in Nat /\ Len(v) = n + 1 /\ v[n + 1] = p /\ Prefix(w, v)
      /\ \A k \in 1..n : v[k] = w[k]
  <2>1. <<p>> \in Seq(WirePart) /\ Len(<<p>>) = 1 /\ <<p>>[1] = p /\ 1 \in 1..Len(<<p>>)
    OBVIOUS
  <2>2. Len(w) \in Nat /\ Len(v) = Len(w) + 1 /\ v[Len(w) + 1] = p
    BY <2>1, Joined
  <2>3. Prefix(w, v) /\ \A k \in 1..Len(w) : v[k] = w[k]
    BY <2>1, Joined, ZenonT(40)
  <2> QED BY <2>2, <2>3
<1>2. \A k \in 0..n : Begun(v, k) = Begun(w, k) /\ Ended(v, k) = Ended(w, k)
  BY <1>1, PrefixCounts
<1>3. Begun(v, n) = Begun(w, n) /\ Ended(v, n) = Ended(w, n)
  <2>1. n \in 0..n
    BY <1>1
  <2> QED BY <1>2, <2>1
<1>4. /\ Begun(v, n + 1) = Begun(v, n) + 0 /\ Ended(v, n + 1) = Ended(v, n) + 1
      /\ Begun(v, n) \in Nat /\ Ended(v, n) \in Nat
  <2>1. /\ Count(v, "start-step", n + 1) = Count(v, "start-step", n) + 0
        /\ Count(v, "finish-step", n + 1) = Count(v, "finish-step", n) + 1
    <3>1. v[n + 1].type = "finish-step"
      BY <1>1
    <3> HIDE DEF n
    <3> QED BY <1>1, <3>1, CountNext, ZenonT(40)
  <2> HIDE DEF n
  <2> QED BY <1>1, <2>1, CountType DEF Begun, Ended
<1>5. Begun(w, n) = Ended(w, n) + 1
  BY DEF Inside
<1>6. Begun(v, n + 1) = Begun(w, n) /\ Ended(v, n + 1) = Begun(v, n + 1)
  <2> HIDE DEF n
  <2> QED BY <1>3, <1>4, <1>5
<1>7. Outside(v) /\ StepsOf(v) = StepsOf(w)
  BY <1>1, <1>6 DEF Outside, StepsOf
<1>8. ASSUME NEW k \in 1..Len(v)
      PROVE  /\ Begun(v, k) \in {Ended(v, k), Ended(v, k) + 1}
             /\ v[k].type \in Outer => Begun(v, k) = Ended(v, k)
             /\ v[k].type \in Inner => Begun(v, k) = Ended(v, k) + 1
  <2>1. CASE k \in 1..n
    <3>1. k \in 0..n
      BY <1>1, <2>1
    <3> QED BY <1>1, <1>2, <2>1, <3>1 DEF Bracketed
  <2>2. CASE k = n + 1
    <3>1. v[k].type \notin Inner
      BY <1>1, <2>2, RunEventsAssumption DEF Inner, ToolTypes
    <3> HIDE DEF n
    <3> QED BY <1>6, <2>2, <3>1
  <2>3. k \in 1..n \/ k = n + 1
    BY <1>1
  <2> QED BY <2>1, <2>2, <2>3
<1>9. ASSUME NEW k, NEW i, NEW type \in ToolTypes
      PROVE  AtStep(v, k, i, type) = AtStep(w, k, i, type)
  <2>1. AtStep(w, k, i, type) = AtStep(v, k, i, type) \cap (1..n)
    BY <1>1, PrefixSteps
  <2>2. AtStep(v, k, i, type) \subseteq 1..(n+1) /\ n + 1 \notin AtStep(v, k, i, type)
    BY <1>1 DEF AtStep, ToolTypes
  <2> HIDE DEF n
  <2> QED BY <1>1, <2>1, <2>2
<1> QED BY <1>7, <1>8, <1>9 DEF Bracketed, SameTools

\* start-step begins one that has no parts yet.
LEMMA StepBegins ==
  ASSUME NEW w \in Seq(WirePart), NEW p \in WirePart, p.type = "start-step",
         NEW v, v = w \o <<p>>, Bracketed(w), Outside(w)
  PROVE  /\ Bracketed(v) /\ Inside(v) /\ StepsOf(v) = StepsOf(w) + 1
         /\ SameTools(w, v)
         /\ \A i, type : AtStep(w, StepsOf(v), i, type) = {}
<1> DEFINE n == Len(w)
<1>1. /\ n \in Nat /\ Len(v) = n + 1 /\ v[n + 1] = p /\ Prefix(w, v)
      /\ \A k \in 1..n : v[k] = w[k]
  <2>1. <<p>> \in Seq(WirePart) /\ Len(<<p>>) = 1 /\ <<p>>[1] = p /\ 1 \in 1..Len(<<p>>)
    OBVIOUS
  <2>2. Len(w) \in Nat /\ Len(v) = Len(w) + 1 /\ v[Len(w) + 1] = p
    BY <2>1, Joined
  <2>3. Prefix(w, v) /\ \A k \in 1..Len(w) : v[k] = w[k]
    BY <2>1, Joined, ZenonT(40)
  <2> QED BY <2>2, <2>3
<1>2. \A k \in 0..n : Begun(v, k) = Begun(w, k) /\ Ended(v, k) = Ended(w, k)
  BY <1>1, PrefixCounts
<1>3. Begun(v, n) = Begun(w, n) /\ Ended(v, n) = Ended(w, n)
  <2>1. n \in 0..n
    BY <1>1
  <2> QED BY <1>2, <2>1
<1>4. /\ Begun(v, n + 1) = Begun(v, n) + 1 /\ Ended(v, n + 1) = Ended(v, n) + 0
      /\ Begun(v, n) \in Nat /\ Ended(v, n) \in Nat
  <2>1. /\ Count(v, "start-step", n + 1) = Count(v, "start-step", n) + 1
        /\ Count(v, "finish-step", n + 1) = Count(v, "finish-step", n) + 0
    <3>1. v[n + 1].type = "start-step"
      BY <1>1
    <3> HIDE DEF n
    <3> QED BY <1>1, <3>1, CountNext, ZenonT(40)
  <2> HIDE DEF n
  <2> QED BY <1>1, <2>1, CountType DEF Begun, Ended
<1>5. Begun(w, n) = Ended(w, n)
  BY DEF Outside
<1>6. Begun(v, n + 1) = Begun(w, n) + 1 /\ Begun(v, n + 1) = Ended(v, n + 1) + 1
  <2> HIDE DEF n
  <2> QED BY <1>3, <1>4, <1>5
<1>7. Inside(v) /\ StepsOf(v) = StepsOf(w) + 1
  BY <1>1, <1>6 DEF Inside, StepsOf
<1>8. ASSUME NEW k \in 1..Len(v)
      PROVE  /\ Begun(v, k) \in {Ended(v, k), Ended(v, k) + 1}
             /\ v[k].type \in Outer => Begun(v, k) = Ended(v, k)
             /\ v[k].type \in Inner => Begun(v, k) = Ended(v, k) + 1
  <2>1. CASE k \in 1..n
    <3>1. k \in 0..n
      BY <1>1, <2>1
    <3> QED BY <1>1, <1>2, <2>1, <3>1 DEF Bracketed
  <2>2. CASE k = n + 1
    <3>1. v[k].type \notin Outer
      BY <1>1, <2>2 DEF Outer
    <3> HIDE DEF n
    <3> QED BY <1>6, <2>2, <3>1
  <2>3. k \in 1..n \/ k = n + 1
    BY <1>1
  <2> QED BY <2>1, <2>2, <2>3
<1>9. ASSUME NEW k, NEW i, NEW type \in ToolTypes
      PROVE  AtStep(v, k, i, type) = AtStep(w, k, i, type)
  <2>1. AtStep(w, k, i, type) = AtStep(v, k, i, type) \cap (1..n)
    BY <1>1, PrefixSteps
  <2>2. AtStep(v, k, i, type) \subseteq 1..(n+1) /\ n + 1 \notin AtStep(v, k, i, type)
    BY <1>1 DEF AtStep, ToolTypes
  <2> HIDE DEF n
  <2> QED BY <1>1, <2>1, <2>2
<1>10. ASSUME NEW i, NEW type, NEW j \in AtStep(w, StepsOf(v), i, type) PROVE FALSE
  <2>1. j \in 1..n /\ Begun(w, j) = StepsOf(w) + 1
    BY <1>7 DEF AtStep
  <2>2. j \in Nat /\ j <= n
    BY <1>1, <2>1
  <2>3. Begun(w, j) <= Begun(w, n) /\ Begun(w, j) \in Nat /\ Begun(w, n) \in Nat
    BY <1>1, <2>2, CountGrows, CountType DEF Begun
  <2> QED BY <2>1, <2>3 DEF StepsOf
<1> QED BY <1>7, <1>8, <1>9, <1>10 DEF Bracketed, SameTools

-----------------------------------------------------------------------------
(* The inductive invariant *)

LastTypes == {"finish", "abort", "[DONE]"}

ToolState == [started : BOOLEAN, available : BOOLEAN, completed : BOOLEAN, input : Nat]
StreamState == [started : BOOLEAN, pendingStepFinish : BOOLEAN, runErr : BOOLEAN,
                toolCalls : [ToolIDs -> ToolState], toolOrder : Seq(ToolIDs)]
RunState == [called : SUBSET ToolIDs, waiting : SUBSET ToolIDs,
             phase : {"created", "model", "failed", "ended"}]
Reasons == {"stop", "length", "error", "cancelled"}

TypeOK ==
    /\ run \in RunState /\ count \in Nat /\ missed \in Nat /\ state \in StreamState
    /\ wire \in Seq(WirePart) /\ result \in Reasons \cup {"none"}
    /\ pc \in {"before", "reading", "returned"}

Quiet(w) == \A k \in 1..Len(w) : w[k].type \notin LastTypes

\* A tool that was started in this step is known, and a completed one has its output.
Resolved(w, st) ==
    \A i \in ToolIDs :
      /\ Now(w, i, "tool-input-start") # {} => st.toolCalls[i].started
      /\ st.toolCalls[i].started => Contains(st.toolOrder, i)
      /\ st.toolCalls[i].completed => Now(w, i, "tool-output-available") # {}

\* The state of a tool says which of its parts this step has.
Matches(w, st) ==
    \A i \in ToolIDs :
      /\ Cardinality(Now(w, i, "tool-input-delta")) = st.toolCalls[i].input
      /\ st.toolCalls[i].available <=> Now(w, i, "tool-input-available") # {}
      /\ Now(w, i, "tool-output-available") # {} => st.toolCalls[i].completed

Distinct(s) == \A a, b \in 1..Len(s) : s[a] = s[b] => a = b

\* The tools are those of the run: called but not available while the model speaks,
\* available and not completed while they are waited for.
Follows(r, st) ==
    /\ \A i \in ToolIDs : Contains(st.toolOrder, i) => st.toolCalls[i].started
    /\ Distinct(st.toolOrder)
    /\ r.phase \in {"created", "model"} /\ r.waiting = {} =>
         \A i \in ToolIDs : /\ st.toolCalls[i].started <=> i \in r.called
                            /\ ~ st.toolCalls[i].available /\ ~ st.toolCalls[i].completed
    /\ r.phase \in {"created", "model"} /\ r.waiting # {} =>
         /\ st.pendingStepFinish /\ r.called = {}
         /\ \A i \in ToolIDs :
              /\ st.toolCalls[i].started => st.toolCalls[i].available
              /\ i \in r.waiting <=> st.toolCalls[i].started /\ ~ st.toolCalls[i].completed

\* A wire a step of which is being written.
Fine(w) == w \in Seq(WirePart) /\ Bracketed(w) /\ Inside(w) /\ Waits(w) /\ Quiet(w)

Good(w, st) == Fine(w) /\ st \in StreamState /\ Resolved(w, st)

Matched(w, st, r) == AllOrderly(w) /\ Matches(w, st) /\ Follows(r, st)

\* What a handler that goes on leaves behind.
Kept(w, st, h, v) ==
    /\ Good(v, h.st) /\ h.parts \in Seq(WirePart) /\ h.done = FALSE
    /\ h.st.started = st.started

FollowsOn(w, st, r, v, st2, r2) == Matched(w, st, r) => Matched(v, st2, r2)

\* A tool is called, a tool answers, and the model has spoken.
Calls(r, e, r2) ==
    /\ r.phase = "model" /\ r.waiting = {}
    /\ e.type = "tool_args" => e.id \in r.called
    /\ r2.called = r.called \cup {e.id} /\ r2.waiting = {}
Answers(r, e, r2) ==
    /\ r.phase = "model" /\ e.id \in r.waiting
    /\ r2.called = r.called /\ r2.waiting = r.waiting \ {e.id} /\ r2.phase = "model"
Hands(r, r2) ==
    /\ r.phase = "model" /\ r.waiting = {}
    /\ r2.called = {} /\ r2.waiting = r.called /\ r2.phase = "model"

\* No tool is known yet.
Blank(st) == /\ st.toolOrder = <<>>
             /\ \A i \in ToolIDs : st.toolCalls[i] = NoTool

EndsWell(w, ret, res) ==
    \A k \in 1..Len(w) :
      /\ w[k].type = "[DONE]" => k = Len(w) /\ ret
      /\ w[k].type = "finish" => res \notin {"none", "cancelled"}
      /\ w[k].type = "abort" => res = "cancelled"

Inv == /\ TypeOK
       /\ Bracketed(wire) /\ Waits(wire) /\ EndsWell(wire, pc = "returned", result)
       /\ missed = 0 => AllOrderly(wire)
       /\ pc # "returned" =>
            /\ result = "none"
            /\ IF state.started THEN pc = "reading" /\ Good(wire, state)
                                ELSE wire = <<>> /\ Blank(state)
            /\ missed = 0 => Follows(run, state) /\ Matches(wire, state)

-----------------------------------------------------------------------------
(* Writing a block of parts *)

\* A call with the same parts is in the same order.
LEMMA OrderlySame ==
  ASSUME NEW w, NEW v, Prefix(w, v), NEW k, NEW i,
         \A type \in ToolTypes : AtStep(v, k, i, type) = AtStep(w, k, i, type),
         Orderly(w, k, i)
  PROVE  Orderly(v, k, i)
<1>1. /\ AtStep(v, k, i, "tool-input-start") = AtStep(w, k, i, "tool-input-start")
      /\ AtStep(v, k, i, "tool-input-delta") = AtStep(w, k, i, "tool-input-delta")
      /\ AtStep(v, k, i, "tool-input-available") = AtStep(w, k, i, "tool-input-available")
      /\ AtStep(v, k, i, "tool-output-available") = AtStep(w, k, i, "tool-output-available")
  BY DEF ToolTypes
<1>2. \A a \in AtStep(w, k, i, "tool-input-available") : v[a] = w[a]
  BY DEF AtStep, Prefix
<1> QED BY <1>1, <1>2 DEF Orderly

\* A block leaves brackets and finished steps as they were.
LEMMA Written ==
  ASSUME NEW w \in Seq(WirePart), NEW b \in Seq(WirePart), NEW v, v = w \o b,
         Bracketed(w), Waits(w),
         \A n \in 1..Len(b) : \/ b[n].type \in Always
                              \/ Inside(w) /\ b[n].type \in Inner
                              \/ Outside(w) /\ b[n].type \in Outer
  PROVE  /\ v \in Seq(WirePart) /\ Bracketed(v) /\ Waits(v)
         /\ Inside(w) => Inside(v)
         /\ Outside(w) => Outside(v)
         /\ SameStep(w, v)
<1>1. \A n \in 1..Len(b) : b[n].type \notin StepTypes
  BY RunEventsAssumption DEF Always, Inner, Outer, StepTypes, ToolTypes
<1>2. Bracketed(v) /\ StepsOf(v) = StepsOf(w) /\ (Inside(w) => Inside(v)) /\ (Outside(w) => Outside(v))
  BY BlockBracketed
<1>4. SameStep(w, v)
  BY <1>1, Block
<1>5. \A k, i, type : k # StepsOf(w) => AtStep(v, k, i, type) = AtStep(w, k, i, type)
  BY <1>4 DEF SameStep
<1>6. v \in Seq(WirePart)
  BY Joined
<1>7. Waits(v)
  <2> SUFFICES ASSUME NEW k \in 1..(StepsOf(w) - 1), NEW i \in ToolIDs,
                      AtStep(v, k, i, "tool-input-start") # {}
               PROVE  AtStep(v, k, i, "tool-output-available") # {}
    BY <1>2 DEF Waits, StepsOf
  <2>1. StepsOf(w) \in Nat
    BY Numbers
  <2>2. k # StepsOf(w)
    BY <2>1
  <2> QED BY <1>5, <2>2 DEF Waits, StepsOf
<1> QED BY <1>2, <1>4, <1>5, <1>6, <1>7

\* A block leaves the earlier steps as they were.
LEMMA OrderlyWritten ==
  ASSUME NEW w \in Seq(WirePart), NEW v, SameStep(w, v), AllOrderly(w),
         \A i \in ToolIDs : Orderly(w, StepsOf(w), i) => Orderly(v, StepsOf(w), i)
  PROVE  AllOrderly(v)
<1> SUFFICES ASSUME NEW k \in 1..StepsOf(w), NEW i \in ToolIDs PROVE Orderly(v, k, i)
  BY DEF AllOrderly, StepsOf, SameStep
<1>1. Orderly(w, k, i)
  BY DEF AllOrderly, StepsOf
<1>2. CASE k = StepsOf(w)
  BY <1>1, <1>2
<1>3. CASE k # StepsOf(w)
  BY <1>1, <1>3, OrderlySame DEF SameStep
<1> QED BY <1>2, <1>3

\* A wire that goes on has none of the last parts.
LEMMA QuietWritten ==
  ASSUME NEW w \in Seq(WirePart), NEW b \in Seq(WirePart), NEW v, v = w \o b, Quiet(w),
         \A n \in 1..Len(b) : b[n].type \notin LastTypes
  PROVE  Quiet(v)
<1> SUFFICES ASSUME NEW k \in 1..Len(v) PROVE v[k].type \notin LastTypes
  BY DEF Quiet
<1>1. Len(w) \in Nat /\ Len(b) \in Nat /\ Len(v) = Len(w) + Len(b)
  BY Joined
<1>2. CASE k \in 1..Len(w)
  <2>1. v[k] = w[k]
    BY <1>2, Joined
  <2> QED BY <1>2, <2>1 DEF Quiet
<1>3. CASE k \in (Len(w)+1)..Len(v)
  <2>1. k - Len(w) \in 1..Len(b) /\ v[k] = b[k - Len(w)]
    BY <1>3, Joined
  <2> QED BY <2>1
<1> QED BY <1>1, <1>2, <1>3

\* A block with no part about a tool.
LEMMA NoneFresh ==
  ASSUME NEW w \in Seq(WirePart), NEW b \in Seq(WirePart), NEW v, v = w \o b, NEW i, NEW type,
         \A n \in 1..Len(b) : ~ (b[n].type = type /\ b[n].id = i)
  PROVE  Fresh(w, v, i, type) = {}
<1> SUFFICES ASSUME NEW j \in Fresh(w, v, i, type) PROVE FALSE
  OBVIOUS
<1>1. j \in (Len(w)+1)..Len(v) /\ v[j].type = type /\ v[j].id = i
  BY DEF Fresh
<1>2. j - Len(w) \in 1..Len(b) /\ v[j] = b[j - Len(w)]
  BY <1>1, Joined
<1> QED BY <1>1, <1>2

\* Parts that are about no tool, written inside a step.
LEMMA Remark ==
  ASSUME NEW w, NEW st, Good(w, st), NEW st2 \in StreamState,
         st2.toolCalls = st.toolCalls, st2.toolOrder = st.toolOrder,
         NEW b \in Seq(WirePart),
         \A n \in 1..Len(b) : b[n].type \in TextKinds \cup {"error"},
         NEW v, v = w \o b
  PROVE  /\ Good(v, st2)
         /\ AllOrderly(w) /\ Matches(w, st) => AllOrderly(v) /\ Matches(v, st2)
<1>1. w \in Seq(WirePart) /\ Bracketed(w) /\ Inside(w) /\ Waits(w) /\ Quiet(w) /\ Resolved(w, st)
  BY DEF Good, Fine
<1>2. \A n \in 1..Len(b) : \/ b[n].type \in Always
                           \/ Inside(w) /\ b[n].type \in Inner
                           \/ Outside(w) /\ b[n].type \in Outer
  BY <1>1 DEF Always, Inner
<1>3. v \in Seq(WirePart) /\ Bracketed(v) /\ Waits(v) /\ Inside(v)
  BY <1>1, <1>2, Written
<1>4. SameStep(w, v) /\ Prefix(w, v) /\ StepsOf(v) = StepsOf(w)
  <2>1. SameStep(w, v)
    BY <1>1, <1>2, Written
  <2> QED BY <2>1 DEF SameStep
<1>5. \A i, type : Now(v, i, type) = Now(w, i, type) \cup Fresh(w, v, i, type)
  BY <1>4 DEF SameStep
<1>6. \A i, type : type \in ToolTypes => Now(v, i, type) = Now(w, i, type)
  <2> SUFFICES ASSUME NEW i, NEW type, type \in ToolTypes PROVE Now(v, i, type) = Now(w, i, type)
    OBVIOUS
  <2>1. \A n \in 1..Len(b) : ~ (b[n].type = type /\ b[n].id = i)
    BY RunEventsAssumption DEF ToolTypes
  <2>2. Fresh(w, v, i, type) = {}
    BY <1>1, <2>1, NoneFresh
  <2> QED BY <1>5, <2>2
<1>7. Quiet(v)
  <2>1. \A n \in 1..Len(b) : b[n].type \notin LastTypes
    BY RunEventsAssumption DEF LastTypes
  <2> QED BY <1>1, <2>1, QuietWritten
<1>8. \A i : /\ Now(v, i, "tool-input-start") = Now(w, i, "tool-input-start")
             /\ Now(v, i, "tool-input-delta") = Now(w, i, "tool-input-delta")
             /\ Now(v, i, "tool-input-available") = Now(w, i, "tool-input-available")
             /\ Now(v, i, "tool-output-available") = Now(w, i, "tool-output-available")
  BY <1>6 DEF ToolTypes
<1>9. Resolved(v, st2)
  BY <1>1, <1>8 DEF Resolved
<1>10. Good(v, st2)
  BY <1>3, <1>7, <1>9 DEF Good, Fine
<1>11. ASSUME AllOrderly(w), Matches(w, st) PROVE AllOrderly(v) /\ Matches(v, st2)
  <2>1. Matches(v, st2)
    BY <1>8, <1>11 DEF Matches
  <2>2. ASSUME NEW i \in ToolIDs, Orderly(w, StepsOf(w), i) PROVE Orderly(v, StepsOf(w), i)
    <3>1. \A type \in ToolTypes : AtStep(v, StepsOf(w), i, type) = AtStep(w, StepsOf(w), i, type)
      BY <1>4, <1>6 DEF Now
    <3> QED BY <1>4, <2>2, <3>1, OrderlySame
  <2>3. AllOrderly(v)
    BY <1>1, <1>4, <1>11, <2>2, OrderlyWritten
  <2> QED BY <2>1, <2>3
<1> QED BY <1>10, <1>11

-----------------------------------------------------------------------------
(* Writing a part about a tool *)

Adds(w, v, i, type) ==
    /\ Now(v, i, type) = Now(w, i, type) \cup {Len(w) + 1}
    /\ \A x, t : x # i \/ t # type => Now(v, x, t) = Now(w, x, t)

\* The parts of the current step lie in the wire.
LEMMA NowInside ==
  ASSUME NEW w \in Seq(WirePart), NEW i, NEW type
  PROVE  /\ Now(w, i, type) \in SUBSET (1..Len(w))
         /\ IsFiniteSet(Now(w, i, type)) /\ Cardinality(Now(w, i, type)) \in Nat
<1>1. Now(w, i, type) \in SUBSET (1..Len(w)) /\ Len(w) \in Nat
  BY DEF Now, AtStep
<1> QED BY <1>1, Bounded

\* One part about a tool.
LEMMA ToolPart ==
  ASSUME NEW w, Fine(w), NEW type \in ToolTypes, NEW i \in ToolIDs, NEW n \in Nat,
         NEW v, v = w \o <<Part(type, i, n)>>
  PROVE  /\ Fine(v) /\ SameStep(w, v) /\ Adds(w, v, i, type)
         /\ Len(w) \in Nat /\ Len(v) = Len(w) + 1 /\ v[Len(w) + 1] = Part(type, i, n)
<1> DEFINE p == Part(type, i, n)
           b == <<p>>
<1>1. p \in WirePart /\ p.type = type /\ p.id = i /\ type \in Inner
  BY DEF Part, WirePart, ToolTypes, Inner
<1>2. b \in Seq(WirePart) /\ Len(b) = 1 /\ b[1] = p /\ \A k \in 1..Len(b) : b[k] = p
  <2> HIDE DEF p
  <2> QED BY <1>1
<1>3. w \in Seq(WirePart) /\ Bracketed(w) /\ Inside(w) /\ Waits(w) /\ Quiet(w)
  BY DEF Fine
<1> HIDE DEF p
<1>4. v = w \o b
  BY DEF p
<1> HIDE DEF b
<1>5. \A k \in 1..Len(b) : \/ b[k].type \in Always
                           \/ Inside(w) /\ b[k].type \in Inner
                           \/ Outside(w) /\ b[k].type \in Outer
  BY <1>1, <1>2, <1>3
<1>6. v \in Seq(WirePart) /\ Bracketed(v) /\ Waits(v) /\ Inside(v) /\ SameStep(w, v)
  BY <1>2, <1>3, <1>4, <1>5, Written
<1>7. Quiet(v)
  <2>1. \A k \in 1..Len(b) : b[k].type \notin LastTypes
    BY <1>1, <1>2 DEF LastTypes, ToolTypes
  <2> QED BY <1>2, <1>3, <1>4, <2>1, QuietWritten
<1>8. Fine(v)
  BY <1>6, <1>7 DEF Fine
<1>9. Len(w) \in Nat /\ Len(v) = Len(w) + 1 /\ v[Len(w) + 1] = p
  <2>1. Len(w) \in Nat /\ Len(v) = Len(w) + 1
    BY <1>2, <1>3, <1>4, Joined
  <2>2. 1 \in 1..Len(b)
    BY <1>2
  <2>3. v[Len(w) + 1] = b[1]
    BY <1>2, <1>3, <1>4, <2>2, Joined
  <2> QED BY <1>2, <2>1, <2>3
<1>10. Fresh(w, v, i, type) = {Len(w) + 1}
  BY <1>1, <1>9 DEF Fresh
<1>11. ASSUME NEW x, NEW t, x # i \/ t # type PROVE Fresh(w, v, x, t) = {}
  BY <1>1, <1>9, <1>11 DEF Fresh
<1>12. Now(v, i, type) = Now(w, i, type) \cup {Len(w) + 1}
  BY <1>6, <1>10 DEF SameStep
<1>13. ASSUME NEW x, NEW t, x # i \/ t # type PROVE Now(v, x, t) = Now(w, x, t)
  <2>1. Now(v, x, t) = Now(w, x, t) \cup Fresh(w, v, x, t)
    BY <1>6 DEF SameStep
  <2> QED BY <1>11, <1>13, <2>1
<1>14. Adds(w, v, i, type)
  BY <1>12, <1>13 DEF Adds
<1> QED BY <1>6, <1>8, <1>9, <1>14 DEF p

\* What a step may have of a call before the next part about it.
MayFollow(w, i, type) ==
    CASE type = "tool-input-start" -> /\ Now(w, i, "tool-input-start") = {}
                                      /\ Now(w, i, "tool-input-available") = {}
                                      /\ Now(w, i, "tool-output-available") = {}
      [] type = "tool-input-delta" -> /\ Now(w, i, "tool-input-available") = {}
                                      /\ Now(w, i, "tool-output-available") = {}
      [] type = "tool-output-available" -> /\ Now(w, i, "tool-input-available") # {}
                                           /\ Now(w, i, "tool-output-available") = {}

OrderlyTools == {"tool-input-start", "tool-input-delta", "tool-output-available"}

\* The parts of the current step are in order.
InOrder(w, i) ==
    LET Of(type) == Now(w, i, type) IN
    /\ \A a, b \in Of("tool-input-start") : a = b
    /\ \A a, b \in Of("tool-input-available") : a = b
    /\ \A a, b \in Of("tool-output-available") : a = b
    /\ \A a \in Of("tool-input-available") :
         /\ \A j \in Of("tool-input-start") \cup Of("tool-input-delta") : j < a
         /\ w[a].input = Cardinality(Of("tool-input-delta"))
         /\ \A o \in Of("tool-output-available") : a < o
    /\ Of("tool-output-available") # {} => Of("tool-input-available") # {}

\* InOrder is Orderly of the current step.
LEMMA OrderlyNow == ASSUME NEW w, NEW i PROVE Orderly(w, StepsOf(w), i) <=> InOrder(w, i)
BY DEF Orderly, InOrder, Now

\* Which part may follow those that the step has for its call.
LEMMA PartInOrder ==
  ASSUME NEW w, Fine(w), NEW type \in OrderlyTools, NEW i \in ToolIDs, NEW n \in Nat,
         NEW v, v = w \o <<Part(type, i, n)>>,
         AllOrderly(w), MayFollow(w, i, type)
  PROVE  AllOrderly(v)
<1>1. type \in ToolTypes
  BY DEF ToolTypes, OrderlyTools
<1>2. /\ Fine(v) /\ SameStep(w, v) /\ Adds(w, v, i, type)
      /\ Len(w) \in Nat /\ Len(v) = Len(w) + 1
  <2>1. Fine(v) /\ SameStep(w, v) /\ Adds(w, v, i, type)
    BY <1>1, ToolPart
  <2>2. Len(w) \in Nat /\ Len(v) = Len(w) + 1
    BY <1>1, ToolPart
  <2> QED BY <2>1, <2>2
<1>3. w \in Seq(WirePart) /\ \A k \in 1..Len(w) : v[k] = w[k]
  BY <1>2 DEF Fine, SameStep, Prefix
<1>4. ASSUME NEW x \in ToolIDs, Orderly(w, StepsOf(w), x) PROVE Orderly(v, StepsOf(w), x)
  <2>1. StepsOf(v) = StepsOf(w)
    BY <1>2 DEF SameStep
  <2>2. InOrder(w, x)
    BY <1>4, OrderlyNow
  <2> DEFINE W(t) == Now(w, x, t)
             V(t) == Now(v, x, t)
  <2>3. \A t : W(t) \in SUBSET (1..Len(w))
    BY <1>3, NowInside
  <2>4. \A t : x # i \/ t # type => V(t) = W(t)
    BY <1>2 DEF Adds
  <2>5. x = i => V(type) = W(type) \cup {Len(w) + 1}
    BY <1>2 DEF Adds
  <2>6. InOrder(v, x)
    <3>1. CASE x # i
      <4>1. /\ V("tool-input-start") = W("tool-input-start")
            /\ V("tool-input-delta") = W("tool-input-delta")
            /\ V("tool-input-available") = W("tool-input-available")
            /\ V("tool-output-available") = W("tool-output-available")
        BY <2>4, <3>1
      <4>2. \A a \in W("tool-input-available") : v[a] = w[a]
        BY <1>3, <2>3
      <4> QED BY <2>2, <4>1, <4>2 DEF InOrder
    <3>2. CASE x = i /\ type = "tool-input-start"
      <4>1. /\ V("tool-input-start") = {Len(w) + 1}
            /\ V("tool-input-available") = {} /\ V("tool-output-available") = {}
        BY <2>4, <2>5, <3>2 DEF MayFollow
      <4> QED BY <4>1 DEF InOrder
    <3>3. CASE x = i /\ type = "tool-input-delta"
      <4>1. /\ V("tool-input-start") = W("tool-input-start")
            /\ V("tool-input-available") = {} /\ V("tool-output-available") = {}
        BY <2>4, <2>5, <3>3 DEF MayFollow
      <4> QED BY <2>2, <4>1 DEF InOrder
    <3>4. CASE x = i /\ type = "tool-output-available"
      <4>1. /\ V("tool-input-start") = W("tool-input-start")
            /\ V("tool-input-delta") = W("tool-input-delta")
            /\ V("tool-input-available") = W("tool-input-available")
            /\ W("tool-input-available") # {} /\ W("tool-output-available") = {}
            /\ V("tool-output-available") = {Len(w) + 1}
        BY <2>4, <2>5, <3>4 DEF MayFollow
      <4>2. \A a \in W("tool-input-available") : v[a] = w[a] /\ a < Len(w) + 1
        BY <1>2, <1>3, <2>3
      <4> QED BY <2>2, <4>1, <4>2, ZenonT(40) DEF InOrder
    <3> QED BY <3>1, <3>2, <3>3, <3>4 DEF OrderlyTools
  <2>7. Orderly(v, StepsOf(v), x)
    BY <2>6, OrderlyNow
  <2> QED BY <2>1, <2>7
<1> QED BY <1>2, <1>3, <1>4, OrderlyWritten

-----------------------------------------------------------------------------
(* Tool calls *)

\* A tool enters toolOrder once.
LEMMA OrderedAdds ==
  ASSUME NEW st \in StreamState, NEW i \in ToolIDs
  PROVE  /\ Ordered(st, i) \in Seq(ToolIDs)
         /\ \A x : Contains(Ordered(st, i), x) <=> Contains(st.toolOrder, x) \/ x = i
         /\ Distinct(st.toolOrder) => Distinct(Ordered(st, i))
<1> DEFINE s == st.toolOrder
           t == Append(s, i)
<1>1. s \in Seq(ToolIDs) /\ Len(s) \in Nat
  BY DEF StreamState
<1>2. CASE Contains(s, i)
  BY <1>1, <1>2 DEF Ordered
<1>3. CASE ~ Contains(s, i)
  <2>1. Ordered(st, i) = t
    BY <1>3 DEF Ordered
  <2>2. /\ t \in Seq(ToolIDs) /\ Len(t) = Len(s) + 1 /\ t[Len(s) + 1] = i
        /\ \A k \in 1..Len(s) : t[k] = s[k]
    BY <1>1
  <2> HIDE DEF t, s
  <2>3. \A x : Contains(t, x) <=> Contains(s, x) \/ x = i
    <3> SUFFICES ASSUME NEW x PROVE Contains(t, x) <=> Contains(s, x) \/ x = i
      OBVIOUS
    <3>1. ASSUME Contains(t, x) PROVE Contains(s, x) \/ x = i
      <4>1. PICK k \in 1..Len(t) : t[k] = x
        BY <3>1 DEF Contains
      <4>2. k \in 1..Len(s) \/ k = Len(s) + 1
        BY <1>1, <2>2
      <4> QED BY <2>2, <4>1, <4>2 DEF Contains
    <3>2. ASSUME Contains(s, x) PROVE Contains(t, x)
      <4>1. PICK k \in 1..Len(s) : s[k] = x
        BY <3>2 DEF Contains
      <4>2. k \in 1..Len(t) /\ t[k] = x
        BY <1>1, <2>2, <4>1
      <4> QED BY <4>2 DEF Contains
    <3>3. Contains(t, i)
      <4>1. Len(s) + 1 \in 1..Len(t)
        BY <1>1, <2>2
      <4> QED BY <2>2, <4>1 DEF Contains
    <3> QED BY <3>1, <3>2, <3>3
  <2>4. ASSUME Distinct(s), NEW a \in 1..Len(t), NEW b \in 1..Len(t), t[a] = t[b]
        PROVE  a = b
    <3>1. a \in 1..Len(s) \/ a = Len(s) + 1
      BY <1>1, <2>2
    <3>2. b \in 1..Len(s) \/ b = Len(s) + 1
      BY <1>1, <2>2
    <3>3. \A k \in 1..Len(s) : s[k] # i
      BY <1>3 DEF Contains, s
    <3> QED BY <2>2, <2>4, <3>1, <3>2, <3>3 DEF Distinct
  <2>5. Distinct(s) => Distinct(t)
    BY <2>4 DEF Distinct
  <2> QED BY <2>1, <2>2, <2>3, <2>5 DEF s
<1> QED BY <1>2, <1>3

\* A block in two halves.
LEMMA Halves ==
  ASSUME NEW w \in Seq(WirePart), NEW b \in Seq(WirePart), NEW c \in Seq(WirePart)
  PROVE  b \o c \in Seq(WirePart) /\ w \o (b \o c) = (w \o b) \o c
<1>1. (w \o b) \o c = w \o (b \o c)
  BY ConcatAssociative
<1> QED BY <1>1

\* Nothing is written.
LEMMA NoParts ==
  ASSUME NEW w \in Seq(WirePart) PROVE <<>> \in Seq(WirePart) /\ w \o <<>> = w
<1>1. w \o <<>> = w
  BY ConcatEmptySeq
<1> QED BY <1>1

\* What writeToolCall makes of the state.
Begins(st, e, n) ==
    /\ n \in StreamState /\ n.started = st.started
    /\ n.pendingStepFinish = st.pendingStepFinish
    /\ n.toolOrder = Ordered(st, e.id)
    /\ n.toolCalls[e.id].started
    /\ n.toolCalls[e.id].available = st.toolCalls[e.id].available
    /\ n.toolCalls[e.id].completed = st.toolCalls[e.id].completed
    /\ n.toolCalls[e.id].input = st.toolCalls[e.id].input
                                   + (IF e.type = "tool_args" THEN 1 ELSE 0)
    /\ \A x \in ToolIDs : x # e.id => n.toolCalls[x] = st.toolCalls[x]

\* It begins the tool of the event.
LEMMA CallState ==
  ASSUME NEW st \in StreamState, NEW e, e.id \in ToolIDs, NEW n, n = writeToolCall(st, e).st
  PROVE  Begins(st, e, n)
<1> DEFINE i == e.id
           more == IF e.type = "tool_args" THEN 1 ELSE 0
           tool == [st.toolCalls[i] EXCEPT !.started = TRUE, !.input = @ + more]
           calls == [st.toolCalls EXCEPT ![i] = tool]
           m == [st EXCEPT !.toolOrder = Ordered(st, i), !.toolCalls = calls]
<1>1. more \in Nat
  OBVIOUS
<1>2. st.toolCalls \in [ToolIDs -> ToolState] /\ st.toolCalls[i] \in ToolState
  BY DEF StreamState
<1> HIDE DEF more
<1>3. /\ tool \in ToolState /\ tool.started /\ tool.available = st.toolCalls[i].available
      /\ tool.completed = st.toolCalls[i].completed /\ tool.input = st.toolCalls[i].input + more
  <2> DEFINE old == st.toolCalls[i]
             sum == old.input + more
  <2>1. old.input \in Nat
    BY <1>2 DEF ToolState
  <2>2. sum \in Nat
    BY <1>1, <2>1
  <2>3. old \in ToolState /\ tool = [old EXCEPT !.started = TRUE, !.input = sum]
    BY <1>2
  <2> HIDE DEF old, sum, tool
  <2>4. /\ tool \in ToolState /\ tool.started /\ tool.available = old.available
        /\ tool.completed = old.completed /\ tool.input = sum
    BY <2>2, <2>3 DEF ToolState
  <2> QED BY <2>4 DEF old, sum
<1> HIDE DEF tool
<1>4. /\ calls \in [ToolIDs -> ToolState] /\ calls[i] = tool
      /\ \A x \in ToolIDs : x # i => calls[x] = st.toolCalls[x]
  BY <1>2, <1>3
<1> HIDE DEF calls
<1>5. /\ m \in StreamState /\ m.started = st.started /\ m.toolCalls = calls
      /\ m.pendingStepFinish = st.pendingStepFinish /\ m.toolOrder = Ordered(st, i)
  BY <1>4, OrderedAdds DEF StreamState
<1>6. n = m
  BY <1>2 DEF writeToolCall, Handled, calls, tool, more, StreamState, ToolState
<1> HIDE DEF m
<1> QED BY <1>3, <1>4, <1>5, <1>6 DEF more, Begins

\* A part about a tool is written if it is due.
Optional(type, i, n, due) == IF due THEN <<Part(type, i, n)>> ELSE <<>>

MayAdd(w, v, i, type, due) ==
    /\ due => Adds(w, v, i, type)
    /\ ~ due => v = w
    /\ \A x, t : x # i \/ t # type => Now(v, x, t) = Now(w, x, t)

\* A part that is written when it is due.
LEMMA OptionalPart ==
  ASSUME NEW w, Fine(w), NEW type \in ToolTypes, NEW i \in ToolIDs, NEW n \in Nat,
         NEW due \in BOOLEAN, NEW v, v = w \o Optional(type, i, n, due)
  PROVE  /\ Fine(v) /\ Optional(type, i, n, due) \in Seq(WirePart)
         /\ MayAdd(w, v, i, type, due)
<1>1. w \in Seq(WirePart) /\ Part(type, i, n) \in WirePart
  BY DEF Fine, Part, WirePart, ToolTypes, Inner
<1>2. CASE due
  <2>1. Optional(type, i, n, due) = <<Part(type, i, n)>>
    BY <1>2 DEF Optional
  <2>2. Fine(v) /\ Adds(w, v, i, type)
    BY <2>1, ToolPart
  <2>3. \A x, t : x # i \/ t # type => Now(v, x, t) = Now(w, x, t)
    BY <2>2 DEF Adds
  <2>4. <<Part(type, i, n)>> \in Seq(WirePart)
    BY <1>1
  <2> QED BY <1>2, <2>1, <2>2, <2>3, <2>4 DEF MayAdd
<1>3. CASE ~ due
  <2>1. Optional(type, i, n, due) = <<>>
    BY <1>3 DEF Optional
  <2>2. v = w /\ <<>> \in Seq(WirePart)
    BY <1>1, <2>1, NoParts
  <2> QED BY <1>3, <2>1, <2>2 DEF MayAdd
<1> QED BY <1>2, <1>3

\* writeToolCall keeps the invariant of the wire.
LEMMA CallKeeps ==
  ASSUME NEW w, NEW st, Good(w, st), NEW e, e.id \in ToolIDs,
         NEW h, h = writeToolCall(st, e), NEW v, v = w \o h.parts,
         NEW r, NEW r2 \in RunState
  PROVE  /\ Kept(w, st, h, v)
         /\ Calls(r, e, r2) => FollowsOn(w, st, r, v, h.st, r2)
<1> DEFINE i == e.id
           old == st.toolCalls[i]
           args == e.type = "tool_args"
           begin == ~ old.started
           S == Optional("tool-input-start", i, 0, begin)
           D == Optional("tool-input-delta", i, 0, args)
           u == w \o S
           n == h.st
<1>1. Fine(w) /\ st \in StreamState /\ Resolved(w, st) /\ w \in Seq(WirePart)
  BY DEF Good, Fine
<1>2. old \in ToolState /\ args \in BOOLEAN /\ begin \in BOOLEAN
  BY <1>1 DEF StreamState
<1>3. h.parts = S \o D /\ n = writeToolCall(st, e).st /\ h.done = FALSE
  BY DEF writeToolCall, Handled, Optional
<1>4. /\ n \in StreamState /\ n.started = st.started /\ n.pendingStepFinish = st.pendingStepFinish
      /\ n.toolOrder = Ordered(st, i)
      /\ n.toolCalls[i].started /\ n.toolCalls[i].available = old.available
      /\ n.toolCalls[i].completed = old.completed
      /\ n.toolCalls[i].input = old.input + (IF args THEN 1 ELSE 0)
  <2>1. Begins(st, e, n)
    <3> HIDE DEF n
    <3> QED BY <1>1, <1>3, CallState
  <2> HIDE DEF n
  <2> QED BY <2>1 DEF Begins
<1>5. \A x \in ToolIDs : x # i => n.toolCalls[x] = st.toolCalls[x]
  <2>1. Begins(st, e, n)
    <3> HIDE DEF n
    <3> QED BY <1>1, <1>3, CallState
  <2> HIDE DEF n
  <2> QED BY <2>1 DEF Begins
<1> HIDE DEF n
<1>0. (begin <=> ~ old.started) /\ (args <=> e.type = "tool_args")
  OBVIOUS
<1> HIDE DEF args, begin
<1>6. Fine(u) /\ S \in Seq(WirePart) /\ MayAdd(w, u, i, "tool-input-start", begin)
  <2>1. "tool-input-start" \in ToolTypes
    BY DEF ToolTypes
  <2> QED BY <1>1, <1>2, <2>1, OptionalPart
<1>7. v = u \o D /\ D \in Seq(WirePart)
  <2>1. D \in Seq(WirePart)
    <3>1. Part("tool-input-delta", i, 0) \in WirePart
      BY DEF Part, WirePart, Inner, ToolTypes
    <3> QED BY <3>1 DEF Optional
  <2> QED BY <1>1, <1>3, <1>6, <2>1, Halves
<1> HIDE DEF u
<1>8. Fine(v) /\ MayAdd(u, v, i, "tool-input-delta", args)
  <2>1. "tool-input-delta" \in ToolTypes
    BY DEF ToolTypes
  <2> QED BY <1>2, <1>6, <1>7, <2>1, OptionalPart
<1>9. h.parts \in Seq(WirePart)
  <2> HIDE DEF S, D
  <2> QED BY <1>1, <1>3, <1>6, <1>7, Halves
<1>10. /\ \A x : x # i => Now(v, x, "tool-input-start") = Now(w, x, "tool-input-start")
       /\ \A x : x # i => Now(v, x, "tool-input-delta") = Now(w, x, "tool-input-delta")
       /\ \A x : Now(v, x, "tool-input-available") = Now(w, x, "tool-input-available")
       /\ \A x : Now(v, x, "tool-output-available") = Now(w, x, "tool-output-available")
  BY <1>6, <1>8 DEF MayAdd
<1>11. Resolved(v, n)
  <2>1. \A x : Contains(n.toolOrder, x) <=> Contains(st.toolOrder, x) \/ x = i
    BY <1>1, <1>4, OrderedAdds
  <2> SUFFICES ASSUME NEW x \in ToolIDs
               PROVE  /\ Now(v, x, "tool-input-start") # {} => n.toolCalls[x].started
                      /\ n.toolCalls[x].started => Contains(n.toolOrder, x)
                      /\ n.toolCalls[x].completed => Now(v, x, "tool-output-available") # {}
    BY DEF Resolved
  <2>2. CASE x = i
    BY <1>1, <1>4, <1>10, <2>1, <2>2 DEF Resolved
  <2>3. CASE x # i
    BY <1>1, <1>5, <1>10, <2>1, <2>3 DEF Resolved
  <2> QED BY <2>2, <2>3
<1>12. Good(v, n)
  BY <1>4, <1>8, <1>11 DEF Good
<1>13. ASSUME Matched(w, st, r), r.phase = "model", r.waiting = {},
              args => i \in r.called, r2.called = r.called \cup {i}, r2.waiting = {}
       PROVE  Matched(v, n, r2)
  <2>1. AllOrderly(w) /\ Matches(w, st) /\ Follows(r, st)
    BY <1>13 DEF Matched
  <2>2. /\ \A x \in ToolIDs : /\ st.toolCalls[x].started <=> x \in r.called
                              /\ ~ st.toolCalls[x].available /\ ~ st.toolCalls[x].completed
        /\ \A x \in ToolIDs : Contains(st.toolOrder, x) => st.toolCalls[x].started
        /\ Distinct(st.toolOrder)
    BY <1>13, <2>1 DEF Follows
  <2>3. \A x : Contains(n.toolOrder, x) <=> Contains(st.toolOrder, x) \/ x = i
    BY <1>1, <1>4, OrderedAdds
  <2>4. Distinct(n.toolOrder)
    BY <1>1, <1>4, <2>2, OrderedAdds
  <2>5. Follows(r2, n)
    <3>1. ASSUME NEW x \in ToolIDs
          PROVE  /\ n.toolCalls[x].started <=> x \in r2.called
                 /\ ~ n.toolCalls[x].available /\ ~ n.toolCalls[x].completed
                 /\ Contains(n.toolOrder, x) => n.toolCalls[x].started
      <4>1. CASE x = i
        BY <1>4, <1>13, <2>2, <4>1
      <4>2. CASE x # i
        BY <1>5, <1>13, <2>2, <2>3, <4>2
      <4> QED BY <4>1, <4>2
    <3> QED BY <1>13, <2>4, <3>1 DEF Follows
  <2>6. Now(w, i, "tool-input-available") = {} /\ Now(w, i, "tool-output-available") = {}
    BY <2>1, <2>2 DEF Matches
  <2>7. AllOrderly(u)
    <3>1. CASE old.started
      BY <1>0, <1>6, <2>1, <3>1 DEF MayAdd
    <3>2. CASE ~ old.started
      <4>1. MayFollow(w, i, "tool-input-start")
        BY <1>1, <2>6, <3>2 DEF MayFollow, Resolved
      <4>2. u = w \o <<Part("tool-input-start", i, 0)>> /\ "tool-input-start" \in OrderlyTools
        BY <1>0, <3>2 DEF Optional, u, OrderlyTools
      <4> QED BY <1>1, <2>1, <4>1, <4>2, PartInOrder
    <3> QED BY <3>1, <3>2
  <2>8. AllOrderly(v)
    <3>1. CASE ~ args
      BY <1>8, <2>7, <3>1 DEF MayAdd
    <3>2. CASE args
      <4>1. MayFollow(u, i, "tool-input-delta")
        BY <1>6, <2>6 DEF MayFollow, MayAdd
      <4>2. v = u \o <<Part("tool-input-delta", i, 0)>> /\ "tool-input-delta" \in OrderlyTools
        BY <1>7, <3>2 DEF Optional, OrderlyTools
      <4> QED BY <1>6, <2>7, <4>1, <4>2, PartInOrder
    <3> QED BY <3>1, <3>2
  <2>9. Cardinality(Now(v, i, "tool-input-delta")) = n.toolCalls[i].input
    <3>1. Now(u, i, "tool-input-delta") = Now(w, i, "tool-input-delta")
      BY <1>6 DEF MayAdd
    <3>2. Cardinality(Now(u, i, "tool-input-delta")) = old.input
      BY <2>1, <3>1 DEF Matches
    <3>3. CASE ~ args
      <4>1. v = u
        BY <1>8, <3>3 DEF MayAdd
      <4>2. n.toolCalls[i].input = old.input + 0 /\ old.input \in Nat
        BY <1>2, <1>4, <3>3 DEF ToolState
      <4> QED BY <3>2, <4>1, <4>2
    <3>4. CASE args
      <4> DEFINE N == Now(u, i, "tool-input-delta")
      <4>1. u \in Seq(WirePart) /\ Len(u) \in Nat
        BY <1>6 DEF Fine
      <4>2. N \in SUBSET (1..Len(u)) /\ IsFiniteSet(N)
        BY <4>1, NowInside
      <4>3. Now(v, i, "tool-input-delta") = N \cup {Len(u) + 1}
        BY <1>8, <3>4 DEF Adds, MayAdd
      <4> HIDE DEF N
      <4>4. Len(u) + 1 \notin N
        BY <4>1, <4>2
      <4>5. Cardinality(N \cup {Len(u) + 1}) = Cardinality(N) + 1
        BY <4>2, <4>4, FS_AddElement
      <4>6. Cardinality(N) = old.input
        BY <3>2 DEF N
      <4>7. n.toolCalls[i].input = old.input + 1
        BY <1>4, <3>4
      <4> QED BY <4>3, <4>5, <4>6, <4>7
    <3> QED BY <3>3, <3>4
  <2>10. Matches(v, n)
    <3> SUFFICES ASSUME NEW x \in ToolIDs
                 PROVE  /\ Cardinality(Now(v, x, "tool-input-delta")) = n.toolCalls[x].input
                        /\ n.toolCalls[x].available <=> Now(v, x, "tool-input-available") # {}
                        /\ Now(v, x, "tool-output-available") # {} => n.toolCalls[x].completed
      BY DEF Matches
    <3>1. CASE x = i
      BY <1>4, <1>10, <2>1, <2>9, <3>1 DEF Matches
    <3>2. CASE x # i
      BY <1>5, <1>10, <2>1, <3>2 DEF Matches
    <3> QED BY <3>1, <3>2
  <2> QED BY <2>5, <2>8, <2>10 DEF Matched
<1>14. Kept(w, st, h, v)
  BY <1>3, <1>4, <1>9, <1>12 DEF n, Kept
<1> QED BY <1>0, <1>13, <1>14 DEF n, Calls, FollowsOn

-----------------------------------------------------------------------------
(* The next step *)

\* No parts are in order.
LEMMA InOrderNone ==
  ASSUME NEW w, NEW i, \A type \in ToolTypes : Now(w, i, type) = {}
  PROVE  InOrder(w, i)
<1>1. /\ Now(w, i, "tool-input-start") = {} /\ Now(w, i, "tool-input-available") = {}
      /\ Now(w, i, "tool-output-available") = {}
  BY DEF ToolTypes
<1> QED BY <1>1 DEF InOrder

\* start-step after a finished step.
LEMMA NextStep ==
  ASSUME NEW w \in Seq(WirePart), Bracketed(w), Outside(w), Quiet(w), NEW v,
         v = w \o <<Plain("start-step")>>
  PROVE  /\ v \in Seq(WirePart) /\ Prefix(w, v)
         /\ Bracketed(v) /\ Inside(v) /\ Quiet(v) /\ StepsOf(v) = StepsOf(w) + 1
         /\ SameTools(w, v)
         /\ \A i : \A type \in ToolTypes : Now(v, i, type) = {}
         /\ AllOrderly(w) => AllOrderly(v)
<1> DEFINE p == Plain("start-step")
           b == <<p>>
<1>1. p \in WirePart /\ p.type = "start-step"
  BY DEF Plain, Part, WirePart
<1> HIDE DEF p
<1>2. b \in Seq(WirePart) /\ v = w \o b /\ \A n \in 1..Len(b) : b[n] = p
  BY <1>1 DEF p
<1>3. Bracketed(v) /\ Inside(v) /\ StepsOf(v) = StepsOf(w) + 1
  BY <1>1, <1>2, StepBegins
<1>8. SameTools(w, v)
  BY <1>1, <1>2, StepBegins
<1>5. \A i, type : AtStep(w, StepsOf(v), i, type) = {}
  BY <1>1, <1>2, StepBegins
<1> HIDE DEF b
<1>6. v \in Seq(WirePart) /\ Prefix(w, v)
  BY <1>2, Joined
<1>7. Quiet(v)
  <2>1. \A n \in 1..Len(b) : b[n].type \notin LastTypes
    BY <1>1, <1>2 DEF LastTypes
  <2> QED BY <1>2, <2>1, QuietWritten
<1>9. \A i : \A type \in ToolTypes : Now(v, i, type) = {}
  BY <1>5, <1>8 DEF SameTools, Now
<1>10. ASSUME AllOrderly(w) PROVE AllOrderly(v)
  <2> SUFFICES ASSUME NEW k \in 1..StepsOf(v), NEW i \in ToolIDs PROVE Orderly(v, k, i)
    BY DEF AllOrderly, StepsOf
  <2>1. StepsOf(w) \in Nat
    BY Numbers
  <2>2. CASE k = StepsOf(v)
    BY <1>9, <2>2, InOrderNone, OrderlyNow
  <2>3. CASE k \in 1..StepsOf(w)
    <3>1. Orderly(w, k, i)
      BY <1>10, <2>3 DEF AllOrderly, StepsOf
    <3>2. \A type \in ToolTypes : AtStep(v, k, i, type) = AtStep(w, k, i, type)
      BY <1>8 DEF SameTools
    <3> QED BY <1>6, <3>1, <3>2, OrderlySame
  <2> QED BY <1>3, <2>1, <2>2, <2>3
<1> QED BY <1>3, <1>6, <1>7, <1>8, <1>9, <1>10

\* finish-step inside a step.
LEMMA StepOver ==
  ASSUME NEW w \in Seq(WirePart), Bracketed(w), Inside(w), Waits(w), NEW v,
         v = w \o <<Plain("finish-step")>>
  PROVE  /\ v \in Seq(WirePart) /\ Prefix(w, v)
         /\ Bracketed(v) /\ Outside(v) /\ Waits(v) /\ StepsOf(v) = StepsOf(w)
         /\ Quiet(w) => Quiet(v)
         /\ SameTools(w, v)
         /\ AllOrderly(w) => AllOrderly(v)
<1> DEFINE p == Plain("finish-step")
           b == <<p>>
<1>1. p \in WirePart /\ p.type = "finish-step"
  BY DEF Plain, Part, WirePart
<1> HIDE DEF p
<1>2. b \in Seq(WirePart) /\ v = w \o b /\ \A n \in 1..Len(b) : b[n] = p
  BY <1>1 DEF p
<1>3. Bracketed(v) /\ Outside(v) /\ StepsOf(v) = StepsOf(w)
  BY <1>1, <1>2, StepEnds
<1>7. SameTools(w, v)
  BY <1>1, <1>2, StepEnds
<1> HIDE DEF b
<1>5. v \in Seq(WirePart) /\ Prefix(w, v)
  BY <1>2, Joined
<1>6. ASSUME Quiet(w) PROVE Quiet(v)
  <2>1. \A n \in 1..Len(b) : b[n].type \notin LastTypes
    BY <1>1, <1>2 DEF LastTypes
  <2> QED BY <1>2, <1>6, <2>1, QuietWritten
<1>8. Waits(v)
  BY <1>3, <1>7 DEF Waits, StepsOf, SameTools, ToolTypes
<1>9. ASSUME AllOrderly(w) PROVE AllOrderly(v)
  <2> SUFFICES ASSUME NEW k \in 1..StepsOf(w), NEW i \in ToolIDs PROVE Orderly(v, k, i)
    BY <1>3 DEF AllOrderly, StepsOf
  <2>1. Orderly(w, k, i)
    BY <1>9 DEF AllOrderly, StepsOf
  <2>2. \A type \in ToolTypes : AtStep(v, k, i, type) = AtStep(w, k, i, type)
    BY <1>7 DEF SameTools
  <2> QED BY <1>5, <2>1, <2>2, OrderlySame
<1> QED BY <1>3, <1>5, <1>6, <1>7, <1>8, <1>9

-----------------------------------------------------------------------------
(* Tool results *)

Known(st, i) == [st EXCEPT !.toolOrder = Ordered(st, i), !.toolCalls[i].available = TRUE,
                           !.toolCalls[i].completed = TRUE]

\* What a result makes of the state before the step is finished.
LEMMA KnownState ==
  ASSUME NEW st \in StreamState, NEW i \in ToolIDs, NEW n, n = Known(st, i)
  PROVE  /\ n \in StreamState /\ n.started = st.started
         /\ n.pendingStepFinish = st.pendingStepFinish
         /\ n.toolOrder = Ordered(st, i)
         /\ n.toolCalls[i].started = st.toolCalls[i].started
         /\ n.toolCalls[i].available /\ n.toolCalls[i].completed
         /\ n.toolCalls[i].input = st.toolCalls[i].input
         /\ \A x \in ToolIDs : x # i => n.toolCalls[x] = st.toolCalls[x]
<1> DEFINE old == st.toolCalls[i]
           tool == [old EXCEPT !.available = TRUE, !.completed = TRUE]
           calls == [st.toolCalls EXCEPT ![i] = tool]
           m == [st EXCEPT !.toolOrder = Ordered(st, i), !.toolCalls = calls]
<1>1. st.toolCalls \in [ToolIDs -> ToolState] /\ old \in ToolState
  BY DEF StreamState
<1>2. n = m
  BY <1>1 DEF Known, StreamState, ToolState
<1> HIDE DEF old
<1>3. /\ tool \in ToolState /\ tool.started = old.started /\ tool.input = old.input
      /\ tool.available = TRUE /\ tool.completed = TRUE
  BY <1>1 DEF ToolState
<1> HIDE DEF tool
<1>4. /\ calls \in [ToolIDs -> ToolState] /\ calls[i] = tool
      /\ \A x \in ToolIDs : x # i => calls[x] = st.toolCalls[x]
  BY <1>1, <1>3
<1> HIDE DEF calls
<1>5. /\ m \in StreamState /\ m.started = st.started /\ m.toolCalls = calls
      /\ m.pendingStepFinish = st.pendingStepFinish /\ m.toolOrder = Ordered(st, i)
  BY <1>4, OrderedAdds DEF StreamState
<1> HIDE DEF m
<1> QED BY <1>2, <1>3, <1>4, <1>5 DEF old

ResultParts(st, i) ==
    (IF st.toolCalls[i].available THEN <<>> ELSE <<Available(st, i)>>)
      \o <<Part("tool-output-available", i, 0)>>

\* The parts of a result.
LEMMA ResultWritten ==
  ASSUME NEW w, NEW st, Good(w, st), NEW i \in ToolIDs, NEW v, v = w \o ResultParts(st, i)
  PROVE  /\ Good(v, Known(st, i)) /\ ResultParts(st, i) \in Seq(WirePart)
         /\ \A r : /\ Matched(w, st, r) /\ r.phase = "model" /\ i \in r.waiting
                     => AllOrderly(v) /\ Matches(v, Known(st, i))
<1> DEFINE old == st.toolCalls[i]
           due == ~ old.available
           A == Optional("tool-input-available", i, old.input, due)
           p == Part("tool-output-available", i, 0)
           O == <<p>>
           u == w \o A
           n == Known(st, i)
<1>1. Fine(w) /\ st \in StreamState /\ Resolved(w, st) /\ w \in Seq(WirePart)
  BY DEF Good, Fine
<1>2. old \in ToolState /\ old.input \in Nat /\ due \in BOOLEAN
  BY <1>1 DEF StreamState, ToolState
<1>3. due <=> ~ old.available
  OBVIOUS
<1>4. ResultParts(st, i) = A \o O
  BY DEF ResultParts, Available, Optional
<1>5. /\ n \in StreamState /\ n.started = st.started /\ n.pendingStepFinish = st.pendingStepFinish
      /\ n.toolOrder = Ordered(st, i)
      /\ n.toolCalls[i].started = old.started
      /\ n.toolCalls[i].available /\ n.toolCalls[i].completed
      /\ n.toolCalls[i].input = old.input
  BY <1>1, KnownState
<1>6. \A x \in ToolIDs : x # i => n.toolCalls[x] = st.toolCalls[x]
  BY <1>1, KnownState
<1> HIDE DEF n, due
<1>7. Fine(u) /\ A \in Seq(WirePart) /\ MayAdd(w, u, i, "tool-input-available", due)
  <2>1. "tool-input-available" \in ToolTypes
    BY DEF ToolTypes
  <2> HIDE DEF old
  <2> QED BY <1>1, <1>2, <2>1, OptionalPart
<1>8. O \in Seq(WirePart) /\ v = u \o O /\ A \o O \in Seq(WirePart)
  <2>1. O \in Seq(WirePart)
    <3>1. p \in WirePart
      BY DEF Part, WirePart, Inner, ToolTypes
    <3> HIDE DEF p
    <3> QED BY <3>1
  <2> HIDE DEF A, O
  <2>2. A \in Seq(WirePart) /\ O \in Seq(WirePart) /\ w \in Seq(WirePart)
    BY <1>1, <1>7, <2>1
  <2>3. A \o O \in Seq(WirePart) /\ w \o (A \o O) = (w \o A) \o O
    BY <2>2, Halves
  <2> QED BY <1>4, <2>2, <2>3
<1> HIDE DEF u
<1>9. Fine(v) /\ Adds(u, v, i, "tool-output-available")
  <2>1. "tool-output-available" \in ToolTypes
    BY DEF ToolTypes
  <2> QED BY <1>7, <1>8, <2>1, ToolPart, ZenonT(40)
<1>10. /\ \A x : Now(v, x, "tool-input-start") = Now(w, x, "tool-input-start")
       /\ \A x : Now(v, x, "tool-input-delta") = Now(w, x, "tool-input-delta")
       /\ \A x : x # i => Now(v, x, "tool-input-available") = Now(w, x, "tool-input-available")
       /\ \A x : x # i => Now(v, x, "tool-output-available") = Now(w, x, "tool-output-available")
  BY <1>7, <1>9 DEF MayAdd, Adds
<1>11. Now(v, i, "tool-output-available") # {}
  BY <1>9 DEF Adds
<1>12. Resolved(v, n)
  <2>1. \A x : Contains(n.toolOrder, x) <=> Contains(st.toolOrder, x) \/ x = i
    BY <1>1, <1>5, OrderedAdds
  <2> SUFFICES ASSUME NEW x \in ToolIDs
               PROVE  /\ Now(v, x, "tool-input-start") # {} => n.toolCalls[x].started
                      /\ n.toolCalls[x].started => Contains(n.toolOrder, x)
                      /\ n.toolCalls[x].completed => Now(v, x, "tool-output-available") # {}
    BY DEF Resolved
  <2>2. CASE x = i
    BY <1>1, <1>5, <1>10, <1>11, <2>1, <2>2 DEF Resolved
  <2>3. CASE x # i
    BY <1>1, <1>6, <1>10, <2>1, <2>3 DEF Resolved
  <2> QED BY <2>2, <2>3
<1>13. Good(v, n)
  BY <1>5, <1>9, <1>12 DEF Good
<1>14. ASSUME NEW r, Matched(w, st, r), r.phase = "model", i \in r.waiting
       PROVE  AllOrderly(v) /\ Matches(v, n)
  <2>1. AllOrderly(w) /\ Matches(w, st) /\ Follows(r, st)
    BY <1>14 DEF Matched
  <2>2. old.available /\ ~ old.completed
    BY <1>14, <2>1 DEF Follows
  <2>3. u = w
    BY <1>3, <1>7, <2>2 DEF MayAdd
  <2>4. MayFollow(w, i, "tool-output-available")
    BY <2>1, <2>2 DEF MayFollow, Matches
  <2>5. AllOrderly(v)
    <3>1. "tool-output-available" \in OrderlyTools
      BY DEF OrderlyTools
    <3> QED BY <1>1, <1>8, <2>1, <2>3, <2>4, <3>1, PartInOrder
  <2>6. Now(v, i, "tool-input-available") = Now(w, i, "tool-input-available")
    BY <1>9, <2>3 DEF Adds
  <2>7. Matches(v, n)
    <3> SUFFICES ASSUME NEW x \in ToolIDs
                 PROVE  /\ Cardinality(Now(v, x, "tool-input-delta")) = n.toolCalls[x].input
                        /\ n.toolCalls[x].available <=> Now(v, x, "tool-input-available") # {}
                        /\ Now(v, x, "tool-output-available") # {} => n.toolCalls[x].completed
      BY DEF Matches
    <3>1. CASE x = i
      BY <1>5, <1>10, <2>1, <2>2, <2>6, <3>1 DEF Matches
    <3>2. CASE x # i
      BY <1>6, <1>10, <2>1, <3>2 DEF Matches
    <3> QED BY <3>1, <3>2
  <2> QED BY <2>5, <2>7
<1> QED BY <1>4, <1>8, <1>13, <1>14 DEF n

\* beginNextStep forgets the tools.
LEMMA BlankState ==
  ASSUME NEW st \in StreamState, NEW n, n = beginNextStep(st)
  PROVE  /\ n \in StreamState /\ n.started = st.started /\ Blank(n)
<1> DEFINE calls == [i \in ToolIDs |-> NoTool]
<1>1. NoTool \in ToolState
  BY DEF NoTool, ToolState
<1>2. calls \in [ToolIDs -> ToolState] /\ \A i \in ToolIDs : calls[i] = NoTool
  BY <1>1
<1> HIDE DEF calls
<1>3. <<>> \in Seq(ToolIDs)
  OBVIOUS
<1>4. n = [st EXCEPT !.pendingStepFinish = FALSE, !.toolOrder = <<>>, !.toolCalls = calls]
  BY DEF beginNextStep, calls
<1>5. /\ n \in StreamState /\ n.started = st.started /\ n.toolOrder = <<>> /\ n.toolCalls = calls
  BY <1>2, <1>3, <1>4 DEF StreamState
<1> QED BY <1>2, <1>5 DEF Blank

\* A state without tools fits a step without parts.
LEMMA BlankMatches ==
  ASSUME NEW w, NEW st, Blank(st), \A i : \A type \in ToolTypes : Now(w, i, type) = {}
  PROVE  /\ Resolved(w, st) /\ Matches(w, st)
         /\ \A r : r.waiting = {} /\ r.called = {} => Follows(r, st)
<1>1. \A i \in ToolIDs : /\ Now(w, i, "tool-input-start") = {}
                         /\ Now(w, i, "tool-input-delta") = {}
                         /\ Now(w, i, "tool-input-available") = {}
                         /\ Now(w, i, "tool-output-available") = {}
  BY DEF ToolTypes
<1>2. \A i \in ToolIDs : /\ st.toolCalls[i].started = FALSE /\ st.toolCalls[i].available = FALSE
                         /\ st.toolCalls[i].completed = FALSE /\ st.toolCalls[i].input = 0
  BY DEF Blank, NoTool
<1>3. Cardinality({}) = 0
  BY FS_EmptySet
<1>4. /\ \A x : ~ Contains(st.toolOrder, x)
      /\ Distinct(st.toolOrder)
  BY DEF Blank, Contains, Distinct
<1>5. Resolved(w, st)
  BY <1>1, <1>2 DEF Resolved
<1>6. Matches(w, st)
  BY <1>1, <1>2, <1>3 DEF Matches
<1>7. \A r : r.waiting = {} /\ r.called = {} => Follows(r, st)
  BY <1>2, <1>4 DEF Follows
<1> QED BY <1>5, <1>6, <1>7

\* Two parts are a part and a part.
LEMMA Pair == \A a, b : <<a>> \o <<b>> = <<a, b>>
<1> SUFFICES ASSUME NEW a, NEW b PROVE <<a>> \o <<b>> = <<a, b>>
  OBVIOUS
<1> DEFINE s == <<a>> \o <<b>>
           S == {a, b}
<1>1. <<a>> \in Seq(S) /\ <<b>> \in Seq(S) /\ <<a, b>> \in Seq(S)
  OBVIOUS
<1>2. Len(<<a>>) = 1 /\ Len(<<b>>) = 1 /\ Len(<<a, b>>) = 2
  OBVIOUS
<1>3. s \in Seq(S) /\ Len(s) = 2 /\ s[1] = a /\ s[2] = b
  BY <1>1, <1>2
<1>4. <<a, b>>[1] = a /\ <<a, b>>[2] = b
  OBVIOUS
<1> HIDE DEF s, S
<1>5. \A k \in 1..Len(s) : s[k] = <<a, b>>[k]
  BY <1>3, <1>4
<1>6. s = <<a, b>>
  BY <1>1, <1>2, <1>3, <1>5, SeqEqual
<1> QED BY <1>6 DEF s

\* A step is finished once its tools have all answered.
LEMMA StepAfterTools ==
  ASSUME NEW w, NEW st, Good(w, st), allToolOutputsCompleted(st),
         NEW v, v = w \o <<Plain("finish-step"), Plain("start-step")>>
  PROVE  /\ Good(v, beginNextStep(st))
         /\ AllOrderly(w) => AllOrderly(v) /\ Matches(v, beginNextStep(st))
<1> DEFINE f == <<Plain("finish-step")>>
           s == <<Plain("start-step")>>
           u == w \o f
<1>1. /\ w \in Seq(WirePart) /\ Bracketed(w) /\ Inside(w) /\ Waits(w) /\ Quiet(w)
      /\ st \in StreamState /\ Resolved(w, st)
  BY DEF Good, Fine
<1>2. v = u \o s
  <2>1. f \in Seq(WirePart) /\ s \in Seq(WirePart)
    <3>1. Plain("finish-step") \in WirePart /\ Plain("start-step") \in WirePart
      BY DEF Plain, Part, WirePart
    <3> QED BY <3>1
  <2>2. f \o s = <<Plain("finish-step"), Plain("start-step")>>
    BY Pair
  <2>3. v = w \o (f \o s)
    BY <2>2
  <2> HIDE DEF f, s
  <2>4. w \o (f \o s) = (w \o f) \o s
    BY <1>1, <2>1, Halves
  <2> QED BY <2>3, <2>4
<1>3. /\ u \in Seq(WirePart) /\ Prefix(w, u)
      /\ Bracketed(u) /\ Outside(u) /\ Waits(u) /\ StepsOf(u) = StepsOf(w)
      /\ Quiet(u) /\ SameTools(w, u)
      /\ AllOrderly(w) => AllOrderly(u)
  BY <1>1, StepOver
<1> HIDE DEF u
<1>4. /\ v \in Seq(WirePart) /\ Prefix(u, v)
      /\ Bracketed(v) /\ Inside(v) /\ Quiet(v) /\ StepsOf(v) = StepsOf(u) + 1
      /\ SameTools(u, v)
      /\ AllOrderly(u) => AllOrderly(v)
  BY <1>2, <1>3, NextStep
<1>5. \A i : \A type \in ToolTypes : Now(v, i, type) = {}
  BY <1>2, <1>3, NextStep
<1>6. Blank(beginNextStep(st)) /\ beginNextStep(st) \in StreamState
  BY <1>1, BlankState
<1>7. Waits(v)
  <2> SUFFICES ASSUME NEW k \in 1..(StepsOf(v) - 1), NEW i \in ToolIDs,
                      AtStep(v, k, i, "tool-input-start") # {}
               PROVE  AtStep(v, k, i, "tool-output-available") # {}
    BY DEF Waits, StepsOf
  <2>1. /\ AtStep(v, k, i, "tool-input-start") = AtStep(w, k, i, "tool-input-start")
        /\ AtStep(v, k, i, "tool-output-available") = AtStep(w, k, i, "tool-output-available")
    <3>1. SameTools(w, u) /\ SameTools(u, v)
      BY <1>3, <1>4
    <3>2. \A type \in ToolTypes : AtStep(v, k, i, type) = AtStep(w, k, i, type)
      BY <3>1 DEF SameTools
    <3> QED BY <3>2 DEF ToolTypes
  <2>2. StepsOf(w) \in Nat
    BY <1>1, Numbers
  <2>3. CASE k \in 1..(StepsOf(w) - 1)
    BY <1>1, <2>1, <2>3 DEF Waits, StepsOf
  <2>4. CASE k = StepsOf(w)
    <3>1. Now(w, i, "tool-input-start") # {}
      BY <2>1, <2>4 DEF Now
    <3>2. st.toolCalls[i].started /\ Contains(st.toolOrder, i)
      BY <1>1, <3>1 DEF Resolved
    <3>3. i \in ToSet(st.toolOrder)
      BY <1>1, <3>2 DEF Contains, ToSet, StreamState
    <3>4. st.toolCalls[i].completed
      BY <3>2, <3>3 DEF allToolOutputsCompleted
    <3> QED BY <1>1, <2>1, <2>4, <3>4 DEF Resolved, Now
  <2>5. StepsOf(v) - 1 = StepsOf(w)
    BY <1>3, <1>4, <2>2
  <2>6. k \in 1..(StepsOf(w) - 1) \/ k = StepsOf(w)
    BY <2>2, <2>5
  <2> QED BY <2>3, <2>4, <2>6
<1>8. Resolved(v, beginNextStep(st)) /\ Matches(v, beginNextStep(st))
  BY <1>5, <1>6, BlankMatches
<1> QED BY <1>3, <1>4, <1>6, <1>7, <1>8 DEF Good, Fine

\* writeToolResult keeps the invariant of the wire, whether it finishes the step or not.
LEMMA ResultKeeps ==
  ASSUME NEW w, NEW st, Good(w, st), NEW e, e.id \in ToolIDs,
         NEW h, h = writeToolResult(st, e), NEW v, v = w \o h.parts,
         NEW r \in RunState, NEW r2 \in RunState
  PROVE  /\ Kept(w, st, h, v)
         /\ Answers(r, e, r2) => FollowsOn(w, st, r, v, h.st, r2)
<1> DEFINE i == e.id
           n == Known(st, i)
           P == ResultParts(st, i)
           u == w \o P
           N == <<Plain("finish-step"), Plain("start-step")>>
           over == st.pendingStepFinish /\ allToolOutputsCompleted(n)
<1>1. Fine(w) /\ st \in StreamState /\ w \in Seq(WirePart)
  BY DEF Good, Fine
<1>2. h = IF over THEN Handled(beginNextStep(n), P \o N, FALSE) ELSE Handled(n, P, FALSE)
  BY DEF writeToolResult, Known, ResultParts
<1>3. Good(u, n) /\ P \in Seq(WirePart)
  BY ResultWritten
<1>4. \A q : Matched(w, st, q) /\ q.phase = "model" /\ i \in q.waiting
               => AllOrderly(u) /\ Matches(u, n)
  BY ResultWritten
<1>5. /\ n \in StreamState /\ n.started = st.started /\ n.pendingStepFinish = st.pendingStepFinish
      /\ n.toolOrder = Ordered(st, i)
      /\ n.toolCalls[i].started = st.toolCalls[i].started
      /\ n.toolCalls[i].available /\ n.toolCalls[i].completed
  BY <1>1, KnownState
<1>6. \A x \in ToolIDs : x # i => n.toolCalls[x] = st.toolCalls[x]
  BY <1>1, KnownState
<1>7. \A x : Contains(n.toolOrder, x) <=> Contains(st.toolOrder, x) \/ x = i
  BY <1>1, <1>5, OrderedAdds
<1>8. Distinct(st.toolOrder) => Distinct(n.toolOrder)
  BY <1>1, <1>5, OrderedAdds
<1> HIDE DEF n, P
<1>9. N \in Seq(WirePart)
  <2>1. Plain("finish-step") \in WirePart /\ Plain("start-step") \in WirePart
    BY DEF Plain, Part, WirePart
  <2> QED BY <2>1
<1>10. n.toolOrder \in Seq(ToolIDs)
  BY <1>5 DEF StreamState
\* What the run tells of the tools.
<1>11. ASSUME Matched(w, st, r), r.phase = "model", i \in r.waiting
       PROVE  /\ st.pendingStepFinish /\ r.called = {}
              /\ \A x \in ToolIDs : n.toolCalls[x].started => n.toolCalls[x].available
              /\ \A x \in ToolIDs : Contains(n.toolOrder, x) => n.toolCalls[x].started
              /\ \A x \in ToolIDs : x \in r.waiting \ {i}
                                      <=> n.toolCalls[x].started /\ ~ n.toolCalls[x].completed
              /\ Distinct(n.toolOrder)
  <2>1. Follows(r, st)
    BY <1>11 DEF Matched
  <2>2. /\ st.pendingStepFinish /\ r.called = {} /\ Distinct(st.toolOrder)
        /\ \A x \in ToolIDs : Contains(st.toolOrder, x) => st.toolCalls[x].started
        /\ \A x \in ToolIDs :
             /\ st.toolCalls[x].started => st.toolCalls[x].available
             /\ x \in r.waiting <=> st.toolCalls[x].started /\ ~ st.toolCalls[x].completed
    BY <1>11, <2>1 DEF Follows
  <2>3. st.toolCalls[i].started
    BY <1>11, <2>2
  <2>4. ASSUME NEW x \in ToolIDs
        PROVE  /\ n.toolCalls[x].started => n.toolCalls[x].available
               /\ Contains(n.toolOrder, x) => n.toolCalls[x].started
               /\ x \in r.waiting \ {i} <=> n.toolCalls[x].started /\ ~ n.toolCalls[x].completed
    <3>1. CASE x = i
      BY <1>5, <2>3, <3>1
    <3>2. CASE x # i
      BY <1>6, <1>7, <2>2, <3>2
    <3> QED BY <3>1, <3>2
  <2> QED BY <1>8, <2>2, <2>4
<1>12. CASE over
  <2>1. /\ h.st = beginNextStep(n) /\ h.parts = P \o N /\ h.done = FALSE
    BY <1>2, <1>12 DEF Handled
  <2>2. v = u \o N /\ h.parts \in Seq(WirePart)
    <3> HIDE DEF N
    <3> QED BY <1>1, <1>3, <1>9, <2>1, Halves
  <2> HIDE DEF u
  <2>3. /\ Good(v, h.st)
        /\ AllOrderly(u) => AllOrderly(v) /\ Matches(v, h.st)
    BY <1>3, <1>12, <2>1, <2>2, StepAfterTools
  <2>4. Blank(h.st) /\ h.st.started = st.started
    BY <1>5, <2>1, BlankState
  <2>5. ASSUME Matched(w, st, r), r.phase = "model", i \in r.waiting,
               r2.called = r.called, r2.waiting = r.waiting \ {i}
        PROVE  Matched(v, h.st, r2)
    <3>1. AllOrderly(u)
      BY <1>4, <2>5
    <3>2. r2.waiting = {}
      <4> SUFFICES ASSUME NEW x \in r2.waiting PROVE FALSE
        OBVIOUS
      <4>1. x \in ToolIDs
        BY DEF RunState
      <4>2. n.toolCalls[x].started /\ ~ n.toolCalls[x].completed
        BY <1>11, <2>5, <4>1
      <4>3. x \in ToSet(n.toolOrder)
        <5>1. Contains(n.toolOrder, x)
          BY <1>3, <4>1, <4>2 DEF Good, Resolved
        <5> QED BY <1>10, <5>1 DEF Contains, ToSet
      <4> QED BY <1>12, <4>2, <4>3 DEF allToolOutputsCompleted
    <3>3. r2.called = {}
      BY <1>11, <2>5
    <3>4. Follows(r2, h.st)
      <4>1. /\ \A x : ~ Contains(h.st.toolOrder, x)
            /\ Distinct(h.st.toolOrder)
        BY <2>4 DEF Blank, Contains, Distinct
      <4>2. \A x \in ToolIDs : /\ h.st.toolCalls[x].started = FALSE
                               /\ h.st.toolCalls[x].available = FALSE
                               /\ h.st.toolCalls[x].completed = FALSE
        BY <2>4 DEF Blank, NoTool
      <4> QED BY <3>2, <3>3, <4>1, <4>2 DEF Follows
    <3> QED BY <2>3, <3>1, <3>4 DEF Matched
  <2>6. Kept(w, st, h, v)
    BY <2>1, <2>2, <2>3, <2>4 DEF Kept
  <2> QED BY <2>5, <2>6 DEF Answers, FollowsOn
<1>13. CASE ~ over
  <2>1. h.st = n /\ h.parts = P /\ h.done = FALSE
    BY <1>2, <1>13 DEF Handled
  <2>2. ASSUME Matched(w, st, r), r.phase = "model", i \in r.waiting,
               r2.called = r.called, r2.waiting = r.waiting \ {i}
        PROVE  Matched(v, h.st, r2)
    <3>1. AllOrderly(u) /\ Matches(u, n)
      BY <1>4, <2>2
    <3>2. r2.waiting # {}
      <4>1. PICK x \in ToSet(n.toolOrder) : n.toolCalls[x].started /\ ~ n.toolCalls[x].completed
        <5>1. n.toolOrder # <<>>
          BY <1>7, SMTT(30) DEF Contains
        <5> QED BY <1>11, <1>13, <2>2, <5>1 DEF allToolOutputsCompleted
      <4>2. x \in ToolIDs
        BY <1>10, <4>1 DEF ToSet
      <4> QED BY <1>11, <2>2, <4>1, <4>2
    <3>3. n.pendingStepFinish /\ r2.called = {}
      BY <1>5, <1>11, <2>2
    <3>4. Follows(r2, n)
      BY <1>11, <2>2, <3>2, <3>3 DEF Follows
    <3> QED BY <2>1, <3>1, <3>4 DEF Matched
  <2>3. Kept(w, st, h, v)
    BY <1>3, <1>5, <2>1 DEF Kept
  <2> QED BY <2>2, <2>3 DEF Answers, FollowsOn
<1> QED BY <1>12, <1>13

-----------------------------------------------------------------------------
(* The end of the model's turn *)

PendingIds(st) == {st.toolOrder[k] : k \in Pending(st)}

\* What writePendingToolsAvailable makes of the state.
LEMMA PendingState ==
  ASSUME NEW st \in StreamState, NEW h, h = writePendingToolsAvailable(st),
         NEW n, n = [h EXCEPT !.st.pendingStepFinish = TRUE].st
  PROVE  /\ n \in StreamState /\ n.started = st.started /\ n.pendingStepFinish
         /\ n.toolOrder = st.toolOrder
         /\ \A i \in ToolIDs :
              /\ n.toolCalls[i].started = st.toolCalls[i].started
              /\ n.toolCalls[i].completed = st.toolCalls[i].completed
              /\ n.toolCalls[i].input = st.toolCalls[i].input
              /\ n.toolCalls[i].available <=> st.toolCalls[i].available \/ i \in PendingIds(st)
<1> DEFINE old == st.toolCalls
           calls == [i \in ToolIDs |->
                       IF i \in PendingIds(st) THEN [old[i] EXCEPT !.available = TRUE] ELSE old[i]]
           m == [st EXCEPT !.toolCalls = calls]
<1>1. old \in [ToolIDs -> ToolState]
  BY DEF StreamState
<1>2. h.st = m /\ h = Handled(h.st, h.parts, h.done)
  BY DEF writePendingToolsAvailable, Handled, PendingIds
<1>3. \A i \in ToolIDs :
        /\ calls[i] \in ToolState /\ calls[i].started = old[i].started
        /\ calls[i].completed = old[i].completed /\ calls[i].input = old[i].input
        /\ calls[i].available <=> old[i].available \/ i \in PendingIds(st)
  <2> SUFFICES ASSUME NEW i \in ToolIDs
               PROVE  /\ calls[i] \in ToolState /\ calls[i].started = old[i].started
                      /\ calls[i].completed = old[i].completed /\ calls[i].input = old[i].input
                      /\ calls[i].available <=> old[i].available \/ i \in PendingIds(st)
    OBVIOUS
  <2>1. old[i] \in ToolState
    BY <1>1
  <2>2. CASE i \in PendingIds(st)
    <3> DEFINE tool == old[i]
    <3>1. calls[i] = [tool EXCEPT !.available = TRUE]
      BY <2>2
    <3> HIDE DEF tool, calls
    <3>2. calls[i] \in ToolState /\ calls[i].started = tool.started
      BY <2>1, <3>1 DEF ToolState, tool
    <3>3. calls[i].completed = tool.completed /\ calls[i].input = tool.input
      BY <2>1, <3>1 DEF ToolState, tool
    <3>4. calls[i].available = TRUE
      BY <2>1, <3>1 DEF ToolState, tool
    <3> QED BY <2>2, <3>2, <3>3, <3>4 DEF tool
  <2>3. CASE i \notin PendingIds(st)
    BY <2>1, <2>3
  <2> QED BY <2>2, <2>3
<1>4. calls \in [ToolIDs -> ToolState]
  BY <1>3
<1> HIDE DEF calls, old
<1>5. m \in StreamState /\ m.started = st.started /\ m.toolOrder = st.toolOrder /\ m.toolCalls = calls
  BY <1>4 DEF StreamState
<1> HIDE DEF m
<1>6. n = [m EXCEPT !.pendingStepFinish = TRUE]
  BY <1>2 DEF Handled
<1>7. /\ n \in StreamState /\ n.started = m.started /\ n.toolOrder = m.toolOrder
      /\ n.toolCalls = m.toolCalls /\ n.pendingStepFinish
  BY <1>5, <1>6 DEF StreamState
<1> QED BY <1>3, <1>5, <1>7 DEF old

\* The parts that are written are those of the pending tools, each once.
LEMMA PendingParts ==
  ASSUME NEW st \in StreamState, NEW b, b = writePendingToolsAvailable(st).parts
  PROVE  /\ b \in Seq(WirePart)
         /\ \A n \in 1..Len(b) : \E k \in Pending(st) : b[n] = Available(st, st.toolOrder[k])
         /\ \A i \in PendingIds(st) : \E n \in 1..Len(b) : b[n] = Available(st, i)
         /\ Distinct(st.toolOrder) =>
              \A m, n \in 1..Len(b) : b[m].id = b[n].id => m = n
<1> DEFINE P == Pending(st)
           N == Cardinality(P)
           f == Ascending(P)
           order == st.toolOrder
<1>1. /\ order \in Seq(ToolIDs) /\ Len(order) \in Nat /\ P \in SUBSET (1..Len(order))
      /\ \A k \in 1..Len(order) : order[k] \in ToolIDs
  BY DEF StreamState, Pending
<1>2. /\ N \in Nat /\ f \in [1..N -> P] /\ \A a, b1 \in 1..N : a < b1 => f[a] < f[b1]
  BY <1>1, AscendingSorts
<1>3. \A x \in P : \E n \in 1..N : f[n] = x
  BY <1>1, AscendingSorts
<1>4. b = [n \in 1..N |-> Available(st, order[f[n]])]
  BY DEF writePendingToolsAvailable, Handled
<1> HIDE DEF P, N, f
<1>5. \A i \in ToolIDs : Available(st, i) \in WirePart /\ Available(st, i).id = i
  BY DEF Available, Part, WirePart, Inner, ToolTypes, StreamState, ToolState
<1>6. \A n \in 1..N : f[n] \in P /\ f[n] \in 1..Len(order) /\ order[f[n]] \in ToolIDs
  BY <1>1, <1>2
<1>7. b \in Seq(WirePart) /\ Len(b) = N
  <2> HIDE DEF order
  <2>1. \A n \in 1..N : Available(st, order[f[n]]) \in WirePart
    BY <1>5, <1>6
  <2> QED BY <1>2, <1>4, <2>1
<1>8. \A n \in 1..Len(b) : b[n] = Available(st, order[f[n]])
  BY <1>4, <1>7
<1>9. \A n \in 1..Len(b) : \E k \in P : b[n] = Available(st, order[k])
  BY <1>6, <1>7, <1>8
<1>10. ASSUME NEW i \in PendingIds(st) PROVE \E n \in 1..Len(b) : b[n] = Available(st, i)
  <2>1. PICK k \in P : i = order[k]
    BY DEF PendingIds, P
  <2>2. PICK n \in 1..N : f[n] = k
    BY <1>3
  <2> QED BY <1>7, <1>8, <2>1, <2>2
<1>11. ASSUME Distinct(order), NEW m \in 1..Len(b), NEW n \in 1..Len(b), b[m].id = b[n].id
       PROVE  m = n
  <2>1. order[f[m]] = order[f[n]]
    BY <1>5, <1>6, <1>7, <1>8, <1>11
  <2>2. f[m] = f[n]
    BY <1>6, <1>7, <1>11, <2>1 DEF Distinct
  <2>3. m \in 1..N /\ n \in 1..N /\ f[m] \in Nat
    BY <1>6, <1>7
  <2>4. ~ (m < n) /\ ~ (n < m)
    BY <1>2, <2>2, <2>3
  <2> QED BY <2>3, <2>4
<1> QED BY <1>7, <1>9, <1>10, <1>11 DEF P

\* A step's finish keeps the invariant: each pending tool is made available once.
LEMMA PendingKeeps ==
  ASSUME NEW w, NEW st, Good(w, st),
         NEW h, h = [writePendingToolsAvailable(st) EXCEPT !.st.pendingStepFinish = TRUE],
         NEW v, v = w \o h.parts,
         NEW r \in RunState, NEW r2 \in RunState
  PROVE  /\ Kept(w, st, h, v)
         /\ Hands(r, r2) => FollowsOn(w, st, r, v, h.st, r2)
<1> DEFINE g == writePendingToolsAvailable(st)
           b == g.parts
           n == h.st
           T == "tool-input-available"
<1>1. Fine(w) /\ st \in StreamState /\ Resolved(w, st) /\ w \in Seq(WirePart)
  BY DEF Good, Fine
<1>2. h.parts = b /\ h.done = FALSE
  BY DEF writePendingToolsAvailable, Handled
<1>3. n = [g EXCEPT !.st.pendingStepFinish = TRUE].st
  OBVIOUS
<1>4. /\ n \in StreamState /\ n.started = st.started /\ n.pendingStepFinish
      /\ n.toolOrder = st.toolOrder
  BY <1>1, <1>3, PendingState
<1>5. \A i \in ToolIDs :
        /\ n.toolCalls[i].started = st.toolCalls[i].started
        /\ n.toolCalls[i].completed = st.toolCalls[i].completed
        /\ n.toolCalls[i].input = st.toolCalls[i].input
        /\ n.toolCalls[i].available <=> st.toolCalls[i].available \/ i \in PendingIds(st)
  BY <1>1, <1>3, PendingState
<1> HIDE DEF n, g
<1>6. b \in Seq(WirePart)
  BY <1>1, PendingParts DEF g
<1>7. \A k \in 1..Len(b) : \E m \in Pending(st) : b[k] = Available(st, st.toolOrder[m])
  BY <1>1, PendingParts DEF g
<1>8. \A i \in PendingIds(st) : \E k \in 1..Len(b) : b[k] = Available(st, i)
  BY <1>1, PendingParts DEF g
<1>9. Distinct(st.toolOrder) => \A j, k \in 1..Len(b) : b[j].id = b[k].id => j = k
  BY <1>1, PendingParts DEF g
<1>10. \A k \in 1..Len(b) : /\ b[k].type = T /\ b[k].id \in PendingIds(st)
                            /\ b[k].input = st.toolCalls[b[k].id].input
  <2> SUFFICES ASSUME NEW k \in 1..Len(b)
               PROVE  /\ b[k].type = T /\ b[k].id \in PendingIds(st)
                      /\ b[k].input = st.toolCalls[b[k].id].input
    OBVIOUS
  <2>1. PICK m \in Pending(st) : b[k] = Available(st, st.toolOrder[m])
    BY <1>7
  <2> DEFINE i == st.toolOrder[m]
  <2>2. i \in PendingIds(st)
    BY DEF PendingIds
  <2> HIDE DEF i
  <2>3. b[k] = Available(st, i)
    BY <2>1 DEF i
  <2>4. b[k].type = T /\ b[k].id = i /\ b[k].input = st.toolCalls[i].input
    BY <2>3 DEF Available, Part
  <2> QED BY <2>2, <2>4
<1> HIDE DEF b
<1>11. v = w \o b
  BY <1>2
<1>12. v \in Seq(WirePart) /\ Bracketed(v) /\ Waits(v) /\ Inside(v) /\ SameStep(w, v)
  <2>1. w \in Seq(WirePart) /\ Bracketed(w) /\ Inside(w) /\ Waits(w)
    BY <1>1 DEF Fine
  <2>2. \A k \in 1..Len(b) : \/ b[k].type \in Always
                             \/ Inside(w) /\ b[k].type \in Inner
                             \/ Outside(w) /\ b[k].type \in Outer
    BY <1>10, <2>1 DEF Inner, ToolTypes
  <2> QED BY <1>6, <1>11, <2>1, <2>2, Written
<1>13. Quiet(v)
  <2>1. \A k \in 1..Len(b) : b[k].type \notin LastTypes
    BY <1>10 DEF LastTypes
  <2>2. Quiet(w)
    BY <1>1 DEF Fine
  <2> QED BY <1>1, <1>6, <1>11, <2>1, <2>2, QuietWritten
<1>14. \A i, type : Now(v, i, type) = Now(w, i, type) \cup Fresh(w, v, i, type)
  BY <1>12 DEF SameStep
<1>15. /\ Len(w) \in Nat
       /\ \A k \in (Len(w)+1)..Len(v) : k - Len(w) \in 1..Len(b) /\ v[k] = b[k - Len(w)]
  BY <1>1, <1>6, <1>11, Joined
<1>16. /\ \A i : Now(v, i, "tool-input-start") = Now(w, i, "tool-input-start")
       /\ \A i : Now(v, i, "tool-input-delta") = Now(w, i, "tool-input-delta")
       /\ \A i : Now(v, i, "tool-output-available") = Now(w, i, "tool-output-available")
  <2>1. \A k \in (Len(w)+1)..Len(v) : v[k].type = T
    BY <1>10, <1>15
  <2>2. /\ \A i : Fresh(w, v, i, "tool-input-start") = {}
        /\ \A i : Fresh(w, v, i, "tool-input-delta") = {}
        /\ \A i : Fresh(w, v, i, "tool-output-available") = {}
    BY <2>1 DEF Fresh
  <2>3. ASSUME NEW i, NEW type, Fresh(w, v, i, type) = {}
        PROVE  Now(v, i, type) = Now(w, i, type)
    <3>1. Now(v, i, type) = Now(w, i, type) \cup Fresh(w, v, i, type)
      BY <1>14
    <3> QED BY <2>3, <3>1
  <2> QED BY <2>2, <2>3
<1>17. Resolved(v, n)
  BY <1>1, <1>4, <1>5, <1>16 DEF Resolved
<1>18. Good(v, n)
  BY <1>4, <1>12, <1>13, <1>17 DEF Good, Fine
<1>19. ASSUME Matched(w, st, r), r.phase = "model", r.waiting = {}, r2.called = {},
              r2.waiting = r.called
       PROVE  Matched(v, n, r2)
  <2>1. AllOrderly(w) /\ Matches(w, st) /\ Follows(r, st)
    BY <1>19 DEF Matched
  <2>2. /\ Distinct(st.toolOrder)
        /\ \A i \in ToolIDs : /\ st.toolCalls[i].started <=> i \in r.called
                              /\ ~ st.toolCalls[i].available /\ ~ st.toolCalls[i].completed
                              /\ Contains(st.toolOrder, i) => st.toolCalls[i].started
    BY <1>19, <2>1 DEF Follows
  <2>3. \A i \in ToolIDs : i \in PendingIds(st) <=> st.toolCalls[i].started
    <3>1. ASSUME NEW i \in ToolIDs, st.toolCalls[i].started PROVE i \in PendingIds(st)
      <4>1. PICK k \in 1..Len(st.toolOrder) : st.toolOrder[k] = i
        BY <1>1, <3>1 DEF Resolved, Contains
      <4>2. k \in Pending(st)
        BY <2>2, <3>1, <4>1 DEF Pending
      <4> QED BY <4>1, <4>2 DEF PendingIds
    <3>2. ASSUME NEW i \in PendingIds(st) PROVE st.toolCalls[i].started
      BY DEF PendingIds, Pending
    <3> QED BY <3>1, <3>2
  <2>4. ASSUME NEW i \in ToolIDs
        PROVE  /\ n.toolCalls[i].available <=> st.toolCalls[i].started
               /\ ~ n.toolCalls[i].completed
               /\ n.toolCalls[i].started <=> i \in r.called
               /\ Contains(n.toolOrder, i) => n.toolCalls[i].started
    BY <1>4, <1>5, <2>2, <2>3
  <2>5. Follows(r2, n)
    <3>1. CASE r2.waiting = {}
      BY <1>4, <1>5, <1>19, <2>2, <2>4, <3>1 DEF Follows
    <3>2. CASE r2.waiting # {}
      BY <1>4, <1>5, <1>19, <2>2, <2>4, <3>2 DEF Follows
    <3> QED BY <3>1, <3>2
  <2>6. \A i \in ToolIDs : /\ Now(w, i, T) = {} /\ Now(v, i, T) = Fresh(w, v, i, T)
                           /\ Now(w, i, "tool-output-available") = {}
    <3> SUFFICES ASSUME NEW i \in ToolIDs
                 PROVE  /\ Now(w, i, T) = {} /\ Now(v, i, T) = Fresh(w, v, i, T)
                        /\ Now(w, i, "tool-output-available") = {}
      OBVIOUS
    <3>1. Now(w, i, T) = {} /\ Now(w, i, "tool-output-available") = {}
      BY <2>1, <2>2 DEF Matches
    <3>2. Now(v, i, T) = Now(w, i, T) \cup Fresh(w, v, i, T)
      BY <1>14
    <3> QED BY <3>1, <3>2
  <2>7. ASSUME NEW i \in ToolIDs
        PROVE  /\ \A j, k \in Fresh(w, v, i, T) : j = k
               /\ \A k \in Fresh(w, v, i, T) :
                    Len(w) < k /\ v[k].input = st.toolCalls[i].input
               /\ Fresh(w, v, i, T) # {} <=> st.toolCalls[i].started
    <3>1. ASSUME NEW k \in Fresh(w, v, i, T)
          PROVE  /\ k \in Int /\ Len(w) < k
                 /\ k - Len(w) \in 1..Len(b) /\ v[k] = b[k - Len(w)] /\ v[k].id = i
      <4>1. k \in (Len(w)+1)..Len(v) /\ v[k].id = i
        BY DEF Fresh
      <4> QED BY <1>15, <4>1
    <3>2. ASSUME NEW j \in Fresh(w, v, i, T), NEW k \in Fresh(w, v, i, T) PROVE j = k
      <4> DEFINE jj == j - Len(w)
                 kk == k - Len(w)
      <4>0. jj \in 1..Len(b) /\ kk \in 1..Len(b) /\ b[jj].id = i /\ b[kk].id = i
        BY <3>1
      <4>1. jj = kk
        <5> HIDE DEF jj, kk
        <5> QED BY <1>9, <2>2, <4>0
      <4> QED BY <1>15, <3>1, <4>1
    <3>3. ASSUME NEW k \in Fresh(w, v, i, T)
          PROVE  v[k].input = st.toolCalls[i].input /\ st.toolCalls[i].started
      <4> DEFINE kk == k - Len(w)
      <4>1. kk \in 1..Len(b) /\ v[k] = b[kk] /\ b[kk].id = i
        BY <3>1, <3>3
      <4> HIDE DEF kk
      <4>2. i \in PendingIds(st) /\ b[kk].input = st.toolCalls[i].input
        BY <1>10, <4>1
      <4> QED BY <2>3, <4>1, <4>2
    <3>4. ASSUME st.toolCalls[i].started PROVE Fresh(w, v, i, T) # {}
      <4>1. PICK k \in 1..Len(b) : b[k] = Available(st, i)
        BY <1>8, <2>3, <3>4
      <4>2. Len(w) + k \in (Len(w)+1)..Len(v) /\ v[Len(w) + k] = b[k]
        <5>1. Len(v) = Len(w) + Len(b) /\ Len(b) \in Nat
          BY <1>1, <1>6, <1>11, Joined
        <5>2. v[Len(w) + k] = b[k]
          BY <1>1, <1>6, <1>11, Joined
        <5> QED BY <1>15, <5>1, <5>2
      <4>3. v[Len(w) + k].type = T /\ v[Len(w) + k].id = i
        BY <4>1, <4>2 DEF Available, Part
      <4>4. Len(w) + k \in Fresh(w, v, i, T)
        BY <4>2, <4>3 DEF Fresh
      <4> QED BY <4>4
    <3> QED BY <3>1, <3>2, <3>3, <3>4
  <2>8. Matches(v, n)
    BY <1>5, <1>16, <2>1, <2>4, <2>6, <2>7 DEF Matches
  <2>9. ASSUME NEW i \in ToolIDs, Orderly(w, StepsOf(w), i) PROVE Orderly(v, StepsOf(w), i)
    <3>1. StepsOf(v) = StepsOf(w)
      BY <1>12 DEF SameStep
    <3>2. InOrder(w, i)
      BY <2>9, OrderlyNow
    <3>3. \A type : Now(w, i, type) \in SUBSET (1..Len(w))
      BY <1>1, NowInside
    <3>4. \A k \in Fresh(w, v, i, T) : k \in Int /\ Len(w) < k
      BY <1>15 DEF Fresh
    <3>5. \A k \in Fresh(w, v, i, T) :
            \A j \in Now(w, i, "tool-input-start") \cup Now(w, i, "tool-input-delta") : j < k
      <4> SUFFICES ASSUME NEW k \in Fresh(w, v, i, T), NEW j \in 1..Len(w) PROVE j < k
        BY <3>3
      <4> QED BY <1>15, <3>4
    <3>6. Cardinality(Now(w, i, "tool-input-delta")) = st.toolCalls[i].input
      BY <2>1 DEF Matches
    <3>7. Now(v, i, "tool-output-available") = {} /\ Now(v, i, T) = Fresh(w, v, i, T)
      BY <1>16, <2>6
    <3>8. InOrder(v, i)
      <4> DEFINE F == Fresh(w, v, i, T)
      <4>1. /\ \A j, k \in F : j = k
            /\ \A k \in F : v[k].input = st.toolCalls[i].input
        BY <2>7
      <4> HIDE DEF F
      <4>2. /\ Now(v, i, "tool-input-start") = Now(w, i, "tool-input-start")
            /\ Now(v, i, "tool-input-delta") = Now(w, i, "tool-input-delta")
            /\ Now(v, i, "tool-output-available") = {}
            /\ Now(v, i, "tool-input-available") = F
        BY <1>16, <3>7 DEF F
      <4>3. \A a, c \in Now(w, i, "tool-input-start") : a = c
        BY <3>2 DEF InOrder
      <4>4. \A k \in F :
              \A j \in Now(w, i, "tool-input-start") \cup Now(w, i, "tool-input-delta") : j < k
        BY <3>5 DEF F
      <4> QED BY <3>6, <4>1, <4>2, <4>3, <4>4 DEF InOrder
    <3>9. Orderly(v, StepsOf(v), i)
      BY <3>8, OrderlyNow
    <3> QED BY <3>1, <3>9
  <2>10. AllOrderly(v)
    BY <1>1, <1>12, <2>1, <2>9, OrderlyWritten
  <2> QED BY <2>5, <2>8, <2>10 DEF Matched
<1>20. Kept(w, st, h, v)
  BY <1>2, <1>4, <1>6, <1>18 DEF n, Kept
<1> QED BY <1>19, <1>20 DEF n, Hands, FollowsOn

-----------------------------------------------------------------------------
(* The end of the wire *)

\* A block without a part about a tool keeps the tools in order.
LEMMA Untold ==
  ASSUME NEW w \in Seq(WirePart), NEW b \in Seq(WirePart), NEW v, v = w \o b, SameStep(w, v),
         \A n \in 1..Len(b) : b[n].type \notin ToolTypes,
         AllOrderly(w)
  PROVE  AllOrderly(v)
<1>1. ASSUME NEW i, NEW type \in ToolTypes PROVE Now(v, i, type) = Now(w, i, type)
  <2>1. \A n \in 1..Len(b) : ~ (b[n].type = type /\ b[n].id = i)
    OBVIOUS
  <2>2. Fresh(w, v, i, type) = {}
    BY <2>1, NoneFresh
  <2>3. Now(v, i, type) = Now(w, i, type) \cup Fresh(w, v, i, type)
    BY DEF SameStep
  <2> QED BY <2>2, <2>3
<1>2. ASSUME NEW i \in ToolIDs, Orderly(w, StepsOf(w), i) PROVE Orderly(v, StepsOf(w), i)
  <2>1. StepsOf(v) = StepsOf(w) /\ Prefix(w, v)
    BY DEF SameStep
  <2>2. \A type \in ToolTypes : AtStep(v, StepsOf(w), i, type) = AtStep(w, StepsOf(w), i, type)
    BY <1>1, <2>1 DEF Now
  <2> QED BY <1>2, <2>1, <2>2, OrderlySame
<1> QED BY <1>2, OrderlyWritten

MayClose(w, b, res) ==
    \A n \in 1..Len(b) :
      /\ b[n].type \in Always \/ (Outside(w) /\ b[n].type \in Outer)
      /\ b[n].type = "[DONE]" => n = Len(b)
      /\ b[n].type = "finish" => res \notin {"none", "cancelled"}
      /\ b[n].type = "abort" => res = "cancelled"

\* The last parts of a wire.
LEMMA Closing ==
  ASSUME NEW w \in Seq(WirePart), NEW b \in Seq(WirePart), NEW v, v = w \o b,
         Bracketed(w), Waits(w), Quiet(w), NEW res, MayClose(w, b, res)
  PROVE  /\ v \in Seq(WirePart) /\ Bracketed(v) /\ Waits(v) /\ EndsWell(v, TRUE, res)
         /\ AllOrderly(w) => AllOrderly(v)
<1>1. \A n \in 1..Len(b) : \/ b[n].type \in Always
                           \/ Inside(w) /\ b[n].type \in Inner
                           \/ Outside(w) /\ b[n].type \in Outer
  BY DEF MayClose
<1>2. v \in Seq(WirePart) /\ Bracketed(v) /\ Waits(v) /\ SameStep(w, v)
  BY <1>1, Written
<1>3. \A n \in 1..Len(b) : b[n].type \notin ToolTypes
  BY DEF MayClose, Always, Outer, ToolTypes
<1>4. AllOrderly(w) => AllOrderly(v)
  BY <1>2, <1>3, Untold
<1>5. /\ Len(w) \in Nat /\ Len(b) \in Nat /\ Len(v) = Len(w) + Len(b)
      /\ \A k \in 1..Len(w) : v[k] = w[k]
  <2>1. Len(w) \in Nat /\ Len(b) \in Nat /\ Len(v) = Len(w) + Len(b)
    BY Joined
  <2>2. Prefix(w, v)
    BY <1>2 DEF SameStep
  <2> QED BY <2>1, <2>2 DEF Prefix
<1>6. \A k \in (Len(w)+1)..Len(v) : k - Len(w) \in 1..Len(b) /\ v[k] = b[k - Len(w)]
  BY Joined
<1>7. EndsWell(v, TRUE, res)
  <2> SUFFICES ASSUME NEW k \in 1..Len(v)
               PROVE  /\ v[k].type = "[DONE]" => k = Len(v)
                      /\ v[k].type = "finish" => res \notin {"none", "cancelled"}
                      /\ v[k].type = "abort" => res = "cancelled"
    BY DEF EndsWell
  <2>1. CASE k \in 1..Len(w)
    BY <1>5, <2>1 DEF Quiet, LastTypes
  <2>2. CASE k \in (Len(w)+1)..Len(v)
    <3> DEFINE n == k - Len(w)
    <3>1. n \in 1..Len(b) /\ v[k] = b[n]
      BY <1>6, <2>2
    <3>2. n = Len(b) => k = Len(v)
      BY <1>5, <2>2
    <3> HIDE DEF n
    <3> QED BY <3>1, <3>2 DEF MayClose
  <2> QED BY <1>5, <2>1, <2>2
<1> QED BY <1>2, <1>4, <1>7

\* The parts of a failing stream, of one that was cancelled and of one that ended.
LEMMA ClosingParts ==
  /\ Done \in Seq(WirePart) /\ Len(Done) = 1 /\ Done[1] = Plain("[DONE]")
  /\ \A p \in WirePart : /\ <<p>> \o Done \in Seq(WirePart) /\ Len(<<p>> \o Done) = 2
                         /\ (<<p>> \o Done)[1] = p /\ (<<p>> \o Done)[2] = Plain("[DONE]")
  /\ \A type \in {"error", "abort", "[DONE]", "finish", "message-metadata"} :
       Plain(type) \in WirePart /\ Plain(type).type = type
<1>1. \A type \in {"error", "abort", "[DONE]", "finish", "message-metadata"} :
        Plain(type) \in WirePart /\ Plain(type).type = type
  BY DEF Plain, Part, WirePart, Always, Outer
<1>2. Plain("[DONE]") \in WirePart
  BY <1>1
<1>3. Done \in Seq(WirePart) /\ Len(Done) = 1 /\ Done[1] = Plain("[DONE]")
  BY <1>2 DEF Done
<1>4. ASSUME NEW p \in WirePart
      PROVE  /\ <<p>> \o Done \in Seq(WirePart) /\ Len(<<p>> \o Done) = 2
             /\ (<<p>> \o Done)[1] = p /\ (<<p>> \o Done)[2] = Plain("[DONE]")
  <2>1. <<p>> \in Seq(WirePart) /\ Len(<<p>>) = 1 /\ <<p>>[1] = p
    OBVIOUS
  <2> QED BY <1>3, <2>1
<1> QED BY <1>1, <1>3, <1>4

\* Three parts are a part and two.
LEMMA Triple == \A a, b, c : <<a>> \o <<b, c>> = <<a, b, c>>
<1> SUFFICES ASSUME NEW a, NEW b, NEW c PROVE <<a>> \o <<b, c>> = <<a, b, c>>
  OBVIOUS
<1> DEFINE s == <<a>> \o <<b, c>>
           t == <<a, b, c>>
           S == {a, b, c}
<1>1. <<a>> \in Seq(S) /\ <<b, c>> \in Seq(S) /\ t \in Seq(S)
  OBVIOUS
<1>2. /\ Len(<<a>>) = 1 /\ <<a>>[1] = a /\ Len(<<b, c>>) = 2 /\ <<b, c>>[1] = b /\ <<b, c>>[2] = c
      /\ Len(t) = 3 /\ t[1] = a /\ t[2] = b /\ t[3] = c
  OBVIOUS
<1>3. s \in Seq(S) /\ Len(s) = 3 /\ s[1] = a /\ s[2] = b /\ s[3] = c
  <2> DEFINE x == <<a>>
             y == <<b, c>>
  <2>1. x \in Seq(S) /\ y \in Seq(S) /\ Len(x) = 1 /\ Len(y) = 2 /\ s = x \o y
    BY <1>1, <1>2
  <2>2. x[1] = a /\ y[1] = b /\ y[2] = c
    BY <1>2
  <2> HIDE DEF x, y, s, S
  <2>3. /\ x \o y \in Seq(S) /\ Len(x \o y) = Len(x) + Len(y)
        /\ \A k \in 1..(Len(x) + Len(y)) :
             (x \o y)[k] = IF k <= Len(x) THEN x[k] ELSE y[k - Len(x)]
    <3>1. x \in Seq(S) /\ y \in Seq(S)
      BY <2>1
    <3> QED BY <3>1, ConcatProperties
  <2> QED BY <2>1, <2>2, <2>3
<1> HIDE DEF s, t, S
<1>4. \A k \in 1..Len(s) : s[k] = t[k]
  <2>1. \A k \in 1..Len(s) : k = 1 \/ k = 2 \/ k = 3
    BY <1>3
  <2> QED BY <1>2, <1>3, <2>1
<1>5. s = t
  BY <1>1, <1>2, <1>3, <1>4, SeqEqual
<1> QED BY <1>5 DEF s, t

\* A cancelled run.
LEMMA Aborts ==
  ASSUME NEW w, Fine(w), NEW v, v = w \o (<<Plain("abort")>> \o Done)
  PROVE  /\ <<Plain("abort")>> \o Done \in Seq(WirePart)
         /\ Bracketed(v) /\ Waits(v) /\ EndsWell(v, TRUE, "cancelled")
         /\ AllOrderly(w) => AllOrderly(v)
<1> DEFINE b == <<Plain("abort")>> \o Done
<1>1. w \in Seq(WirePart) /\ Bracketed(w) /\ Waits(w) /\ Quiet(w)
  BY DEF Fine
<1>2. /\ b \in Seq(WirePart) /\ Len(b) = 2 /\ b[1].type = "abort" /\ b[2].type = "[DONE]"
  BY ClosingParts
<1> HIDE DEF b
<1>3. MayClose(w, b, "cancelled")
  <2>1. \A n \in 1..Len(b) : n = 1 \/ n = 2
    BY <1>2
  <2> QED BY <1>2, <2>1 DEF Always, MayClose
<1>4. v = w \o b
  BY DEF b
<1>5. /\ Bracketed(v) /\ Waits(v) /\ EndsWell(v, TRUE, "cancelled")
      /\ AllOrderly(w) => AllOrderly(v)
  BY <1>1, <1>2, <1>3, <1>4, Closing
<1> QED BY <1>2, <1>5 DEF b

\* A run that ended otherwise.
LEMMA Finishes ==
  ASSUME NEW w, Fine(w), NEW res, res \notin {"none", "cancelled"}, NEW b,
         b = <<Plain("finish-step"), Plain("message-metadata"), Plain("finish")>> \o Done,
         NEW v, v = w \o b
  PROVE  /\ b \in Seq(WirePart)
         /\ Bracketed(v) /\ Waits(v) /\ EndsWell(v, TRUE, res)
         /\ AllOrderly(w) => AllOrderly(v)
<1> DEFINE f == <<Plain("finish-step")>>
           m == <<Plain("message-metadata"), Plain("finish")>>
           c == m \o Done
           u == w \o f
<1>1. w \in Seq(WirePart) /\ Bracketed(w) /\ Inside(w) /\ Waits(w) /\ Quiet(w)
  BY DEF Fine
<1>2. /\ f \in Seq(WirePart) /\ m \in Seq(WirePart) /\ Done \in Seq(WirePart)
      /\ Len(m) = 2 /\ m[1].type = "message-metadata" /\ m[2].type = "finish"
      /\ Len(Done) = 1 /\ Done[1].type = "[DONE]"
  <2>1. Plain("finish-step") \in WirePart
    BY DEF Plain, Part, WirePart
  <2>2. /\ Plain("message-metadata") \in WirePart
        /\ Plain("message-metadata").type = "message-metadata"
        /\ Plain("finish") \in WirePart /\ Plain("finish").type = "finish"
        /\ Plain("[DONE]").type = "[DONE]"
    BY ClosingParts
  <2>3. Done \in Seq(WirePart) /\ Len(Done) = 1 /\ Done[1] = Plain("[DONE]")
    BY ClosingParts
  <2> QED BY <2>1, <2>2, <2>3
<1>3. <<Plain("finish-step"), Plain("message-metadata"), Plain("finish")>> = f \o m
  BY Triple
<1> HIDE DEF f, m
<1>4. /\ c \in Seq(WirePart) /\ Len(c) = 3 /\ c[1].type = "message-metadata"
      /\ c[2].type = "finish" /\ c[3].type = "[DONE]"
  <2>1. /\ c \in Seq(WirePart) /\ Len(c) = Len(m) + Len(Done)
        /\ \A k \in 1..(Len(m) + Len(Done)) : c[k] = IF k <= Len(m) THEN m[k] ELSE Done[k - Len(m)]
    BY <1>2, ConcatProperties
  <2> HIDE DEF c
  <2>2. Len(c) = 3 /\ c[1] = m[1] /\ c[2] = m[2] /\ c[3] = Done[1]
    BY <1>2, <2>1
  <2> QED BY <1>2, <2>1, <2>2
<1>5. b = f \o c /\ b \in Seq(WirePart)
  <2>1. (f \o m) \o Done = f \o (m \o Done)
    <3>1. f \in Seq(WirePart) /\ m \in Seq(WirePart) /\ Done \in Seq(WirePart)
      BY <1>2
    <3> QED BY <3>1, Halves
  <2>2. f \o c \in Seq(WirePart)
    BY <1>2, <1>4
  <2> QED BY <1>3, <2>1, <2>2
<1> HIDE DEF c
<1>6. v = u \o c
  <2>1. w \o (f \o c) = (w \o f) \o c
    BY <1>1, <1>2, <1>4, Halves
  <2> QED BY <1>5, <2>1
<1>7. /\ u \in Seq(WirePart) /\ Bracketed(u) /\ Outside(u) /\ Waits(u) /\ Quiet(u)
      /\ AllOrderly(w) => AllOrderly(u)
  BY <1>1, StepOver DEF f
<1> HIDE DEF u
<1>8. MayClose(u, c, res)
  <2>1. \A n \in 1..Len(c) : n = 1 \/ n = 2 \/ n = 3
    BY <1>4
  <2> QED BY <1>4, <1>5, <1>7, <2>1 DEF Always, Outer, MayClose
<1>9. /\ Bracketed(v) /\ Waits(v) /\ EndsWell(v, TRUE, res)
      /\ AllOrderly(u) => AllOrderly(v)
  BY <1>4, <1>6, <1>7, <1>8, Closing
<1> QED BY <1>5, <1>7, <1>9

-----------------------------------------------------------------------------
(* Events *)

Terminal(e) == e.type = "finish" /\ e.reason \notin StepReasons

\* Which events a run may store, and what they make of it.
LEMMA EventShape ==
  ASSUME NEW r \in RunState, NEW e \in NextEvents(r), NEW r2, r2 = After(r, e)
  PROVE  /\ r2 \in RunState
         /\ \/ /\ e.type = "run_created" /\ r.phase = "created" /\ r2.phase = "model"
               /\ r2.called = r.called /\ r2.waiting = r.waiting
            \/ e.type \in TextKinds /\ r2 = r
            \/ e.type \in {"tool_call", "tool_args"} /\ e.id \in ToolIDs /\ Calls(r, e, r2)
            \/ e.type = "tool_result" /\ Answers(r, e, r2)
            \/ e.type = "error" /\ r2.phase = "failed"
            \/ e.type = "finish" /\ e.reason \in StepReasons /\ Hands(r, r2)
            \/ e.type = "finish" /\ e.reason \in Reasons /\ e.reason \notin StepReasons
<1> USE DEF RunState
<1>1. /\ \A i : ToolCall(i).type = "tool_call" /\ ToolCall(i).id = i
      /\ \A i : ToolArgs(i).type = "tool_args" /\ ToolArgs(i).id = i
      /\ \A i : ToolResult(i).type = "tool_result" /\ ToolResult(i).id = i
      /\ \A k : Delta(k).type = k
      /\ \A reason : Finish(reason).type = "finish" /\ Finish(reason).reason = reason
      /\ Created.type = "run_created" /\ Error.type = "error"
  BY DEF ToolCall, ToolArgs, ToolResult, Delta, Finish, Created, Error
<1>2. CASE r.phase = "created"
  <2>1. e.type = "run_created"
    BY <1>1, <1>2 DEF NextEvents
  <2>2. r2 = [r EXCEPT !.phase = "model"]
    BY <2>1 DEF After
  <2> QED BY <1>2, <2>1, <2>2
<1>3. CASE r.phase = "ended"
  BY <1>3 DEF NextEvents
<1>4. CASE r.phase = "failed"
  <2>1. e.type = "finish" /\ e.reason = "error" /\ "error" \notin StepReasons
    BY <1>1, <1>4 DEF NextEvents, StepReasons
  <2>2. r2 = [r EXCEPT !.phase = "ended"]
    BY <2>1 DEF After
  <2> QED BY <2>1, <2>2 DEF Reasons
<1>5. CASE r.phase = "model"
  <2>1. \/ e = Error \/ e = Finish("cancelled") \/ e = Finish("stop") \/ e = Finish("length")
        \/ \E i \in r.waiting : e = ToolResult(i)
        \/ r.waiting = {} /\ \E kind \in TextKinds : e = Delta(kind)
        \/ r.waiting = {} /\ \E reason \in StepReasons : e = Finish(reason)
        \/ r.waiting = {} /\ \E i \in r.called : e = ToolArgs(i)
        \/ r.waiting = {} /\ \E i \in ToolIDs \ r.called : e = ToolCall(i)
    BY <1>5 DEF NextEvents
  <2>2. CASE e = Error
    <3>1. e.type = "error"
      BY <1>1, <2>2
    <3>2. r2 = [r EXCEPT !.phase = "failed"]
      BY <3>1 DEF After
    <3> QED BY <3>1, <3>2
  <2>3. CASE e = Finish("cancelled") \/ e = Finish("stop") \/ e = Finish("length")
    <3>1. e.type = "finish" /\ e.reason \in Reasons /\ e.reason \notin StepReasons
      BY <1>1, <2>3 DEF Reasons, StepReasons
    <3>2. r2 = [r EXCEPT !.phase = "ended"]
      BY <3>1 DEF After
    <3> QED BY <3>1, <3>2
  <2>4. ASSUME NEW i \in r.waiting, e = ToolResult(i)
        PROVE  r2 \in RunState /\ e.type = "tool_result" /\ Answers(r, e, r2)
    <3>1. e.type = "tool_result" /\ e.id = i
      BY <1>1, <2>4
    <3>2. r2 = [r EXCEPT !.waiting = @ \ {i}]
      BY <3>1 DEF After
    <3> QED BY <1>5, <3>1, <3>2 DEF Answers
  <2>5. ASSUME NEW kind \in TextKinds, e = Delta(kind)
        PROVE  e.type \in TextKinds /\ r2 = r
    <3>1. e.type = kind /\ kind \in {"text", "reasoning"}
      BY <1>1, <2>5, RunEventsAssumption
    <3> QED BY <3>1 DEF After
  <2>6. ASSUME NEW reason \in StepReasons, e = Finish(reason), r.waiting = {}
        PROVE  /\ r2 \in RunState /\ e.type = "finish" /\ e.reason \in StepReasons
               /\ Hands(r, r2)
    <3>1. e.type = "finish" /\ e.reason \in StepReasons
      BY <1>1, <2>6
    <3>2. r2 = [r EXCEPT !.called = {}, !.waiting = r.called]
      BY <3>1 DEF After
    <3> QED BY <1>5, <2>6, <3>1, <3>2 DEF Hands
  <2>7. ASSUME NEW i \in r.called, e = ToolArgs(i), r.waiting = {}
        PROVE  r2 \in RunState /\ e.type = "tool_args" /\ e.id \in ToolIDs /\ Calls(r, e, r2)
    <3>1. e.type = "tool_args" /\ e.id = i
      BY <1>1, <2>7
    <3>2. r2 = r
      BY <3>1 DEF After
    <3> QED BY <1>5, <2>7, <3>1, <3>2 DEF Calls
  <2>8. ASSUME NEW i \in ToolIDs \ r.called, e = ToolCall(i), r.waiting = {}
        PROVE  r2 \in RunState /\ e.type = "tool_call" /\ e.id \in ToolIDs /\ Calls(r, e, r2)
    <3>1. e.type = "tool_call" /\ e.id = i
      BY <1>1, <2>8
    <3>2. r2 = [r EXCEPT !.called = @ \cup {i}]
      BY <3>1 DEF After
    <3> QED BY <1>5, <2>8, <3>1, <3>2 DEF Calls
  <2> QED BY <2>1, <2>2, <2>3, <2>4, <2>5, <2>6, <2>7, <2>8
<1> QED BY <1>2, <1>3, <1>4, <1>5

\* What the handler of one event writes to a wire that fits the state.
LEMMA EventWritten ==
  ASSUME NEW w, NEW st, Good(w, st), NEW r \in RunState, NEW e \in NextEvents(r),
         NEW r2, r2 = After(r, e), NEW h, h = writeEvent(st, e),
         NEW b, b = h.parts \o (IF h.done THEN Done ELSE <<>>), NEW v, v = w \o b
  PROVE  /\ b \in Seq(WirePart) /\ h.parts \in Seq(WirePart) /\ Bracketed(v) /\ Waits(v)
         /\ h.st \in StreamState
         /\ Matched(w, st, r) => AllOrderly(v)
         /\ h.done \in BOOLEAN /\ (h.done <=> Terminal(e))
         /\ ~ h.done => /\ Kept(w, st, h, v)
                        /\ FollowsOn(w, st, r, v, h.st, r2)
         /\ h.done => EndsWell(v, TRUE, e.reason)
<1> DEFINE Goal ==
      /\ b \in Seq(WirePart) /\ h.parts \in Seq(WirePart) /\ Bracketed(v) /\ Waits(v)
      /\ h.st \in StreamState
      /\ Matched(w, st, r) => AllOrderly(v)
      /\ h.done \in BOOLEAN /\ (h.done <=> Terminal(e))
      /\ ~ h.done => /\ Kept(w, st, h, v)
                     /\ FollowsOn(w, st, r, v, h.st, r2)
      /\ h.done => EndsWell(v, TRUE, e.reason)
<1> SUFFICES Goal
  OBVIOUS
<1> HIDE DEF Goal
<1>1. Fine(w) /\ st \in StreamState /\ w \in Seq(WirePart)
  BY DEF Good, Fine
<1>2. r2 \in RunState
  BY EventShape
\* An event after which the stream goes on.
<1>3. ASSUME h.done = FALSE, ~ Terminal(e), h.parts \in Seq(WirePart),
             Good(w \o h.parts, h.st), h.st.started = st.started,
             FollowsOn(w, st, r, w \o h.parts, h.st, r2)
      PROVE  Goal
  <2>1. b = h.parts
    BY <1>3, NoParts
  <2>2. Good(v, h.st) /\ FollowsOn(w, st, r, v, h.st, r2)
    BY <1>3, <2>1
  <2>3. Bracketed(v) /\ Waits(v) /\ h.st \in StreamState
    BY <2>2 DEF Good, Fine
  <2>4. Matched(w, st, r) => AllOrderly(v)
    BY <2>2 DEF FollowsOn, Matched
  <2>5. Kept(w, st, h, v)
    BY <1>3, <2>2 DEF Kept
  <2> QED BY <1>3, <2>1, <2>2, <2>3, <2>4, <2>5 DEF Goal
\* An event without a part about a tool.
<1>4. ASSUME h.done = FALSE, ~ Terminal(e), h.parts \in Seq(WirePart),
             \A n \in 1..Len(h.parts) : h.parts[n].type \in TextKinds \cup {"error"},
             h.st \in StreamState, h.st.toolCalls = st.toolCalls,
             h.st.toolOrder = st.toolOrder, h.st.started = st.started,
             Follows(r, st) => Follows(r2, h.st)
      PROVE  Goal
  <2> DEFINE u == w \o h.parts
             n == h.st
             p == h.parts
  <2>1. /\ n \in StreamState /\ n.toolCalls = st.toolCalls /\ n.toolOrder = st.toolOrder
        /\ p \in Seq(WirePart)
    BY <1>4
  <2>2. \A k \in 1..Len(p) : p[k].type \in TextKinds \cup {"error"}
    BY <1>4
  <2>3. u = w \o p
    OBVIOUS
  <2> HIDE DEF u, n, p
  <2>4. Good(u, n) /\ (AllOrderly(w) /\ Matches(w, st) => AllOrderly(u) /\ Matches(u, n))
    BY <2>1, <2>2, <2>3, Remark
  <2>5. FollowsOn(w, st, r, u, n, r2)
    BY <1>4, <2>4 DEF FollowsOn, Matched, n
  <2> QED BY <1>3, <1>4, <2>4, <2>5 DEF u, n
<1>5. CASE /\ e.type = "run_created" /\ r.phase = "created" /\ r2.phase = "model"
           /\ r2.called = r.called /\ r2.waiting = r.waiting
  <2>1. h = Handled(st, <<>>, FALSE)
    BY <1>5, RunEventsAssumption DEF writeEvent
  <2>2. h.st = st /\ h.parts = <<>> /\ h.done = FALSE
    BY <2>1 DEF Handled
  <2>3. ~ Terminal(e)
    BY <1>5 DEF Terminal
  <2>4. Follows(r, st) => Follows(r2, st)
    BY <1>5 DEF Follows
  <2>5. <<>> \in Seq(WirePart) /\ Len(<<>>) = 0
    OBVIOUS
  <2>6. \A n \in 1..Len(h.parts) : h.parts[n].type \in TextKinds \cup {"error"}
    BY <2>2, <2>5
  <2> QED BY <1>1, <1>4, <2>2, <2>3, <2>4, <2>5, <2>6
<1>6. CASE e.type \in TextKinds /\ r2 = r
  <2>1. e.type \in {"text", "reasoning"}
    BY <1>6, RunEventsAssumption
  <2>2. h = Handled(st, <<Plain(e.type)>>, FALSE)
    BY <1>6, <2>1 DEF writeEvent
  <2>3. h.st = st /\ h.parts = <<Plain(e.type)>> /\ h.done = FALSE
    BY <2>2 DEF Handled
  <2>4. ~ Terminal(e)
    BY <2>1 DEF Terminal
  <2>5. Plain(e.type) \in WirePart /\ Plain(e.type).type = e.type
    BY <1>6 DEF Plain, Part, WirePart, Inner
  <2>6. h.parts \in Seq(WirePart) /\ Len(h.parts) = 1 /\ h.parts[1].type = e.type
    BY <2>3, <2>5
  <2>7. \A n \in 1..Len(h.parts) : h.parts[n].type \in TextKinds \cup {"error"}
    BY <1>6, <2>6
  <2> QED BY <1>1, <1>4, <1>6, <2>3, <2>4, <2>6, <2>7
<1>7. CASE e.type \in {"tool_call", "tool_args"} /\ e.id \in ToolIDs /\ Calls(r, e, r2)
  <2>1. h = writeToolCall(st, e)
    BY <1>7, RunEventsAssumption DEF writeEvent
  <2>2. ~ Terminal(e)
    BY <1>7 DEF Terminal
  <2> DEFINE u == w \o h.parts
  <2>3. u = w \o h.parts
    OBVIOUS
  <2> HIDE DEF u
  <2>4. Kept(w, st, h, u)
    BY <1>2, <1>7, <2>1, <2>3, CallKeeps
  <2>5. FollowsOn(w, st, r, u, h.st, r2)
    BY <1>2, <1>7, <2>1, <2>3, CallKeeps
  <2> QED BY <1>3, <2>2, <2>4, <2>5 DEF Kept, u
<1>8. CASE e.type = "tool_result" /\ Answers(r, e, r2)
  <2>1. h = writeToolResult(st, e) /\ e.id \in ToolIDs
    BY <1>8, RunEventsAssumption DEF writeEvent, RunState, Answers
  <2>2. ~ Terminal(e)
    BY <1>8 DEF Terminal
  <2> DEFINE u == w \o h.parts
  <2>3. u = w \o h.parts
    OBVIOUS
  <2> HIDE DEF u
  <2>4. Kept(w, st, h, u)
    BY <1>2, <2>1, <2>3, ResultKeeps
  <2>5. FollowsOn(w, st, r, u, h.st, r2)
    BY <1>2, <1>8, <2>1, <2>3, ResultKeeps
  <2> QED BY <1>3, <2>2, <2>4, <2>5 DEF Kept, u
<1>9. CASE e.type = "error" /\ r2.phase = "failed"
  <2>1. h = Handled([st EXCEPT !.runErr = TRUE], <<Plain("error")>>, FALSE)
    BY <1>9, RunEventsAssumption DEF writeEvent
  <2>2. h.st = [st EXCEPT !.runErr = TRUE] /\ h.parts = <<Plain("error")>> /\ h.done = FALSE
    BY <2>1 DEF Handled
  <2>3. /\ h.st \in StreamState /\ h.st.toolCalls = st.toolCalls
        /\ h.st.toolOrder = st.toolOrder /\ h.st.started = st.started
    BY <1>1, <2>2 DEF StreamState
  <2>4. ~ Terminal(e)
    BY <1>9 DEF Terminal
  <2>5. Follows(r, st) => Follows(r2, h.st)
    BY <1>9, <2>3 DEF Follows
  <2>6. Plain("error") \in WirePart /\ Plain("error").type = "error"
    BY ClosingParts
  <2>7. h.parts \in Seq(WirePart) /\ Len(h.parts) = 1 /\ h.parts[1].type = "error"
    BY <2>2, <2>6
  <2>8. \A n \in 1..Len(h.parts) : h.parts[n].type \in TextKinds \cup {"error"}
    BY <2>7
  <2> QED BY <1>4, <2>2, <2>3, <2>4, <2>5, <2>7, <2>8
<1>10. CASE e.type = "finish" /\ e.reason \in StepReasons /\ Hands(r, r2)
  <2>1. h = [writePendingToolsAvailable(st) EXCEPT !.st.pendingStepFinish = TRUE]
    <3>1. h = writeFinish(st, e.reason)
      BY <1>10, RunEventsAssumption DEF writeEvent
    <3>2. e.reason # "cancelled"
      BY <1>10 DEF StepReasons
    <3> QED BY <1>10, <3>1, <3>2 DEF writeFinish
  <2>2. ~ Terminal(e)
    BY <1>10 DEF Terminal
  <2> DEFINE u == w \o h.parts
  <2>3. u = w \o h.parts
    OBVIOUS
  <2> HIDE DEF u
  <2>4. Kept(w, st, h, u)
    BY <1>2, <2>1, <2>3, PendingKeeps
  <2>5. FollowsOn(w, st, r, u, h.st, r2)
    BY <1>2, <1>10, <2>1, <2>3, PendingKeeps
  <2> QED BY <1>3, <2>2, <2>4, <2>5 DEF Kept, u
<1>11. CASE e.type = "finish" /\ e.reason \in Reasons /\ e.reason \notin StepReasons
  <2>1. h = writeFinish(st, e.reason) /\ Terminal(e)
    BY <1>11, RunEventsAssumption DEF writeEvent, Terminal
  <2>2. CASE e.reason = "cancelled"
    <3>1. h = Handled(st, <<Plain("abort")>>, TRUE)
      BY <2>1, <2>2 DEF writeFinish, StepReasons
    <3>2. /\ h.done = TRUE /\ b = <<Plain("abort")>> \o Done
          /\ h.parts = <<Plain("abort")>> /\ h.st = st
      BY <3>1 DEF Handled
    <3>4. h.parts \in Seq(WirePart)
      BY <3>2, ClosingParts
    <3>3. /\ b \in Seq(WirePart) /\ Bracketed(v) /\ Waits(v) /\ EndsWell(v, TRUE, e.reason)
          /\ AllOrderly(w) => AllOrderly(v)
      BY <1>1, <2>2, <3>2, Aborts
    <3> QED BY <1>1, <2>1, <3>2, <3>3, <3>4 DEF Goal, Matched
  <2>3. CASE e.reason # "cancelled"
    <3>1. h = Handled(st, <<Plain("finish-step"), Plain("message-metadata"),
                            Plain("finish")>>, TRUE)
      BY <1>11, <2>1, <2>3 DEF writeFinish
    <3>2. /\ h.done = TRUE
          /\ b = <<Plain("finish-step"), Plain("message-metadata"), Plain("finish")>> \o Done
          /\ h.parts = <<Plain("finish-step"), Plain("message-metadata"), Plain("finish")>>
          /\ h.st = st
      BY <3>1 DEF Handled
    <3>5. h.parts \in Seq(WirePart)
      <4>1. Plain("finish-step") \in WirePart
        BY DEF Plain, Part, WirePart
      <4> QED BY <3>2, <4>1, ClosingParts
    <3>3. e.reason \notin {"none", "cancelled"}
      BY <1>11, <2>3 DEF Reasons
    <3>4. /\ b \in Seq(WirePart) /\ Bracketed(v) /\ Waits(v) /\ EndsWell(v, TRUE, e.reason)
          /\ AllOrderly(w) => AllOrderly(v)
      BY <1>1, <3>2, <3>3, Finishes
    <3> QED BY <1>1, <2>1, <3>2, <3>4, <3>5 DEF Goal, Matched
  <2> QED BY <2>2, <2>3
<1> QED BY <1>5, <1>6, <1>7, <1>8, <1>9, <1>10, <1>11, EventShape

-----------------------------------------------------------------------------
(* A wire from its first part *)

\* What the writer knows before an event.
Ready(w, st) == /\ st \in StreamState
                /\ IF st.started THEN Good(w, st) ELSE w = <<>> /\ Blank(st)

\* An empty wire.
LEMMA NoWire ==
  /\ <<>> \in Seq(WirePart) /\ StepsOf(<<>>) = 0
  /\ Bracketed(<<>>) /\ Outside(<<>>) /\ Waits(<<>>) /\ Quiet(<<>>) /\ AllOrderly(<<>>)
  /\ \A i, type : Now(<<>>, i, type) = {}
<1>1. <<>> \in Seq(WirePart) /\ Len(<<>>) = 0
  OBVIOUS
<1>2. Begun(<<>>, 0) = 0 /\ Ended(<<>>, 0) = 0
  BY CountZero DEF Begun, Ended
<1>3. Outside(<<>>) /\ StepsOf(<<>>) = 0
  BY <1>1, <1>2 DEF Outside, StepsOf
<1>4. Bracketed(<<>>)
  BY <1>1, <1>3 DEF Bracketed
<1>5. Quiet(<<>>)
  BY <1>1 DEF Quiet
<1>6. Waits(<<>>) /\ AllOrderly(<<>>)
  BY <1>1, <1>2 DEF Waits, AllOrderly
<1>7. \A i, type : Now(<<>>, i, type) = {}
  BY <1>1 DEF Now, AtStep
<1> QED BY <1>1, <1>3, <1>4, <1>5, <1>6, <1>7

\* The message is started, and its first step.
LEMMA Opens ==
  ASSUME NEW w, NEW st, Ready(w, st), NEW st2, st2 = [st EXCEPT !.started = TRUE],
         NEW v, v = w \o Opening(st)
  PROVE  /\ Opening(st) \in Seq(WirePart) /\ w \in Seq(WirePart)
         /\ Good(v, st2) /\ st2.started
         /\ AllOrderly(w) /\ Matches(w, st) => AllOrderly(v) /\ Matches(v, st2)
         /\ \A r : Follows(r, st) => Follows(r, st2)
<1>1. /\ st2 \in StreamState /\ st2.started = TRUE /\ st2.toolCalls = st.toolCalls
      /\ st2.toolOrder = st.toolOrder /\ st2.pendingStepFinish = st.pendingStepFinish
  BY DEF Ready, StreamState
<1>2. \A r : Follows(r, st) => Follows(r, st2)
  BY <1>1 DEF Follows
<1>3. CASE st.started
  <2>1. Opening(st) = <<>> /\ Good(w, st) /\ w \in Seq(WirePart)
    BY <1>3 DEF Opening, Ready, Good, Fine
  <2>2. v = w /\ Opening(st) \in Seq(WirePart)
    BY <2>1, NoParts
  <2>3. Good(v, st2) /\ (Matches(w, st) => Matches(v, st2))
    BY <1>1, <2>1, <2>2 DEF Good, Resolved, Matches
  <2> QED BY <1>1, <1>2, <2>1, <2>2, <2>3
<1>4. CASE ~ st.started
  <2> DEFINE s == <<Plain("start")>>
             f == <<Plain("start-step")>>
             u == w \o s
  <2>1. w = <<>> /\ Blank(st2)
    BY <1>1, <1>4 DEF Ready, Blank
  <2>2. /\ w \in Seq(WirePart) /\ Bracketed(w) /\ Outside(w) /\ Waits(w) /\ Quiet(w)
        /\ AllOrderly(w) /\ StepsOf(w) = 0
    BY <2>1, NoWire
  <2>3. /\ Plain("start") \in WirePart /\ Plain("start-step") \in WirePart
        /\ Plain("start").type = "start"
    BY DEF Plain, Part, WirePart, Outer
  <2>4. s \in Seq(WirePart) /\ f \in Seq(WirePart) /\ Len(s) = 1 /\ s[1].type = "start"
    BY <2>3
  <2>5. Opening(st) = s \o f
    BY <1>4, Pair DEF Opening
  <2> HIDE DEF s
  <2>6. Opening(st) \in Seq(WirePart) /\ v = u \o f
    BY <2>2, <2>4, <2>5, Halves
  <2>7. \A n \in 1..Len(s) : s[n].type = "start"
    BY <2>4
  <2>8. u \in Seq(WirePart) /\ Bracketed(u) /\ Outside(u) /\ SameStep(w, u)
    BY <2>2, <2>4, <2>7, Written DEF Outer
  <2>9. Quiet(u)
    BY <2>2, <2>4, <2>7, QuietWritten DEF LastTypes
  <2>10. AllOrderly(u)
    BY <2>2, <2>4, <2>7, <2>8, Untold DEF ToolTypes
  <2>11. StepsOf(u) = 0
    BY <2>2, <2>8 DEF SameStep
  <2> HIDE DEF u
  <2>12. /\ v \in Seq(WirePart) /\ Bracketed(v) /\ Inside(v) /\ Quiet(v)
         /\ StepsOf(v) = StepsOf(u) + 1 /\ AllOrderly(v)
    BY <2>6, <2>8, <2>9, <2>10, NextStep
  <2>13. \A i : \A type \in ToolTypes : Now(v, i, type) = {}
    BY <2>6, <2>8, <2>9, NextStep
  <2>14. Waits(v)
    BY <2>11, <2>12 DEF Waits, StepsOf
  <2>15. Resolved(v, st2) /\ Matches(v, st2)
    BY <2>1, <2>13, BlankMatches
  <2> QED BY <1>1, <1>2, <2>2, <2>6, <2>12, <2>14, <2>15 DEF Good, Fine
<1> QED BY <1>3, <1>4

\* All that one event makes the writer write.
LEMMA Handles ==
  ASSUME NEW w, NEW st, Ready(w, st), NEW r \in RunState, NEW e \in NextEvents(r),
         NEW r2, r2 = After(r, e), NEW h, h = writeEvent([st EXCEPT !.started = TRUE], e),
         NEW b, b = Opening(st) \o h.parts \o (IF h.done THEN Done ELSE <<>>),
         NEW v, v = w \o b
  PROVE  /\ w \in Seq(WirePart) /\ b \in Seq(WirePart) /\ Bracketed(v) /\ Waits(v)
         /\ h.st \in StreamState
         /\ Matched(w, st, r) => AllOrderly(v)
         /\ h.done \in BOOLEAN /\ (h.done <=> Terminal(e))
         /\ ~ h.done => Good(v, h.st) /\ h.st.started /\ FollowsOn(w, st, r, v, h.st, r2)
         /\ h.done => EndsWell(v, TRUE, e.reason)
<1> DEFINE st2 == [st EXCEPT !.started = TRUE]
           O == Opening(st)
           D == IF h.done THEN Done ELSE <<>>
           p == h.parts
           c == h.parts \o D
           u == w \o O
           x == u \o c
<1>1. st2 = [st EXCEPT !.started = TRUE] /\ h = writeEvent(st2, e)
  OBVIOUS
<1>2. u = w \o Opening(st) /\ O = Opening(st)
  OBVIOUS
<1>3. c = h.parts \o (IF h.done THEN Done ELSE <<>>) /\ x = u \o c /\ b = (O \o h.parts) \o D
  OBVIOUS
<1>4. D \in Seq(WirePart)
  BY ClosingParts
<1> HIDE DEF st2, u, c, O, D, x, p
<1>5. /\ O \in Seq(WirePart) /\ w \in Seq(WirePart) /\ Good(u, st2) /\ st2.started
      /\ AllOrderly(w) /\ Matches(w, st) => AllOrderly(u) /\ Matches(u, st2)
      /\ Follows(r, st) => Follows(r, st2)
  BY <1>1, <1>2, Opens
<1>6. /\ c \in Seq(WirePart) /\ p \in Seq(WirePart)
      /\ h.done \in BOOLEAN /\ (h.done <=> Terminal(e))
  <2>1. c \in Seq(WirePart) /\ h.parts \in Seq(WirePart)
    BY <1>1, <1>3, <1>5, EventWritten
  <2>2. h.done \in BOOLEAN
    BY <1>1, <1>3, <1>5, EventWritten
  <2>3. h.done <=> Terminal(e)
    BY <1>1, <1>3, <1>5, EventWritten
  <2> QED BY <2>1, <2>2, <2>3 DEF p
<1>14. h.st \in StreamState
  BY <1>1, <1>3, <1>5, EventWritten
<1>13. /\ Bracketed(x) /\ Waits(x)
       /\ Matched(u, st2, r) => AllOrderly(x)
  <2>1. Bracketed(x)
    BY <1>1, <1>3, <1>5, EventWritten
  <2>2. Waits(x)
    BY <1>1, <1>3, <1>5, EventWritten
  <2>3. Matched(u, st2, r) => AllOrderly(x)
    BY <1>1, <1>3, <1>5, EventWritten
  <2> QED BY <2>1, <2>2, <2>3
<1>7. ASSUME ~ h.done
      PROVE  Good(x, h.st) /\ h.st.started /\ FollowsOn(u, st2, r, x, h.st, r2)
  <2>1. Kept(u, st2, h, x)
    BY <1>1, <1>3, <1>5, <1>7, EventWritten
  <2>2. FollowsOn(u, st2, r, x, h.st, r2)
    BY <1>1, <1>3, <1>5, <1>7, EventWritten
  <2>3. h.st.started
    BY <1>5, <2>1 DEF Kept
  <2> QED BY <2>1, <2>2, <2>3 DEF Kept
<1>8. h.done => EndsWell(x, TRUE, e.reason)
  BY <1>1, <1>3, <1>5, EventWritten
<1>9. b = O \o c /\ b \in Seq(WirePart)
  <2>1. (O \o p) \o D = O \o (p \o D)
    <3>1. O \in Seq(WirePart) /\ p \in Seq(WirePart) /\ D \in Seq(WirePart)
      BY <1>4, <1>5, <1>6
    <3> QED BY <3>1, Halves
  <2>2. c = p \o D /\ b = (O \o p) \o D
    BY <1>3 DEF p, c
  <2>3. O \o c \in Seq(WirePart)
    BY <1>5, <1>6, Halves
  <2> QED BY <2>1, <2>2, <2>3
<1>10. v = x
  <2>1. w \o (O \o c) = (w \o O) \o c
    BY <1>5, <1>6, Halves
  <2> QED BY <1>2, <1>3, <1>9, <2>1
<1>11. Matched(w, st, r) => AllOrderly(v)
  BY <1>5, <1>10, <1>13 DEF Matched
<1>12. FollowsOn(u, st2, r, x, h.st, r2) => FollowsOn(w, st, r, v, h.st, r2)
  BY <1>5, <1>10 DEF Matched, FollowsOn
<1> QED BY <1>5, <1>6, <1>7, <1>8, <1>9, <1>10, <1>11, <1>12, <1>13, <1>14

\* A part cannot be written: the wire stops before the last of the parts.
LEMMA Cut ==
  ASSUME NEW w \in Seq(WirePart), NEW b \in Seq(WirePart), NEW v, v = w \o b,
         NEW n \in 0..(Len(b) - 1), NEW u, u = w \o SubSeq(b, 1, n)
  PROVE  Prefix(u, v) /\ Len(u) < Len(v)
<1> DEFINE c == SubSeq(b, 1, n)
<1>1. Len(b) \in Nat /\ n \in Nat /\ n < Len(b)
  OBVIOUS
<1>2. c \in Seq(WirePart) /\ Len(c) = n /\ \A k \in 1..n : c[k] = b[k]
  BY <1>1
<1> HIDE DEF c
<1>3. u = w \o c
  BY DEF c
<1>4. /\ u \in Seq(WirePart) /\ Len(w) \in Nat /\ Len(u) = Len(w) + n
      /\ \A k \in 1..Len(w) : u[k] = w[k]
  <2>1. u \in Seq(WirePart) /\ Len(w) \in Nat /\ Len(u) = Len(w) + Len(c)
    BY <1>2, <1>3, Joined
  <2>2. \A k \in 1..Len(w) : u[k] = w[k]
    BY <1>2, <1>3, Joined
  <2> QED BY <1>2, <2>1, <2>2
<1>5. \A k \in (Len(w)+1)..Len(u) : k - Len(w) \in 1..n /\ u[k] = b[k - Len(w)]
  <2>1. \A k \in (Len(w)+1)..Len(u) : k - Len(w) \in 1..Len(c) /\ u[k] = c[k - Len(w)]
    BY <1>2, <1>3, Joined
  <2> QED BY <1>2, <2>1
<1>6. v \in Seq(WirePart) /\ Len(v) = Len(w) + Len(b) /\ \A k \in 1..Len(w) : v[k] = w[k]
  <2>1. v \in Seq(WirePart) /\ Len(v) = Len(w) + Len(b)
    BY Joined
  <2>2. \A k \in 1..Len(w) : v[k] = w[k]
    BY Joined
  <2> QED BY <2>1, <2>2
<1>7. \A k \in (Len(w)+1)..Len(v) : v[k] = b[k - Len(w)]
  BY Joined
<1>8. ASSUME NEW k \in 1..Len(u) PROVE u[k] = v[k]
  <2>1. CASE k \in 1..Len(w)
    BY <1>4, <1>6, <2>1
  <2>2. CASE k \in (Len(w)+1)..Len(u)
    <3>1. k \in (Len(w)+1)..Len(v)
      BY <1>1, <1>4, <1>6, <2>2
    <3> QED BY <1>5, <1>7, <2>2, <3>1
  <2> QED BY <1>4, <2>1, <2>2
<1> QED BY <1>1, <1>4, <1>6, <1>8 DEF Prefix

\* The end of a wire that was cut.
LEMMA CutEnds ==
  ASSUME NEW u, NEW v, Prefix(u, v), Len(u) < Len(v), NEW res,
         EndsWell(v, TRUE, res) \/ Quiet(v)
  PROVE  EndsWell(u, TRUE, res)
<1> SUFFICES ASSUME NEW k \in 1..Len(u)
             PROVE  /\ u[k].type = "[DONE]" => k = Len(u)
                    /\ u[k].type = "finish" => res \notin {"none", "cancelled"}
                    /\ u[k].type = "abort" => res = "cancelled"
  BY DEF EndsWell
<1>1. k \in 1..Len(v) /\ k # Len(v) /\ u[k] = v[k]
  BY DEF Prefix
<1> QED BY <1>1 DEF EndsWell, Quiet, LastTypes

-----------------------------------------------------------------------------
(* The invariant is inductive *)

\* While the writer reads, its wire fits its state.
LEMMA Reading ==
  ASSUME Inv, pc # "returned"
  PROVE  /\ Ready(wire, state) /\ Quiet(wire) /\ result = "none"
         /\ missed = 0 => Matched(wire, state, run)
<1>1. state \in StreamState /\ result = "none"
  BY DEF Inv, TypeOK
<1>2. Ready(wire, state)
  BY <1>1 DEF Inv, Ready
<1>3. Quiet(wire)
  <2>1. CASE state.started
    BY <1>2, <2>1 DEF Ready, Good, Fine
  <2>2. CASE ~ state.started
    BY <1>2, <2>2, NoWire DEF Ready
  <2> QED BY <2>1, <2>2
<1>4. missed = 0 => Matched(wire, state, run)
  BY DEF Inv, Matched
<1> QED BY <1>1, <1>2, <1>3, <1>4

\* Nothing was written at first.
LEMMA InitInv == ASSUME Init PROVE Inv
<1>1. /\ run = NewRun /\ count = 0 /\ missed = 0 /\ state = newStreamState /\ wire = <<>>
      /\ result = "none" /\ pc = "before"
  BY DEF Init
<1>2. NewRun \in RunState /\ NewRun.waiting = {} /\ NewRun.called = {}
  BY DEF NewRun, RunState
<1>3. newStreamState \in StreamState /\ ~ newStreamState.started /\ Blank(newStreamState)
  <2> DEFINE calls == [i \in ToolIDs |-> NoTool]
  <2>1. NoTool \in ToolState
    BY DEF NoTool, ToolState
  <2>2. calls \in [ToolIDs -> ToolState] /\ \A i \in ToolIDs : calls[i] = NoTool
    BY <2>1
  <2> HIDE DEF calls
  <2>3. newStreamState = [started |-> FALSE, pendingStepFinish |-> FALSE, runErr |-> FALSE,
                          toolCalls |-> calls, toolOrder |-> <<>>]
    BY DEF newStreamState, calls
  <2>4. <<>> \in Seq(ToolIDs)
    OBVIOUS
  <2>5. newStreamState \in StreamState
    BY <2>2, <2>3, <2>4 DEF StreamState
  <2>6. /\ newStreamState.started = FALSE /\ newStreamState.toolOrder = <<>>
        /\ newStreamState.toolCalls = calls
    BY <2>3
  <2> QED BY <2>2, <2>5, <2>6 DEF Blank
<1>4. TypeOK
  BY <1>1, <1>2, <1>3, NoWire DEF TypeOK
<1>5. Follows(run, state) /\ Matches(wire, state)
  BY <1>1, <1>2, <1>3, NoWire, BlankMatches
<1>6. EndsWell(wire, pc = "returned", result)
  <2>1. Len(<<>>) = 0
    OBVIOUS
  <2> QED BY <1>1, <2>1 DEF EndsWell
<1>7. Bracketed(wire) /\ Waits(wire) /\ AllOrderly(wire)
  BY <1>1, NoWire
<1>8. result = "none" /\ ~ state.started /\ wire = <<>> /\ Blank(state)
  BY <1>1, <1>3
<1> QED BY <1>4, <1>5, <1>6, <1>7, <1>8 DEF Inv

\* An event before the cursor writes nothing.
LEMMA MissedKeeps ==
  ASSUME Inv, NEW e \in NextEvents(run), Missed(e)
  PROVE  Inv'
<1>1. /\ pc = "before" /\ run' = After(run, e) /\ count' = count + 1 /\ missed' = missed + 1
      /\ UNCHANGED <<state, wire, result, pc>>
  BY DEF Missed, Happens
<1>2. run' \in RunState
  BY <1>1, EventShape DEF Inv, TypeOK
<1>3. TypeOK' /\ missed' # 0
  BY <1>1, <1>2 DEF Inv, TypeOK
<1>4. Bracketed(wire)' /\ Waits(wire)' /\ EndsWell(wire, pc = "returned", result)'
  BY <1>1 DEF Inv
<1>5. result = "none" /\ ~ state.started /\ wire = <<>> /\ Blank(state)
  BY <1>1 DEF Inv
<1>6. (result = "none" /\ ~ state.started /\ wire = <<>> /\ Blank(state))'
  BY <1>1, <1>5
<1> QED BY <1>3, <1>4, <1>6 DEF Inv

\* Nor does the subscription.
LEMMA SubscribeKeeps ==
  ASSUME Inv, Subscribe
  PROVE  Inv'
<1>1. /\ pc = "before" /\ pc' = "reading"
      /\ UNCHANGED <<run, count, missed, state, wire, result>>
  BY DEF Subscribe
<1>2. TypeOK'
  BY <1>1 DEF Inv, TypeOK
<1>3. EndsWell(wire, pc = "returned", result)'
  BY <1>1 DEF Inv, EndsWell
<1>4. Bracketed(wire)' /\ Waits(wire)' /\ (missed = 0 => AllOrderly(wire))'
  BY <1>1 DEF Inv
<1>5. /\ result = "none" /\ ~ state.started /\ wire = <<>> /\ Blank(state)
      /\ missed = 0 => Follows(run, state) /\ Matches(wire, state)
  BY <1>1 DEF Inv
<1>6. /\ (result = "none" /\ ~ state.started /\ wire = <<>> /\ Blank(state))'
      /\ (missed = 0 => Follows(run, state) /\ Matches(wire, state))'
  BY <1>1, <1>5
<1> QED BY <1>2, <1>3, <1>4, <1>6 DEF Inv

\* The event stream ends before the run's finish was read.
LEMMA StreamEndKeeps ==
  ASSUME Inv, NEW err \in {"eof", "canceled", "other"}, StreamEnd(err)
  PROVE  Inv'
<1> DEFINE b == CASE err = "eof" -> Done
                  [] err = "canceled" -> <<>>
                  [] OTHER -> <<Plain("error")>> \o Done
<1>1. /\ pc = "reading" /\ wire' = wire \o b /\ pc' = "returned"
      /\ UNCHANGED <<run, count, missed, state, result>>
  BY DEF StreamEnd
<1>2. /\ wire \in Seq(WirePart) /\ Bracketed(wire) /\ Waits(wire) /\ Quiet(wire)
      /\ result = "none" /\ (missed = 0 => AllOrderly(wire))
  BY <1>1, Reading DEF Inv, TypeOK
<1>3. b \in Seq(WirePart) /\ MayClose(wire, b, "none")
  <2>1. CASE err = "eof"
    <3>1. b = Done /\ Done[1].type = "[DONE]" /\ Len(Done) = 1 /\ Done \in Seq(WirePart)
      BY <2>1, ClosingParts
    <3> HIDE DEF b
    <3>2. \A n \in 1..Len(b) : n = 1
      BY <3>1
    <3> QED BY <3>1, <3>2 DEF MayClose, Always
  <2>2. CASE err = "canceled"
    <3>1. b = <<>> /\ Len(<<>>) = 0 /\ <<>> \in Seq(WirePart)
      BY <2>2
    <3> HIDE DEF b
    <3> QED BY <3>1 DEF MayClose
  <2>3. CASE err = "other"
    <3>1. b = <<Plain("error")>> \o Done
      BY <2>3
    <3>2. b \in Seq(WirePart) /\ Len(b) = 2 /\ b[1].type = "error" /\ b[2].type = "[DONE]"
      BY <3>1, ClosingParts
    <3> HIDE DEF b
    <3>3. \A n \in 1..Len(b) : n = 1 \/ n = 2
      BY <3>2
    <3> QED BY <3>2, <3>3 DEF MayClose, Always
  <2> QED BY <2>1, <2>2, <2>3
<1> HIDE DEF b
<1>4. /\ wire' \in Seq(WirePart) /\ Bracketed(wire') /\ Waits(wire')
      /\ EndsWell(wire', TRUE, "none") /\ (AllOrderly(wire) => AllOrderly(wire'))
  BY <1>1, <1>2, <1>3, Closing
<1>5. EndsWell(wire, pc = "returned", result)'
  BY <1>1, <1>2, <1>4 DEF EndsWell
<1>6. TypeOK'
  BY <1>1, <1>4 DEF Inv, TypeOK
<1> QED BY <1>1, <1>2, <1>4, <1>5, <1>6 DEF Inv

\* An event is written, in full or cut by a failing write.
LEMMA EventKeeps ==
  ASSUME Inv, NEW e \in NextEvents(run), Event(e)
  PROVE  Inv'
<1> DEFINE h == writeEvent([state EXCEPT !.started = TRUE], e)
           b == Opening(state) \o h.parts \o (IF h.done THEN Done ELSE <<>>)
           v == wire \o b
<1>1. /\ pc = "reading" /\ run' = After(run, e) /\ count' = count + 1 /\ missed' = missed
      /\ result' = IF Terminal(e) THEN e.reason ELSE result
  BY DEF Event, Happens, Terminal
<1>2. \/ wire' = v /\ state' = h.st /\ pc' = IF h.done THEN "returned" ELSE "reading"
      \/ /\ \E n \in 0..(Len(b) - 1) : wire' = wire \o SubSeq(b, 1, n)
         /\ pc' = "returned" /\ state' = state
  BY DEF Event
<1>3. /\ h = writeEvent([state EXCEPT !.started = TRUE], e) /\ v = wire \o b
      /\ b = Opening(state) \o h.parts \o (IF h.done THEN Done ELSE <<>>)
  OBVIOUS
<1> HIDE DEF h, b, v
<1>4. /\ run \in RunState /\ Ready(wire, state) /\ result = "none"
      /\ missed = 0 => Matched(wire, state, run)
  BY <1>1, Reading DEF Inv, TypeOK
<1>5. /\ wire \in Seq(WirePart) /\ b \in Seq(WirePart) /\ Bracketed(v) /\ Waits(v)
      /\ v \in Seq(WirePart)
  <2>1. wire \in Seq(WirePart) /\ b \in Seq(WirePart)
    BY <1>1, <1>3, <1>4, Handles
  <2>2. Bracketed(v) /\ Waits(v)
    BY <1>1, <1>3, <1>4, Handles
  <2> QED BY <1>3, <2>1, <2>2, Joined
<1>6. missed = 0 => AllOrderly(v)
  BY <1>1, <1>3, <1>4, Handles
<1>7. h.done \in BOOLEAN /\ (h.done <=> Terminal(e)) /\ h.st \in StreamState
  <2>3. h.st \in StreamState
    BY <1>1, <1>3, <1>4, Handles
  <2>1. h.done \in BOOLEAN
    BY <1>1, <1>3, <1>4, Handles
  <2>2. h.done <=> Terminal(e)
    BY <1>1, <1>3, <1>4, Handles, ZenonT(40)
  <2> QED BY <2>1, <2>2, <2>3
<1>8. ~ h.done => Good(v, h.st) /\ h.st.started /\ FollowsOn(wire, state, run, v, h.st, run')
  BY <1>1, <1>3, <1>4, Handles
<1>9. h.done => EndsWell(v, TRUE, e.reason)
  BY <1>1, <1>3, <1>4, Handles
<1>10. /\ run' \in RunState /\ count' \in Nat /\ missed' \in Nat
       /\ result' \in Reasons \cup {"none"} /\ (~ h.done => result' = "none")
  <2>1. run' \in RunState
    BY <1>1, <1>4, EventShape
  <2>2. Terminal(e) => e.reason \in Reasons
    BY <1>1, <1>4, EventShape, RunEventsAssumption DEF Terminal
  <2> QED BY <1>1, <1>4, <1>7, <2>1, <2>2 DEF Inv, TypeOK
<1>11. EndsWell(v, TRUE, result') \/ Quiet(v)
  <2>1. CASE h.done
    BY <1>1, <1>7, <1>9, <2>1
  <2>2. CASE ~ h.done
    BY <1>8, <2>2 DEF Good, Fine
  <2> QED BY <2>1, <2>2
\* All parts were written.
<1>12. CASE wire' = v /\ state' = h.st /\ pc' = IF h.done THEN "returned" ELSE "reading"
  <2>1. TypeOK'
    BY <1>5, <1>7, <1>10, <1>12 DEF TypeOK
  <2>2. Bracketed(wire') /\ Waits(wire') /\ (missed' = 0 => AllOrderly(wire'))
    BY <1>1, <1>5, <1>6, <1>12
  <2>3. CASE h.done
    <3>1. pc' = "returned" /\ EndsWell(wire', TRUE, result')
      BY <1>1, <1>7, <1>9, <1>12, <2>3
    <3>2. EndsWell(wire, pc = "returned", result)'
      BY <3>1 DEF EndsWell
    <3> QED BY <2>1, <2>2, <3>1, <3>2 DEF Inv
  <2>4. CASE ~ h.done
    <3>1. /\ pc' = "reading" /\ result' = "none" /\ Good(wire', state') /\ state'.started
          /\ FollowsOn(wire, state, run, wire', state', run')
      BY <1>8, <1>10, <1>12, <2>4
    <3>2. missed' = 0 => Follows(run', state') /\ Matches(wire', state')
      BY <1>1, <1>4, <3>1 DEF FollowsOn, Matched
    <3>3. EndsWell(wire, pc = "returned", result)'
      BY <3>1 DEF Good, Fine, Quiet, LastTypes, EndsWell
    <3> QED BY <2>1, <2>2, <3>1, <3>2, <3>3 DEF Inv
  <2> QED BY <1>7, <2>3, <2>4
\* A part could not be written.
<1>13. CASE /\ \E n \in 0..(Len(b) - 1) : wire' = wire \o SubSeq(b, 1, n)
            /\ pc' = "returned" /\ state' = state
  <2>1. Prefix(wire', v) /\ Len(wire') < Len(v)
    <3>1. PICK n \in 0..(Len(b) - 1) : wire' = wire \o SubSeq(b, 1, n)
      BY <1>13
    <3> DEFINE u == wire'
    <3>2. u = wire \o SubSeq(b, 1, n)
      BY <3>1
    <3> HIDE DEF u
    <3>3. Prefix(u, v)
      BY <1>3, <1>5, <3>2, Cut
    <3>4. Len(u) < Len(v)
      BY <1>3, <1>5, <3>2, Cut
    <3> QED BY <3>3, <3>4 DEF u
  <2>2. EndsWell(wire', TRUE, result')
    BY <1>11, <2>1, CutEnds
  <2>3. EndsWell(wire, pc = "returned", result)'
    BY <1>13, <2>2 DEF EndsWell
  <2>4. Bracketed(wire') /\ Waits(wire')
    BY <1>5, <2>1, PrefixBracketed, PrefixWaits
  <2>5. missed' = 0 => AllOrderly(wire')
    BY <1>1, <1>6, <2>1, PrefixOrderly
  <2>6. TypeOK'
    BY <1>10, <1>13, <2>1 DEF TypeOK, Inv, Prefix
  <2> QED BY <1>13, <2>3, <2>4, <2>5, <2>6 DEF Inv
<1> QED BY <1>2, <1>12, <1>13

\* Every step keeps the invariant.
LEMMA InvInductive == Inv /\ [Next]_vars => Inv'
<1> SUFFICES ASSUME Inv, [Next]_vars PROVE Inv'
  OBVIOUS
<1>1. CASE Subscribe
  BY <1>1, SubscribeKeeps
<1>2. ASSUME NEW e \in NextEvents(run), Missed(e) PROVE Inv'
  BY <1>2, MissedKeeps
<1>3. ASSUME NEW e \in NextEvents(run), Event(e) PROVE Inv'
  BY <1>3, EventKeeps
<1>4. ASSUME NEW err \in {"eof", "canceled", "other"}, StreamEnd(err) PROVE Inv'
  BY <1>4, StreamEndKeeps
<1>5. CASE UNCHANGED vars
  BY <1>5 DEF vars, Inv, TypeOK, Good, Resolved, Matches, Follows, Fine, Now
<1> QED BY <1>1, <1>2, <1>3, <1>4, <1>5 DEF Next

-----------------------------------------------------------------------------
(* Theorems *)

\* The invariant holds throughout.
LEMMA InvHolds == Spec => []Inv
<1>1. Init => Inv
  BY InitInv
<1> QED BY <1>1, InvInductive, PTL DEF Spec

\* The model's counts and positions are those of the lemmas.
LEMMA SameNotions ==
  /\ \A k : Opened(k) = Begun(wire, k) /\ Closed(k) = Ended(wire, k)
  /\ Steps = Begun(wire, Len(wire))
  /\ \A k, i, type : InStep(k, i, type) = AtStep(wire, k, i, type)
<1>1. \A k : Opened(k) = Begun(wire, k) /\ Closed(k) = Ended(wire, k)
  BY DEF Opened, Closed, Begun, Ended, Count
<1>2. Steps = Begun(wire, Len(wire))
  BY <1>1 DEF Steps
<1>3. ASSUME NEW k, NEW i, NEW type PROVE InStep(k, i, type) = AtStep(wire, k, i, type)
  BY <1>1 DEF InStep, Position, AtStep
<1> QED BY <1>1, <1>2, <1>3

\* The parts of a UI message stream are bracketed into steps (writeToolResult and
\* writeFinish), however late the client came and wherever its connection broke.
THEOREM UIStepsBracketed == Spec => []StepsBracketed
<1>1. Inv => StepsBracketed
  <2> SUFFICES ASSUME Inv, NEW k \in 1..Len(wire)
               PROVE  /\ Opened(k) \in {Closed(k), Closed(k) + 1}
                      /\ wire[k].type \in {"start", "message-metadata", "finish"}
                           => Opened(k) = Closed(k)
                      /\ wire[k].type \in TextKinds \cup {"tool-input-start",
                             "tool-input-delta", "tool-input-available",
                             "tool-output-available"} => Opened(k) = Closed(k) + 1
    BY DEF StepsBracketed
  <2>1. /\ Begun(wire, k) \in {Ended(wire, k), Ended(wire, k) + 1}
        /\ wire[k].type \in Outer => Begun(wire, k) = Ended(wire, k)
        /\ wire[k].type \in Inner => Begun(wire, k) = Ended(wire, k) + 1
    BY DEF Inv, Bracketed
  <2> QED BY <2>1, SameNotions DEF Outer, Inner, ToolTypes
<1> QED BY <1>1, InvHolds, PTL

\* In each step a tool call is begun, made available and answered in this order, each once
\* (writeToolCall, writePendingToolsAvailable, writeToolResult, beginNextStep), for a client
\* that was there from the first event.
THEOREM UIToolPartsInOrder == Spec => []ToolPartsInOrder
<1>1. ASSUME NEW S, IsFiniteSet(S), \A a, b \in S : a = b PROVE Cardinality(S) <= 1
  <2>1. CASE S = {}
    BY <2>1, FS_EmptySet
  <2>2. CASE S # {}
    <3>1. PICK a : S = {a}
      BY <1>1, <2>2
    <3> QED BY <3>1, FS_Singleton
  <2> QED BY <2>1, <2>2
<1>2. Inv => ToolPartsInOrder
  <2> SUFFICES ASSUME Inv, missed = 0, NEW k \in 1..Steps, NEW i \in ToolIDs
               PROVE  LET Of(type) == InStep(k, i, type) IN
                      /\ \A type \in {"tool-input-start", "tool-input-available",
                                      "tool-output-available"} : Cardinality(Of(type)) <= 1
                      /\ \A a \in Of("tool-input-available") :
                           /\ \A j \in Of("tool-input-start") \cup Of("tool-input-delta") : j < a
                           /\ wire[a].input = Cardinality(Of("tool-input-delta"))
                           /\ \A o \in Of("tool-output-available") : a < o
                      /\ Of("tool-output-available") # {} => Of("tool-input-available") # {}
    BY DEF ToolPartsInOrder
  <2> DEFINE Of(type) == AtStep(wire, k, i, type)
  <2>1. \A type : InStep(k, i, type) = Of(type)
    BY SameNotions
  <2>2. Orderly(wire, k, i)
    BY SameNotions DEF Inv, AllOrderly
  <2>3. ASSUME NEW type \in {"tool-input-start", "tool-input-available",
                             "tool-output-available"}
        PROVE  Cardinality(Of(type)) <= 1
    <3>1. \A a, b \in Of(type) : a = b
      BY <2>2 DEF Orderly
    <3>2. IsFiniteSet(Of(type))
      <4>1. Of(type) \in SUBSET (1..Len(wire)) /\ Len(wire) \in Nat
        BY Numbers DEF Inv, TypeOK
      <4> QED BY <4>1, Bounded
    <3> QED BY <1>1, <3>1, <3>2
  <2>4. /\ \A a \in Of("tool-input-available") :
             /\ \A j \in Of("tool-input-start") \cup Of("tool-input-delta") : j < a
             /\ wire[a].input = Cardinality(Of("tool-input-delta"))
             /\ \A o \in Of("tool-output-available") : a < o
        /\ Of("tool-output-available") # {} => Of("tool-input-available") # {}
    BY <2>2 DEF Orderly
  <2> HIDE DEF Of
  <2> QED BY <2>1, <2>3, <2>4
<1> QED BY <1>2, InvHolds, PTL

\* A step that is followed by another was finished after the output of every call it began
\* (allToolOutputsCompleted in writeToolResult), for any client.
THEOREM UIStepWaitsForTools == Spec => []StepWaitsForTools
<1>1. Inv => StepWaitsForTools
  BY SameNotions DEF Inv, Waits, StepWaitsForTools
<1> QED BY <1>1, InvHolds, PTL

\* [DONE] is the last part, written once the loop of WriteEventStreamTo is left, and finish
\* and abort are written with the finish reason that StreamResult hands to the caller.
THEOREM UIEndsOnce == Spec => []EndsOnce
<1>1. Inv => EndsOnce
  BY DEF Inv, EndsWell, EndsOnce, Position
<1> QED BY <1>1, InvHolds, PTL
=============================================================================
