------------------------- MODULE EventStreamProofs -------------------------
(***************************************************************************)
(* Proofs about EventStream for any runs, any number of subscribers and    *)
(* any number of calls of Next.                                            *)
(***************************************************************************)
EXTENDS EventStream, RunStoreProofs

\* A subscription has its run from its beginning, and nothing before.
Named(u) ==
    /\ stream[u].pc = "new" => /\ delivered[u] = <<>> /\ stream[u].result = "none"
                               /\ stream[u].after = stream[u].lastID
                               /\ stream[u].run = NoRun
    /\ stream[u].pc # "new" => stream[u].run \in Runs /\ stream[u].run \in issued
    /\ InCall(u) => stream[u].result = "none"

\* The cursor is at or behind everything that was delivered, in order.
Ascending(u) ==
    /\ \A i \in 1..Len(delivered[u]) : delivered[u][i].id <= stream[u].lastID
    /\ \A i, j \in 1..Len(delivered[u]) : i < j => delivered[u][i].id < delivered[u][j].id

Covered(u) ==
    \A id \in (stream[u].after + 1)..stream[u].lastID :
      \/ \E i \in 1..Len(delivered[u]) : delivered[u][i].id = id
      \/ id <= dropped[stream[u].run]

\* What an XREAD that found nothing tells of the entries after the cursor.
Drained(u) ==
    stream[u].pc = "status" \/ (stream[u].result = "eof" /\ stream[u].closed = FALSE) =>
      \A id \in (stream[u].lastID + 1)..seen[u] : id <= dropped[stream[u].run]

\* A seal that was delivered is the last entry its run ever has.
Final(u) ==
    \A i \in 1..Len(delivered[u]) : delivered[u][i].event \in Seals =>
      /\ i = Len(delivered[u])
      /\ stream[u].run \in issued
      /\ meta[stream[u].run] \in {"none", StatusOf(delivered[u][i].event.reason)}
      /\ LastOf(stream[u].run) <= stream[u].lastID

\* Unless a late initRun puts ended runs back.
Sure(u) == InitOnce => Final(u)

OwnInv(u) == Named(u) /\ Ascending(u) /\ Covered(u) /\ Drained(u) /\ Sure(u)

\* The inductive invariant.  Sure needs the one of the store: that a run which has ended
\* gets no entry any more is InactiveUntouched there.
SInv == IInv /\ TypeOK /\ \A u \in Subscribers : OwnInv(u)

-----------------------------------------------------------------------------
(* Steps of a subscriber *)

\* A step of one subscriber leaves the others alone.
LEMMA OthersKeep ==
  ASSUME NEW v \in Subscribers, OwnInv(v), UNCHANGED <<storeVars, dropped>>,
         stream'[v] = stream[v], delivered'[v] = delivered[v], seen'[v] = seen[v]
  PROVE  OwnInv(v)'
BY DEF OwnInv, Named, Ascending, Covered, Drained, Sure, Final, InCall, LastOf, storeVars

\* A step that delivers nothing keeps what was delivered in order and complete.
LEMMA QuietKeeps ==
  ASSUME NEW u \in Subscribers, OwnInv(u), UNCHANGED <<storeVars, dropped>>,
         delivered'[u] = delivered[u],
         stream'[u].run = stream[u].run, stream'[u].after = stream[u].after,
         stream'[u].lastID = stream[u].lastID
  PROVE  Ascending(u)' /\ Covered(u)' /\ Sure(u)'
BY DEF OwnInv, Ascending, Covered, Sure, Final, LastOf, storeVars

\* The step of one subscriber keeps the whole invariant when it keeps its own part.
LEMMA OwnIsAll ==
  ASSUME SInv, NEW u \in Subscribers, UNCHANGED <<storeVars, dropped>>,
         NEW k \in Subscription, k.calls <= MaxNext, stream' = [stream EXCEPT ![u] = k],
         NEW d \in Seq([id : Nat, event : Events]), delivered' = [delivered EXCEPT ![u] = d],
         NEW n \in Nat, seen' = [seen EXCEPT ![u] = n],
         OwnInv(u)'
  PROVE  SInv'
<1>1. IInv'
  BY UnchangedIInv DEF SInv
<1>2. TypeOK'
  BY <1>1 DEF SInv, IInv, TypeOK
<1>3. ASSUME NEW v \in Subscribers, v # u PROVE OwnInv(v)'
  <2>1. stream'[v] = stream[v] /\ delivered'[v] = delivered[v] /\ seen'[v] = seen[v]
    BY <1>3 DEF SInv, TypeOK
  <2> QED BY <1>3, <2>1, OthersKeep DEF SInv
<1> QED BY <1>1, <1>2, <1>3 DEF SInv

LEMMA SubscribeInv ==
  ASSUME SInv, NEW u \in Subscribers, Subscribe(u), UNCHANGED <<storeVars, dropped>>
  PROVE  SInv'
<1>1. PICK r \in Runs : \E a \in 0..LastOf(r) :
        /\ meta[r] # "none"
        /\ stream' = [stream EXCEPT ![u].pc = "idle", ![u].run = r,
                        ![u].lastID = a, ![u].after = a]
  BY DEF Subscribe
<1>2. PICK a \in 0..LastOf(r) :
        /\ meta[r] # "none"
        /\ stream' = [stream EXCEPT ![u].pc = "idle", ![u].run = r,
                        ![u].lastID = a, ![u].after = a]
  BY <1>1
<1> DEFINE k == [stream[u] EXCEPT !.pc = "idle", !.run = r, !.lastID = a, !.after = a]
<1>3. LastOf(r) \in Nat
  BY DEF SInv, IInv, TypeOK, StoreTypeOK, LastOf
<1>4. /\ delivered' = delivered /\ seen' = seen /\ delivered[u] = <<>>
      /\ stream[u].pc = "new" /\ stream[u].result = "none"
  BY DEF Subscribe, history, SInv, OwnInv, Named
<1>5. stream[u] \in Subscription /\ stream[u].calls <= MaxNext
  BY DEF SInv, TypeOK
<1>6. /\ k \in Subscription /\ k.calls <= MaxNext /\ k.pc = "idle" /\ k.run = r
      /\ k.result = "none" /\ k.lastID = a /\ k.after = a
  <2>1. a \in Nat
    BY <1>3
  <2>2. k \in Subscription
    BY <1>5, <2>1 DEF Subscription
  <2>3. k.calls = stream[u].calls /\ k.result = stream[u].result
    BY <1>5 DEF Subscription
  <2>4. k.pc = "idle" /\ k.run = r /\ k.lastID = a /\ k.after = a
    BY <1>5 DEF Subscription
  <2> QED BY <1>4, <1>5, <2>2, <2>3, <2>4
<1>7. stream' = [stream EXCEPT ![u] = k] /\ stream'[u] = k
  BY <1>2 DEF SInv, TypeOK
<1> HIDE DEF k
<1>8. Named(u)' /\ Ascending(u)' /\ Covered(u)' /\ Drained(u)' /\ Sure(u)'
  <2>1. r \in issued'
    BY <1>2 DEF SInv, IInv, FreshUnused, storeVars
  <2> QED BY <1>3, <1>4, <1>6, <1>7, <2>1
       DEF Named, Ascending, Covered, Drained, Sure, Final, InCall
<1>9. /\ delivered' = [delivered EXCEPT ![u] = delivered[u]] /\ seen' = [seen EXCEPT ![u] = seen[u]]
      /\ delivered[u] \in Seq([id : Nat, event : Events]) /\ seen[u] \in Nat
  BY <1>4 DEF SInv, TypeOK
<1> QED BY <1>6, <1>7, <1>8, <1>9, OwnIsAll DEF OwnInv

\* A step that moves no cursor keeps the invariant when io.EOF follows an XREAD that found
\* nothing.
LEMMA QuietInv ==
  ASSUME SInv, NEW u \in Subscribers, UNCHANGED <<storeVars, dropped, history>>,
         NEW k \in Subscription, stream' = [stream EXCEPT ![u] = k],
         k.calls <= MaxNext, k.run = stream[u].run, k.after = stream[u].after,
         k.lastID = stream[u].lastID, stream[u].pc # "new", k.pc # "new",
         k.pc \in {"check", "read", "status"} => k.result = "none",
         k.pc = "status" => stream[u].pc = "status",
         k.result = "eof" /\ k.closed = FALSE =>
           stream[u].pc = "status" \/ (stream[u].result = "eof" /\ stream[u].closed = FALSE)
  PROVE  SInv'
<1>1. delivered' = delivered /\ seen' = seen /\ stream'[u] = k
  BY DEF history, SInv, TypeOK
<1>2. Named(u)'
  BY <1>1 DEF SInv, OwnInv, Named, InCall, storeVars
<1>3. Drained(u)'
  BY <1>1 DEF SInv, OwnInv, Drained
<1>4. Ascending(u)' /\ Covered(u)' /\ Sure(u)'
  BY <1>1, QuietKeeps DEF SInv
<1>5. /\ delivered' = [delivered EXCEPT ![u] = delivered[u]] /\ seen' = [seen EXCEPT ![u] = seen[u]]
      /\ delivered[u] \in Seq([id : Nat, event : Events]) /\ seen[u] \in Nat
  BY <1>1 DEF SInv, TypeOK
<1> QED BY <1>2, <1>3, <1>4, <1>5, OwnIsAll DEF OwnInv

\* A step of a call of Next, of Close or of a context is such a step.
LEMMA CallInv ==
  ASSUME SInv, NEW u \in Subscribers, UNCHANGED <<storeVars, dropped>>,
         NextCall(u) \/ Check(u) \/ CallEnded(u) \/ Status(u) \/ Close(u) \/ CtxEnd(u)
  PROVE  SInv'
<1> DEFINE q == stream[u]
<1>1. /\ q \in Subscription /\ q.calls <= MaxNext /\ stream \in [Subscribers -> Subscription]
      /\ q.pc \in {"check", "read", "status"} => q.result = "none"
  BY DEF SInv, TypeOK, OwnInv, Named, InCall
<1>2. UNCHANGED history
  BY DEF NextCall, Check, CallEnded, Status, Close, CtxEnd
<1>3. CASE NextCall(u)
  <2> DEFINE pc == IF q.closed THEN "idle" ELSE "check"
             result == IF q.closed THEN "eof" ELSE "none"
             k == [q EXCEPT !.calls = @ + 1, !.ctx = "live", !.pc = pc, !.result = result]
  <2>1. stream' = [stream EXCEPT ![u] = k] /\ q.pc = "idle" /\ q.calls < MaxNext
    BY <1>1, <1>3 DEF NextCall
  <2>2. /\ k.calls = q.calls + 1 /\ k.run = q.run /\ k.after = q.after /\ k.lastID = q.lastID
        /\ k.closed = q.closed /\ k.pc = pc /\ k.result = result
    BY <1>1 DEF Subscription
  <2>3. k \in Subscription
    <3>1. pc \in {"idle", "check"} /\ result \in Results
      BY DEF Results
    <3>2. q.calls + 1 \in Nat
      BY <1>1 DEF Subscription
    <3> HIDE DEF pc, result
    <3> QED BY <1>1, <3>1, <3>2 DEF Subscription
  <2>4. k.calls <= MaxNext
    BY <1>1, <2>1, <2>2, StreamAssumption DEF Subscription, StreamAssumption
  <2> HIDE DEF k
  <2> QED BY <1>1, <1>2, <2>1, <2>2, <2>3, <2>4, QuietInv
<1>4. ASSUME NEW result \in Results, Returns(u, result), q.pc # "new",
             result = "eof" => q.closed \/ q.pc = "status"
      PROVE  SInv'
  <2> DEFINE k == [q EXCEPT !.pc = "idle", !.result = result]
  <2>1. stream' = [stream EXCEPT ![u] = k]
    BY <1>1, <1>4 DEF Returns
  <2>2. /\ k.calls = q.calls /\ k.run = q.run /\ k.after = q.after /\ k.lastID = q.lastID
        /\ k.closed = q.closed /\ k.pc = "idle" /\ k.result = result
    BY <1>1 DEF Subscription
  <2>3. k \in Subscription
    BY <1>1 DEF Subscription
  <2> HIDE DEF k
  <2> QED BY <1>1, <1>2, <1>4, <2>1, <2>2, <2>3, QuietInv
<1>5. ASSUME NEW pc \in {"check", "read"}, stream' = [stream EXCEPT ![u].pc = pc],
             q.pc \in {"check", "status"}
      PROVE  SInv'
  <2> DEFINE k == [q EXCEPT !.pc = pc]
  <2>1. stream' = [stream EXCEPT ![u] = k]
    BY <1>1, <1>5
  <2>2. /\ k.calls = q.calls /\ k.run = q.run /\ k.after = q.after /\ k.lastID = q.lastID
        /\ k.closed = q.closed /\ k.pc = pc /\ k.result = q.result
    BY <1>1 DEF Subscription
  <2>3. k \in Subscription
    BY <1>1 DEF Subscription
  <2> HIDE DEF k
  <2> QED BY <1>1, <1>2, <1>5, <2>1, <2>2, <2>3, QuietInv
<1>6. CtxErr(u) \in Results /\ CtxErr(u) # "eof"
  BY <1>1 DEF CtxErr, Subscription, Results
<1>7. CASE Check(u)
  BY <1>4, <1>5, <1>6, <1>7 DEF Check, Results
<1>8. CASE CallEnded(u)
  BY <1>4, <1>6, <1>8 DEF CallEnded, Results
<1>9. CASE Status(u)
  BY <1>4, <1>5, <1>9 DEF Status, Results
<1>10. CASE Close(u)
  <2> DEFINE k == [q EXCEPT !.closed = TRUE]
  <2>1. stream' = [stream EXCEPT ![u] = k] /\ q.pc # "new"
    BY <1>1, <1>10 DEF Close
  <2>2. /\ k.calls = q.calls /\ k.run = q.run /\ k.after = q.after /\ k.lastID = q.lastID
        /\ k.closed = TRUE /\ k.pc = q.pc /\ k.result = q.result
    BY <1>1 DEF Subscription
  <2>3. k \in Subscription
    BY <1>1 DEF Subscription
  <2> HIDE DEF k
  <2> QED BY <1>1, <1>2, <2>1, <2>2, <2>3, QuietInv
<1>11. CASE CtxEnd(u)
  <2>1. PICK err \in {"canceled", "deadline"} : stream' = [stream EXCEPT ![u].ctx = err]
    BY <1>11 DEF CtxEnd
  <2> DEFINE k == [q EXCEPT !.ctx = err]
  <2>2. stream' = [stream EXCEPT ![u] = k] /\ q.pc # "new"
    BY <1>1, <1>11, <2>1 DEF CtxEnd
  <2>3. /\ k.calls = q.calls /\ k.run = q.run /\ k.after = q.after /\ k.lastID = q.lastID
        /\ k.closed = q.closed /\ k.pc = q.pc /\ k.result = q.result
    BY <1>1 DEF Subscription
  <2>4. k \in Subscription
    BY <1>1 DEF Subscription
  <2> HIDE DEF k
  <2> QED BY <1>1, <1>2, <2>2, <2>3, <2>4, QuietInv
<1> QED BY <1>3, <1>7, <1>8, <1>9, <1>10, <1>11

\* What the entries of a sequence are, and what Append makes of them.
LEMMA ElementsIn ==
  ASSUME NEW S, NEW s \in Seq(S)
  PROVE  \A j \in 1..Len(s) : s[j] \in S
OBVIOUS

LEMMA AppendFacts ==
  ASSUME NEW S, NEW s \in Seq(S), NEW x \in S
  PROVE  /\ Append(s, x) \in Seq(S) /\ Len(s) \in Nat /\ Len(Append(s, x)) = Len(s) + 1
         /\ Append(s, x)[Len(s) + 1] = x
         /\ \A j \in 1..Len(s) : s[j] \in S /\ Append(s, x)[j] = s[j]
OBVIOUS

\* Where the first entry behind a cursor is, in what is left of a stream.
LEMMA FirstBehind ==
  ASSUME NEW last \in Nat, NEW gone \in Nat
  PROVE  LET i == IF last < gone THEN 1 ELSE last - gone + 1 IN
         i \in Nat \ {0} /\ gone + i > last /\ (i = 1 \/ gone + i = last + 1)
OBVIOUS

\* XREAD gives the first entry behind the cursor that is still there.
LEMMA ReadInv ==
  ASSUME SInv, NEW u \in Subscribers, Read(u), UNCHANGED <<storeVars, dropped>>
  PROVE  SInv'
<1> DEFINE q == stream[u]
           r == q.run
           d == delivered[u]
           gone == dropped[r]
           n == Len(events[r])
           i == IF q.lastID < gone THEN 1 ELSE q.lastID - gone + 1
<1>1. /\ q \in Subscription /\ q.calls <= MaxNext /\ stream \in [Subscribers -> Subscription]
      /\ d \in Seq([id : Nat, event : Events]) /\ delivered[u] \in Seq([id : Nat, event : Events])
      /\ delivered \in [Subscribers -> Seq([id : Nat, event : Events])]
      /\ seen \in [Subscribers -> Nat]
  BY DEF SInv, TypeOK
<1>2. q.pc = "read" /\ q.result = "none" /\ r \in Runs /\ r \in issued
  BY DEF Read, SInv, OwnInv, Named, InCall
<1>3. gone \in Nat /\ events[r] \in Seq(Events) /\ n \in Nat /\ q.lastID \in Nat
  BY <1>1, <1>2 DEF SInv, IInv, TypeOK, StoreTypeOK, Subscription
<1>4. /\ i \in Nat \ {0} /\ gone + i > q.lastID /\ (i = 1 \/ gone + i = q.lastID + 1)
      /\ LastOf(r) = gone + n /\ LastOf(r) \in Nat
  <2>1. i \in Nat \ {0} /\ gone + i > q.lastID /\ (i = 1 \/ gone + i = q.lastID + 1)
    BY <1>3, FirstBehind
  <2>2. LastOf(r) = gone + n
    BY DEF LastOf
  <2> HIDE DEF i
  <2> QED BY <1>3, <2>1, <2>2
<1>5. seen' = [seen EXCEPT ![u] = gone + n] /\ gone + n \in Nat
  BY <1>3, <1>4 DEF Read
<1>6. UNCHANGED <<meta, events, issued, dropped>>
  BY DEF storeVars
<1>7. CASE i <= n
  <2> DEFINE k == [q EXCEPT !.pc = "idle", !.lastID = gone + i]
             e == [id |-> gone + i, event |-> events[r][i]]
  <2>1. /\ stream' = [stream EXCEPT ![u] = k]
        /\ delivered' = [delivered EXCEPT ![u] = Append(d, e)]
    BY <1>1, <1>7 DEF Read
  <2>2. /\ k.calls = q.calls /\ k.run = r /\ k.after = q.after /\ k.lastID = gone + i
        /\ k.closed = q.closed /\ k.pc = "idle" /\ k.result = "none"
    BY <1>1, <1>2 DEF Subscription
  <2>3. gone + i \in Nat /\ events[r][i] \in Events
    BY <1>3, <1>4, <1>7
  <2>4. k \in Subscription
    BY <1>1, <2>3 DEF Subscription
  <2>5. e.id = gone + i /\ e.event = events[r][i] /\ e \in [id : Nat, event : Events]
    BY <2>3
  <2> HIDE DEF k, e, i
  <2>6. /\ Len(Append(d, e)) = Len(d) + 1 /\ Append(d, e)[Len(d) + 1] = e
        /\ \A j \in 1..Len(d) : Append(d, e)[j] = d[j]
        /\ Append(d, e) \in Seq([id : Nat, event : Events]) /\ Len(d) \in Nat
        /\ \A j \in 1..Len(d) : d[j].id \in Nat
    <3>1. \A j \in 1..Len(d) : d[j] \in [id : Nat, event : Events]
      BY <1>1, ElementsIn
    <3> QED BY <1>1, <2>5, <3>1, AppendFacts
  <2>7. stream'[u] = k /\ delivered'[u] = Append(d, e)
    BY <1>1, <2>1
  <2>8. Named(u)' /\ Drained(u)'
    BY <1>2, <1>6, <2>2, <2>7 DEF Named, Drained, InCall
  <2>9. Ascending(u)'
    <3>1. /\ \A j \in 1..Len(d) : d[j].id <= q.lastID
          /\ \A j, l \in 1..Len(d) : j < l => d[j].id < d[l].id
      BY DEF SInv, OwnInv, Ascending
    <3>2. \A j \in 1..(Len(d) + 1) : j \in 1..Len(d) \/ j = Len(d) + 1
      BY <2>6
    <3> HIDE DEF d, q, gone
    <3>3. \A j \in 1..Len(d) : Append(d, e)[j].id < gone + i
      <4>1. ASSUME NEW j \in 1..Len(d) PROVE d[j].id < gone + i
        <5>1. d[j].id \in Nat /\ d[j].id <= q.lastID
          BY <2>6, <3>1
        <5> QED BY <1>3, <1>4, <5>1
      <4> QED BY <2>6, <4>1
    <3>4. Append(d, e)[Len(d) + 1].id = gone + i
      BY <2>5, <2>6
    <3>5. \A j \in 1..(Len(d) + 1) : Append(d, e)[j].id <= gone + i
      BY <1>3, <1>4, <2>6, <3>2, <3>3, <3>4
    <3>6. ASSUME NEW j \in 1..(Len(d) + 1), NEW l \in 1..(Len(d) + 1), j < l
          PROVE  Append(d, e)[j].id < Append(d, e)[l].id
      <4>1. j \in 1..Len(d)
        BY <2>6, <3>6
      <4>2. CASE l \in 1..Len(d)
        BY <2>6, <3>1, <3>6, <4>1, <4>2
      <4>3. CASE l = Len(d) + 1
        BY <3>3, <3>4, <4>1, <4>3
      <4> QED BY <3>2, <4>2, <4>3
    <3> QED BY <2>2, <2>6, <2>7, <3>5, <3>6 DEF Ascending
  <2>10. Covered(u)'
    <3>1. SUFFICES ASSUME NEW id \in (q.after + 1)..(gone + i)
                   PROVE  \/ \E j \in 1..(Len(d) + 1) : Append(d, e)[j].id = id
                          \/ id <= gone
      BY <1>6, <2>2, <2>6, <2>7 DEF Covered
    <3>2. q.after \in Nat
      BY <1>1 DEF Subscription
    <3>3. CASE id <= q.lastID
      <4>1. \/ \E j \in 1..Len(d) : d[j].id = id
            \/ id <= gone
        BY <1>3, <3>2, <3>3 DEF SInv, OwnInv, Covered
      <4> QED BY <2>6, <4>1
    <3>4. CASE id > q.lastID /\ id # gone + i
      <4>1. id \in Nat /\ id <= gone + i /\ i \in Nat /\ gone + i \in Nat
        BY <1>3, <1>4, <3>2
      <4>2. id < gone + i /\ id > q.lastID
        BY <3>4, <4>1
      <4>3. gone + i # q.lastID + 1
        BY <1>3, <4>1, <4>2
      <4> QED BY <1>3, <1>4, <4>1, <4>2, <4>3
    <3>5. CASE id = gone + i
      BY <2>5, <2>6, <3>5
    <3>6. id <= q.lastID \/ (id > q.lastID /\ id # gone + i) \/ id = gone + i
      BY <1>3, <1>4, <3>2
    <3> QED BY <3>3, <3>4, <3>5, <3>6
  <2>11. Sure(u)'
    <3> SUFFICES ASSUME InitOnce PROVE Final(u)'
      BY DEF Sure
    <3>1. \A j \in 1..Len(d) : d[j].event \notin Seals
      <4>1. ~ (LastOf(r) <= q.lastID)
        <5> HIDE DEF q, r, gone, n
        <5> QED BY <1>3, <1>4, <1>7
      <4> QED BY <4>1 DEF SInv, OwnInv, Sure, Final
    <3>2. ASSUME events[r][i] \in Seals
          PROVE  /\ r \in issued /\ meta[r] \in {"none", StatusOf(events[r][i].reason)}
                 /\ i = n
      <4>1. i \in 1..n
        BY <1>3, <1>4, <1>7
      <4>2. events[r] # <<>>
        BY <1>3, <4>1
      <4> QED BY <1>2, <3>2, <4>1, <4>2 
               DEF SInv, IInv, Sealed, SealedByOutcome, FreshUnused
    <3> QED BY <1>4, <1>6, <2>2, <2>5, <2>6, <2>7, <3>1, <3>2 DEF Final, LastOf
  <2> QED BY <1>1, <1>5, <2>1, <2>2, <2>4, <2>6, <2>8, <2>9, <2>10, <2>11, OwnIsAll DEF OwnInv
<1>8. CASE ~ (i <= n)
  <2> DEFINE k == [q EXCEPT !.pc = "status"]
  <2>1. stream' = [stream EXCEPT ![u] = k] /\ delivered' = delivered
    BY <1>1, <1>8 DEF Read
  <2>2. /\ k.calls = q.calls /\ k.run = r /\ k.after = q.after /\ k.lastID = q.lastID
        /\ k.closed = q.closed /\ k.pc = "status" /\ k.result = "none"
    BY <1>1, <1>2 DEF Subscription
  <2>3. k \in Subscription
    BY <1>1 DEF Subscription
  <2> HIDE DEF k
  <2>4. stream'[u] = k /\ seen'[u] = gone + n /\ delivered'[u] = delivered[u]
    BY <1>1, <1>5, <2>1
  <2>5. Named(u)'
    BY <1>2, <1>6, <2>2, <2>4 DEF Named, InCall
  <2>6. Drained(u)'
    BY <1>3, <1>6, <1>8, <2>2, <2>4 DEF Drained
  <2>7. Ascending(u)' /\ Covered(u)' /\ Sure(u)'
    BY <2>2, <2>4, QuietKeeps DEF SInv
  <2>8. delivered' = [delivered EXCEPT ![u] = d]
    BY <1>1, <2>1
  <2> QED BY <1>1, <1>5, <2>1, <2>2, <2>3, <2>5, <2>6, <2>7, <2>8, OwnIsAll DEF OwnInv
<1> QED BY <1>7, <1>8

-----------------------------------------------------------------------------
(* Steps of the runs *)

\* While a run is written, ends and goes, its numbering only grows, and not at all once its
\* end is stored.
LEMMA StoreInv ==
  ASSUME SInv, [StoreNext]_storeVars, UNCHANGED streamVars,
         dropped' = [r \in Runs |-> IF events'[r] = <<>> THEN LastOf(r) ELSE dropped[r]]
  PROVE  SInv'
<1>1. IInv'
  BY StepIInv DEF SInv
<1>2. ASSUME NEW r \in Runs
      PROVE  dropped[r] \in Nat /\ LastOf(r) \in Nat /\ dropped[r] <= LastOf(r)
             /\ dropped'[r] \in Nat /\ dropped[r] <= dropped'[r]
  BY DEF SInv, IInv, TypeOK, StoreTypeOK, LastOf
<1>3. TypeOK'
  <2>1. dropped' \in [Runs -> Nat]
    BY <1>2
  <2> QED BY <1>1, <2>1 DEF SInv, IInv, TypeOK, streamVars, history
<1>4. ASSUME NEW u \in Subscribers PROVE OwnInv(u)'
  <2> DEFINE r == stream[u].run
  <2>1. stream[u] \in Subscription /\ stream' = stream /\ delivered' = delivered /\ seen' = seen
    BY DEF SInv, TypeOK, streamVars, history
  <2>2. Named(u)' /\ Ascending(u)'
    BY <2>1, IssuedGrows DEF SInv, OwnInv, Named, Ascending, InCall
  <2>3. CASE stream[u].pc = "new"
    <3>1. delivered[u] = <<>> /\ stream[u].after = stream[u].lastID /\ stream[u].result = "none"
      BY <2>3 DEF SInv, OwnInv, Named
    <3>2. Covered(u)' /\ Drained(u)' /\ Sure(u)'
      BY <2>1, <2>3, <3>1 DEF Covered, Drained, Sure, Final, Subscription
    <3> QED BY <2>2, <3>2 DEF OwnInv
  <2>4. CASE stream[u].pc # "new"
    <3>1. r \in Runs
      BY <2>4 DEF SInv, OwnInv, Named
    <3>2. Covered(u)'
      BY <1>2, <2>1, <3>1 DEF SInv, OwnInv, Covered, Subscription
    <3>3. Drained(u)'
      <4>1. seen[u] \in Nat
        BY DEF SInv, TypeOK
      <4> QED BY <1>2, <2>1, <3>1, <4>1 DEF SInv, OwnInv, Drained, Subscription
    <3>4. ASSUME InitOnce, r \in issued, NEW reason, meta[r] \in {"none", StatusOf(reason)}
          PROVE  /\ r \in issued' /\ meta'[r] \in {"none", StatusOf(reason)}
                 /\ LastOf(r)' = LastOf(r)
      <4>1. meta[r] \notin ActiveStatus
        BY <3>4, StatusOfTerminal DEF ActiveStatus, Terminal
      <4>2. meta'[r] \in {meta[r], "none"} /\ events'[r] \in {events[r], <<>>}
        BY <3>1, <3>4, <4>1, InactiveUntouched, OtherStepsRemove
           DEF SInv, storeVars, InitOnce, InitAgain
      <4>3. issued \subseteq issued'
        BY IssuedGrows
      <4>4. LastOf(r)' = LastOf(r)
        <5>1. dropped'[r] = IF events'[r] = <<>> THEN LastOf(r) ELSE dropped[r]
          BY <3>1
        <5>2. dropped'[r] + Len(events'[r]) = dropped[r] + Len(events[r])
          BY <1>2, <3>1, <4>2, <5>1 DEF LastOf
        <5> QED BY <2>1, <5>2 DEF LastOf
      <4> QED BY <3>4, <4>2, <4>3, <4>4
    <3>5. Sure(u)'
      BY <2>1, <3>4 DEF SInv, OwnInv, Sure, Final
    <3> QED BY <2>2, <3>2, <3>3, <3>5 DEF OwnInv
  <2> QED BY <2>3, <2>4
<1> QED BY <1>1, <1>3, <1>4 DEF SInv

-----------------------------------------------------------------------------
(* Safety *)

LEMMA InitSInv == Init => SInv
<1>1. SUFFICES ASSUME Init PROVE SInv
  OBVIOUS
<1>2. IInv /\ StoreTypeOK
  BY <1>1, InitIInv DEF Init, IInv
<1>3. TypeOK
  BY <1>1, <1>2, StreamAssumption
     DEF Init, TypeOK, Subscription, Results, StreamAssumption
<1>4. ASSUME NEW u \in Subscribers PROVE OwnInv(u)
  BY <1>1 DEF Init, OwnInv, Named, Ascending, Covered, Drained, Sure, Final, InCall
<1> QED BY <1>2, <1>3, <1>4 DEF SInv

LEMMA StepSInv == SInv /\ [Next]_vars => SInv'
<1>1. SUFFICES ASSUME SInv, [Next]_vars PROVE SInv'
  OBVIOUS
<1>2. ASSUME NEW u \in Subscribers, SubscriberStep(u), UNCHANGED <<storeVars, dropped>>
      PROVE  SInv'
  BY <1>1, <1>2, SubscribeInv, CallInv, ReadInv DEF SubscriberStep, NextStep
<1>3. CASE StoreNext /\ UNCHANGED streamVars /\
           dropped' = [r \in Runs |-> IF events'[r] = <<>> THEN LastOf(r) ELSE dropped[r]]
  BY <1>1, <1>3, StoreInv
<1>4. CASE UNCHANGED vars
  <2>1. UNCHANGED <<storeVars, dropped>> /\ UNCHANGED streamVars
    BY <1>4 DEF vars
  <2>2. IInv' /\ TypeOK'
    BY <1>1, <2>1, UnchangedIInv DEF SInv, IInv, TypeOK, streamVars, history
  <2>3. ASSUME NEW u \in Subscribers PROVE OwnInv(u)'
    BY <1>1, <2>1, OthersKeep DEF SInv, streamVars, history
  <2> QED BY <2>2, <2>3 DEF SInv
<1> QED BY <1>1, <1>2, <1>3, <1>4 DEF Next

LEMMA StreamInvariant == Spec => []SInv
BY InitSInv, StepSInv, PTL DEF Spec

\* A subscription keeps its types.
THEOREM StreamTypes == Spec => []TypeOK
BY StreamInvariant, PTL DEF SInv

\* Whatever happens to its run, a subscriber gets the entries in order, each once, and
\* misses only what was removed.
THEOREM StreamNoGap == Spec => []NoGap
<1>1. SInv => NoGap
  <2>1. SUFFICES ASSUME SInv, NEW u \in Subscribers
                 PROVE  LET d == delivered[u]
                            ids == {d[i].id : i \in 1..Len(d)}
                        IN
                        /\ \A i, j \in 1..Len(d) : i < j => d[i].id < d[j].id
                        /\ \A id \in (stream[u].after + 1)..stream[u].lastID :
                             id \in ids \/ id <= dropped[stream[u].run]
    BY DEF NoGap
  <2> QED BY <2>1 DEF SInv, OwnInv, Ascending, Covered
<1> QED BY <1>1, StreamInvariant, PTL

\* io.EOF on an open stream hides nothing that was there at the last XREAD.
THEOREM StreamEof == Spec => []EofAfterRead
<1>1. SInv => EofAfterRead
  <2>1. SUFFICES ASSUME SInv, NEW u \in Subscribers,
                        stream[u].result = "eof", ~ stream[u].closed
                 PROVE  \A id \in (stream[u].lastID + 1)..seen[u] : id <= dropped[stream[u].run]
    BY DEF EofAfterRead
  <2>2. stream[u].closed = FALSE
    BY <2>1
  <2> QED BY <2>1, <2>2 DEF SInv, OwnInv, Drained
<1> QED BY <1>1, StreamInvariant, PTL

\* While no initRun is sent again, a finish is the last event a subscriber gets, and the
\* status of its run for good.
THEOREM StreamFinish == ASSUME InitOnce PROVE Spec => []FinishIsFinal
<1>1. SInv => FinishIsFinal
  BY DEF SInv, OwnInv, Sure, Final, FinishIsFinal
<1> QED BY <1>1, StreamInvariant, PTL

-----------------------------------------------------------------------------
(* Implementation *)

\* What a subscription is to RunReaders.
ReaderOf(u) == [run |-> stream[u].run, place |-> stream[u].lastID, found |-> Found(u)]
Reader == [u \in Subscribers |-> ReaderOf(u)]

LEMMA InitPromise == Init => Promise!ReadersInit
<1>1. SUFFICES ASSUME Init PROVE Promise!ReadersInit
  OBVIOUS
<1>2. ASSUME NEW u \in Subscribers
      PROVE  ReaderOf(u) = [run |-> NoRun, place |-> 0, found |-> "nothing"]
  BY <1>1 DEF Init, ReaderOf, Found
<1> QED BY <1>1, <1>2 DEF Init, StoreInit, ReaderOf, Promise!ReadersInit, Promise!Init

\* The store drives RunReaders as it drives RunLifecycle, whose runs are the same.
LEMMA StorePromise ==
  ASSUME InitOnce, SInv, StoreNext, UNCHANGED streamVars,
         dropped' = [r \in Runs |-> IF events'[r] = <<>> THEN LastOf(r) ELSE dropped[r]]
  PROVE  Promise!RunStep
<1>1. Lifecycle!Next \/ UNCHANGED Lifecycle!vars
  <2>1. CASE \E r \in Runs, reply \in Replies : Script(r, reply)
    BY <2>1, ScriptRefines DEF SInv
  <2>2. CASE \E s \in Sessions, r \in Runs : ClearCurrentRunIfMatches(s, r)
    BY <2>2 DEF ClearCurrentRunIfMatches, Lifecycle!vars
  <2>3. CASE \E K : Del(K)
    BY <2>3, DelRefines
  <2> QED BY <2>1, <2>2, <2>3 DEF StoreNext, Expire
<1>2. Promise!Next \/ UNCHANGED Promise!vars
  BY <1>1 DEF Lifecycle!Next, Lifecycle!vars, Lifecycle!Create, Lifecycle!Start,
     Lifecycle!Record, Lifecycle!Seal, Lifecycle!Forget, Lifecycle!Active,
     Promise!Next, Promise!vars, Promise!Create, Promise!Start,
     Promise!Record, Promise!Seal, Promise!Forget, Promise!Active
<1>3. UNCHANGED Promise!readerVars
  <2>1. stream' = stream /\ delivered' = delivered
    BY DEF streamVars, history
  <2> QED BY <2>1 DEF Found, Promise!readerVars
<1> QED BY <1>2, <1>3 DEF LastOf, Promise!RunStep, Promise!End

\* A step of one subscriber moves one reader.
LEMMA OneMoves ==
  ASSUME SInv, NEW u \in Subscribers, NEW k, stream' = [stream EXCEPT ![u] = k]
  PROVE  /\ \A v \in Subscribers : v # u => ReaderOf(v)' = ReaderOf(v)
         /\ stream'[u] = k
<1>1. stream \in [Subscribers -> Subscription]
  BY DEF SInv, TypeOK
<1> QED BY <1>1 DEF ReaderOf, Found

\* The three things a reader may find out when it does not move.
LEMMA StaysPromise ==
  ASSUME SInv, NEW u \in Subscribers, UNCHANGED <<storeVars, dropped, delivered>>,
         NEW k, stream' = [stream EXCEPT ![u] = k],
         k.run = stream[u].run, k.lastID = stream[u].lastID,
         \/ Found(u)' = "nothing"
         \/ Found(u)' = Found(u)
         \/ Found(u)' = "dry" /\ Found(u) = "nothing" /\ LastOf(k.run) <= k.lastID
         \/ Found(u)' = "dry" /\ Found(u) = "nothing" /\ events[k.run] = <<>>
         \/ Found(u)' = "end" /\ Found(u) = "dry" /\ k.run \in issued
              /\ meta[k.run] \notin ActiveStatus
  PROVE  Promise!ReaderStep(u) \/ UNCHANGED Promise!allVars
<1>1. /\ \A v \in Subscribers : v # u => ReaderOf(v)' = ReaderOf(v)
      /\ stream'[u] = k
  BY OneMoves
<1>2. Reader[u] = ReaderOf(u) /\ UNCHANGED delivered
  BY DEF Reader
<1>3. Reader' = [Reader EXCEPT ![u].found = Found(u)']
  <2>1. ReaderOf(u)' = [ReaderOf(u) EXCEPT !.found = Found(u)']
    BY <1>1 DEF ReaderOf
  <2> QED BY <1>1, <2>1 DEF Reader
<1>4. ReaderOf(u).run = k.run /\ ReaderOf(u).place = k.lastID /\ ReaderOf(u).found = Found(u)
  BY DEF ReaderOf
<1>5. CASE Found(u)' = "nothing"
  <2>1. Promise!AskAgain(u)
    BY <1>2, <1>3, <1>5 DEF Promise!AskAgain, Reader, ReaderOf
  <2> QED BY <2>1 DEF Promise!ReaderStep
<1>6. CASE Found(u)' = Found(u)
  <2>1. ASSUME NEW v \in Subscribers PROVE ReaderOf(v)' = ReaderOf(v)
    BY <1>1, <1>6 DEF ReaderOf
  <2>2. Reader' = Reader
    BY <2>1 DEF Reader
  <2> QED BY <1>2, <2>2 DEF Reader, ReaderOf, storeVars, Promise!allVars, Promise!vars, Promise!readerVars
<1>7. CASE Found(u)' = "dry" /\ Found(u) = "nothing"
             /\ (LastOf(k.run) <= k.lastID \/ events[k.run] = <<>>)
  <2>1. Promise!FindNothing(u)
    BY <1>2, <1>3, <1>4, <1>7 DEF Promise!FindNothing, Promise!End, LastOf, Reader, ReaderOf
  <2> QED BY <2>1 DEF Promise!ReaderStep
<1>8. CASE Found(u)' = "end" /\ Found(u) = "dry" /\ k.run \in issued
              /\ meta[k.run] \notin ActiveStatus
  <2>1. Promise!Conclude(u)
    BY <1>2, <1>3, <1>4, <1>8
       DEF Promise!Conclude, Promise!Over, Promise!Active, ActiveStatus, Reader, ReaderOf
  <2> QED BY <2>1 DEF Promise!ReaderStep
<1> QED BY <1>5, <1>6, <1>7, <1>8

\* Subscribing is to come, with the cursor as the place.
LEMMA SubscribePromise ==
  ASSUME SInv, NEW u \in Subscribers, Subscribe(u), UNCHANGED <<storeVars, dropped>>
  PROVE  Promise!ReaderStep(u)
<1>1. PICK r \in Runs : \E a \in 0..LastOf(r) :
        /\ meta[r] # "none"
        /\ stream' = [stream EXCEPT ![u].pc = "idle", ![u].run = r,
                        ![u].lastID = a, ![u].after = a]
  BY DEF Subscribe
<1>2. PICK a \in 0..LastOf(r) :
        /\ meta[r] # "none"
        /\ stream' = [stream EXCEPT ![u].pc = "idle", ![u].run = r,
                        ![u].lastID = a, ![u].after = a]
  BY <1>1
<1> DEFINE k == [stream[u] EXCEPT !.pc = "idle", !.run = r, !.lastID = a, !.after = a]
<1>3. stream[u] \in Subscription /\ stream \in [Subscribers -> Subscription]
  BY DEF SInv, TypeOK
<1>4. /\ stream' = [stream EXCEPT ![u] = k]
      /\ k.run = r /\ k.lastID = a /\ k.result = stream[u].result /\ k.pc = "idle"
  BY <1>2, <1>3 DEF Subscription
<1>5. stream[u].pc = "new" /\ stream[u].run = NoRun /\ stream[u].result = "none"
  BY DEF Subscribe, SInv, OwnInv, Named
<1> HIDE DEF k
<1>6. /\ \A v \in Subscribers : v # u => ReaderOf(v)' = ReaderOf(v)
      /\ stream'[u] = k
  BY <1>4, OneMoves
<1>7. Found(u) = "nothing" /\ Found(u)' = "nothing"
  BY <1>4, <1>5, <1>6 DEF Found
<1>8. ReaderOf(u)' = [run |-> r, place |-> a, found |-> "nothing"]
  BY <1>4, <1>6, <1>7 DEF ReaderOf
<1>9. Reader' = [Reader EXCEPT ![u] = [run |-> r, place |-> a, found |-> "nothing"]]
  BY <1>6, <1>8 DEF Reader
<1>10. r \in issued
  BY <1>2 DEF SInv, IInv, FreshUnused
<1>11. Reader[u].run = NoRun
  BY <1>5 DEF Reader, ReaderOf
<1>12. Promise!Come(u)
  <2>1. a \in 0..Promise!End(r)
    BY DEF LastOf, Promise!End
  <2>2. UNCHANGED delivered
    BY DEF Subscribe, history
  <2> QED BY <1>9, <1>10, <1>11, <2>1, <2>2 DEF Promise!Come, Reader, ReaderOf
<1> QED BY <1>12 DEF Promise!ReaderStep

\* An XREAD takes the next entry, or finds nothing.
LEMMA ReadPromise ==
  ASSUME SInv, NEW u \in Subscribers, Read(u), UNCHANGED <<storeVars, dropped>>
  PROVE  Promise!ReaderStep(u) \/ UNCHANGED Promise!allVars
<1> DEFINE q == stream[u]
           r == q.run
           d == delivered[u]
           gone == dropped[r]
           n == Len(events[r])
           i == IF q.lastID < gone THEN 1 ELSE q.lastID - gone + 1
<1>1. /\ q \in Subscription /\ stream \in [Subscribers -> Subscription]
      /\ delivered \in [Subscribers -> Seq([id : Nat, event : Events])]
  BY DEF SInv, TypeOK
<1>2. q.pc = "read" /\ q.result = "none" /\ r \in Runs
  BY DEF Read, SInv, OwnInv, Named, InCall
<1>3. gone \in Nat /\ events[r] \in Seq(Events) /\ n \in Nat /\ q.lastID \in Nat
  BY <1>1, <1>2 DEF SInv, IInv, TypeOK, StoreTypeOK, Subscription
<1>4. /\ i \in Nat \ {0} /\ gone + i > q.lastID /\ (i = 1 \/ gone + i = q.lastID + 1)
  BY <1>3, FirstBehind
<1>5. Found(u) = "nothing"
  BY <1>2 DEF Found
<1>6. CASE i <= n
  <2> DEFINE k == [q EXCEPT !.pc = "idle", !.lastID = gone + i]
             e == [id |-> gone + i, event |-> events[r][i]]
  <2>1. /\ stream' = [stream EXCEPT ![u] = k]
        /\ delivered' = [delivered EXCEPT ![u] = Append(@, e)]
        /\ k.run = r /\ k.lastID = gone + i /\ k.result = "none" /\ k.pc = "idle"
    BY <1>1, <1>2, <1>6 DEF Read, Subscription
  <2> HIDE DEF k
  <2>2. /\ \A v \in Subscribers : v # u => ReaderOf(v)' = ReaderOf(v)
        /\ stream'[u] = k
    BY <2>1, OneMoves
  <2>3. Found(u)' = "nothing"
    BY <2>1, <2>2 DEF Found
  <2> DEFINE place == gone + i
  <2>4. ReaderOf(u)' = [ReaderOf(u) EXCEPT !.place = place]
    BY <1>5, <2>1, <2>2, <2>3 DEF ReaderOf
  <2>5. Reader' = [Reader EXCEPT ![u].place = place]
    <3> HIDE DEF place
    <3> QED BY <2>2, <2>4 DEF Reader
  <2>6. Reader[u].run = r /\ Reader[u].place = q.lastID /\ Reader[u].found = "nothing"
    BY <1>5 DEF Reader, ReaderOf
  <2>7. i \in 1..n
    BY <1>3, <1>4, <1>6
  <2> HIDE DEF i, q, r, gone
  <2>8. \E j \in 1..n : /\ gone + j > q.lastID
                        /\ j = 1 \/ gone + j = q.lastID + 1
                        /\ Reader' = [Reader EXCEPT ![u].place = gone + j]
                        /\ delivered' = [delivered EXCEPT ![u] =
                              Append(@, [id |-> gone + j, event |-> events[r][j]])]
    BY <1>4, <2>1, <2>5, <2>7
  <2>9. /\ Reader[u].found = "nothing"
        /\ \E j \in 1..Len(events[Reader[u].run]) :
             /\ dropped[Reader[u].run] + j > Reader[u].place
             /\ j = 1 \/ dropped[Reader[u].run] + j = Reader[u].place + 1
             /\ Reader' = [Reader EXCEPT ![u].place = dropped[Reader[u].run] + j]
             /\ delivered' = [delivered EXCEPT ![u] = Append(@,
                   [id |-> dropped[Reader[u].run] + j, event |-> events[Reader[u].run][j]])]
    BY <2>6, <2>8 DEF gone
  <2>10. Promise!Take(u)
    BY <2>9 DEF Promise!Take, Reader, ReaderOf
  <2> QED BY <2>10 DEF Promise!ReaderStep
<1>7. CASE ~ (i <= n)
  <2> DEFINE k == [q EXCEPT !.pc = "status"]
  <2>1. /\ stream' = [stream EXCEPT ![u] = k] /\ delivered' = delivered
        /\ k.run = r /\ k.lastID = q.lastID /\ k.result = "none" /\ k.pc = "status"
    BY <1>1, <1>2, <1>7 DEF Read, Subscription
  <2>2. LastOf(r) <= q.lastID \/ events[r] = <<>>
    BY <1>3, <1>7 DEF LastOf
  <2> HIDE DEF k
  <2>3. stream'[u] = k
    BY <1>1, <2>1
  <2>4. Found(u)' = "dry"
    BY <2>1, <2>3 DEF Found
  <2> QED BY <1>5, <2>1, <2>2, <2>4, StaysPromise
<1> QED BY <1>6, <1>7

\* The rest of a call, Close and the context only change what was found out.
LEMMA CallPromise ==
  ASSUME SInv, NEW u \in Subscribers, UNCHANGED <<storeVars, dropped>>,
         NextCall(u) \/ Check(u) \/ CallEnded(u) \/ Status(u) \/ Close(u) \/ CtxEnd(u)
  PROVE  Promise!ReaderStep(u) \/ UNCHANGED Promise!allVars
<1> DEFINE q == stream[u]
           k == stream'[u]
<1>1. /\ q \in Subscription /\ stream \in [Subscribers -> Subscription]
      /\ q.pc \in {"check", "read", "status"} => q.result = "none"
      /\ q.pc # "new" => q.run \in issued
  BY DEF SInv, TypeOK, OwnInv, Named, InCall
<1>2. UNCHANGED delivered
  BY DEF NextCall, Check, CallEnded, Status, Close, CtxEnd, history
<1>3. stream' = [stream EXCEPT ![u] = k] /\ k.run = q.run /\ k.lastID = q.lastID
  BY <1>1 DEF NextCall, Check, CallEnded, Status, Close, CtxEnd, Returns, Subscription
<1>4. CtxErr(u) # "eof"
  BY <1>1 DEF CtxErr, Subscription
<1>5. CASE NextCall(u)
  <2>1. k.pc # "status" /\ (k.result = "eof" => k.closed)
    BY <1>1, <1>5 DEF NextCall, Subscription
  <2>2. Found(u)' = "nothing"
    BY <2>1 DEF Found
  <2> QED BY <1>2, <1>3, <2>2, StaysPromise
<1>6. CASE Check(u) \/ CallEnded(u)
  <2>1. k.pc # "status" /\ (k.result = "eof" => k.closed)
    BY <1>1, <1>4, <1>6 DEF Check, CallEnded, Returns, Subscription
  <2>2. Found(u)' = "nothing"
    BY <2>1 DEF Found
  <2> QED BY <1>2, <1>3, <2>2, StaysPromise
<1>7. CASE Status(u)
  <2>1. Found(u) = "dry" /\ q.pc = "status"
    BY <1>1, <1>7 DEF Status, Found
  <2>2. CASE meta[q.run] \in Terminal \cup {"none"}
    <3>1. Found(u)' \in {"end", "nothing"}
      BY <1>1, <1>7, <2>2 DEF Status, Returns, Found, Subscription
    <3>2. meta[q.run] \notin ActiveStatus /\ q.run \in issued
      BY <1>1, <2>1, <2>2 DEF ActiveStatus, Terminal
    <3> QED BY <1>2, <1>3, <2>1, <3>1, <3>2, StaysPromise
  <2>3. CASE meta[q.run] \notin Terminal \cup {"none"}
    <3>1. k.pc = "check" /\ k.result = "none"
      BY <1>1, <1>7, <2>1, <2>3 DEF Status, Subscription
    <3>2. Found(u)' = "nothing"
      BY <3>1 DEF Found
    <3> QED BY <1>2, <1>3, <3>2, StaysPromise
  <2> QED BY <2>2, <2>3
<1>8. CASE Close(u) \/ CtxEnd(u)
  <2>1. /\ k.pc = q.pc /\ k.result = q.result
        /\ k.closed = q.closed \/ k.closed = TRUE
    BY <1>1, <1>8 DEF Close, CtxEnd, Subscription
  <2>2. Found(u)' \in {"nothing", Found(u)}
    BY <1>1, <2>1 DEF Found
  <2> QED BY <1>2, <1>3, <2>2, StaysPromise
<1> QED BY <1>5, <1>6, <1>7, <1>8

\* While no initRun is sent again, a subscription implements RunReaders, whatever happens
\* to the runs.
THEOREM StreamRefinesReaders == ASSUME InitOnce PROVE Spec => ReadersSpec
<1>1. ASSUME SInv, [Next]_vars PROVE [Promise!ReadersNext]_(Promise!allVars)
  <2>1. ASSUME NEW u \in Subscribers, SubscriberStep(u), UNCHANGED <<storeVars, dropped>>
        PROVE  [Promise!ReadersNext]_(Promise!allVars)
    <3>1. Promise!ReaderStep(u) \/ UNCHANGED Promise!allVars
      BY <1>1, <2>1, SubscribePromise, ReadPromise, CallPromise DEF SubscriberStep, NextStep
    <3>2. UNCHANGED <<Promise!vars, dropped>>
      BY <2>1 DEF storeVars, Promise!vars
    <3> QED BY <3>1, <3>2 DEF Promise!ReadersNext
  <2>2. CASE StoreNext /\ UNCHANGED streamVars /\
             dropped' = [r \in Runs |-> IF events'[r] = <<>> THEN LastOf(r) ELSE dropped[r]]
    BY <1>1, <2>2, StorePromise DEF Promise!ReadersNext
  <2>3. CASE UNCHANGED vars
    BY <2>3 DEF vars, storeVars, streamVars, history, Found,
       Promise!allVars, Promise!vars, Promise!readerVars
  <2> QED BY <1>1, <2>1, <2>2, <2>3 DEF Next
<1> QED BY <1>1, InitPromise, InitSInv, StepSInv, PTL DEF Spec, ReadersSpec, Promise!ReadersSpec

=============================================================================
