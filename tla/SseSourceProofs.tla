--------------------------- MODULE SseSourceProofs ---------------------------
(***************************************************************************)
(* The event source, for every body and any number of calls: the events    *)
(* delivered are the blocks of the body, and an end without error is true. *)
(***************************************************************************)
EXTENDS SseSource, Iteration

-----------------------------------------------------------------------------
(* The blocks of a body.                                                   *)

\* InOrder, unfolded.
LEMMA InOrderUnfolds ==
  ASSUME NEW positions
  PROVE  /\ \A k \in Nat : InOrder(positions, k) \in Seq(Nat)
         /\ InOrder(positions, 0) = << >>
         /\ \A k \in Nat : InOrder(positions, k + 1) =
              IF k + 1 \in positions THEN Append(InOrder(positions, k), k + 1)
              ELSE InOrder(positions, k)
<1> DEFINE S == Seq(Nat)
           StepOf(k, before) == IF k \in positions THEN Append(before, k) ELSE before
           F == [k \in Nat |-> [before \in S |-> StepOf(k, before)]]
           Body(f) == [k \in Nat |-> IF k = 0 THEN << >> ELSE StepOf(k, f[k - 1])]
           order == CHOOSE f : f = Body(f)
<1>1. << >> \in S /\ F \in [Nat -> [S -> S]]
  BY EmptySeq
<1>2. PICK g : IsIteration(g, F, S, << >>)
  <2> HIDE DEF F, S
  <2> QED BY <1>1, IterationExists
<1>3. g = Body(g)
  <2>1. g \in [Nat -> S] /\ g[0] = << >>
    BY <1>2 DEF IsIteration
  <2>2. ASSUME NEW k \in Nat \ {0} PROVE g[k] = StepOf(k, g[k - 1])
    <3>1. g[k] = F[k][g[k - 1]]
      <4> HIDE DEF F
      <4> QED BY <1>2 DEF IsIteration
    <3>2. k - 1 \in Nat
      OBVIOUS
    <3>3. g[k - 1] \in S
      <4> HIDE DEF S
      <4> QED BY <2>1, <3>2
    <3> HIDE DEF StepOf, S
    <3> QED BY <3>1, <3>3
  <2> HIDE DEF StepOf, S
  <2> QED BY <2>1, <2>2
<1>4. order = Body(order)
  <2> HIDE DEF Body
  <2> QED BY <1>3
<1>5. \A k \in Nat : InOrder(positions, k) = order[k]
  BY DEF InOrder
<1> HIDE DEF order
<1>6. \A k \in Nat : order[k] = IF k = 0 THEN << >> ELSE StepOf(k, order[k - 1])
  <2> HIDE DEF StepOf
  <2> QED BY <1>4
<1> HIDE DEF Body, F
<1>7. order[0] = << >>
  BY <1>6
<1>8. \A k \in Nat : order[k + 1] = StepOf(k + 1, order[k])
  <2>1. SUFFICES ASSUME NEW k \in Nat PROVE order[k + 1] = StepOf(k + 1, order[k])
    OBVIOUS
  <2>2. k + 1 \in Nat /\ k + 1 # 0 /\ (k + 1) - 1 = k
    OBVIOUS
  <2> DEFINE j == k + 1
  <2>3. j \in Nat /\ j # 0 /\ j - 1 = k
    BY <2>2
  <2> HIDE DEF j, StepOf
  <2>4. order[j] = StepOf(j, order[j - 1])
    BY <1>6, <2>3
  <2> QED BY <2>3, <2>4 DEF j
<1> DEFINE T == {k \in Nat : order[k] \in S}
<1>9. T = Nat
  <2>1. 0 \in T
    BY <1>1, <1>7
  <2>2. \A k \in T : k + 1 \in T
    <3>1. SUFFICES ASSUME NEW k \in T PROVE order[k + 1] \in S
      OBVIOUS
    <3>2. k \in Nat /\ order[k] \in S /\ order[k + 1] = StepOf(k + 1, order[k])
      BY <1>8
    <3> QED BY <3>2
  <2> HIDE DEF T
  <2> QED BY <2>1, <2>2, SetInduction DEF T
<1>10. \A k \in Nat : order[k] \in S
  BY <1>9
<1>11. \A k \in Nat : InOrder(positions, k) \in Seq(Nat)
  BY <1>5, <1>10
<1>12. InOrder(positions, 0) = << >>
  BY <1>5, <1>7
<1>13. ASSUME NEW k \in Nat
       PROVE  InOrder(positions, k + 1) =
                IF k + 1 \in positions THEN Append(InOrder(positions, k), k + 1)
                ELSE InOrder(positions, k)
  <2>1. InOrder(positions, k + 1) = order[k + 1] /\ InOrder(positions, k) = order[k]
    BY <1>5
  <2>2. order[k + 1] = IF k + 1 \in positions THEN Append(order[k], k + 1) ELSE order[k]
    BY <1>8
  <2> QED BY <2>1, <2>2
<1> QED BY <1>11, <1>12, <1>13

\* Only the positions up to the end matter.
LEMMA InOrderLocal ==
  ASSUME NEW p, NEW q, NEW n \in Nat, \A i \in 1 .. n : i \in p <=> i \in q
  PROVE  InOrder(p, n) = InOrder(q, n)
<1> DEFINE T == {k \in Nat : k <= n => InOrder(p, k) = InOrder(q, k)}
<1>1. 0 \in T
  BY InOrderUnfolds
<1>2. \A k \in T : k + 1 \in T
  <2>1. SUFFICES ASSUME NEW k \in T, k + 1 <= n PROVE InOrder(p, k + 1) = InOrder(q, k + 1)
    OBVIOUS
  <2>2. k \in Nat /\ InOrder(p, k) = InOrder(q, k) /\ (k + 1 \in p <=> k + 1 \in q)
    BY <2>1
  <2>3. /\ InOrder(p, k + 1) = IF k + 1 \in p THEN Append(InOrder(p, k), k + 1) ELSE InOrder(p, k)
        /\ InOrder(q, k + 1) = IF k + 1 \in q THEN Append(InOrder(q, k), k + 1) ELSE InOrder(q, k)
    BY <2>2, InOrderUnfolds
  <2> QED BY <2>2, <2>3
<1>3. T = Nat
  <2> HIDE DEF T
  <2> QED BY <1>1, <1>2, SetInduction DEF T
<1> QED BY <1>3

\* The block before a line grows by it, or begins after it.
LEMMA BlockLinesGrow ==
  ASSUME NEW k \in Nat \ {0}
  PROVE  BlockLines(k + 1) = IF body[k] = "empty" THEN {} ELSE BlockLines(k) \cup {k}
<1>1. (k + 1) - 1 = k /\ BlockLines(k) \subseteq 1 .. k - 1
  BY DEF BlockLines
<1>2. CASE body[k] = "empty"
  <2>1. \A i \in 1 .. k : k \in i .. k
    OBVIOUS
  <2> QED BY <1>1, <1>2, <2>1 DEF BlockLines
<1>3. CASE body[k] # "empty"
  <2>1. ASSUME NEW i \in 1 .. k
        PROVE  (\A j \in i .. k : body[j] # "empty") <=> i \in BlockLines(k) \cup {k}
    <3>1. CASE i = k
      BY <1>3, <3>1
    <3>2. CASE i # k
      <4>1. i \in 1 .. k - 1 /\ i .. k = (i .. k - 1) \cup {k}
        BY <3>2
      <4> QED BY <1>3, <3>2, <4>1 DEF BlockLines
    <3> QED BY <3>1, <3>2
  <2>2. BlockLines(k + 1) = {i \in 1 .. k : \A j \in i .. k : body[j] # "empty"}
    BY <1>1 DEF BlockLines
  <2>3. BlockLines(k) \cup {k} \subseteq 1 .. k
    BY <1>1
  <2> QED BY <1>3, <2>1, <2>2, <2>3
<1> QED BY <1>2, <1>3

LEMMA BlockDataGrows ==
  ASSUME NEW k \in Nat \ {0}
  PROVE  BlockData(k + 1) = IF body[k] = "empty" THEN << >>
                            ELSE IF body[k] \in Payloads THEN Append(BlockData(k), k)
                            ELSE BlockData(k)
<1> DEFINE payload(end) == {i \in BlockLines(end) : body[i] \in Payloads}
           m == k - 1
<1>1. m \in Nat /\ m + 1 = k
  OBVIOUS
<1>2. BlockLines(k) \subseteq 1 .. m /\ BlockLines(k + 1) \subseteq 1 .. k
  BY DEF BlockLines
<1>3. BlockLines(k + 1) = IF body[k] = "empty" THEN {} ELSE BlockLines(k) \cup {k}
  BY BlockLinesGrow
<1>4. /\ BlockData(k) = InOrder(payload(k), k)
      /\ BlockData(k + 1) = InOrder(payload(k + 1), k + 1)
  BY DEF BlockData
<1> DEFINE p == payload(k)
           q == payload(k + 1)
<1>5. k \notin p /\ k + 1 \notin q
  BY <1>1, <1>2
<1>6. body[k] = "empty" => q = {}
  BY <1>3
<1>7. body[k] # "empty" => q = IF body[k] \in Payloads THEN p \cup {k} ELSE p
  BY <1>3
<1> HIDE DEF p, q, m
<1>8. InOrder(p, k) = InOrder(p, m)
  BY <1>1, <1>5, InOrderUnfolds
<1>9. InOrder(q, k + 1) = InOrder(q, k)
  BY <1>5, InOrderUnfolds
<1>10. InOrder(q, k) = IF k \in q THEN Append(InOrder(q, m), k) ELSE InOrder(q, m)
  BY <1>1, InOrderUnfolds
<1>11. CASE body[k] = "empty"
  <2>1. \A j \in Nat : InOrder({}, j) = << >>
    <3> DEFINE T == {j \in Nat : InOrder({}, j) = << >>}
    <3>1. 0 \in T
      BY InOrderUnfolds
    <3>2. \A j \in T : j + 1 \in T
      <4>1. SUFFICES ASSUME NEW j \in T PROVE InOrder({}, j + 1) = << >>
        OBVIOUS
      <4>2. InOrder({}, j + 1) = IF j + 1 \in {} THEN Append(InOrder({}, j), j + 1) ELSE InOrder({}, j)
        BY InOrderUnfolds
      <4> QED BY <4>2
    <3>3. T = Nat
      <4> HIDE DEF T
      <4> QED BY <3>1, <3>2, SetInduction DEF T
    <3> QED BY <3>3
  <2> QED BY <1>4, <1>6, <1>9, <1>11, <2>1 DEF q
<1>12. CASE body[k] # "empty"
  <2>1. \A i \in 1 .. m : i \in p <=> i \in q
    BY <1>1, <1>7, <1>12
  <2>2. InOrder(p, m) = InOrder(q, m)
    BY <1>1, <2>1, InOrderLocal
  <2>3. k \in q <=> body[k] \in Payloads
    BY <1>5, <1>7, <1>12
  <2> QED BY <1>4, <1>8, <1>9, <1>10, <1>12, <2>2, <2>3 DEF p, q
<1> QED BY <1>11, <1>12

LEMMA BlockNameGrows ==
  ASSUME NEW k \in Nat \ {0}
  PROVE  BlockName(k + 1) = IF body[k] = "empty" THEN "none"
                            ELSE IF body[k] \in Names THEN body[k]
                            ELSE BlockName(k)
<1> DEFINE p == {i \in BlockLines(k) : body[i] \in Names}
           q == {i \in BlockLines(k + 1) : body[i] \in Names}
           last(set) == CHOOSE i \in set : \A j \in set : j <= i
<1>1. BlockLines(k) \subseteq 1 .. k - 1
  BY DEF BlockLines
<1>2. BlockLines(k + 1) = IF body[k] = "empty" THEN {} ELSE BlockLines(k) \cup {k}
  BY BlockLinesGrow
<1>3. /\ BlockName(k) = IF p = {} THEN "none" ELSE body[last(p)]
      /\ BlockName(k + 1) = IF q = {} THEN "none" ELSE body[last(q)]
  BY DEF BlockName
<1>4. body[k] = "empty" => q = {}
  BY <1>2
<1>5. body[k] # "empty" /\ body[k] \notin Names => q = p
  BY <1>2
<1>6. CASE body[k] # "empty" /\ body[k] \in Names
  <2>1. k \in q /\ \A j \in q : j \in Nat /\ j <= k
    BY <1>1, <1>2, <1>6
  <2> HIDE DEF q
  <2>2. \A i \in q : (\A j \in q : j <= i) => i = k
    BY <2>1
  <2>3. last(q) = k
    BY <2>1, <2>2
  <2> QED BY <1>3, <1>6, <2>1, <2>3
<1> HIDE DEF p, q, last
<1> QED BY <1>3, <1>4, <1>5, <1>6

\* A body begins with an empty block.
LEMMA FirstBlock == BlockData(1) = << >> /\ BlockName(1) = "none"
<1>1. BlockLines(1) = {}
  BY DEF BlockLines
<1>2. InOrder({}, 1) = << >>
  <2>1. InOrder({}, 0 + 1) = IF 0 + 1 \in {} THEN Append(InOrder({}, 0), 0 + 1) ELSE InOrder({}, 0)
    BY InOrderUnfolds
  <2> QED BY <2>1, InOrderUnfolds
<1>3. {i \in BlockLines(1) : body[i] \in Payloads} = {} /\ {i \in BlockLines(1) : body[i] \in Names} = {}
  BY <1>1
<1> QED BY <1>2, <1>3 DEF BlockData, BlockName

-----------------------------------------------------------------------------
(* The invariant.                                                          *)

BlockMeaning(end) == Meaning(DataOf(BlockData(end)))

\* The event that a block is, and the events of the blocks up to a line.
BlockEvent(end) == [data |-> BlockData(end), typed |-> BlockName(end) # "thread."]
EventsTo(end) ==
  [i \in DOMAIN InOrder(EventEnds, end) |-> BlockEvent(InOrder(EventEnds, end)[i])]

TypeOK ==
  /\ body \in Seq(Line) /\ ending \in {"eof", "reset"}
  /\ position \in 0 .. Len(body)
  /\ done \in BOOLEAN /\ err \in {"none", "error", "malformed", "transport"}
  /\ call \in {"idle", "scan", "true", "false"}

\* While a call scans, its data and name are those of the block it is in.
ScansBlock ==
  call = "scan" =>
    /\ err = "none"
    /\ \A k \in DOMAIN body : k = position + 1 => data = BlockData(k) /\ event = BlockName(k)

\* A call leaves the scanner between two blocks, at the end, or with an error.
StopsBetweenBlocks ==
  call # "scan" /\ err = "none" /\ position \in 1 .. Len(body) - 1 => body[position] = "empty"

\* Before the marker and without an error in the data, every block read was an event.
AllAreEvents ==
  ~done /\ err \notin {"error", "malformed"} =>
    \A b \in BlockEnds : b <= position => BlockMeaning(b) = "value"

\* The first block that was none holds the marker.
EndedByMarker ==
  done => \E m \in BlockEnds :
            /\ m <= position /\ BlockMeaning(m) = "[DONE]"
            /\ \A b \in BlockEnds : b < m => BlockMeaning(b) = "value"

EndsProperly == call = "false" /\ err = "none" => position = Len(body) /\ ending = "eof"

SourceInvariant ==
  /\ TypeOK /\ ScansBlock /\ StopsBetweenBlocks /\ AllAreEvents /\ EndedByMarker /\ EndsProperly
  /\ EventsAreBlocks


LEMMA EventsGrow ==
  ASSUME NEW k \in Nat
  PROVE  /\ EventsTo(0) = << >>
         /\ EventsTo(k + 1) =
              IF k + 1 \in EventEnds THEN Append(EventsTo(k), BlockEvent(k + 1)) ELSE EventsTo(k)
<1> DEFINE ends(n) == InOrder(EventEnds, n)
           mapped(s) == [i \in DOMAIN s |-> BlockEvent(s[i])]
<1>1. \A n : EventsTo(n) = mapped(ends(n))
  BY DEF EventsTo
<1>2. /\ ends(0) = << >> /\ ends(k) \in Seq(Nat)
      /\ ends(k + 1) = IF k + 1 \in EventEnds THEN Append(ends(k), k + 1) ELSE ends(k)
  BY InOrderUnfolds
<1>3. mapped(<< >>) = << >>
  OBVIOUS
<1> HIDE DEF ends
<1>4. ASSUME NEW s \in Seq(Nat), NEW x \in Nat
      PROVE  mapped(Append(s, x)) = Append(mapped(s), BlockEvent(x))
  <2> DEFINE n == Len(s)
             a == Append(s, x)
             m == mapped(s)
  <2>1. /\ n \in Nat /\ DOMAIN s = 1 .. n
        /\ DOMAIN a = 1 .. n + 1 /\ a[n + 1] = x /\ \A i \in 1 .. n : a[i] = s[i]
    BY AppendProperties
  <2> HIDE DEF a, n
  <2>2. m = [i \in 1 .. n |-> BlockEvent(s[i])]
    BY <2>1
  <2>3. mapped(a) = [i \in 1 .. n + 1 |-> BlockEvent(a[i])]
    BY <2>1
  <2>4. Len(m) = n /\ Append(m, BlockEvent(x)) = [i \in 1 .. n + 1 |-> IF i = n + 1 THEN BlockEvent(x) ELSE m[i]]
    <3>1. \A i \in 1 .. n : m[i] = BlockEvent(s[i])
      BY <2>2
    <3> HIDE DEF m
    <3>2. m = [i \in 1 .. n |-> BlockEvent(s[i])]
      BY <2>2
    <3> DEFINE y == BlockEvent(x)
               V == {BlockEvent(s[i]) : i \in 1 .. n} \cup {y}
               b == Append(m, y)
    <3>3. m \in Seq(V) /\ Len(m) = n /\ y \in V
      <4>1. (\A i \in 1 .. n : BlockEvent(s[i]) \in V) /\ y \in V
        OBVIOUS
      <4> HIDE DEF V, y
      <4>2. m \in [1 .. n -> V]
        BY <3>2, <4>1
      <4>3. m \in Seq(V)
        BY <2>1, <4>2
      <4>4. Len(m) = n
        BY <2>1, <4>2, <4>3, LenProperties
      <4> QED BY <4>1, <4>3, <4>4
    <3> HIDE DEF y, V
    <3>4. b \in Seq(V) /\ Len(b) = n + 1 /\ b[n + 1] = y /\ \A i \in 1 .. n : b[i] = m[i]
      BY <3>3, AppendProperties
    <3> HIDE DEF b
    <3>5. b = [i \in 1 .. n + 1 |-> b[i]]
      BY <3>4
    <3>6. \A i \in 1 .. n + 1 : b[i] = IF i = n + 1 THEN y ELSE m[i]
      BY <2>1, <3>4
    <3> QED BY <3>3, <3>5, <3>6 DEF b, y
  <2>5. \A i \in 1 .. n + 1 : BlockEvent(a[i]) = IF i = n + 1 THEN BlockEvent(x) ELSE m[i]
    BY <2>1, <2>2
  <2> HIDE DEF m, mapped
  <2> QED BY <2>3, <2>4, <2>5 DEF a, m
<1>5. EventsTo(0) = << >>
  BY <1>1, <1>2, <1>3
<1>6. CASE k + 1 \in EventEnds
  <2>1. mapped(Append(ends(k), k + 1)) = Append(mapped(ends(k)), BlockEvent(k + 1))
    BY <1>2, <1>4
  <2> HIDE DEF mapped
  <2> QED BY <1>1, <1>2, <1>5, <1>6, <2>1
<1>7. CASE k + 1 \notin EventEnds
  BY <1>1, <1>2, <1>5, <1>7
<1> QED BY <1>6, <1>7

\* What is read of the body depends on the body only.
LEMMA BodyKept ==
  ASSUME body' = body
  PROVE  /\ \A k : BlockData(k)' = BlockData(k) /\ BlockName(k)' = BlockName(k)
         /\ \A k : BlockMeaning(k)' = BlockMeaning(k)
         /\ BlockEnds' = BlockEnds
         /\ EventEnds' = EventEnds
<1>1. \A k : BlockLines(k)' = BlockLines(k)
  BY DEF BlockLines
<1>2. \A k : BlockData(k)' = BlockData(k)
  BY <1>1 DEF BlockData
<1>3. \A k : BlockName(k)' = BlockName(k)
  <2> TAKE k
  <2> DEFINE named(names) == IF names = {} THEN "none"
                             ELSE body[CHOOSE i \in names : \A j \in names : j <= i]
             p == {i \in BlockLines(k) : body[i] \in Names}
             q == {i \in BlockLines(k)' : body'[i] \in Names}
  <2>1. q = p
    BY <1>1
  <2>2. BlockName(k) = named(p)
    BY DEF BlockName
  <2>3. BlockName(k)' = IF q = {} THEN "none"
                        ELSE body'[CHOOSE i \in q : \A j \in q : j <= i]
    BY DEF BlockName
  <2> HIDE DEF p, q
  <2>4. BlockName(k)' = named(q)
    BY <2>3
  <2> HIDE DEF named
  <2> QED BY <2>1, <2>2, <2>4
<1>4. \A k : BlockMeaning(k)' = BlockMeaning(k)
  BY <1>2 DEF BlockMeaning, DataOf
<1>5. BlockEnds' = BlockEnds
  BY <1>2 DEF BlockEnds
<1>6. EventEnds' = EventEnds
  BY <1>4, <1>5 DEF EventEnds, BlockMeaning
<1> QED BY <1>2, <1>3, <1>4, <1>5, <1>6

\* EventsAreBlocks, before and after a step.
LEMMA EventsReading ==
  /\ EventsAreBlocks <=> delivered = EventsTo(position)
  /\ body' = body => (EventsAreBlocks' <=> delivered' = EventsTo(position'))
<1>1. EventsAreBlocks <=> delivered = EventsTo(position)
  BY DEF EventsAreBlocks, EventsTo, BlockEvent
<1>2. ASSUME body' = body
      PROVE  EventsAreBlocks' <=> delivered' = EventsTo(position')
  BY <1>2, BodyKept DEF EventsAreBlocks, EventsTo, BlockEvent
<1> QED BY <1>1, <1>2

\* ScansBlock after a step that keeps the body, with the body read before it.
LEMMA ScansReading ==
  ASSUME body' = body, body \in Seq(Line), call' = "scan" => err' = "none",
         \A k \in 1 .. Len(body) :
           call' = "scan" /\ k = position' + 1 => data' = BlockData(k) /\ event' = BlockName(k)
  PROVE  ScansBlock'
<1>1. \A k : BlockData(k)' = BlockData(k) /\ BlockName(k)' = BlockName(k)
  BY BodyKept
<1>2. DOMAIN body' = 1 .. Len(body)
  OBVIOUS
<1> QED BY <1>1, <1>2 DEF ScansBlock

LEMMA InitSource == Init => SourceInvariant
<1> SUFFICES ASSUME Init PROVE SourceInvariant
  OBVIOUS
<1>1. TypeOK
  <2>1. body \in Seq(Line)
    BY BodiesAssumption DEF Init
  <2>2. 0 \in 0 .. Len(body)
    BY <2>1, LenProperties
  <2> QED BY <2>1, <2>2 DEF Init, TypeOK
<1>2. BlockEnds \subseteq 1 .. Len(body)
  BY <1>1 DEF BlockEnds, TypeOK
<1>3. ScansBlock /\ StopsBetweenBlocks /\ AllAreEvents /\ EndedByMarker /\ EndsProperly
  BY <1>1, <1>2 DEF Init, ScansBlock, StopsBetweenBlocks, AllAreEvents, EndedByMarker, EndsProperly
<1>4. EventsAreBlocks
  <2>1. delivered = << >> /\ position = 0
    BY DEF Init
  <2>2. EventsTo(0) = << >>
    BY EventsGrow
  <2> QED BY <2>1, <2>2, EventsReading
<1> QED BY <1>1, <1>3, <1>4 DEF SourceInvariant

\* A call that begins between two blocks begins with an empty one.
LEMMA CallNextKeeps == SourceInvariant /\ CallNext => SourceInvariant'
<1> SUFFICES ASSUME SourceInvariant, CallNext PROVE SourceInvariant'
  OBVIOUS
<1>1. /\ TypeOK /\ StopsBetweenBlocks /\ AllAreEvents /\ EndedByMarker /\ EventsAreBlocks
      /\ call # "scan"
  BY DEF SourceInvariant, CallNext
<1>2. /\ UNCHANGED <<body, ending, position, done, err, delivered>>
      /\ event' = "none" /\ data' = << >> /\ call' = IF err = "none" THEN "scan" ELSE "false"
  BY DEF CallNext
<1>3. TypeOK'
  BY <1>1, <1>2 DEF TypeOK
<1>4. position \in Nat /\ Len(body) \in Nat /\ position <= Len(body)
  BY <1>1, LenProperties DEF TypeOK
<1>5. ScansBlock'
  <2>1. SUFFICES ASSUME err = "none", position < Len(body)
                 PROVE  BlockData(position + 1) = << >> /\ BlockName(position + 1) = "none"
    BY <1>1, <1>2, <1>4, ScansReading DEF TypeOK
  <2>2. CASE position = 0
    <3>1. position + 1 = 1
      BY <2>2
    <3> QED BY <3>1, FirstBlock
  <2>3. CASE position # 0
    <3>1. body[position] = "empty" /\ position \in Nat \ {0}
      BY <1>1, <1>4, <2>1, <2>3 DEF StopsBetweenBlocks
    <3> QED BY <3>1, BlockDataGrows, BlockNameGrows
  <2> QED BY <2>2, <2>3
<1>6. StopsBetweenBlocks' /\ EndsProperly'
  BY <1>2 DEF StopsBetweenBlocks, EndsProperly
<1>7. AllAreEvents' /\ EndedByMarker' /\ EventsAreBlocks'
  BY <1>1, <1>2, <1>4, BodyKept, EventsReading DEF AllAreEvents, EndedByMarker
<1> QED BY <1>3, <1>5, <1>6, <1>7 DEF SourceInvariant

\* A line that dispatches nothing grows the block, or ends an empty one.
LEMMA FieldKeeps == SourceInvariant /\ Field => SourceInvariant'
<1> SUFFICES ASSUME SourceInvariant, Field PROVE SourceInvariant'
  OBVIOUS
<1> DEFINE n == Len(body)
           p == position
           k == position + 1
<1>1. /\ TypeOK /\ ScansBlock /\ StopsBetweenBlocks /\ AllAreEvents /\ EndedByMarker /\ EventsAreBlocks
  BY DEF SourceInvariant
<1>2. PICK line \in Line :
        /\ Scan(line)
        /\ line = "empty" => data = << >>
        /\ event' = IF line \in Names THEN line ELSE IF line = "empty" THEN "none" ELSE event
        /\ data' = IF line \in Payloads THEN Append(data, position') ELSE data
  BY DEF Field
<1>3. /\ UNCHANGED <<body, ending, done, err, call, delivered>>
      /\ call = "scan" /\ p < n /\ body[k] = line /\ position' = k
  BY <1>2 DEF Field, Scan
<1>4. p \in Nat /\ n \in Nat /\ k \in 1 .. n /\ k \in Nat \ {0}
  BY <1>1, <1>3, LenProperties DEF TypeOK
<1>5. err = "none" /\ data = BlockData(k) /\ event = BlockName(k)
  BY <1>1, <1>3, <1>4 DEF ScansBlock, TypeOK
<1>6. TypeOK'
  BY <1>1, <1>3, <1>4 DEF TypeOK
<1>7. k \notin BlockEnds /\ k \notin EventEnds
  BY <1>2, <1>3, <1>5 DEF BlockEnds, EventEnds
<1>8. ScansBlock'
  <2>1. Names \cap Payloads = {} /\ "empty" \notin Names \cup Payloads
    BY DEF Names, Payloads
  <2>2. data' = BlockData(k + 1)
    BY <1>2, <1>3, <1>4, <1>5, <2>1, BlockDataGrows
  <2>3. event' = BlockName(k + 1)
    BY <1>2, <1>3, <1>4, <1>5, <2>1, BlockNameGrows
  <2> HIDE DEF k
  <2>4. \A j : j = position' + 1 => data' = BlockData(j) /\ event' = BlockName(j)
    BY <1>3, <2>2, <2>3
  <2> QED BY <1>1, <1>3, <1>5, <2>4, ScansReading DEF TypeOK
<1>9. StopsBetweenBlocks' /\ EndsProperly'
  BY <1>3 DEF StopsBetweenBlocks, EndsProperly
<1>10. BlockEnds' = BlockEnds /\ (\A b : BlockMeaning(b)' = BlockMeaning(b)) /\ BlockEnds \subseteq Nat
  BY <1>1, <1>3, BodyKept DEF BlockEnds, TypeOK
<1>11. \A b \in BlockEnds : b <= k <=> b <= p
  BY <1>4, <1>7, <1>10
<1>12. AllAreEvents' /\ EndedByMarker'
  BY <1>1, <1>3, <1>10, <1>11 DEF AllAreEvents, EndedByMarker
<1>13. EventsAreBlocks'
  <2>1. EventsTo(k) = EventsTo(p)
    BY <1>4, <1>7, EventsGrow
  <2> QED BY <1>1, <1>3, <2>1, EventsReading
<1> QED BY <1>6, <1>8, <1>9, <1>12, <1>13 DEF SourceInvariant

\* An empty line after data ends a block; what the Stream makes of it is what the
\* block says, and whether an earlier one held the marker.
LEMMA DispatchKeeps == SourceInvariant /\ Dispatch => SourceInvariant'
<1> SUFFICES ASSUME SourceInvariant, Dispatch PROVE SourceInvariant'
  OBVIOUS
<1> DEFINE n == Len(body)
           p == position
           k == position + 1
<1>1. /\ TypeOK /\ ScansBlock /\ StopsBetweenBlocks /\ AllAreEvents /\ EndedByMarker /\ EventsAreBlocks
  BY DEF SourceInvariant
<1>2. /\ UNCHANGED <<body, ending>> /\ data # << >>
      /\ call = "scan" /\ p < n /\ body[k] = "empty" /\ position' = k
      /\ event' = "none" /\ data' = << >>
  BY DEF Dispatch, Scan
<1>3. p \in Nat /\ n \in Nat /\ k \in 1 .. n /\ k \in Nat \ {0}
  BY <1>1, <1>2, LenProperties DEF TypeOK
<1>4. err = "none" /\ data = BlockData(k) /\ event = BlockName(k)
  BY <1>1, <1>2, <1>3 DEF ScansBlock, TypeOK
<1>5. k \in BlockEnds
  BY <1>1, <1>2, <1>3, <1>4 DEF BlockEnds, TypeOK
<1>6. BlockEnds \subseteq Nat /\ BlockEnds' = BlockEnds /\ \A b : BlockMeaning(b)' = BlockMeaning(b)
  BY <1>1, <1>2, BodyKept DEF BlockEnds, TypeOK
<1>7. Meaning(DataOf(data)) = BlockMeaning(k)
  BY <1>4 DEF BlockMeaning
<1>8. \A b \in BlockEnds : b <= k <=> (b <= p \/ b = k)
  BY <1>3, <1>6
<1>9. EventEnds = {end \in BlockEnds : \A b \in BlockEnds : b <= end => BlockMeaning(b) = "value"}
  BY DEF EventEnds, BlockMeaning
\* Whatever it means, what is scanned next is an empty block.
<1>10. ASSUME call' \in {"scan", "true", "false"}, err' \in {"none", "error", "malformed"},
              call' # "true" => (call' = "scan" <=> err' = "none"), done' \in BOOLEAN
       PROVE  TypeOK' /\ ScansBlock' /\ StopsBetweenBlocks'
  <2>1. TypeOK'
    BY <1>1, <1>2, <1>3, <1>10 DEF TypeOK
  <2>2. BlockData(k + 1) = << >> /\ BlockName(k + 1) = "none"
    BY <1>2, <1>3, BlockDataGrows, BlockNameGrows
  <2>3. \A j : j = position' + 1 => data' = BlockData(j) /\ event' = BlockName(j)
    <3> HIDE DEF k
    <3> QED BY <1>2, <2>2
  <2>4. ScansBlock'
    BY <1>1, <1>2, <1>10, <2>3, ScansReading DEF TypeOK
  <2>5. StopsBetweenBlocks'
    BY <1>2, <1>3 DEF StopsBetweenBlocks
  <2> QED BY <2>1, <2>4, <2>5
\* An event that is not one.
<1>11. ASSUME k \notin EventEnds, delivered' = delivered
       PROVE  EventsAreBlocks'
  <2>1. EventsTo(k) = EventsTo(p)
    BY <1>3, <1>11, EventsGrow
  <2> QED BY <1>1, <1>2, <1>11, <2>1, EventsReading
<1>12. CASE done
  <2>1. done' = TRUE /\ UNCHANGED <<err, call, delivered>>
    BY <1>12 DEF Dispatch
  <2>2. PICK m \in BlockEnds : /\ m <= p /\ BlockMeaning(m) = "[DONE]"
                               /\ \A b \in BlockEnds : b < m => BlockMeaning(b) = "value"
    BY <1>1, <1>12 DEF EndedByMarker
  <2>3. m <= k /\ k \notin EventEnds
    BY <1>3, <1>6, <1>9, <2>2
  <2>4. AllAreEvents' /\ EndedByMarker' /\ EndsProperly'
    BY <1>2, <1>6, <2>1, <2>2, <2>3 DEF AllAreEvents, EndedByMarker, EndsProperly
  <2> QED BY <1>2, <1>4, <1>10, <1>11, <2>1, <2>3, <2>4 DEF SourceInvariant
<1>13. ~done => \A b \in BlockEnds : b <= p => BlockMeaning(b) = "value"
  BY <1>1, <1>4 DEF AllAreEvents
<1>14. CASE ~done /\ BlockMeaning(k) = "[DONE]"
  <2>1. done' = TRUE /\ UNCHANGED <<err, call, delivered>>
    BY <1>7, <1>14 DEF Dispatch
  <2>2. k \notin EventEnds
    BY <1>3, <1>5, <1>9, <1>14
  <2>3. \A b \in BlockEnds : b < k => BlockMeaning(b) = "value"
    BY <1>3, <1>6, <1>13, <1>14
  <2>4. AllAreEvents' /\ EndedByMarker' /\ EndsProperly'
    BY <1>2, <1>3, <1>5, <1>6, <1>14, <2>1, <2>3 DEF AllAreEvents, EndedByMarker, EndsProperly
  <2> QED BY <1>2, <1>4, <1>10, <1>11, <2>1, <2>2, <2>4 DEF SourceInvariant
<1>15. CASE ~done /\ BlockMeaning(k) \in {"error", "malformed"}
  <2>1. err' \in {"error", "malformed"} /\ call' = "false" /\ UNCHANGED <<done, delivered>>
    BY <1>7, <1>15 DEF Dispatch
  <2>2. k \notin EventEnds
    BY <1>3, <1>5, <1>9, <1>15
  <2>3. done' = FALSE
    BY <1>1, <1>15, <2>1 DEF TypeOK
  <2>4. AllAreEvents' /\ EndsProperly'
    BY <2>1 DEF AllAreEvents, EndsProperly
  <2>5. EndedByMarker'
    BY <2>3 DEF EndedByMarker
  <2> QED BY <1>10, <1>11, <2>1, <2>2, <2>3, <2>4, <2>5 DEF SourceInvariant
<1>16. CASE ~done /\ BlockMeaning(k) = "value"
  <2>1. /\ delivered' = Append(delivered, [data |-> data, typed |-> event # "thread."])
        /\ call' = "true" /\ UNCHANGED <<done, err>>
    BY <1>7, <1>16 DEF Dispatch
  <2>2. \A b \in BlockEnds : b <= k => BlockMeaning(b) = "value"
    BY <1>8, <1>13, <1>16
  <2>3. k \in EventEnds
    BY <1>5, <1>9, <2>2
  <2>4. EventsAreBlocks'
    <3>1. EventsTo(k) = Append(EventsTo(p), BlockEvent(k))
      BY <1>3, <2>3, EventsGrow
    <3>2. BlockEvent(k) = [data |-> data, typed |-> event # "thread."]
      BY <1>4 DEF BlockEvent
    <3> QED BY <1>1, <1>2, <2>1, <3>1, <3>2, EventsReading
  <2>5. done' = FALSE
    BY <1>1, <1>16, <2>1 DEF TypeOK
  <2>6. AllAreEvents'
    BY <1>2, <1>6, <2>2 DEF AllAreEvents
  <2>7. EndedByMarker' /\ EndsProperly'
    BY <2>1, <2>5 DEF EndedByMarker, EndsProperly
  <2> QED BY <1>4, <1>10, <2>1, <2>4, <2>5, <2>6, <2>7 DEF SourceInvariant
<1>17. BlockMeaning(k) \in {"[DONE]", "error", "malformed", "value"}
  BY DEF BlockMeaning, Meaning
<1> QED BY <1>12, <1>14, <1>15, <1>16, <1>17

\* The end of the scanner, Close and stuttering leave what was read alone.
LEMMA OthersKeep == SourceInvariant /\ (ScanEnds \/ Close \/ UNCHANGED vars) => SourceInvariant'
<1> SUFFICES ASSUME SourceInvariant, ScanEnds \/ Close \/ UNCHANGED vars PROVE SourceInvariant'
  OBVIOUS
<1>1. /\ TypeOK /\ ScansBlock /\ StopsBetweenBlocks /\ AllAreEvents /\ EndedByMarker /\ EndsProperly
      /\ EventsAreBlocks
  BY DEF SourceInvariant
<1>2. UNCHANGED <<body, ending, position, done, delivered>>
  BY DEF ScanEnds, Close, vars
<1>3. /\ BlockEnds' = BlockEnds /\ \A b : BlockMeaning(b)' = BlockMeaning(b)
      /\ EventsAreBlocks'
  BY <1>1, <1>2, BodyKept, EventsReading
<1>4. CASE ScanEnds
  <2>1. /\ call = "scan" /\ call' = "false" /\ err' \in {"none", "transport"}
        /\ err' = "none" => position = Len(body) /\ ending = "eof"
    BY <1>4 DEF ScanEnds
  <2>2. err = "none"
    BY <1>1, <2>1 DEF ScansBlock
  <2>3. TypeOK' /\ ScansBlock' /\ EndsProperly'
    BY <1>1, <1>2, <2>1 DEF TypeOK, ScansBlock, EndsProperly
  <2>4. StopsBetweenBlocks'
    BY <1>1, <1>2, <2>1, LenProperties DEF StopsBetweenBlocks, TypeOK
  <2>5. AllAreEvents' /\ EndedByMarker'
    BY <1>1, <1>2, <1>3, <2>1, <2>2 DEF AllAreEvents, EndedByMarker
  <2> QED BY <1>3, <2>3, <2>4, <2>5 DEF SourceInvariant
<1>5. CASE Close \/ UNCHANGED vars
  <2>1. UNCHANGED <<err, call, event, data>>
    BY <1>5 DEF Close, vars
  <2>2. TypeOK' /\ StopsBetweenBlocks' /\ EndsProperly'
    BY <1>1, <1>2, <2>1 DEF TypeOK, StopsBetweenBlocks, EndsProperly
  <2>3. ScansBlock'
    <3>1. \A j \in 1 .. Len(body) :
            call = "scan" /\ j = position + 1 => data = BlockData(j) /\ event = BlockName(j)
      BY <1>1 DEF ScansBlock, TypeOK
    <3>2. call = "scan" => err = "none"
      BY <1>1 DEF ScansBlock
    <3> QED BY <1>1, <1>2, <2>1, <3>1, <3>2, ScansReading DEF TypeOK
  <2>4. AllAreEvents' /\ EndedByMarker'
    BY <1>1, <1>2, <1>3, <2>1 DEF AllAreEvents, EndedByMarker
  <2> QED BY <1>3, <2>2, <2>3, <2>4 DEF SourceInvariant
<1> QED BY <1>4, <1>5

LEMMA AlwaysReads == Spec => []SourceInvariant
<1>1. SourceInvariant /\ [Next]_vars => SourceInvariant'
  BY CallNextKeeps, FieldKeeps, DispatchKeeps, OthersKeep DEF Next
<1> QED BY <1>1, InitSource, PTL DEF Spec

\* For every body, however it ends and whenever the source is closed, the events
\* delivered are the body's blocks, in order, up to the first that is none
\* (eventStreamDecoder.Next, ssestream.go:72-127; Stream.Next, 175-232).
THEOREM EventsReadFromBody == Spec => []EventsAreBlocks
<1>1. SourceInvariant => EventsAreBlocks
  BY DEF SourceInvariant
<1> QED BY <1>1, AlwaysReads, PTL

\* The source ends without an error only at the end of a whole body of events, of
\* which nothing but blocks behind the end marker was left out.
THEOREM SourceEndsTruthfully == Spec => []EndIsTruthful
<1>1. SourceInvariant => EndIsTruthful
  <2>1. SUFFICES ASSUME SourceInvariant, call = "false", err = "none"
                 PROVE  /\ position = Len(body) /\ ending = "eof"
                        /\ \A b \in BlockEnds \ EventEnds :
                             \E m \in BlockEnds : m <= b /\ BlockMeaning(m) = "[DONE]"
    BY DEF EndIsTruthful, BlockMeaning
  <2>2. position = Len(body) /\ ending = "eof"
    BY <2>1 DEF SourceInvariant, EndsProperly
  <2>3. /\ Len(body) \in Nat /\ BlockEnds \subseteq 1 .. Len(body)
    BY <2>1, LenProperties DEF SourceInvariant, TypeOK, BlockEnds
  <2>4. EventEnds = {end \in BlockEnds : \A b \in BlockEnds : b <= end => BlockMeaning(b) = "value"}
    BY DEF EventEnds, BlockMeaning
  <2>5. CASE ~done
    <3>1. \A b \in BlockEnds : BlockMeaning(b) = "value"
      BY <2>1, <2>2, <2>3, <2>5 DEF SourceInvariant, AllAreEvents
    <3> QED BY <2>2, <2>4, <3>1
  <2>6. CASE done
    <3>1. PICK m \in BlockEnds : /\ BlockMeaning(m) = "[DONE]"
                                 /\ \A b \in BlockEnds : b < m => BlockMeaning(b) = "value"
      BY <2>1, <2>6 DEF SourceInvariant, EndedByMarker
    <3>2. ASSUME NEW b \in BlockEnds \ EventEnds PROVE m <= b
      <4>1. PICK c \in BlockEnds : c <= b /\ BlockMeaning(c) # "value"
        BY <2>4, <3>2
      <4> QED BY <2>3, <3>1, <4>1
    <3> QED BY <2>2, <3>1, <3>2
  <2> QED BY <2>5, <2>6
<1> QED BY <1>1, AlwaysReads, PTL

=============================================================================
