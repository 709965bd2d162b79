------------------------ MODULE ResponsesStreamProofs ------------------------
(***************************************************************************)
(* The stream, for every set of closers, raw events, errors and limits.    *)
(*                                                                         *)
(* First what a translation returns, for every raw event and accumulator:  *)
(* typed events and, if the event ends the stream, exactly one terminal    *)
(* event, the last; chunks that, joined, are the text; calls that come     *)
(* only with the completed event, distinct and declared.                   *)
(*                                                                         *)
(* Then the stream: type correctness, the lifecycle invariant and what     *)
(* follows from it, that it implements the contract of model.Stream, and   *)
(* that its events are those of a sequential translation, with their calls *)
(* and their text.                                                         *)
(*                                                                         *)
(* Last what the start and the stream guarantee together, for every number *)
(* of retries and every set of responses: the invariants of a stream alone *)
(* carry over, because the stream of an operation is one of them.          *)
(***************************************************************************)
EXTENDS Operation, StreamProperties, Iteration


-----------------------------------------------------------------------------
(* The chunks of a text.                                                    *)

\* A chunk ends in the text, and is empty only at its end.
LEMMA ChunkEndType ==
  ASSUME NEW text \in Text, NEW start \in 0 .. Len(text)
  PROVE  /\ ChunkEnd(text, start) \in start .. Len(text)
         /\ start < Len(text) => start < ChunkEnd(text, start)
         /\ ChunkEnds(text, start) # {} => ChunkEnd(text, start) \in ChunkEnds(text, start)
<1> USE LimitsAssumption DEF Text
<1> DEFINE ends == ChunkEnds(text, start)
<1>1. Len(text) \in Nat
  OBVIOUS
<1>2. \A end \in ends : end \in start .. Len(text) /\ start < end
  BY <1>1 DEF ChunkEnds
<1>3. CASE ends = {}
  BY <1>1, <1>3 DEF ChunkEnd
<1>4. CASE ends # {}
  <2>1. \E end \in ends : \A other \in ends : other <= end
    <3> DEFINE T == {n \in Nat : n <= Len(text) =>
                       \/ \E e \in ends : e >= Len(text) - n
                                        /\ \A other \in ends : other <= e
                       \/ \A e \in ends : e < Len(text) - n}
    <3> HIDE DEF ends
    <3>1. 0 \in T
      BY <1>1, <1>2
    <3>2. ASSUME NEW n \in T PROVE n + 1 \in T
      <4>1. SUFFICES ASSUME n + 1 <= Len(text), \A e \in ends : e < Len(text) - n
                     PROVE  \/ \E e \in ends : e >= Len(text) - (n + 1)
                                        /\ \A other \in ends : other <= e
                            \/ \A e \in ends : e < Len(text) - (n + 1)
        BY <3>2, <1>1, <1>2
      <4>2. CASE Len(text) - (n + 1) \in ends
        BY <4>1, <4>2, <1>1, <1>2
      <4>3. CASE Len(text) - (n + 1) \notin ends
        BY <4>1, <4>3, <1>1, <1>2
      <4> QED BY <4>2, <4>3
    <3>3. T = Nat
      <4> HIDE DEF T
      <4> QED BY <3>1, <3>2, SetInduction DEF T
    <3>4. Len(text) \in T
      BY <3>3, <1>1
    <3> QED BY <3>4, <1>1, <1>2, <1>4
  <2>2. (CHOOSE end \in ends : \A other \in ends : other <= end) \in ends
    BY <2>1
  <2> QED BY <2>2, <1>2, <1>4 DEF ChunkEnd
<1> QED BY <1>3, <1>4

LEMMA CutsType ==
  ASSUME NEW text \in Text
  PROVE  /\ Cuts(text) \in [Nat -> 0 .. Len(text)]
         /\ Cuts(text)[0] = 0
         /\ \A k \in Nat \ {0} : Cuts(text)[k] = ChunkEnd(text, Cuts(text)[k - 1])
<1> DEFINE S == 0 .. Len(text)
           F == [k \in Nat |-> [start \in S |-> ChunkEnd(text, start)]]
           Body(f) == [k \in Nat |-> IF k = 0 THEN 0 ELSE ChunkEnd(text, f[k - 1])]
<1>1. 0 \in S
  BY DEF Text
<1>2. F \in [Nat -> [S -> S]]
  BY ChunkEndType
<1>3. PICK g \in [Nat -> S] : g[0] = 0 /\ \A k \in Nat \ {0} : g[k] = F[k][g[k - 1]]
  <2> HIDE DEF F, S
  <2>1. PICK h : IsIteration(h, F, S, 0)
    BY <1>1, <1>2, IterationExists
  <2> QED BY <2>1 DEF IsIteration
<1>4. g = Body(g)
  <2>1. ASSUME NEW k \in Nat \ {0} PROVE g[k] = ChunkEnd(text, g[k - 1])
    <3>1. k - 1 \in Nat
      OBVIOUS
    <3>2. g[k - 1] \in S
      BY <3>1
    <3>3. g[k] = F[k][g[k - 1]]
      BY <1>3
    <3> QED BY <3>2, <3>3
  <2> QED BY <1>3, <2>1
<1>5. Cuts(text) = Body(Cuts(text))
  <2>1. Cuts(text) = CHOOSE f : f = Body(f)
    BY DEF Cuts
  <2> HIDE DEF Body
  <2> QED BY <1>4, <2>1
<1> DEFINE c == Cuts(text)
<1> HIDE DEF c
<1>6. c = [k \in Nat |-> IF k = 0 THEN 0 ELSE ChunkEnd(text, c[k - 1])]
  BY <1>5 DEF c
<1>7. \A k \in Nat : c[k] \in S
  <2> DEFINE T == {k \in Nat : c[k] \in S}
  <2>1. 0 \in T
    BY <1>1, <1>6
  <2>2. ASSUME NEW k \in T
        PROVE  k + 1 \in T
    <3>1. k \in Nat /\ c[k] \in S
      OBVIOUS
    <3>2. k + 1 \in Nat /\ k + 1 # 0 /\ (k + 1) - 1 = k
      BY <3>1
    <3>3. c[k + 1] = ChunkEnd(text, c[k])
      BY <1>6, <3>2
    <3>4. c[k] \in 0 .. Len(text) /\ Len(text) \in Nat
      BY <3>1 DEF Text
    <3> DEFINE p == c[k]
               N == Len(text)
    <3>5. ChunkEnd(text, p) \in p .. N
      BY <3>4, ChunkEndType
    <3> HIDE DEF p, N
    <3>6. p .. N \subseteq 0 .. N
      BY <3>4 DEF p, N
    <3>7. c[k + 1] = ChunkEnd(text, p)
      BY <3>3 DEF p
    <3>8. c[k + 1] \in 0 .. N
      BY <3>5, <3>6, <3>7
    <3> QED BY <3>2, <3>8 DEF N
  <2>3. T = Nat
    <3> HIDE DEF T
    <3> QED BY <2>1, <2>2, SetInduction DEF T
  <2> QED BY <2>3
<1>8. c \in [Nat -> S]
  BY <1>6, <1>7
<1>9. c[0] = 0 /\ \A k \in Nat \ {0} : c[k] = ChunkEnd(text, c[k - 1])
  BY <1>6
<1> QED BY <1>8, <1>9 DEF c

LEMMA TextEventsType ==
  ASSUME NEW text \in Text
  PROVE  /\ TextEvents(text) \in Seq([kind : {"text_delta"}, text : Text])
         /\ Len(TextEvents(text)) = ChunkCount(text)
<1> DEFINE S == {k \in 1 .. Len(text) : Cuts(text)[k - 1] < Len(text)}
           n == ChunkCount(text)
           e(k) == TextDelta(SubSeq(text, Cuts(text)[k - 1] + 1, Cuts(text)[k]))
<1>1. Len(text) \in Nat
  BY DEF Text
<1>2. n \in Nat
  <2>1. IsFiniteSet(1 .. Len(text))
    BY <1>1, FS_Interval
  <2>2. IsFiniteSet(S)
    BY <2>1, FS_Subset
  <2> QED BY <2>2, FS_CardinalityType DEF ChunkCount
<1>3. ASSUME NEW k \in 1 .. n PROVE e(k) \in [kind : {"text_delta"}, text : Text]
  <2>1. k \in Nat /\ k - 1 \in Nat
    BY <1>2
  <2>2. Cuts(text)[k - 1] \in 0 .. Len(text) /\ Cuts(text)[k] \in 0 .. Len(text)
    BY <2>1, CutsType
  <2> DEFINE p == Cuts(text)[k - 1]
             q == Cuts(text)[k]
  <2>3. SubSeq(text, p + 1, q) \in Seq(Byte)
    <3> HIDE DEF p, q
    <3>1. p \in 0 .. Len(text) /\ q \in 0 .. Len(text)
      BY <2>2 DEF p, q
    <3>2. \A i \in p + 1 .. q : text[i] \in Byte
      BY <3>1, <1>1, ElementOfSeq DEF Text
    <3> QED BY <3>1, <3>2, <1>1, SubSeqProperties
  <2> QED BY <2>3 DEF TextDelta, Text
<1>4. TextEvents(text) = [k \in 1 .. n |-> e(k)]
  BY DEF TextEvents
<1> QED
  <2> HIDE DEF n, e
  <2>1. [k \in 1 .. n |-> e(k)] \in Seq([kind : {"text_delta"}, text : Text])
    BY <1>2, <1>3
  <2>2. Len([k \in 1 .. n |-> e(k)]) = n
    BY <1>2
  <2> QED BY <2>1, <2>2, <1>4 DEF n

\* A chunk is empty only after the last one, which ends the text; there are as
\* many chunks as TextEvents counts.
LEMMA CutsGrow ==
  ASSUME NEW text \in Text
  PROVE  /\ ChunkCount(text) \in Nat
         /\ Cuts(text)[ChunkCount(text)] = Len(text)
         /\ \A k \in Nat : Cuts(text)[k] \in 0 .. Cuts(text)[k + 1]
         /\ \A k \in 0 .. ChunkCount(text) - 1 : Cuts(text)[k] < Len(text)
<1> DEFINE N == Len(text)
           c == Cuts(text)
           counted == {k \in 1 .. N : c[k - 1] < N}
<1>1. N \in Nat
  BY DEF Text
<1>2. ChunkCount(text) = Cardinality(counted)
  BY DEF ChunkCount
<1>3. /\ \A k \in Nat : c[k] \in 0 .. N
      /\ c[0] = 0
      /\ \A k \in Nat \ {0} : c[k] = ChunkEnd(text, c[k - 1])
  BY CutsType
<1> HIDE DEF c
<1>4. ASSUME NEW k \in Nat
      PROVE  /\ c[k] \in 0 .. N /\ c[k + 1] \in c[k] .. N
             /\ c[k] < N => c[k] < c[k + 1]
  <2> DEFINE p == c[k]
             q == c[k + 1]
  <2>1. p \in 0 .. N
    BY <1>3
  <2>2. q = ChunkEnd(text, p)
    <3>1. k + 1 \in Nat \ {0} /\ (k + 1) - 1 = k
      OBVIOUS
    <3> QED BY <1>3, <3>1
  <2> HIDE DEF p, q
  <2>3. q \in p .. N /\ (p < N => p < q)
    BY <2>1, <2>2, ChunkEndType
  <2> QED BY <2>1, <2>3 DEF p, q
<1> HIDE DEF N
<1> DEFINE T == {k \in Nat : c[k] = N \/ k <= c[k]}
<1>5. T = Nat
  <2>1. 0 \in T
    BY <1>3
  <2>2. \A k \in T : k + 1 \in T
    BY <1>1, <1>4
  <2> HIDE DEF T
  <2> QED BY <2>1, <2>2, SetInduction DEF T
<1>6. c[N] = N
  <2>1. c[N] \in 0 .. N /\ (c[N] = N \/ N <= c[N])
    BY <1>1, <1>4, <1>5
  <2> QED BY <1>1, <2>1
<1> DEFINE short == {k \in Nat : \A j \in 0 .. k : c[j] < N}
<1>7. \E m \in 0 .. N : c[m] = N /\ \A j \in 0 .. m - 1 : c[j] < N
  <2>1. SUFFICES ASSUME \A m \in 0 .. N : c[m] = N => \E j \in 0 .. m - 1 : ~(c[j] < N)
                 PROVE  FALSE
    OBVIOUS
  <2> DEFINE U == {k \in Nat : k <= N => \A j \in 0 .. k : c[j] < N}
  <2>2. 0 \in U
    BY <1>1, <1>4, <2>1
  <2>3. \A k \in U : k + 1 \in U
    <3>1. SUFFICES ASSUME NEW k \in U, k + 1 <= N PROVE c[k + 1] < N
      BY <1>1
    <3>2. \A j \in 0 .. k : c[j] < N
      BY <1>1, <3>1
    <3>3. k + 1 \in 0 .. N /\ (k + 1) - 1 = k /\ c[k + 1] \in 0 .. N
      BY <1>1, <1>4, <3>1
    <3>4. c[k + 1] # N
      BY <2>1, <3>2, <3>3
    <3> QED BY <1>1, <3>3, <3>4
  <2>4. U = Nat
    <3> HIDE DEF U
    <3> QED BY <2>2, <2>3, SetInduction DEF U
  <2> QED BY <1>1, <1>6, <2>4
<1>8. PICK m \in 0 .. N : c[m] = N /\ \A j \in 0 .. m - 1 : c[j] < N
  BY <1>7
<1>9. \A i \in Nat : c[m + i] = N
  <2> DEFINE V == {i \in Nat : c[m + i] = N}
  <2>1. 0 \in V
    BY <1>1, <1>8
  <2>2. \A i \in V : i + 1 \in V
    <3>1. SUFFICES ASSUME NEW i \in V PROVE c[m + (i + 1)] = N
      OBVIOUS
    <3>2. m + i \in Nat /\ (m + i) + 1 = m + (i + 1) /\ c[m + i] = N
      BY <1>1
    <3>3. c[(m + i) + 1] \in N .. N
      BY <1>4, <3>2
    <3> QED BY <1>1, <3>2, <3>3
  <2>3. V = Nat
    <3> HIDE DEF V
    <3> QED BY <2>1, <2>2, SetInduction DEF V
  <2> QED BY <2>3
<1>10. counted = 1 .. m
  <2>1. ASSUME NEW k \in 1 .. m PROVE k \in 1 .. N /\ c[k - 1] < N
    BY <1>1, <1>8
  <2>2. ASSUME NEW k \in 1 .. N, c[k - 1] < N PROVE k \in 1 .. m
    <3>1. SUFFICES ASSUME k > m PROVE FALSE
      BY <1>1
    <3>2. (k - 1) - m \in Nat /\ m + ((k - 1) - m) = k - 1
      BY <1>1, <3>1
    <3>3. c[k - 1] = N
      BY <1>9, <3>2
    <3> QED BY <1>1, <2>2, <3>3
  <2> QED BY <2>1, <2>2
<1>11. ChunkCount(text) = m
  <2>1. m \in Nat /\ 1 \in Int /\ m \in Int
    BY <1>1
  <2>2. Cardinality(1 .. m) = m
    BY <2>1, FS_Interval
  <2> QED BY <1>2, <1>10, <2>2
<1>12. c[m] = N
  BY <1>8
<1>13. \A k \in Nat : c[k] \in 0 .. c[k + 1]
  BY <1>1, <1>4
<1>14. m \in Nat
  BY <1>1
<1>15. \A k \in 0 .. m - 1 : c[k] < N
  BY <1>8
<1> QED BY <1>11, <1>12, <1>13, <1>14, <1>15 DEF N, c

\* The chunks of a text are its parts, in order: joined, they are the text.
LEMMA ChunksJoin ==
  ASSUME NEW text \in Text
  PROVE  FlattenSeq([k \in 1 .. Len(TextEvents(text)) |-> TextEvents(text)[k].text]) = text
<1> DEFINE n == ChunkCount(text)
           c == Cuts(text)
           e == TextEvents(text)
           N == Len(text)
           q == [k \in 1 .. n |-> e[k].text]
           h == [k \in 0 .. n |-> SubSeq(text, 1, c[k])]
<1>1. N \in Nat /\ text \in Seq(Byte) /\ SubSeq(text, 1, N) = text
  BY SubSeqFull DEF Text
<1>2. /\ n \in Nat /\ c[n] = N
      /\ \A k \in Nat : c[k] \in 0 .. c[k + 1]
  BY CutsGrow
<1>3. c \in [Nat -> 0 .. N] /\ c[0] = 0
  BY CutsType
<1>4. Len(e) = n /\ \A k \in 1 .. n : e[k].text = SubSeq(text, c[k - 1] + 1, c[k])
  <2>1. \A x : TextDelta(x).text = x
    BY DEF TextDelta
  <2>2. e = [k \in 1 .. n |-> TextDelta(SubSeq(text, c[k - 1] + 1, c[k]))]
    BY DEF TextEvents
  <2> HIDE DEF e, n
  <2>3. Len(e) = n
    BY <1>2, <2>2
  <2> QED BY <2>1, <2>2, <2>3
<1>5. \A k \in 1 .. n : e[k].text \in Seq(Byte)
  <2>1. \A k \in 1 .. n : e[k] \in [kind : {"text_delta"}, text : Text]
    BY <1>4, TextEventsType, ElementOfSeq
  <2> HIDE DEF e, n
  <2> QED BY <2>1 DEF Text
<1> HIDE DEF n, c, e, N
<1>6. q \in Seq(Seq(Byte)) /\ Len(q) = n
  BY <1>2, <1>5
<1>7. \A k \in Nat : c[k] \in 0 .. N
  BY <1>3
<1>8. ASSUME NEW to \in 0 .. N PROVE SubSeq(text, 1, to) \in Seq(Byte)
  <2>1. \A i \in 1 .. to : text[i] \in Byte
    BY <1>1, ElementOfSeq DEF N
  <2>2. 1 \in Int /\ to \in Int
    BY <1>1
  <2> QED BY <2>1, <2>2, SubSeqProperties
<1>9. \A k \in 0 .. n : k \in Nat /\ h[k] = SubSeq(text, 1, c[k])
  <2>1. 0 .. n \subseteq Nat
    BY <1>2
  <2> QED BY <2>1
<1>10. h[0] = << >>
  <2>1. SubSeq(text, 1, 0) = << >>
    BY SubSeqEmpty
  <2>2. 0 \in 0 .. n
    BY <1>2
  <2> HIDE DEF h
  <2> QED BY <1>3, <1>9, <2>1, <2>2
<1>11. h \in [0 .. n -> Seq(Byte)]
  BY <1>7, <1>8, <1>9
<1>12. ASSUME NEW k \in 1 .. n PROVE h[k] = h[k - 1] \o q[k]
  <2> DEFINE from == c[k - 1]
             to   == c[k]
  <2>1. k - 1 \in Nat /\ k \in Nat /\ (k - 1) + 1 = k /\ k \in 0 .. n /\ k - 1 \in 0 .. n
    BY <1>2
  <2>2. from \in 0 .. to /\ to \in 0 .. N
    BY <1>2, <1>7, <2>1
  <2>3. q[k] = SubSeq(text, from + 1, to)
    BY <1>4
  <2>4. h[k] = SubSeq(text, 1, to) /\ h[k - 1] = SubSeq(text, 1, from)
    <3> HIDE DEF h
    <3> QED BY <1>9, <2>1
  <2> HIDE DEF from, to, h, q
  <2>5. 1 \in 1 .. N + 1 /\ from \in 1 - 1 .. N /\ to \in from .. N
    BY <1>1, <2>2
  <2>6. SubSeq(text, 1, from) \o SubSeq(text, from + 1, to) = SubSeq(text, 1, to)
    BY <1>1, <2>5, ConcatAdjacentSubSeq DEF N
  <2> QED BY <2>3, <2>4, <2>6
<1>13. h[n] = text
  <2>1. n \in 0 .. n
    BY <1>2
  <2> HIDE DEF h
  <2> QED BY <1>1, <1>2, <1>9, <2>1
<1> HIDE DEF h, q
<1>14. Joins(h, q, Byte)
  BY <1>6, <1>10, <1>11, <1>12 DEF Joins
<1>15. FlattenSeq(q) = text
  BY <1>6, <1>13, <1>14, FlattenJoins
<1> QED BY <1>4, <1>15 DEF q, e

-----------------------------------------------------------------------------
(* The scan of a completed response.                                        *)

TextDeltas == [kind : {"text_delta"}, text : Text]
ToolCalls  == [kind : {"tool_call"}, id : CallIDs, name : ToolNames]
ScanState  == [ok : BOOLEAN, text : Text, calls : Seq(ToolCalls), seen : SUBSET CallIDs]

LEMMA ScanItemType ==
  ASSUME NEW scan \in ScanState, NEW item \in OutputItem
  PROVE  ScanItem(scan, item) \in ScanState
<1>1. [scan EXCEPT !.ok = FALSE] \in ScanState
  BY DEF ScanState
<1>2. CASE item.type = "message" /\ item.supported
  <2>1. item.text \in Text
    BY <1>2 DEF OutputItem, MessageItem, CallItem, PlainItem
  <2>2. scan.text \o item.text \in Text
    BY <2>1 DEF ScanState, Text
  <2>3. ScanItem(scan, item) = [scan EXCEPT !.text = @ \o item.text]
    BY <1>2 DEF ScanItem
  <2> QED BY <2>2, <2>3 DEF ScanState
<1>3. CASE item.type = "function_call" /\ AcceptsCall(scan, item)
  <2>1. item.id \in CallIDs /\ item.name \in ToolNames
    BY <1>3 DEF OutputItem, MessageItem, CallItem, PlainItem
  <2>2. ToolCall(item) \in ToolCalls
    BY <2>1 DEF ToolCall, ToolCalls
  <2>3. Append(scan.calls, ToolCall(item)) \in Seq(ToolCalls)
    BY <2>2 DEF ScanState
  <2>4. scan.seen \cup {item.id} \in SUBSET CallIDs
    BY <2>1 DEF ScanState
  <2>5. ScanItem(scan, item) =
          [scan EXCEPT !.calls = Append(@, ToolCall(item)), !.seen = @ \cup {item.id}]
    BY <1>3 DEF ScanItem
  <2> QED BY <2>3, <2>4, <2>5 DEF ScanState
<1>4. CASE item.type = "reasoning"
  BY <1>4 DEF ScanItem
<1>5. CASE /\ ~(item.type = "message" /\ item.supported)
           /\ ~(item.type = "function_call" /\ AcceptsCall(scan, item))
           /\ item.type # "reasoning"
  <2>1. ScanItem(scan, item) = [scan EXCEPT !.ok = FALSE]
    BY <1>5 DEF ScanItem
  <2> QED BY <2>1, <1>1
<1> QED BY <1>2, <1>3, <1>4, <1>5

\* The calls accepted while a response is scanned: not too many, of declared
\* tools, each with an ID of its own, which the accumulator records.
CallsAccepted(scan) ==
  /\ Len(scan.calls) <= MaxCalls
  /\ \A i \in 1 .. Len(scan.calls) :
       scan.calls[i].name \in AllowedTools /\ scan.calls[i].id \in scan.seen
  /\ \A i, j \in 1 .. Len(scan.calls) : scan.calls[i].id = scan.calls[j].id => i = j

AcceptedScan == {scan \in ScanState : CallsAccepted(scan)}

LEMMA ScanItemAccepts ==
  ASSUME NEW scan \in AcceptedScan, NEW item \in OutputItem
  PROVE  ScanItem(scan, item) \in AcceptedScan
<1>1. scan \in ScanState /\ CallsAccepted(scan) /\ ScanItem(scan, item) \in ScanState
  BY ScanItemType DEF AcceptedScan
<1>2. ASSUME NEW after \in ScanState, after.calls = scan.calls, after.seen = scan.seen
      PROVE  CallsAccepted(after)
  BY <1>1, <1>2 DEF CallsAccepted
<1>3. CASE item.type = "function_call" /\ AcceptsCall(scan, item)
  <2> DEFINE call  == ToolCall(item)
             calls == scan.calls
             after == ScanItem(scan, item)
  <2>1. after = [scan EXCEPT !.calls = Append(@, ToolCall(item)), !.seen = @ \cup {item.id}]
    BY <1>3 DEF ScanItem
  <2>2. /\ after.calls = Append(calls, call) /\ after.seen = scan.seen \cup {item.id}
    BY <1>1, <2>1 DEF ScanState
  <2>3. call.id = item.id /\ call.name = item.name /\ call \in ToolCalls
    <3>1. item.id \in CallIDs /\ item.name \in ToolNames
      BY <1>3 DEF OutputItem, MessageItem, CallItem, PlainItem
    <3> QED BY <3>1 DEF ToolCall, ToolCalls
  <2>4. Len(calls) < MaxCalls /\ item.name \in AllowedTools /\ item.id \notin scan.seen
    BY <1>3 DEF AcceptsCall
  <2>5. calls \in Seq(ToolCalls) /\ Len(calls) \in Nat
    BY <1>1 DEF ScanState
  <2>6. /\ \A i \in 1 .. Len(calls) : calls[i].name \in AllowedTools /\ calls[i].id \in scan.seen
        /\ \A i, j \in 1 .. Len(calls) : calls[i].id = calls[j].id => i = j
    BY <1>1 DEF CallsAccepted
  <2> HIDE DEF call, calls, after
  <2>7. /\ Len(Append(calls, call)) = Len(calls) + 1
        /\ \A i \in 1 .. Len(calls) : Append(calls, call)[i] = calls[i]
        /\ Append(calls, call)[Len(calls) + 1] = call
    BY <2>3, <2>5, AppendProperties
  <2>8. Len(after.calls) <= MaxCalls
    BY <2>2, <2>4, <2>5, <2>7, LimitsAssumption
  <2>9. \A i \in 1 .. Len(after.calls) : i \in 1 .. Len(calls) \/ i = Len(calls) + 1
    BY <2>2, <2>5, <2>7
  <2>10. ASSUME NEW i \in 1 .. Len(after.calls)
         PROVE  after.calls[i].name \in AllowedTools /\ after.calls[i].id \in after.seen
    BY <2>2, <2>3, <2>4, <2>6, <2>7, <2>9
  <2>11. ASSUME NEW i \in 1 .. Len(after.calls), NEW j \in 1 .. Len(after.calls),
                after.calls[i].id = after.calls[j].id
         PROVE  i = j
    <3>1. CASE i \in 1 .. Len(calls) /\ j \in 1 .. Len(calls)
      BY <3>1, <2>2, <2>6, <2>7, <2>11
    <3>2. CASE i \in 1 .. Len(calls) /\ j = Len(calls) + 1
      BY <3>2, <2>2, <2>3, <2>4, <2>6, <2>7, <2>11
    <3>3. CASE i = Len(calls) + 1 /\ j \in 1 .. Len(calls)
      BY <3>3, <2>2, <2>3, <2>4, <2>6, <2>7, <2>11
    <3> QED BY <2>9, <3>1, <3>2, <3>3
  <2> QED BY <1>1, <2>8, <2>10, <2>11 DEF AcceptedScan, CallsAccepted, after
<1>4. CASE ~(item.type = "function_call" /\ AcceptsCall(scan, item))
  <2>1. /\ ScanItem(scan, item).calls = scan.calls
        /\ ScanItem(scan, item).seen = scan.seen
    BY <1>1, <1>4 DEF ScanItem, ScanState
  <2> QED BY <1>1, <1>2, <2>1 DEF AcceptedScan
<1> QED BY <1>3, <1>4

ScanStart(seen) == [ok |-> TRUE, text |-> << >>, calls |-> << >>, seen |-> seen]

\* The states of the scan, after each of the items.
ScanStates(s, output, seen) ==
  /\ \A n \in 0 .. Len(output) : s[n] \in AcceptedScan
  /\ s[0] = ScanStart(seen)
  /\ \A n \in 1 .. Len(output) :
       s[n] = IF s[n - 1].ok THEN ScanItem(s[n - 1], output[n]) ELSE s[n - 1]

LEMMA ScanUnfolds ==
  ASSUME NEW output \in Seq(OutputItem), NEW seen \in SUBSET CallIDs
  PROVE  \E s : ScanStates(s, output, seen) /\ Scan(output, seen) = s[Len(output)]
<1> DEFINE N == Len(output)
           start == ScanStart(seen)
           StepOf(n, before) ==
             IF before.ok THEN ScanItem(before, output[n]) ELSE before
           F == [n \in Nat |-> [before \in AcceptedScan |->
                   IF n \in 1 .. N THEN StepOf(n, before) ELSE before]]
           Body(f) == [n \in 0 .. N |-> IF n = 0 THEN start ELSE StepOf(n, f[n - 1])]
<1>1. N \in Nat
  OBVIOUS
<1>2. start \in AcceptedScan
  <2>1. << >> \in Text /\ << >> \in Seq(ToolCalls)
    BY EmptySeq DEF Text
  <2> QED BY <2>1, LimitsAssumption DEF AcceptedScan, CallsAccepted, ScanState, ScanStart
<1>3. \A n \in 1 .. N, before \in AcceptedScan : StepOf(n, before) \in AcceptedScan
  BY ScanItemAccepts, ElementOfSeq
<1>4. F \in [Nat -> [AcceptedScan -> AcceptedScan]]
  <2> HIDE DEF StepOf
  <2> QED BY <1>3
<1>5. PICK g : IsIteration(g, F, AcceptedScan, start)
  <2> HIDE DEF F, start
  <2> QED BY <1>2, <1>4, IterationExists
<1> DEFINE h == [n \in 0 .. N |-> g[n]]
<1>6. h = Body(h)
  <2> HIDE DEF StepOf, start
  <2>1. ASSUME NEW n \in 1 .. N PROVE g[n] = StepOf(n, g[n - 1])
    <3>1. n \in Nat \ {0} /\ n - 1 \in Nat
      OBVIOUS
    <3>2. g[n - 1] \in AcceptedScan /\ g[n] = F[n][g[n - 1]]
      <4> HIDE DEF F
      <4> QED BY <3>1, <1>5 DEF IsIteration
    <3> QED BY <3>1, <3>2
  <2>2. g[0] = start
    BY <1>5 DEF IsIteration
  <2> QED BY <2>1, <2>2
<1> DEFINE s == CHOOSE f : f = Body(f)
<1>7. s = Body(s)
  <2> HIDE DEF Body, h
  <2> QED BY <1>6
<1>8. Scan(output, seen) = s[N]
  BY DEF Scan, ScanStart
<1> HIDE DEF s, StepOf
<1>8a. \A n \in 0 .. N : s[n] = IF n = 0 THEN start ELSE StepOf(n, s[n - 1])
  BY <1>7
<1> HIDE DEF start, Body
<1>9. \A n \in 0 .. N : s[n] \in AcceptedScan
  <2> DEFINE T == {n \in Nat : n <= N => s[n] \in AcceptedScan}
  <2>1. 0 \in T
    BY <1>1, <1>2, <1>8a
  <2>2. \A n \in T : n + 1 \in T
    <3>1. SUFFICES ASSUME NEW n \in T, n + 1 <= N PROVE s[n + 1] \in AcceptedScan
      OBVIOUS
    <3>2. n + 1 \in 1 .. N /\ n + 1 \in 0 .. N /\ (n + 1) - 1 = n /\ s[n] \in AcceptedScan
      BY <3>1
    <3>3. s[n + 1] = StepOf(n + 1, s[n])
      <4> HIDE DEF T
      <4> QED BY <1>8a, <3>2
    <3> QED BY <1>3, <3>2, <3>3
  <2>3. T = Nat
    <3> HIDE DEF T
    <3> QED BY <2>1, <2>2, SetInduction DEF T
  <2> QED BY <2>3
<1>10. \A n \in 1 .. N : s[n] = StepOf(n, s[n - 1])
  <2>1. \A n \in 1 .. N : n \in 0 .. N /\ n # 0
    BY <1>1
  <2> QED BY <1>8a, <2>1
<1>11. s[0] = start
  BY <1>1, <1>8a
<1>12. ScanStates(s, output, seen)
  BY <1>9, <1>10, <1>11 DEF ScanStates, StepOf, start
<1> QED BY <1>8, <1>12

LEMMA ScanAccepts ==
  ASSUME NEW output \in Seq(OutputItem), NEW seen \in SUBSET CallIDs
  PROVE  Scan(output, seen) \in AcceptedScan
<1>1. PICK s : ScanStates(s, output, seen) /\ Scan(output, seen) = s[Len(output)]
  BY ScanUnfolds
<1>2. Len(output) \in 0 .. Len(output)
  BY LenProperties
<1> QED BY <1>1, <1>2 DEF ScanStates

LEMMA ScanType ==
  ASSUME NEW output \in Seq(OutputItem), NEW seen \in SUBSET CallIDs
  PROVE  Scan(output, seen) \in ScanState
BY ScanAccepts DEF AcceptedScan

-----------------------------------------------------------------------------
(* translate.                                                               *)

Outcome == [ok : BOOLEAN, terminal : BOOLEAN, events : Seq(StreamEvent), acc : Accumulator]

\* A rejected event yields nothing; an event that ends the stream yields events
\* of which the last, and only the last, is terminal; any other yields none.
WellShaped(out) ==
  /\ ~out.ok => out.events = << >> /\ ~out.terminal
  /\ \A i \in 1 .. Len(out.events) :
       IsTerminal(out.events[i]) <=> out.terminal /\ i = Len(out.events)
  /\ out.terminal => out.events # << >>

LEMMA RejectFacts ==
  ASSUME NEW given \in Accumulator
  PROVE  Reject(given) \in Outcome /\ WellShaped(Reject(given))
<1>1. << >> \in Seq(StreamEvent) /\ Len(<< >>) = 0
  BY EmptySeq
<1> QED BY <1>1 DEF Reject, Outcome, WellShaped

LEMMA TextEventsFacts ==
  ASSUME NEW text \in Text
  PROVE  /\ TextEvents(text) \in Seq(StreamEvent)
         /\ \A i \in 1 .. Len(TextEvents(text)) :
              ~IsTerminal(TextEvents(text)[i]) /\ TextEvents(text)[i].kind = "text_delta"
<1> DEFINE e == TextEvents(text)
<1>1. e \in Seq(TextDeltas)
  BY TextEventsType DEF TextDeltas
<1>2. TextDeltas \subseteq StreamEvent
  BY DEF TextDeltas, StreamEvent
<1>3. \A d \in TextDeltas : ~IsTerminal(d) /\ d.kind = "text_delta"
  BY DEF TextDeltas, IsTerminal
<1> HIDE DEF e
<1>4. e \in Seq(StreamEvent)
  BY <1>1, <1>2, SeqMonotonic
<1>5. \A i \in 1 .. Len(e) : ~IsTerminal(e[i]) /\ e[i].kind = "text_delta"
  <2>1. \A i \in 1 .. Len(e) : e[i] \in TextDeltas
    BY <1>1, ElementOfSeq
  <2> QED BY <2>1, <1>3
<1> QED BY <1>4, <1>5 DEF e

LEMMA TranslateTextFacts ==
  ASSUME NEW text \in Text, NEW given \in Accumulator
  PROVE  TranslateText(text, given) \in Outcome /\ WellShaped(TranslateText(text, given))
<1>1. CASE text = << >> \/ Len(given.text) + Len(text) > MaxText
  BY <1>1, RejectFacts DEF TranslateText
<1>2. CASE ~(text = << >> \/ Len(given.text) + Len(text) > MaxText)
  <2>1. given.text \o text \in Text
    BY DEF Accumulator, Text
  <2> DEFINE after == [given EXCEPT !.text = @ \o text]
  <2>2. after \in Accumulator
    BY <2>1 DEF Accumulator
  <2>3. TranslateText(text, given) = Accept(TextEvents(text), FALSE, after)
    BY <1>2 DEF TranslateText
  <2> HIDE DEF after
  <2> DEFINE out == TranslateText(text, given)
  <2>4. /\ out = [ok |-> TRUE, terminal |-> FALSE, events |-> TextEvents(text), acc |-> after]
        /\ out.ok /\ ~out.terminal /\ out.events = TextEvents(text)
    BY <2>3 DEF Accept
  <2> HIDE DEF out
  <2>5. out \in Outcome
    BY <2>2, <2>4, TextEventsFacts DEF Outcome
  <2>6. WellShaped(out)
    BY <2>4, TextEventsFacts DEF WellShaped
  <2> QED BY <2>5, <2>6 DEF out
<1> QED BY <1>1, <1>2

\* The events of an accepted completion: deltas, calls, and the completed event.
LEMMA CompletionEventsFacts ==
  ASSUME NEW d \in Seq(StreamEvent), NEW c \in Seq(ToolCalls), NEW use \in Int,
         \A i \in 1 .. Len(d) : ~IsTerminal(d[i])
  PROVE  LET e == d \o c \o <<Completed(use)>>
         IN  /\ e \in Seq(StreamEvent)
             /\ e # << >>
             /\ \A i \in 1 .. Len(e) : IsTerminal(e[i]) <=> i = Len(e)
<1>1. ToolCalls \subseteq StreamEvent
  BY DEF ToolCalls, StreamEvent
<1>2. c \in Seq(StreamEvent)
  BY <1>1, SeqMonotonic
<1>3. \A i \in 1 .. Len(c) : ~IsTerminal(c[i])
  <2>1. \A i \in 1 .. Len(c) : c[i] \in ToolCalls
    BY ElementOfSeq
  <2>2. \A call \in ToolCalls : ~IsTerminal(call)
    BY DEF ToolCalls, IsTerminal
  <2> QED BY <2>1, <2>2
<1>4. Completed(use) \in StreamEvent /\ IsTerminal(Completed(use))
  BY DEF Completed, StreamEvent, IsTerminal
<1> DEFINE m == d \o c
           t == Completed(use)
           e == m \o <<t>>
<1>5. /\ m \in Seq(StreamEvent)
      /\ \A i \in 1 .. Len(m) : ~IsTerminal(m[i])
  BY <1>2, <1>3, ConcatProperties
<1> HIDE DEF m, t
<1>6. <<t>> \in Seq(StreamEvent) /\ Len(<<t>>) = 1 /\ <<t>>[1] = t
  BY <1>4 DEF t
<1>7. /\ e \in Seq(StreamEvent)
      /\ Len(e) = Len(m) + 1
      /\ \A i \in 1 .. Len(m) + 1 : e[i] = IF i <= Len(m) THEN m[i] ELSE t
  BY <1>5, <1>6, ConcatProperties
<1>8. e # << >>
  BY <1>5, <1>7
<1>9. \A i \in 1 .. Len(e) : IsTerminal(e[i]) <=> i = Len(e)
  BY <1>4, <1>5, <1>7 DEF t
<1> QED BY <1>7, <1>8, <1>9 DEF m, t

\* What a final text adds to the text already streamed is a text.
LEMMA MissingType ==
  ASSUME NEW p \in Text, NEW q \in Text
  PROVE  SubSeq(q, Len(p) + 1, Len(q)) \in Text
<1>1. p \in Seq(Byte) /\ q \in Seq(Byte)
  BY DEF Text
<1>2. \A i \in Len(p) + 1 .. Len(q) : q[i] \in Byte
  BY <1>1, ElementOfSeq
<1>3. SubSeq(q, Len(p) + 1, Len(q)) \in Seq(Byte)
  BY <1>1, <1>2, SubSeqProperties
<1> QED BY <1>3 DEF Text

LEMMA TranslateCompletedFacts ==
  ASSUME NEW output \in Seq(OutputItem), NEW use \in Int, NEW given \in Accumulator
  PROVE  /\ TranslateCompleted(output, use, given) \in Outcome
         /\ WellShaped(TranslateCompleted(output, use, given))
<1> DEFINE scan    == Scan(output, given.seen)
           missing == SubSeq(scan.text, Len(given.text) + 1, Len(scan.text))
           scanned == [given EXCEPT !.seen = scan.seen]
           merged  == [scanned EXCEPT !.text = scan.text]
           events  == TextEvents(missing) \o scan.calls \o <<Completed(use)>>
           out     == TranslateCompleted(output, use, given)
<1>1. scan \in ScanState
  BY ScanType DEF Accumulator
<1> HIDE DEF scan
<1>2. scanned \in Accumulator /\ merged \in Accumulator
  BY <1>1 DEF Accumulator, ScanState
<1>3. missing \in Text
  BY <1>1, MissingType DEF Accumulator, ScanState
<1> HIDE DEF missing
<1>4. /\ events \in Seq(StreamEvent)
      /\ events # << >>
      /\ \A i \in 1 .. Len(events) : IsTerminal(events[i]) <=> i = Len(events)
  <2>1. scan.calls \in Seq(ToolCalls)
    BY <1>1 DEF ScanState
  <2> QED BY <2>1, <1>3, TextEventsFacts, CompletionEventsFacts
<1> HIDE DEF events, scanned, merged
<1>5. \/ out = Reject(given) \/ out = Reject(scanned) \/ out = Reject(merged)
      \/ out = Accept(events, TRUE, merged)
  BY DEF TranslateCompleted, scan, missing, scanned, merged, events
<1>6. CASE out = Reject(given) \/ out = Reject(scanned) \/ out = Reject(merged)
  BY <1>6, <1>2, RejectFacts
<1>7. CASE out = Accept(events, TRUE, merged)
  <2>1. out = [ok |-> TRUE, terminal |-> TRUE, events |-> events, acc |-> merged]
    BY <1>7 DEF Accept
  <2> HIDE DEF out
  <2>2. out \in Outcome
    BY <2>1, <1>2, <1>4 DEF Outcome
  <2>3. out.ok /\ out.terminal /\ out.events = events
    BY <2>1
  <2>4. WellShaped(out)
    BY <2>3, <1>4 DEF WellShaped
  <2> QED BY <2>2, <2>4 DEF out
<1> QED BY <1>5, <1>6, <1>7

LEMMA RawEventFields ==
  ASSUME NEW event \in RawEvent
  PROVE  /\ event.type = "delta" => event.text \in Text
         /\ event.type = "completed" => event.output \in Seq(OutputItem) /\ event.usage \in Int
         /\ event.type \in {"delta", "completed", "failed", "incomplete", "error", "ignored", ""}
<1>1. CASE event \in DeltaRaw
  BY <1>1 DEF DeltaRaw
<1>2. CASE event \in CompletedRaw
  BY <1>2 DEF CompletedRaw
<1>3. CASE event \in FailedRaw
  BY <1>3 DEF FailedRaw
<1>4. CASE event \in IgnoredRaw
  BY <1>4 DEF IgnoredRaw
<1>5. CASE event = Untyped
  BY <1>5 DEF Untyped
<1> QED BY <1>1, <1>2, <1>3, <1>4, <1>5 DEF RawEvent

\* Whatever raw event arrives, its translation is typed and well shaped.
THEOREM TranslateFacts ==
  ASSUME NEW event \in RawEvent, NEW given \in Accumulator
  PROVE  Translate(event, given) \in Outcome /\ WellShaped(Translate(event, given))
<1>1. CASE event.type = "delta"
  <2>1. event.text \in Text
    BY <1>1, RawEventFields
  <2> QED BY <2>1, <1>1, TranslateTextFacts DEF Translate
<1>2. CASE event.type = "completed"
  <2>1. event.output \in Seq(OutputItem) /\ event.usage \in Int
    BY <1>2, RawEventFields
  <2> QED BY <2>1, <1>2, TranslateCompletedFacts DEF Translate
<1>3. ASSUME NEW code \in FailureCodes
      PROVE  /\ Accept(<<Failed(code)>>, TRUE, given) \in Outcome
             /\ WellShaped(Accept(<<Failed(code)>>, TRUE, given))
  <2> DEFINE f == Failed(code)
             out == Accept(<<f>>, TRUE, given)
  <2>1. f \in StreamEvent /\ IsTerminal(f)
    BY DEF Failed, StreamEvent, IsTerminal
  <2> HIDE DEF f
  <2>2. <<f>> \in Seq(StreamEvent) /\ Len(<<f>>) = 1 /\ <<f>>[1] = f /\ <<f>> # << >>
    BY <2>1
  <2>3. out = [ok |-> TRUE, terminal |-> TRUE, events |-> <<f>>, acc |-> given]
    BY DEF Accept
  <2> HIDE DEF out
  <2>4. out \in Outcome
    BY <2>2, <2>3 DEF Outcome
  <2>5. WellShaped(out)
    BY <2>1, <2>2, <2>3 DEF WellShaped
  <2> QED BY <2>4, <2>5 DEF f, out
<1>4. CASE event.type = "incomplete"
  BY <1>3, <1>4 DEF Translate, FailureCodes
<1>5. CASE event.type \in {"failed", "error"}
  <2>1. SafeCode(event.code) \in FailureCodes
    BY DEF SafeCode, FailureCodes
  <2> QED BY <2>1, <1>3, <1>5 DEF Translate
<1>6. CASE event.type \in {"ignored", ""}
  <2>1. << >> \in Seq(StreamEvent) /\ Len(<< >>) = 0
    BY EmptySeq
  <2>2. Translate(event, given) = Accept(<< >>, FALSE, given)
    BY <1>6 DEF Translate
  <2> QED BY <2>1, <2>2 DEF Accept, Outcome, WellShaped
<1> QED BY <1>1, <1>2, <1>4, <1>5, <1>6, RawEventFields

-----------------------------------------------------------------------------
(* Characters.                                                             *)

\* The sizes that first bytes announce.
Sizes == [Byte \ Continuation -> 1 .. ChunkBytes]

LEMMA SizeFacts ==
  ASSUME NEW size \in Sizes, NEW text \in Text, NEW i \in 1 .. Len(text), text[i] \notin Continuation
  PROVE  size[text[i]] \in 1 .. ChunkBytes
<1>1. text[i] \in Byte
  BY ElementOfSeq DEF Text
<1>2. text[i] \in Byte \ Continuation
  BY <1>1
<1> QED BY <1>2 DEF Sizes

\* Whole texts joined are a whole text.
LEMMA WholeConcat ==
  ASSUME NEW size \in Sizes, NEW p \in Text, NEW q \in Text, WholeText(p, size), WholeText(q, size)
  PROVE  WholeText(p \o q, size)
<1> DEFINE r == p \o q
           m == Len(p)
           n == Len(q)
<1>1. /\ m \in Nat /\ n \in Nat /\ r \in Text /\ Len(r) = m + n
      /\ \A i \in 1 .. m + n : r[i] = IF i <= m THEN p[i] ELSE q[i - m]
  BY ConcatProperties, LenProperties DEF Text
<1> HIDE DEF r
<1>2. ASSUME NEW j \in Nat, CharacterAt(q, j) PROVE CharacterAt(r, m + j)
  <2>1. CASE j = n + 1
    BY <1>1, <2>1 DEF CharacterAt
  <2>2. CASE j \in 1 .. n /\ q[j] \notin Continuation
    <3>1. m + j \in 1 .. m + n /\ ~(m + j <= m) /\ (m + j) - m = j
      BY <1>1, <2>2
    <3>2. r[m + j] = q[j]
      BY <1>1, <3>1
    <3> QED BY <1>1, <2>2, <3>1, <3>2 DEF CharacterAt
  <2> QED BY <1>2, <2>1, <2>2 DEF CharacterAt
<1>3. CharacterAt(r, m + 1)
  BY <1>2 DEF WholeText
<1>4. ASSUME NEW j \in Nat, CharacterAt(p, j) PROVE CharacterAt(r, j)
  <2>1. CASE j = m + 1
    BY <1>3, <2>1
  <2>2. CASE j \in 1 .. m /\ p[j] \notin Continuation
    <3>1. j \in 1 .. m + n /\ j <= m
      BY <1>1, <2>2
    <3>2. r[j] = p[j]
      BY <1>1, <3>1
    <3> QED BY <1>1, <2>2, <3>1, <3>2 DEF CharacterAt
  <2> QED BY <1>4, <2>1, <2>2 DEF CharacterAt
<1>5. CharacterAt(r, 1)
  BY <1>4 DEF WholeText
<1>6. ASSUME NEW i \in 1 .. Len(r), r[i] \notin Continuation
      PROVE  CharacterAt(r, i + size[r[i]])
  <2>1. CASE i <= m
    <3>1. i \in 1 .. m /\ r[i] = p[i]
      BY <1>1, <2>1
    <3> DEFINE j == i + size[p[i]]
    <3>2. CharacterAt(p, j)
      BY <1>6, <3>1 DEF WholeText
    <3>3. j \in Nat
      BY <1>1, <1>6, <3>1, SizeFacts, LimitsAssumption
    <3> HIDE DEF j
    <3>4. CharacterAt(r, j)
      BY <1>4, <3>2, <3>3
    <3> QED BY <3>1, <3>4 DEF j
  <2>2. CASE i > m
    <3> DEFINE k == i - m
               j == k + size[q[k]]
    <3>1. k \in 1 .. n /\ r[i] = q[k]
      BY <1>1, <2>2
    <3> HIDE DEF k
    <3>2. CharacterAt(q, j)
      BY <1>6, <3>1 DEF WholeText
    <3>3. size[q[k]] \in Nat
      BY <1>6, <3>1, SizeFacts, LimitsAssumption
    <3>4. j \in Nat /\ m + j = i + size[q[k]]
      BY <1>1, <3>1, <3>3 DEF k
    <3> HIDE DEF j
    <3>5. CharacterAt(r, m + j)
      BY <1>2, <3>2, <3>4
    <3> QED BY <3>1, <3>4, <3>5
  <2> QED BY <1>1, <2>1, <2>2
<1>7. WholeText(r, size)
  BY <1>5, <1>6 DEF WholeText
<1> QED BY <1>7 DEF r

\* The character a byte belongs to begins in the text.
LEMMA LastBegins ==
  ASSUME NEW p \in Text, p # << >>, CharacterAt(p, 1)
  PROVE  \E i \in 1 .. Len(p) :
           /\ p[i] \notin Continuation
           /\ \A j \in i + 1 .. Len(p) : p[j] \in Continuation
<1> DEFINE n == Len(p)
           LastOf(k, i) == p[i] \notin Continuation /\ \A j \in i + 1 .. k : p[j] \in Continuation
           T == {k \in Nat : k + 1 <= n => \E i \in 1 .. k + 1 : LastOf(k + 1, i)}
<1>1. n \in Nat \ {0}
  BY LenProperties, EmptySeq DEF Text
<1>2. p[1] \notin Continuation
  BY <1>1 DEF CharacterAt
<1>3. 0 \in T
  <2>1. LastOf(0 + 1, 1) /\ 1 \in 1 .. 0 + 1
    BY <1>2
  <2> HIDE DEF LastOf
  <2> QED BY <2>1
<1>4. ASSUME NEW k \in T PROVE k + 1 \in T
  <2>1. SUFFICES ASSUME k + 2 <= n PROVE \E i \in 1 .. k + 2 : LastOf(k + 2, i)
    <3> HIDE DEF LastOf
    <3>1. (k + 1) + 1 = k + 2 /\ k + 1 \in Nat
      OBVIOUS
    <3> QED BY <1>1, <3>1
  <2>2. PICK i \in 1 .. k + 1 : LastOf(k + 1, i)
    <3> HIDE DEF LastOf
    <3> QED BY <1>1, <2>1
  <2>3. CASE p[k + 2] \in Continuation
    <3>1. \A j \in i + 1 .. k + 2 : p[j] \in Continuation
      BY <2>2, <2>3
    <3>2. LastOf(k + 2, i) /\ i \in 1 .. k + 2
      BY <2>2, <3>1
    <3> QED BY <3>2
  <2>4. CASE p[k + 2] \notin Continuation
    <3>1. LastOf(k + 2, k + 2) /\ k + 2 \in 1 .. k + 2
      BY <2>4
    <3> QED BY <3>1
  <2> QED BY <2>3, <2>4
<1>5. T = Nat
  <2> HIDE DEF T
  <2> QED BY <1>3, <1>4, SetInduction DEF T
<1> HIDE DEF LastOf
<1>6. n - 1 \in Nat /\ (n - 1) + 1 = n
  BY <1>1
<1>6a. n - 1 \in T
  <2> HIDE DEF T, n
  <2> QED BY <1>5, <1>6
<1>7. \E i \in 1 .. n : LastOf(n, i)
  BY <1>1, <1>6, <1>6a
<1> QED BY <1>7 DEF LastOf

\* What a whole text adds to a whole prefix of it is whole: the last character of
\* the prefix ends where the prefix does, in both.
LEMMA WholeSuffix ==
  ASSUME NEW size \in Sizes, NEW p \in Text, NEW q \in Text, WholeText(p, size), WholeText(q, size),
         IsTextPrefix(p, q)
  PROVE  WholeText(SubSeq(q, Len(p) + 1, Len(q)), size)
<1> DEFINE m == Len(p)
           n == Len(q)
           r == SubSeq(q, m + 1, n)
<1>1. m \in Nat /\ n \in Nat /\ m <= n
  BY LenProperties DEF Text, IsTextPrefix
<1>2. r \in Text
  BY MissingType
<1>3. Len(r) = n - m /\ \A i \in 1 .. n - m : r[i] = q[m + i]
  <2>1. q \in Seq(Byte) /\ \A i \in m + 1 .. n : q[i] \in Byte
    BY <1>1, ElementOfSeq DEF Text
  <2> QED BY <1>1, <2>1 DEF Text
<1>4. \A i \in 1 .. m : q[i] = p[i]
  <2>1. p = SubSeq(q, 1, m)
    BY DEF IsTextPrefix
  <2> QED BY <1>1, <2>1 DEF Text
<1> HIDE DEF r
<1>5. CharacterAt(q, m + 1)
  <2>1. CASE p = << >>
    <3>1. m = 0
      BY <2>1, EmptySeq
    <3> QED BY <3>1 DEF WholeText
  <2>2. CASE p # << >>
    <3>1. PICK i \in 1 .. m : /\ p[i] \notin Continuation
                              /\ \A j \in i + 1 .. m : p[j] \in Continuation
      BY <2>2, LastBegins DEF WholeText
    <3> DEFINE next == i + size[p[i]]
    <3>2. size[p[i]] \in Nat \ {0}
      BY <3>1, SizeFacts, LimitsAssumption
    <3>3. CharacterAt(p, next)
      BY <3>1 DEF WholeText
    <3>4. next = m + 1
      BY <1>1, <3>1, <3>2, <3>3 DEF CharacterAt
    <3>5. i \in 1 .. n /\ q[i] = p[i]
      BY <1>1, <1>4
    <3>6. CharacterAt(q, next)
      BY <3>1, <3>5 DEF WholeText
    <3> QED BY <3>4, <3>6
  <2> QED BY <2>1, <2>2
<1>6. ASSUME NEW j \in Nat \ {0}, CharacterAt(q, m + j) PROVE CharacterAt(r, j)
  <2>1. CASE m + j = n + 1
    BY <1>1, <1>3, <2>1 DEF CharacterAt
  <2>2. CASE m + j \in 1 .. n /\ q[m + j] \notin Continuation
    <3>1. j \in 1 .. n - m
      BY <1>1, <2>2
    <3>2. r[j] = q[m + j]
      BY <1>3, <3>1
    <3> QED BY <1>3, <2>2, <3>1, <3>2 DEF CharacterAt
  <2> QED BY <1>6, <2>1, <2>2 DEF CharacterAt
<1>7. CharacterAt(r, 1)
  BY <1>5, <1>6
<1>8. ASSUME NEW i \in 1 .. Len(r), r[i] \notin Continuation
      PROVE  CharacterAt(r, i + size[r[i]])
  <2> DEFINE k == m + i
             s == size[q[k]]
  <2>1. k \in 1 .. n /\ r[i] = q[k] /\ i \in Nat
    BY <1>1, <1>3
  <2> HIDE DEF k
  <2>2. CharacterAt(q, k + s)
    BY <1>8, <2>1 DEF WholeText
  <2>3. s \in Nat
    BY <1>8, <2>1, SizeFacts, LimitsAssumption
  <2> HIDE DEF s
  <2>4. k + s = m + (i + s) /\ i + s \in Nat \ {0}
    BY <1>1, <2>1, <2>3 DEF k
  <2> DEFINE j == i + s
  <2>5. CharacterAt(q, m + j) /\ j \in Nat \ {0}
    BY <2>2, <2>4
  <2> HIDE DEF j
  <2>6. CharacterAt(r, j)
    BY <1>6, <2>5
  <2> QED BY <2>1, <2>6 DEF j, s
<1>9. WholeText(r, size)
  BY <1>7, <1>8 DEF WholeText
<1> QED BY <1>9 DEF r

\* A chunk that begins with a character ends with one, before ChunkBytes are over.
LEMMA ChunkKeepsCharacters ==
  ASSUME NEW size \in Sizes, NEW text \in Text, WholeText(text, size),
         NEW start \in 0 .. Len(text), start < Len(text), CharacterAt(text, start + 1)
  PROVE  /\ ChunkEnd(text, start) <= start + ChunkBytes
         /\ CharacterAt(text, ChunkEnd(text, start) + 1)
<1> DEFINE n == Len(text)
           i == start + 1
           s == size[text[i]]
           next == i + s
           end == start + s
<1>1. n \in Nat /\ ChunkBytes \in Nat \ {0} /\ i \in 1 .. n
  BY LenProperties, LimitsAssumption DEF Text
<1>2. text[i] \notin Continuation
  BY <1>1 DEF CharacterAt
<1> HIDE DEF i
<1>3. s \in 1 .. ChunkBytes
  BY <1>1, <1>2, SizeFacts
<1>4. CharacterAt(text, next)
  BY <1>1, <1>2 DEF WholeText
<1> HIDE DEF s
<1>5. next = end + 1 /\ end \in start + 1 .. start + ChunkBytes /\ end \in Nat
  BY <1>1, <1>3 DEF i
<1> HIDE DEF next, end
<1>6. end <= n /\ (end = n \/ text[end + 1] \notin Continuation)
  BY <1>1, <1>4, <1>5 DEF CharacterAt
<1>7. end \in ChunkEnds(text, start)
  BY <1>5, <1>6 DEF ChunkEnds, Boundary
<1> DEFINE e == ChunkEnd(text, start)
<1>8. e \in ChunkEnds(text, start)
  BY <1>7, ChunkEndType
<1> HIDE DEF e
<1>9. e \in start + 1 .. start + ChunkBytes /\ e <= n /\ (e = n \/ text[e + 1] \notin Continuation)
  BY <1>8 DEF ChunkEnds, Boundary
<1>10. e <= start + ChunkBytes /\ CharacterAt(text, e + 1)
  BY <1>1, <1>9 DEF CharacterAt
<1> QED BY <1>10 DEF e

LEMMA CutsKeepCharacters ==
  ASSUME NEW size \in Sizes, NEW text \in Text, WholeText(text, size)
  PROVE  \A k \in Nat : /\ CharacterAt(text, Cuts(text)[k] + 1)
                        /\ Cuts(text)[k] < Len(text) => Cuts(text)[k + 1] <= Cuts(text)[k] + ChunkBytes
<1> DEFINE c == Cuts(text)
           n == Len(text)
<1>1. /\ \A k \in Nat : c[k] \in 0 .. n
      /\ c[0] = 0
      /\ \A k \in Nat \ {0} : c[k] = ChunkEnd(text, c[k - 1])
  BY CutsType
<1>2. n \in Nat
  BY LenProperties DEF Text
<1> HIDE DEF c
<1>3. ASSUME NEW k \in Nat, CharacterAt(text, c[k] + 1)
      PROVE  /\ CharacterAt(text, c[k + 1] + 1)
             /\ c[k] < n => c[k + 1] <= c[k] + ChunkBytes
  <2> DEFINE p == c[k]
             q == c[k + 1]
  <2>1. p \in 0 .. n
    BY <1>1
  <2>2. q = ChunkEnd(text, p)
    <3>1. k + 1 \in Nat \ {0} /\ (k + 1) - 1 = k
      OBVIOUS
    <3> QED BY <1>1, <3>1
  <2> HIDE DEF p, q
  <2>3. CASE p < n
    <3>1. CharacterAt(text, p + 1)
      BY <1>3 DEF p
    <3>2. q <= p + ChunkBytes /\ CharacterAt(text, q + 1)
      BY <2>1, <2>2, <2>3, <3>1, ChunkKeepsCharacters
    <3> QED BY <3>2 DEF p, q
  <2>4. CASE ~(p < n)
    <3>1. p = n /\ q \in p .. n
      BY <1>2, <2>1, <2>2, <2>4, ChunkEndType
    <3>2. q + 1 = n + 1
      BY <1>2, <3>1
    <3>3. CharacterAt(text, q + 1)
      BY <3>2 DEF CharacterAt
    <3> QED BY <2>4, <3>3 DEF p, q
  <2> QED BY <2>3, <2>4
<1> DEFINE T == {k \in Nat : CharacterAt(text, c[k] + 1)}
<1>4. 0 \in T
  BY <1>1 DEF WholeText
<1>5. \A k \in T : k + 1 \in T
  BY <1>3
<1>6. T = Nat
  <2> HIDE DEF T
  <2> QED BY <1>4, <1>5, SetInduction DEF T
<1> QED BY <1>3, <1>6 DEF c

\* What DeltasKeepCharacters says of an event.
KeepsCharacters(event) ==
  event.kind = "text_delta" =>
    Len(event.text) \in 1 .. ChunkBytes /\ event.text[1] \notin Continuation

LEMMA TextEventsKeepCharacters ==
  ASSUME NEW size \in Sizes, NEW text \in Text, WholeText(text, size)
  PROVE  \A k \in 1 .. Len(TextEvents(text)) : KeepsCharacters(TextEvents(text)[k])
<1> DEFINE n == Len(text)
           count == ChunkCount(text)
           c == Cuts(text)
<1>1. n \in Nat /\ ChunkBytes \in Nat
  BY LenProperties, LimitsAssumption DEF Text
<1>2. /\ count \in Nat
      /\ \A k \in Nat : c[k] \in 0 .. n
      /\ \A k \in Nat : c[k] \in 0 .. c[k + 1]
      /\ \A k \in 0 .. count - 1 : c[k] < n
  BY CutsGrow, CutsType
<1>3. Len(TextEvents(text)) = count
  BY TextEventsType
<1>4. \A k \in Nat : /\ CharacterAt(text, c[k] + 1)
                     /\ c[k] < n => c[k + 1] <= c[k] + ChunkBytes
  BY CutsKeepCharacters
<1>4a. \A k \in Nat : c[k] < n => c[k] < c[k + 1]
  <2>1. SUFFICES ASSUME NEW k \in Nat, c[k] < n PROVE c[k] < c[k + 1]
    OBVIOUS
  <2> DEFINE p == c[k]
  <2>2. c[k + 1] = ChunkEnd(text, p)
    <3>1. k + 1 \in Nat \ {0} /\ (k + 1) - 1 = k
      OBVIOUS
    <3> QED BY <3>1, CutsType
  <2>3. p \in 0 .. n
    BY <1>2
  <2>4. p < n
    BY <2>1
  <2> HIDE DEF p
  <2>5. p < ChunkEnd(text, p)
    BY <2>3, <2>4, ChunkEndType
  <2> QED BY <2>2, <2>5 DEF p
<1>5. \A k \in 1 .. count : TextEvents(text)[k] = TextDelta(SubSeq(text, c[k - 1] + 1, c[k]))
  BY DEF TextEvents
<1> HIDE DEF n, count, c
<1>6. ASSUME NEW k \in 1 .. count PROVE KeepsCharacters(TextEvents(text)[k])
  <2> DEFINE p == c[k - 1]
             q == c[k]
             chunk == SubSeq(text, p + 1, q)
  <2>1. k - 1 \in Nat /\ k - 1 \in 0 .. count - 1 /\ (k - 1) + 1 = k /\ k \in Nat
    BY <1>2
  <2>2. /\ p \in 0 .. n /\ q \in 0 .. n /\ p < n /\ p < q /\ q <= p + ChunkBytes
        /\ CharacterAt(text, p + 1)
    <3> DEFINE before == k - 1
    <3>1. before \in Nat /\ before \in 0 .. count - 1 /\ before + 1 = k
      BY <2>1
    <3> HIDE DEF before
    <3>2. c[before] < n /\ c[before + 1] = c[k]
      BY <1>2, <3>1
    <3>3. c[before] < c[before + 1]
      BY <1>4a, <3>1, <3>2
    <3>4. c[before + 1] <= c[before] + ChunkBytes
      BY <1>4, <3>1, <3>2
    <3>5. CharacterAt(text, c[before] + 1)
      BY <1>4, <3>1
    <3>6. c[before] \in 0 .. n /\ c[k] \in 0 .. n
      BY <1>2, <2>1, <3>1
    <3> QED BY <3>2, <3>3, <3>4, <3>5, <3>6 DEF before
  <2> HIDE DEF p, q
  <2>3. Len(chunk) = q - p /\ chunk[1] = text[p + 1]
    <3>1. text \in Seq(Byte) /\ \A i \in p + 1 .. q : text[i] \in Byte
      <4>1. \A i \in p + 1 .. q : i \in 1 .. Len(text)
        BY <1>1, <2>2 DEF n
      <4> QED BY <4>1, ElementOfSeq DEF Text
    <3>2. p + 1 \in Nat /\ q \in Nat /\ p + 1 <= q
      BY <1>1, <2>2
    <3> DEFINE from == p + 1
    <3> HIDE DEF from
    <3>3. Len(SubSeq(text, from, q)) = q - from + 1 /\ \A i \in 1 .. q - from + 1 : SubSeq(text, from, q)[i] = text[from + i - 1]
      BY <3>1, <3>2, SubSeqProperties DEF from
    <3>4. 1 \in 1 .. q - from + 1 /\ q - from + 1 = q - p /\ from + 1 - 1 = p + 1
      BY <1>1, <2>2, <3>2 DEF from
    <3> QED BY <3>3, <3>4 DEF from
  <2>4. text[p + 1] \notin Continuation
    BY <1>1, <2>2 DEF CharacterAt, n
  <2>5. Len(chunk) \in 1 .. ChunkBytes
    BY <1>1, <2>2, <2>3
  <2>6. TextEvents(text)[k] = TextDelta(chunk)
    BY <1>5 DEF p, q
  <2> HIDE DEF chunk
  <2>7. TextEvents(text)[k].text = chunk
    BY <2>6 DEF TextDelta
  <2> QED BY <2>3, <2>4, <2>5, <2>7 DEF KeepsCharacters
<1> QED BY <1>3, <1>6

AllKeepCharacters(events) == \A i \in 1 .. Len(events) : KeepsCharacters(events[i])

LEMMA KeepsConcat ==
  ASSUME NEW a \in Seq(StreamEvent), NEW b \in Seq(StreamEvent),
         AllKeepCharacters(a), AllKeepCharacters(b)
  PROVE  AllKeepCharacters(a \o b)
<1>1. /\ Len(a) \in Nat /\ Len(b) \in Nat /\ Len(a \o b) = Len(a) + Len(b)
      /\ \A i \in 1 .. Len(a) + Len(b) : (a \o b)[i] = IF i <= Len(a) THEN a[i] ELSE b[i - Len(a)]
  BY ConcatProperties, LenProperties
<1> DEFINE ab == a \o b
<1> HIDE DEF ab
<1>2. ASSUME NEW i \in 1 .. Len(a) + Len(b) PROVE KeepsCharacters(ab[i])
  <2>1. CASE i <= Len(a)
    <3>1. ab[i] = a[i] /\ i \in 1 .. Len(a)
      BY <1>1, <2>1 DEF ab
    <3> QED BY <3>1 DEF AllKeepCharacters
  <2>2. CASE i > Len(a)
    <3> DEFINE j == i - Len(a)
    <3>1. ab[i] = b[j] /\ j \in 1 .. Len(b)
      BY <1>1, <2>2 DEF ab
    <3> HIDE DEF j
    <3> QED BY <3>1 DEF AllKeepCharacters
  <2> QED BY <1>1, <2>1, <2>2
<1> QED BY <1>1, <1>2 DEF AllKeepCharacters, ab

LEMMA OthersKeepCharacters ==
  ASSUME NEW events, \A i \in 1 .. Len(events) : events[i].kind # "text_delta"
  PROVE  AllKeepCharacters(events)
BY DEF AllKeepCharacters, KeepsCharacters

\* The scan of a response of whole texts gathers a whole text.
LEMMA ScanWhole ==
  ASSUME NEW size \in Sizes, NEW output \in Seq(OutputItem), NEW seen \in SUBSET CallIDs,
         \A i \in 1 .. Len(output) :
           output[i].type = "message" => WholeText(output[i].text, size)
  PROVE  WholeText(Scan(output, seen).text, size)
<1> DEFINE N == Len(output)
<1>1. PICK s : ScanStates(s, output, seen) /\ Scan(output, seen) = s[N]
  BY ScanUnfolds
<1>2. N \in Nat /\ \A i \in 1 .. N : output[i] \in OutputItem
  BY LenProperties, ElementOfSeq
<1>3. /\ \A n \in 0 .. N : s[n] \in AcceptedScan
      /\ s[0] = ScanStart(seen)
      /\ \A n \in 1 .. N : s[n] = IF s[n - 1].ok THEN ScanItem(s[n - 1], output[n]) ELSE s[n - 1]
  BY <1>1 DEF ScanStates
<1>4. ASSUME NEW scan \in ScanState, NEW item \in OutputItem, WholeText(scan.text, size),
             item.type = "message" => WholeText(item.text, size)
      PROVE  WholeText(ScanItem(scan, item).text, size)
  <2>1. CASE item.type = "message" /\ item.supported
    <3>1. item.text \in Text /\ scan.text \in Text
      BY <2>1 DEF OutputItem, MessageItem, CallItem, PlainItem, ScanState
    <3>2. WholeText(scan.text \o item.text, size)
      BY <1>4, <2>1, <3>1, WholeConcat
    <3>3. ScanItem(scan, item).text = scan.text \o item.text
      BY <2>1 DEF ScanItem, ScanState
    <3> QED BY <3>2, <3>3
  <2>2. CASE ~(item.type = "message" /\ item.supported)
    <3>1. ScanItem(scan, item).text = scan.text
      BY <2>2 DEF ScanItem, ScanState
    <3> QED BY <1>4, <3>1
  <2> QED BY <2>1, <2>2
<1> HIDE DEF N
<1> DEFINE T == {n \in Nat : n <= N => WholeText(s[n].text, size)}
<1>5. 0 \in T
  <2>1. s[0].text = << >>
    BY <1>3 DEF ScanStart
  <2>2. WholeText(<< >>, size)
    BY EmptySeq DEF WholeText, CharacterAt
  <2> QED BY <2>1, <2>2
<1>6. \A n \in T : n + 1 \in T
  <2>1. SUFFICES ASSUME NEW n \in T, n + 1 <= N PROVE WholeText(s[n + 1].text, size)
    OBVIOUS
  <2> DEFINE k == n + 1
  <2>2. k \in 1 .. N /\ k - 1 = n /\ n \in 0 .. N /\ WholeText(s[n].text, size)
    BY <1>2, <2>1
  <2> HIDE DEF k, T
  <2>3. s[k] = IF s[n].ok THEN ScanItem(s[n], output[k]) ELSE s[n]
    BY <1>3, <2>2
  <2>4. s[n] \in ScanState /\ output[k] \in OutputItem
    BY <1>2, <1>3, <2>2 DEF AcceptedScan
  <2>5. output[k].type = "message" => WholeText(output[k].text, size)
    BY <2>2 DEF N
  <2>6. WholeText(ScanItem(s[n], output[k]).text, size)
    BY <1>4, <2>2, <2>4, <2>5
  <2>7. WholeText(s[k].text, size)
    BY <2>2, <2>3, <2>6
  <2> QED BY <2>7 DEF k
<1>7. T = Nat
  <2> HIDE DEF T
  <2> QED BY <1>5, <1>6, SetInduction DEF T
<1> QED BY <1>1, <1>2, <1>7 DEF N

\* A translation keeps characters whole, in its deltas and in the accumulator,
\* also where it rejects a completed response after merging its text.
LEMMA TranslateKeepsCharacters ==
  ASSUME NEW size \in Sizes, NEW event \in RawEvent, WholeEvent(event, size),
         NEW from \in Accumulator, WholeText(from.text, size)
  PROVE  /\ WholeText(Translate(event, from).acc.text, size)
         /\ AllKeepCharacters(Translate(event, from).events)
<1> DEFINE out == Translate(event, from)
<1>0. AllKeepCharacters(<< >>)
  BY EmptySeq, OthersKeepCharacters
<1>1. ASSUME NEW x, WholeText(x.text, size), out = Reject(x)
      PROVE  WholeText(out.acc.text, size) /\ AllKeepCharacters(out.events)
  <2> HIDE DEF out
  <2>1. out.acc = x /\ out.events = << >>
    BY <1>1 DEF Reject
  <2> QED BY <1>0, <1>1, <2>1
<1>2. ASSUME NEW x, NEW events, NEW flag \in BOOLEAN, WholeText(x.text, size),
             AllKeepCharacters(events), out = Accept(events, flag, x)
      PROVE  WholeText(out.acc.text, size) /\ AllKeepCharacters(out.events)
  <2> HIDE DEF out
  <2>1. out.acc = x /\ out.events = events
    BY <1>2 DEF Accept
  <2> QED BY <1>2, <2>1
<1>3. CASE event.type = "delta"
  <2> DEFINE text == event.text
             after == [from EXCEPT !.text = @ \o text]
  <2>1. text \in Text /\ WholeText(text, size)
    BY <1>3, RawEventFields DEF WholeEvent
  <2>2. out = Reject(from) \/ out = Accept(TextEvents(text), FALSE, after)
    BY <1>3 DEF Translate, TranslateText
  <2>3. from.text \in Text /\ after.text = from.text \o text
    BY DEF Accumulator
  <2>4. WholeText(after.text, size)
    BY <2>1, <2>3, WholeConcat
  <2>5. AllKeepCharacters(TextEvents(text))
    BY <2>1, TextEventsKeepCharacters DEF AllKeepCharacters
  <2> HIDE DEF text, after, out
  <2> QED BY <1>1, <1>2, <2>2, <2>4, <2>5 DEF out
<1>4. CASE event.type = "completed"
  <2> DEFINE output  == event.output
             use     == event.usage
             scan    == Scan(output, from.seen)
             missing == SubSeq(scan.text, Len(from.text) + 1, Len(scan.text))
             scanned == [from EXCEPT !.seen = scan.seen]
             merged  == [scanned EXCEPT !.text = scan.text]
             d       == TextEvents(missing)
             c       == scan.calls
             e       == <<Completed(use)>>
             events  == d \o c \o e
  <2>1. output \in Seq(OutputItem) /\ use \in Int
    BY <1>4, RawEventFields
  <2>2. out = TranslateCompleted(output, use, from)
    BY <1>4 DEF Translate
  <2>3. \/ out = Reject(from) \/ out = Reject(scanned)
        \/ Reconciles(from.text, scan) /\ (out = Reject(merged) \/ out = Accept(events, TRUE, merged))
    BY <2>2 DEF TranslateCompleted
  <2>4. scan \in ScanState
    BY <2>1, ScanType DEF Accumulator
  <2>5. WholeText(scan.text, size)
    <3>1. \A i \in 1 .. Len(output) : output[i].type = "message" => WholeText(output[i].text, size)
      BY <1>4 DEF WholeEvent
    <3>2. from.seen \in SUBSET CallIDs
      BY DEF Accumulator
    <3> HIDE DEF output
    <3> QED BY <2>1, <3>1, <3>2, ScanWhole
  <2> HIDE DEF scan
  <2>6. from.text \in Text /\ scan.text \in Text /\ c \in Seq(ToolCalls)
    BY <2>4 DEF ScanState, Accumulator
  <2>7. scanned.text = from.text /\ merged.text = scan.text
    BY DEF Accumulator
  <2>8. missing \in Text
    BY <2>6, MissingType
  <2>9. Reconciles(from.text, scan) => AllKeepCharacters(events)
    <3>1. SUFFICES ASSUME IsTextPrefix(from.text, scan.text) PROVE AllKeepCharacters(events)
      BY DEF Reconciles
    <3>2. WholeText(missing, size)
      BY <2>5, <2>6, <3>1, WholeSuffix
    <3> HIDE DEF missing
    <3>3. d \in Seq(StreamEvent) /\ AllKeepCharacters(d)
      BY <2>8, <3>2, TextEventsFacts, TextEventsKeepCharacters DEF AllKeepCharacters
    <3>4. c \in Seq(StreamEvent) /\ AllKeepCharacters(c)
      <4>1. ToolCalls \subseteq StreamEvent /\ \A x \in ToolCalls : x.kind # "text_delta"
        BY DEF ToolCalls, StreamEvent
      <4>2. \A i \in 1 .. Len(c) : c[i].kind # "text_delta"
        BY <2>6, <4>1, ElementOfSeq
      <4> HIDE DEF c
      <4> QED BY <2>6, <4>1, <4>2, SeqMonotonic, OthersKeepCharacters
    <3>5. e \in Seq(StreamEvent) /\ AllKeepCharacters(e)
      <4> DEFINE t == Completed(use)
      <4>1. t \in StreamEvent /\ t.kind # "text_delta"
        BY <2>1 DEF Completed, StreamEvent
      <4> HIDE DEF t
      <4>2. <<t>> \in Seq(StreamEvent) /\ \A i \in 1 .. Len(<<t>>) : <<t>>[i].kind # "text_delta"
        BY <4>1
      <4> QED BY <4>2, OthersKeepCharacters DEF t
    <3> HIDE DEF c, d, e
    <3>6. d \o c \in Seq(StreamEvent) /\ AllKeepCharacters(d \o c)
      BY <3>3, <3>4, KeepsConcat, ConcatProperties
    <3> DEFINE dc == d \o c
    <3> HIDE DEF dc
    <3>7. AllKeepCharacters(dc \o e)
      BY <3>5, <3>6, KeepsConcat DEF dc
    <3> QED BY <3>7 DEF dc
  <2> HIDE DEF events, scanned, merged, out
  <2>10. WholeText(scanned.text, size) /\ WholeText(merged.text, size)
    BY <2>5, <2>7
  <2> QED BY <1>1, <1>2, <2>3, <2>9, <2>10 DEF out
<1>5. CASE event.type \in {"incomplete", "failed", "error"}
  <2>1. PICK code : out = Accept(<<Failed(code)>>, TRUE, from)
    BY <1>5 DEF Translate
  <2>2. \A i \in 1 .. Len(<<Failed(code)>>) : <<Failed(code)>>[i].kind # "text_delta"
    BY DEF Failed
  <2>3. AllKeepCharacters(<<Failed(code)>>)
    BY <2>2, OthersKeepCharacters
  <2> HIDE DEF out
  <2> QED BY <1>2, <2>1, <2>3 DEF out
<1>6. CASE event.type \in {"ignored", ""}
  <2>1. out = Accept(<< >>, FALSE, from)
    BY <1>6 DEF Translate
  <2> HIDE DEF out
  <2> QED BY <1>0, <1>2, <2>1 DEF out
<1> QED BY <1>3, <1>4, <1>5, <1>6, RawEventFields

-----------------------------------------------------------------------------
(* Tool calls.                                                              *)

CallsIn(events) == {i \in 1 .. Len(events) : events[i].kind = "tool_call"}

\* The calls among events are consecutive; they come with the completed event,
\* the last, are not too many, of declared tools, each with an ID of its own.
CallBlock(events, first, count) ==
  /\ CallsIn(events) = first + 1 .. first + count
  /\ count <= MaxCalls
  /\ count > 0 => events # << >> /\ events[Len(events)].kind = "completed"
  /\ \A i \in CallsIn(events) : events[i].name \in AllowedTools
  /\ \A i, j \in CallsIn(events) : events[i].id = events[j].id => i = j

HasCallBlock(events) == \E first \in Nat, count \in Nat : CallBlock(events, first, count)

LEMMA NoCalls ==
  ASSUME NEW events, \A i \in 1 .. Len(events) : events[i].kind # "tool_call"
  PROVE  HasCallBlock(events)
<1>1. CallsIn(events) = {}
  BY DEF CallsIn
<1>2. 0 + 1 .. 0 + 0 = {}
  OBVIOUS
<1>3. CallBlock(events, 0, 0)
  BY <1>1, <1>2, LimitsAssumption DEF CallBlock
<1> QED BY <1>3 DEF HasCallBlock

\* The events of an accepted completion: deltas, the calls scanned, and the end.
LEMMA CompletionCalls ==
  ASSUME NEW d \in Seq(StreamEvent), NEW scan \in AcceptedScan, NEW use \in Int,
         \A i \in 1 .. Len(d) : d[i].kind = "text_delta"
  PROVE  HasCallBlock(d \o scan.calls \o <<Completed(use)>>)
<1> DEFINE c == scan.calls
           m == d \o c
           t == Completed(use)
           e == m \o <<t>>
<1>1. /\ c \in Seq(ToolCalls) /\ Len(c) \in Nat /\ Len(c) <= MaxCalls
      /\ \A i \in 1 .. Len(c) : c[i].name \in AllowedTools
      /\ \A i, j \in 1 .. Len(c) : c[i].id = c[j].id => i = j
  BY DEF AcceptedScan, ScanState, CallsAccepted
<1> HIDE DEF c
<1>2. \A i \in 1 .. Len(c) : c[i].kind = "tool_call"
  <2>1. \A call \in ToolCalls : call.kind = "tool_call"
    BY DEF ToolCalls
  <2>2. \A i \in 1 .. Len(c) : c[i] \in ToolCalls
    BY <1>1, ElementOfSeq
  <2> QED BY <2>1, <2>2
<1>3. c \in Seq(StreamEvent)
  <2>1. ToolCalls \subseteq StreamEvent
    BY DEF ToolCalls, StreamEvent
  <2> QED BY <1>1, <2>1, SeqMonotonic
<1>4. Len(d) \in Nat
  BY LenProperties
<1>5. /\ m \in Seq(StreamEvent) /\ Len(m) = Len(d) + Len(c)
      /\ \A i \in 1 .. Len(d) + Len(c) : m[i] = IF i <= Len(d) THEN d[i] ELSE c[i - Len(d)]
  BY <1>3, ConcatProperties
<1> HIDE DEF m
<1>6. t.kind = "completed" /\ t \in StreamEvent
  BY DEF Completed, StreamEvent
<1> HIDE DEF t
<1>7. /\ Len(e) = Len(m) + 1
      /\ \A i \in 1 .. Len(m) + 1 : e[i] = IF i <= Len(m) THEN m[i] ELSE t
  <2>1. <<t>> \in Seq(StreamEvent) /\ Len(<<t>>) = 1 /\ <<t>>[1] = t
    BY <1>6
  <2> QED BY <1>5, <2>1, ConcatProperties
<1> HIDE DEF e
<1>8. ASSUME NEW i \in 1 .. Len(e)
      PROVE  \/ i <= Len(d) /\ e[i].kind = "text_delta"
             \/ i \in Len(d) + 1 .. Len(d) + Len(c) /\ i - Len(d) \in 1 .. Len(c) /\ e[i] = c[i - Len(d)]
             \/ i = Len(e) /\ e[i] = t
  <2>1. Len(e) = Len(d) + Len(c) + 1
    BY <1>5, <1>7
  <2>2. CASE i = Len(e)
    BY <2>1, <2>2, <1>1, <1>4, <1>5, <1>7
  <2>3. CASE i # Len(e)
    <3>0. i \in 1 .. Len(m) /\ Len(m) = Len(d) + Len(c)
      BY <2>1, <2>3, <1>1, <1>4, <1>5
    <3>1. i \in 1 .. Len(d) + Len(c) /\ e[i] = m[i]
      BY <1>7, <3>0, <1>1, <1>4
    <3>2. CASE i <= Len(d)
      <4>1. i \in 1 .. Len(d) /\ e[i] = d[i]
        BY <1>4, <1>5, <3>1, <3>2
      <4> QED BY <4>1
    <3>3. CASE ~(i <= Len(d))
      <4>1. i \in Len(d) + 1 .. Len(d) + Len(c) /\ i - Len(d) \in 1 .. Len(c)
        BY <1>1, <1>4, <3>1, <3>3
      <4>2. e[i] = c[i - Len(d)]
        BY <1>5, <3>1, <3>3
      <4> QED BY <4>1, <4>2
    <3> QED BY <3>2, <3>3
  <2> QED BY <2>2, <2>3
<1>9. CallsIn(e) = Len(d) + 1 .. Len(d) + Len(c)
  <2>1. ASSUME NEW i \in 1 .. Len(e), i \in Len(d) + 1 .. Len(d) + Len(c)
        PROVE  e[i].kind = "tool_call"
    <3>1. i - Len(d) \in 1 .. Len(c) /\ e[i] = c[i - Len(d)]
      BY <2>1, <1>1, <1>4, <1>5, <1>7
    <3> QED BY <3>1, <1>2
  <2>2. ASSUME NEW i \in 1 .. Len(e), e[i].kind = "tool_call"
        PROVE  i \in Len(d) + 1 .. Len(d) + Len(c)
    BY <2>2, <1>6, <1>8
  <2>3. Len(d) + 1 .. Len(d) + Len(c) \subseteq 1 .. Len(e)
    BY <1>1, <1>4, <1>5, <1>7
  <2> QED BY <2>1, <2>2, <2>3 DEF CallsIn
<1>10. \A i \in CallsIn(e) : i - Len(d) \in 1 .. Len(c) /\ e[i] = c[i - Len(d)]
  BY <1>1, <1>4, <1>5, <1>7, <1>9
<1>11. \A i \in CallsIn(e) : e[i].name \in AllowedTools
  BY <1>1, <1>10
<1>12. ASSUME NEW i \in CallsIn(e), NEW j \in CallsIn(e), e[i].id = e[j].id PROVE i = j
  <2>1. /\ i - Len(d) \in 1 .. Len(c) /\ j - Len(d) \in 1 .. Len(c)
        /\ c[i - Len(d)].id = c[j - Len(d)].id
    BY <1>10, <1>12
  <2>2. i - Len(d) = j - Len(d)
    BY <1>1, <2>1
  <2>3. i \in Int /\ j \in Int
    BY <1>1, <1>4, <1>9
  <2> QED BY <1>4, <2>2, <2>3
<1>13. e # << >> /\ e[Len(e)].kind = "completed"
  <2>1. Len(e) \in 1 .. Len(m) + 1 /\ ~(Len(e) <= Len(m)) /\ Len(e) # 0
    BY <1>1, <1>4, <1>5, <1>7
  <2> QED BY <1>6, <1>7, <2>1
<1>14. CallBlock(e, Len(d), Len(c))
  BY <1>1, <1>9, <1>11, <1>12, <1>13 DEF CallBlock
<1>15. HasCallBlock(e)
  BY <1>1, <1>4, <1>14 DEF HasCallBlock
<1> QED BY <1>15 DEF e, m, t, c

\* Whatever raw event arrives, the calls its translation releases come with the
\* completion of their response, and were accepted one by one.
THEOREM TranslateCalls ==
  ASSUME NEW event \in RawEvent, NEW given \in Accumulator
  PROVE  HasCallBlock(Translate(event, given).events)
<1>1. HasCallBlock(<< >>)
  BY NoCalls, EmptySeq
<1>2. \A a : Reject(a).events = << >>
  BY DEF Reject
<1>3. CASE event.type = "delta"
  <2>1. event.text \in Text
    BY <1>3, RawEventFields
  <2>2. HasCallBlock(TextEvents(event.text))
    BY <2>1, TextEventsFacts, NoCalls
  <2>3. Translate(event, given) = TranslateText(event.text, given)
    BY <1>3 DEF Translate
  <2>4. TranslateText(event.text, given).events \in {<< >>, TextEvents(event.text)}
    BY <1>2 DEF TranslateText, Accept
  <2> QED BY <1>1, <2>2, <2>3, <2>4
<1>4. CASE event.type = "completed"
  <2> DEFINE output  == event.output
             scan    == Scan(output, given.seen)
             missing == SubSeq(scan.text, Len(given.text) + 1, Len(scan.text))
             events  == TextEvents(missing) \o scan.calls \o <<Completed(event.usage)>>
  <2>1. event.output \in Seq(OutputItem) /\ event.usage \in Int
    BY <1>4, RawEventFields
  <2>2. scan \in AcceptedScan
    BY <2>1, ScanAccepts DEF Accumulator
  <2> HIDE DEF scan
  <2>3. missing \in Text
    BY <2>2, MissingType DEF AcceptedScan, ScanState, Accumulator
  <2> HIDE DEF missing
  <2>4. HasCallBlock(events)
    BY <2>1, <2>2, <2>3, TextEventsFacts, CompletionCalls
  <2>5. Translate(event, given) = TranslateCompleted(event.output, event.usage, given)
    BY <1>4 DEF Translate
  <2>6. TranslateCompleted(event.output, event.usage, given).events \in {<< >>, events}
    <3> DEFINE out     == TranslateCompleted(event.output, event.usage, given)
               scanned == [given EXCEPT !.seen = scan.seen]
               merged  == [scanned EXCEPT !.text = scan.text]
    <3>1. \/ out = Reject(given) \/ out = Reject(scanned) \/ out = Reject(merged)
          \/ out = Accept(events, TRUE, merged)
      BY DEF TranslateCompleted, scan, missing
    <3> HIDE DEF out, scanned, merged, events
    <3>2. Accept(events, TRUE, merged).events = events
      BY DEF Accept
    <3> QED BY <1>2, <3>1, <3>2 DEF out
  <2> QED BY <1>1, <2>4, <2>5, <2>6
<1>5. CASE event.type \in {"incomplete", "failed", "error"}
  <2>1. PICK code : Translate(event, given) = Accept(<<Failed(code)>>, TRUE, given)
    BY <1>5 DEF Translate
  <2>2. Len(<<Failed(code)>>) = 1 /\ <<Failed(code)>>[1].kind = "failed"
    BY DEF Failed
  <2>3. HasCallBlock(<<Failed(code)>>)
    BY <2>2, NoCalls
  <2> QED BY <2>1, <2>3 DEF Accept
<1>6. CASE event.type \in {"ignored", ""}
  BY <1>1, <1>6 DEF Translate, Accept
<1> QED BY <1>3, <1>4, <1>5, <1>6, RawEventFields

-----------------------------------------------------------------------------
(* Types.                                                                   *)

LEMMA CodeType ==
  ASSUME NEW err \in ErrorValues \cup {Nil}
  PROVE  Code(err) \in NormalizedCodes
<1> DEFINE normal == NormalizeFailure(err, FALSE)
<1>1. CASE err \in {Nil, Canceled, Deadline, Other}
  <2>1. ASSUME err.kind = "nil" PROVE normal = FailureOf("stream_ended", "nil")
    BY <2>1 DEF NormalizeFailure
  <2>2. ASSUME err.kind = "canceled" PROVE normal = FailureOf("cancelled", "canceled")
    BY <2>2 DEF NormalizeFailure
  <2>3. ASSUME err.kind = "deadline" PROVE normal = FailureOf("deadline_exceeded", "deadline")
    BY <2>3 DEF NormalizeFailure
  <2>4. ASSUME err.kind = "other" PROVE normal = FailureOf("transport_error", "nil")
    BY <2>4 DEF NormalizeFailure
  <2>5. err.kind \in {"nil", "canceled", "deadline", "other"}
    <3>1. /\ Nil.kind = "nil" /\ Canceled.kind = "canceled"
          /\ Deadline.kind = "deadline" /\ Other.kind = "other"
      BY DEF Nil, Canceled, Deadline, Other
    <3> QED BY <1>1, <3>1
  <2>6. normal.code \in {"stream_ended", "cancelled", "deadline_exceeded", "transport_error"}
    <3> HIDE DEF normal
    <3> QED BY <2>1, <2>2, <2>3, <2>4, <2>5 DEF FailureOf
  <2> QED BY <2>6 DEF Code, NormalizedCodes
<1>2. CASE err \in ApiErrors
  <2>1. err.kind = "api"
    BY <1>2 DEF ApiErrors
  <2>2. NormalizeFailure(err, FALSE) = ApiFailure(err, FALSE)
    BY <2>1 DEF NormalizeFailure
  <2>3. SafeCode(err.code) \in PlainCodes \cup {"provider_error"}
    BY DEF SafeCode
  <2>4. StatusCode(err.status) \in {"provider_error", "http_status"}
    BY DEF StatusCode
  <2>5. ApiFailure(err, FALSE).code \in NormalizedCodes
    BY <2>3, <2>4 DEF ApiFailure, NormalizedCodes
  <2> QED BY <2>2, <2>5 DEF Code
<1> QED BY <1>1, <1>2 DEF ErrorValues

LEMMA ContextErrorType ==
  ASSUME NEW state \in ContextState
  PROVE  ContextError(state) \in {Canceled, Deadline}
BY DEF ContextError

\* The results the pump can hold; what they carry can be translated or reported.
LEMMA RawResultFacts ==
  /\ \A event \in RawEvents : EventResult(event) \in RawResult
  /\ \A err \in {Nil, Canceled, Deadline} \cup SourceErrors : EndResult(err) \in RawResult
  /\ \A r \in RawResult : r.event \in RawEvent /\ r.err \in ErrorValues \cup {Nil}
<1>1. Untyped \in RawEvent
  BY DEF RawEvent
<1>2. {Nil, Canceled, Deadline} \cup SourceErrors \subseteq ErrorValues \cup {Nil}
  BY StreamAssumption DEF ErrorValues
<1>3. RawEvents \cup {Untyped} \subseteq RawEvent
  BY <1>1, StreamAssumption
<1>4. Nil \in {Nil, Canceled, Deadline} \cup SourceErrors
  OBVIOUS
<1> HIDE DEF Nil, Canceled, Deadline, Untyped
<1>5. \A event \in RawEvents : EventResult(event) \in RawResult
  BY DEF EventResult, RawResult
<1>6. \A err \in {Nil, Canceled, Deadline} \cup SourceErrors : EndResult(err) \in RawResult
  BY DEF EndResult, RawResult
<1>7. \A r \in RawResult : r.event \in RawEvent /\ r.err \in ErrorValues \cup {Nil}
  BY <1>2, <1>3 DEF RawResult
<1> QED BY <1>5, <1>6, <1>7

LEMMA RecvResultFacts ==
  /\ NoResult \in RecvResult /\ EOF \in RecvResult /\ ProtocolError \in RecvResult
  /\ \A event \in StreamEvent : EventReturned(event) \in RecvResult
  /\ \A state \in ContextState : state # "live" => ContextReturned(state) \in RecvResult
  /\ \A code \in NormalizedCodes, truncated \in BOOLEAN : StreamError(code, truncated) \in RecvResult
<1>1. \A event \in StreamEvent : EventReturned(event) \in [is : {"event"}, event : StreamEvent]
  BY DEF EventReturned
<1>2. \A state \in ContextState : state # "live" =>
         ContextReturned(state) \in [is : {"context"}, why : ContextState \ {"live"}]
  BY DEF ContextReturned
<1>3. \A code \in NormalizedCodes, truncated \in BOOLEAN :
         StreamError(code, truncated) \in [is : {"error"}, code : NormalizedCodes, truncated : BOOLEAN]
  BY DEF StreamError
<1> QED BY <1>1, <1>2, <1>3 DEF RecvResult

\* The singleton a queue of capacity one holds, and its head.
LEMMA SingletonFacts ==
  ASSUME NEW S
  PROVE  /\ << >> \in Seq(S) /\ Len(<< >>) <= 1
         /\ \A x \in S : <<x>> \in Seq(S) /\ Len(<<x>>) <= 1
         /\ \A s \in Seq(S) : s # << >> => Head(s) \in S /\ Tail(s) \in Seq(S)
<1>1. << >> \in Seq(S) /\ Len(<< >>) = 0
  BY EmptySeq
<1>2. \A x \in S : <<x>> \in Seq(S) /\ Len(<<x>>) = 1
  OBVIOUS
<1>3. \A s \in Seq(S) : s # << >> => Head(s) \in S /\ Tail(s) \in Seq(S)
  BY HeadTailProperties
<1> QED BY <1>1, <1>2, <1>3

\* What Recv does with one raw event keeps its fields typed.
LEMMA ReceiveType ==
  ASSUME TypeOK, NEW event \in RawEvent, Receive(event)
  PROVE  /\ recv' \in {"idle", "entered", "next"} /\ result' \in RecvResult
         /\ pending' \in Seq(StreamEvent) /\ delivered' \in Seq(StreamEvent)
         /\ acc' \in Accumulator /\ terminal' \in BOOLEAN
<1> DEFINE out == Translate(event, acc)
           todo == pending \o out.events
<1>1. out \in Outcome
  BY TranslateFacts DEF TypeOK
<1> HIDE DEF out
<1>2. todo \in Seq(StreamEvent)
  BY <1>1, ConcatProperties DEF TypeOK, Outcome
<1>3. acc' \in Accumulator /\ terminal' \in BOOLEAN
  BY <1>1 DEF Receive, Outcome, TypeOK, out
<1>4. CASE ~out.ok
  BY <1>4, <1>1, RecvResultFacts DEF Receive, Return, Outcome, TypeOK, out
<1> HIDE DEF todo
<1>5. CASE out.ok /\ todo # << >>
  <2>1. Deliver(todo)
    BY <1>5 DEF Receive, out, todo
  <2>2. Head(todo) \in StreamEvent /\ Tail(todo) \in Seq(StreamEvent)
    BY <1>2, <1>5, SingletonFacts
  <2>3. Append(delivered, Head(todo)) \in Seq(StreamEvent)
    BY <2>2, AppendProperties DEF TypeOK
  <2> QED BY <1>3, <2>1, <2>2, <2>3, RecvResultFacts DEF Deliver, Return
<1>6. CASE out.ok /\ todo = << >>
  <2>1. UNCHANGED <<recv, result, pending, delivered>>
    BY <1>6 DEF Receive, out, todo
  <2> QED BY <1>3, <2>1 DEF TypeOK
<1>7. out.ok \in BOOLEAN
  BY <1>1 DEF Outcome
<1> QED BY <1>3, <1>4, <1>5, <1>6, <1>7

LEMMA ReceiveErrorType ==
  ASSUME TypeOK, NEW err \in ErrorValues \cup {Nil}, NEW truncated \in BOOLEAN,
         ReceiveError(err, truncated)
  PROVE  /\ recv' = "idle" /\ result' \in RecvResult
         /\ UNCHANGED <<pending, acc, terminal, delivered>>
BY CodeType, RecvResultFacts DEF ReceiveError, Return, TypeOK

LEMMA ReceiveEndType ==
  ASSUME TypeOK, ReceiveEnd
  PROVE  /\ recv' = "idle" /\ result' \in RecvResult
         /\ UNCHANGED <<pending, acc, terminal, delivered>>
<1>1. CASE opctx # "live"
  <2>1. ContextError(opctx) \in ErrorValues
    BY ContextErrorType DEF TypeOK, ErrorValues
  <2>2. ReceiveError(ContextError(opctx), FALSE)
    BY <1>1 DEF ReceiveEnd
  <2> QED BY <2>1, <2>2, ReceiveErrorType
<1>2. CASE opctx = "live"
  <2>1. ReceiveError(Other, TRUE)
    BY <1>2 DEF ReceiveEnd
  <2>2. Other \in ErrorValues
    BY DEF ErrorValues
  <2> QED BY <2>1, <2>2, ReceiveErrorType
<1> QED BY <1>1, <1>2

LEMMA InitType == Init => TypeOK
<1> SUFFICES ASSUME Init PROVE TypeOK
  OBVIOUS
<1>1. PICK event \in RawEvents : buffered = <<EventResult(event)>>
  BY DEF Init
<1>2. buffered \in Seq(RawResult) /\ Len(buffered) <= 1
  BY <1>1, RawResultFacts, SingletonFacts
<1>3. /\ << >> \in Seq(RawResult) /\ << >> \in Seq(StreamEvent) /\ << >> \in Text
      /\ Len(<< >>) <= 1
  BY SingletonFacts DEF Text
<1>4. [text |-> << >>, seen |-> {}] \in Accumulator
  BY <1>3 DEF Accumulator
<1> QED BY <1>2, <1>3, <1>4, RecvResultFacts DEF Init, TypeOK, ContextState

\* The history of source results grows by one result.
LEMMA ProducedType ==
  ASSUME TypeOK, NEW r \in RawResult
  PROVE  /\ <<r>> \in Seq(RawResult) /\ Len(<<r>>) <= 1
         /\ produced \o <<r>> \in Seq(RawResult)
<1>1. <<r>> \in Seq(RawResult) /\ Len(<<r>>) <= 1
  BY SingletonFacts
<1> QED BY <1>1, ConcatProperties DEF TypeOK

LEMMA StepType == TypeOK /\ [Next]_vars => TypeOK'
<1> USE DEF pumpVars, chanVars, recvVars, closeVars
<1> SUFFICES ASSUME TypeOK, [Next]_vars PROVE TypeOK'
  OBVIOUS
<1>1. CASE UNCHANGED vars
  BY <1>1 DEF TypeOK, vars
<1>2. ASSUME NEW event \in RawEvents, PumpEvent(event) PROVE TypeOK'
  <2>1. EventResult(event) \in RawResult
    BY RawResultFacts
  <2>2. /\ held' \in Seq(RawResult) /\ Len(held') <= 1
        /\ produced' \in Seq(RawResult)
    BY <1>2, <2>1, ProducedType DEF PumpEvent
  <2> QED BY <1>2, <2>2 DEF PumpEvent, TypeOK
<1>3. ASSUME NEW err \in {Nil, Canceled, Deadline} \cup SourceErrors, PumpEnd(err) PROVE TypeOK'
  <2>1. EndResult(err) \in RawResult
    BY RawResultFacts
  <2>2. /\ held' \in Seq(RawResult) /\ Len(held') <= 1
        /\ produced' \in Seq(RawResult)
    BY <1>3, <2>1, ProducedType DEF PumpEnd
  <2> QED BY <1>3, <2>2 DEF PumpEnd, TypeOK
<1>4. CASE PumpSend
  BY <1>4, SingletonFacts DEF PumpSend, TypeOK
<1>5. CASE PumpAbandon
  BY <1>5, SingletonFacts DEF PumpAbandon, TypeOK
<1>6. CASE PumpCloseRaw
  BY <1>6 DEF PumpCloseRaw, TypeOK
<1>7. CASE PumpCloseDone
  BY <1>7 DEF PumpCloseDone, TypeOK
<1>8. CASE RecvEnter
  <2>1. rctx' \in ContextState
    BY <1>8, StreamAssumption DEF RecvEnter, TypeOK, ContextState
  <2> QED BY <1>8, <2>1, RecvResultFacts DEF RecvEnter, TypeOK
<1>9. CASE RecvProceed
  <2>1. /\ recv' \in {"idle", "entered", "next"} /\ result' \in RecvResult
        /\ pending' \in Seq(StreamEvent) /\ delivered' \in Seq(StreamEvent)
    <3>1. CASE rctx # "live" /\ Return(ContextReturned(rctx)) /\ UNCHANGED <<pending, delivered>>
      BY <3>1, RecvResultFacts DEF Return, TypeOK
    <3>2. CASE pending # << >> /\ Deliver(pending)
      <4>1. Head(pending) \in StreamEvent /\ Tail(pending) \in Seq(StreamEvent)
        BY <3>2, SingletonFacts DEF TypeOK
      <4>2. Append(delivered, Head(pending)) \in Seq(StreamEvent)
        BY <4>1, AppendProperties DEF TypeOK
      <4> QED BY <3>2, <4>1, <4>2, RecvResultFacts DEF Deliver, Return
    <3>3. CASE recv' = "next" /\ UNCHANGED <<result, pending, delivered>>
      BY <3>3 DEF TypeOK
    <3> QED BY <1>9, <3>1, <3>2, <3>3 DEF RecvProceed
  <2> QED BY <1>9, <2>1 DEF RecvProceed, TypeOK
<1>10. CASE RecvBuffered
  <2>1. Head(buffered).event \in RawEvent
    BY <1>10, SingletonFacts, RawResultFacts DEF RecvBuffered, TypeOK
  <2>2. Receive(Head(buffered).event)
    BY <1>10 DEF RecvBuffered
  <2>3. buffered' \in Seq(RawResult) /\ Len(buffered') <= 1 /\ taken' \in Nat
    BY <1>10, SingletonFacts DEF RecvBuffered, TypeOK
  <2>4. UNCHANGED <<opctx, srcClosed, pumpVars, chanVars, rctx, closeVars, produced>>
    BY <1>10 DEF RecvBuffered
  <2>5. /\ recv' \in {"idle", "entered", "next"} /\ result' \in RecvResult
        /\ pending' \in Seq(StreamEvent) /\ delivered' \in Seq(StreamEvent)
        /\ acc' \in Accumulator /\ terminal' \in BOOLEAN
    BY <2>1, <2>2, ReceiveType
  <2> QED BY <2>3, <2>4, <2>5 DEF TypeOK
<1>11. CASE RecvContextDone
  <2>1. ContextError(rctx) \in ErrorValues
    BY ContextErrorType DEF TypeOK, ErrorValues
  <2>2. recv' = "idle" /\ result' \in RecvResult /\ UNCHANGED <<pending, acc, terminal, delivered>>
    BY <1>11, <2>1, ReceiveErrorType DEF RecvContextDone, RecvDone
  <2> QED BY <1>11, <2>2 DEF RecvContextDone, RecvDone, TypeOK
<1>12. CASE RecvOperationDone
  <2>1. ContextError(opctx) \in ErrorValues
    BY ContextErrorType DEF TypeOK, ErrorValues
  <2>2. recv' = "idle" /\ result' \in RecvResult /\ UNCHANGED <<pending, acc, terminal, delivered>>
    BY <1>12, <2>1, ReceiveErrorType DEF RecvOperationDone, RecvDone
  <2> QED BY <1>12, <2>2 DEF RecvOperationDone, RecvDone, TypeOK
<1>13. CASE RecvRaw
  <2> DEFINE got == Head(raw)
  <2>1. got \in RawResult
    BY <1>13, SingletonFacts DEF RecvRaw, TypeOK
  <2>2. got.event \in RawEvent /\ got.err \in ErrorValues \cup {Nil}
    BY <2>1, RawResultFacts
  <2>3. raw' \in Seq(RawResult) /\ Len(raw') <= 1 /\ taken' \in Nat
    BY <1>13, SingletonFacts DEF RecvRaw, TypeOK
  <2>4. UNCHANGED <<opctx, srcClosed, pumpVars, rawClosed, buffered, rctx, closeVars, produced>>
    BY <1>13 DEF RecvRaw
  <2>5. ReceiveError(got.err, FALSE) \/ ReceiveEnd \/ Receive(got.event)
    BY <1>13 DEF RecvRaw
  <2> HIDE DEF got
  <2>6. /\ recv' \in {"idle", "entered", "next"} /\ result' \in RecvResult
        /\ pending' \in Seq(StreamEvent) /\ delivered' \in Seq(StreamEvent)
        /\ acc' \in Accumulator /\ terminal' \in BOOLEAN
    <3>1. CASE ReceiveError(got.err, FALSE)
      BY <3>1, <2>2, ReceiveErrorType DEF TypeOK
    <3>2. CASE ReceiveEnd
      BY <3>2, ReceiveEndType DEF TypeOK
    <3>3. CASE Receive(got.event)
      BY <3>3, <2>2, ReceiveType
    <3> QED BY <2>5, <3>1, <3>2, <3>3
  <2> QED BY <2>3, <2>4, <2>6 DEF TypeOK
<1>14. CASE RecvRawClosed
  <2>1. recv' = "idle" /\ result' \in RecvResult /\ UNCHANGED <<pending, acc, terminal, delivered>>
    BY <1>14, ReceiveEndType DEF RecvRawClosed
  <2> QED BY <1>14, <2>1 DEF RecvRawClosed, TypeOK
<1>15. ASSUME NEW c \in Closers, CloseCall(c) \/ CloseStep(c) PROVE TypeOK'
  <2>1. CASE CloseCall(c)
    BY <2>1 DEF CloseCall, TypeOK
  <2>2. CASE CloseFirst(c)
    BY <2>2 DEF CloseFirst, TypeOK
  <2>3. CASE CloseCancel(c)
    BY <2>3 DEF CloseCancel, TypeOK, ContextState
  <2>4. CASE CloseSource(c)
    <3>1. closeErr' \in NormalizedCodes \cup {"none"}
      BY <2>4, CodeType, StreamAssumption DEF CloseSource
    <3> QED BY <2>4, <3>1 DEF CloseSource, TypeOK
  <2>5. CASE CloseJoin(c)
    BY <2>5 DEF CloseJoin, TypeOK
  <2>6. CASE CloseWait(c)
    BY <2>6 DEF CloseWait, TypeOK
  <2> QED BY <1>15, <2>1, <2>2, <2>3, <2>4, <2>5, <2>6 DEF CloseStep
<1>16. CASE OperationEnds
  BY <1>16, StreamAssumption DEF OperationEnds, TypeOK, ContextState
<1>17. CASE RecvContextEnds
  BY <1>17, StreamAssumption DEF RecvContextEnds, TypeOK, ContextState
<1> QED
  BY <1>1, <1>2, <1>3, <1>4, <1>5, <1>6, <1>7, <1>8, <1>9, <1>10, <1>11, <1>12, <1>13, <1>14,
     <1>15, <1>16, <1>17 DEF Next, SourceReturns, PumpStep, RecvStep

\* Every reachable state is typed, whatever the source returns and however the
\* goroutines interleave.
THEOREM TypeCorrect == Spec => []TypeOK
<1>1. Init => TypeOK
  BY InitType
<1>2. TypeOK /\ [Next]_vars => TypeOK'
  BY StepType
<1> QED BY <1>1, <1>2, PTL DEF Spec

-----------------------------------------------------------------------------
(* Lifecycle.                                                               *)

\* A Recv step leaves the pump and the closers where they are.
RecvOnly ==
  UNCHANGED <<opctx, srcClosed, pump, held, rawClosed, closed, once, closer, produced>>

LEMMA RecvOnlySteps == RecvEnter \/ RecvStep \/ RecvContextEnds => RecvOnly
BY DEF RecvOnly, RecvStep, RecvEnter, RecvProceed, RecvBuffered, RecvContextDone, RecvDone,
       RecvOperationDone, RecvRaw, RecvRawClosed, RecvContextEnds, pumpVars, chanVars, closeVars

LEMMA PumpLifecycleStep == TypeOK /\ PumpLifecycle /\ [Next]_vars => PumpLifecycle'
<1> USE DEF pumpVars, chanVars, recvVars, closeVars
<1> SUFFICES ASSUME TypeOK, PumpLifecycle, [Next]_vars PROVE PumpLifecycle'
  OBVIOUS
<1>1. CASE UNCHANGED vars
  BY <1>1 DEF PumpLifecycle, vars
<1>2. ASSUME NEW event \in RawEvents, PumpEvent(event) PROVE PumpLifecycle'
  <2>1. held' # << >>
    BY <1>2 DEF PumpEvent
  <2> QED BY <1>2, <2>1 DEF PumpEvent, PumpLifecycle
<1>3. ASSUME NEW err \in {Nil, Canceled, Deadline} \cup SourceErrors, PumpEnd(err)
      PROVE  PumpLifecycle'
  <2>1. held' # << >>
    BY <1>3 DEF PumpEnd
  <2> QED BY <1>3, <2>1 DEF PumpEnd, PumpLifecycle
<1>4. CASE PumpStep
  BY <1>4 DEF PumpStep, PumpSend, PumpAbandon, PumpCloseRaw, PumpCloseDone, PumpLifecycle, TypeOK
<1>5. CASE RecvEnter \/ RecvStep \/ RecvContextEnds
  BY <1>5, RecvOnlySteps DEF RecvOnly, PumpLifecycle
<1>6. ASSUME NEW c \in Closers, CloseCall(c) \/ CloseStep(c) PROVE PumpLifecycle'
  BY <1>6 DEF CloseCall, CloseStep, CloseFirst, CloseCancel, CloseSource, CloseJoin, CloseWait,
              PumpLifecycle
<1>7. CASE OperationEnds
  BY <1>7 DEF OperationEnds, PumpLifecycle
<1> QED BY <1>1, <1>2, <1>3, <1>4, <1>5, <1>6, <1>7 DEF Next, SourceReturns

LEMMA CloseLifecycleStep == TypeOK /\ CloseLifecycle /\ [Next]_vars => CloseLifecycle'
<1> USE DEF pumpVars, chanVars, recvVars, closeVars
<1> SUFFICES ASSUME TypeOK, CloseLifecycle, [Next]_vars PROVE CloseLifecycle'
  OBVIOUS
<1>1. CASE UNCHANGED vars
  BY <1>1 DEF CloseLifecycle, vars
<1>2. CASE SourceReturns
  <2>1. pump = "next" /\ UNCHANGED <<opctx, srcClosed, closed, once, closer>>
    BY <1>2 DEF SourceReturns, PumpEvent, PumpEnd
  <2> QED BY <2>1 DEF CloseLifecycle
<1>3. CASE PumpStep
  <2>1. pump # "done" /\ UNCHANGED <<opctx, srcClosed, closed, once, closer>>
    BY <1>3 DEF PumpStep, PumpSend, PumpAbandon, PumpCloseRaw, PumpCloseDone
  <2> QED BY <2>1 DEF CloseLifecycle
<1>4. CASE RecvEnter \/ RecvStep \/ RecvContextEnds
  BY <1>4, RecvOnlySteps DEF RecvOnly, CloseLifecycle
<1>5. CASE OperationEnds
  BY <1>5, StreamAssumption DEF OperationEnds, CloseLifecycle
<1>6. ASSUME NEW c \in Closers, CloseCall(c) \/ CloseStep(c) PROVE CloseLifecycle'
  <2> DEFINE InOnce(d) == closer[d] \in {"cancel", "source", "join"}
  <2>1. CASE CloseCall(c)
    BY <2>1 DEF CloseCall, CloseLifecycle, TypeOK
  <2>2. CASE CloseFirst(c)
    <3>1. \A d \in Closers : ~InOnce(d) /\ closer[d] # "returned"
      BY <2>2 DEF CloseFirst, CloseLifecycle
    <3>2. \A d \in Closers : closer'[d] = IF d = c THEN "cancel" ELSE closer[d]
      BY <2>2 DEF CloseFirst, TypeOK
    <3> QED BY <2>2, <3>1, <3>2 DEF CloseFirst, CloseLifecycle
  <2>3. CASE CloseCancel(c)
    <3>1. \A d \in Closers : closer'[d] = IF d = c THEN "source" ELSE closer[d]
      BY <2>3 DEF CloseCancel, TypeOK
    <3>2. opctx' # "live"
      BY <2>3 DEF CloseCancel
    <3> QED BY <2>3, <3>1, <3>2 DEF CloseCancel, CloseLifecycle
  <2>4. CASE CloseSource(c)
    <3>1. \A d \in Closers : closer'[d] = IF d = c THEN "join" ELSE closer[d]
      BY <2>4 DEF CloseSource, TypeOK
    <3> QED BY <2>4, <3>1 DEF CloseSource, CloseLifecycle
  <2>5. CASE CloseJoin(c)
    <3>1. \A d \in Closers : closer'[d] = IF d = c THEN "returned" ELSE closer[d]
      BY <2>5 DEF CloseJoin, TypeOK
    <3>2. \A d \in Closers : d # c => ~InOnce(d)
      BY <2>5 DEF CloseJoin, CloseLifecycle
    <3>3. once = "running" /\ srcClosed
      BY <2>5 DEF CloseJoin, CloseLifecycle
    <3> QED BY <2>5, <3>1, <3>2, <3>3 DEF CloseJoin, CloseLifecycle
  <2>6. CASE CloseWait(c)
    <3>1. \A d \in Closers : closer'[d] = IF d = c THEN "returned" ELSE closer[d]
      BY <2>6 DEF CloseWait, TypeOK
    <3> QED BY <2>6, <3>1 DEF CloseWait, CloseLifecycle
  <2> QED BY <1>6, <2>1, <2>2, <2>3, <2>4, <2>5, <2>6 DEF CloseStep
<1> QED BY <1>1, <1>2, <1>3, <1>4, <1>5, <1>6 DEF Next

-----------------------------------------------------------------------------
(* Recv: terminal events.                                                   *)

\* Returning the head of the pending events moves it from one queue to the other.
LEMMA MoveHead ==
  ASSUME NEW S, NEW s \in Seq(S), NEW t \in Seq(S), t # << >>
  PROVE  Append(s, Head(t)) \o Tail(t) = s \o t
<1>1. Head(t) \in S /\ Tail(t) \in Seq(S) /\ Len(Tail(t)) = Len(t) - 1
  BY HeadTailProperties
<1>2. \A i \in 1 .. Len(Tail(t)) : Tail(t)[i] = t[i + 1]
  BY HeadTailProperties
<1>3. Len(s) \in Nat /\ Len(t) \in Nat /\ Len(t) >= 1
  BY EmptySeq
<1>4. Head(t) = t[1]
  BY <1>3
<1> DEFINE a == Append(s, Head(t))
           b == Tail(t)
<1>5. a \in Seq(S) /\ b \in Seq(S) /\ Len(a) = Len(s) + 1 /\ Len(b) = Len(t) - 1
  BY <1>1, AppendProperties
<1>6. \A i \in 1 .. Len(s) + 1 : a[i] = IF i <= Len(s) THEN s[i] ELSE t[1]
  BY <1>1, <1>3, <1>4, AppendProperties
<1> HIDE DEF a, b
<1>7. /\ a \o b \in Seq(S) /\ Len(a \o b) = Len(a) + Len(b)
      /\ \A i \in 1 .. Len(a) + Len(b) : (a \o b)[i] = IF i <= Len(a) THEN a[i] ELSE b[i - Len(a)]
      /\ Len(a) + Len(b) = Len(s) + Len(t)
  <2>1. a \in Seq(S) /\ b \in Seq(S)
    BY <1>5
  <2>2. Len(a) + Len(b) = Len(s) + Len(t)
    BY <1>3, <1>5
  <2> QED BY <2>1, <2>2, ConcatProperties
<1>8. /\ s \o t \in Seq(S) /\ Len(s \o t) = Len(s) + Len(t)
      /\ \A i \in 1 .. Len(s) + Len(t) : (s \o t)[i] = IF i <= Len(s) THEN s[i] ELSE t[i - Len(s)]
  BY ConcatProperties
<1>9. ASSUME NEW i \in 1 .. Len(s) + Len(t) PROVE (a \o b)[i] = (s \o t)[i]
  <2>0. i \in 1 .. Len(a) + Len(b)
    BY <1>7
  <2>1. CASE i <= Len(s)
    <3>1. (a \o b)[i] = a[i] /\ a[i] = s[i] /\ (s \o t)[i] = s[i]
      BY <2>0, <2>1, <1>3, <1>5, <1>6, <1>7, <1>8
    <3> QED BY <3>1
  <2>2. CASE i = Len(s) + 1
    <3>1. (a \o b)[i] = a[i] /\ a[i] = t[1] /\ (s \o t)[i] = t[i - Len(s)] /\ i - Len(s) = 1
      BY <2>0, <2>2, <1>3, <1>5, <1>6, <1>7, <1>8
    <3> QED BY <3>1
  <2>3. CASE i > Len(s) + 1
    <3>1. i - Len(a) \in 1 .. Len(b) /\ (i - Len(a)) + 1 = i - Len(s)
      BY <2>3, <1>3, <1>5
    <3>2. b[i - Len(a)] = t[(i - Len(a)) + 1]
      BY <3>1, <1>2 DEF b
    <3>3. ~(i <= Len(a)) /\ ~(i <= Len(s))
      BY <2>3, <1>3, <1>5
    <3>4. (a \o b)[i] = b[i - Len(a)]
      BY <2>0, <3>3, <1>7
    <3>5. (s \o t)[i] = t[i - Len(s)]
      BY <3>3, <1>8
    <3>6. b[i - Len(a)] = t[i - Len(s)]
      <4> DEFINE j == i - Len(a)
      <4>1. j + 1 = i - Len(s) /\ b[j] = t[j + 1]
        BY <3>1, <3>2
      <4> QED BY <4>1
    <3> QED BY <3>4, <3>5, <3>6
  <2>4. i <= Len(s) \/ i = Len(s) + 1 \/ i > Len(s) + 1
    BY <1>3
  <2> QED BY <2>1, <2>2, <2>3, <2>4
<1>10. Len(a \o b) = Len(s \o t)
  BY <1>7, <1>8
<1> QED
  <2> DEFINE u == a \o b
             v == s \o t
  <2>1. u \in Seq(S) /\ v \in Seq(S) /\ Len(u) = Len(v) /\ Len(v) = Len(s) + Len(t)
    BY <1>7, <1>8
  <2>2. \A i \in 1 .. Len(u) : u[i] = v[i]
    BY <2>1, <1>9
  <2> HIDE DEF u, v
  <2>3. u = v
    BY <2>1, <2>2, SeqEqual
  <2> QED BY <2>3 DEF u, v, a, b

\* Well-shaped events after events without a terminal one.
LEMMA EndsOnceConcat ==
  ASSUME NEW s \in Seq(StreamEvent), NEW out \in Outcome, WellShaped(out), EndsOnce(s, FALSE)
  PROVE  EndsOnce(s \o out.events, out.terminal)
<1> DEFINE t == out.events
<1>1. t \in Seq(StreamEvent) /\ out.terminal \in BOOLEAN
  BY DEF Outcome
<1>2. \A i \in 1 .. Len(s) : ~IsTerminal(s[i])
  BY DEF EndsOnce, HasTerminal
<1>3. /\ \A i \in 1 .. Len(t) : IsTerminal(t[i]) <=> out.terminal /\ i = Len(t)
      /\ out.terminal => t # << >>
  BY DEF WellShaped
<1> HIDE DEF t
<1>4. /\ Len(s \o t) = Len(s) + Len(t)
      /\ \A i \in 1 .. Len(s) + Len(t) : (s \o t)[i] = IF i <= Len(s) THEN s[i] ELSE t[i - Len(s)]
  BY <1>1, ConcatProperties
<1>5. Len(s) \in Nat /\ Len(t) \in Nat /\ (t # << >> => Len(t) > 0)
  BY <1>1, EmptySeq
<1>6. ASSUME NEW i \in 1 .. Len(s) + Len(t)
      PROVE  IsTerminal((s \o t)[i]) <=> out.terminal /\ i = Len(s) + Len(t)
  <2>1. CASE i <= Len(s)
    <3>1. ~IsTerminal((s \o t)[i])
      BY <2>1, <1>2, <1>4, <1>5
    <3>2. out.terminal => i # Len(s) + Len(t)
      BY <2>1, <1>3, <1>5
    <3> QED BY <3>1, <3>2
  <2>2. CASE i > Len(s)
    <3>1. i - Len(s) \in 1 .. Len(t) /\ (s \o t)[i] = t[i - Len(s)]
      BY <2>2, <1>4, <1>5
    <3>2. i - Len(s) = Len(t) <=> i = Len(s) + Len(t)
      BY <1>5
    <3> QED BY <3>1, <3>2, <1>3
  <2> QED BY <2>1, <2>2, <1>5
<1>7. \A i \in 1 .. Len(s \o t) - 1 : ~IsTerminal((s \o t)[i])
  BY <1>4, <1>5, <1>6
<1>8. out.terminal <=> HasTerminal(s \o t)
  <2>1. ASSUME out.terminal PROVE Len(s) + Len(t) \in 1 .. Len(s) + Len(t)
    BY <2>1, <1>3, <1>5
  <2> QED BY <2>1, <1>4, <1>6 DEF HasTerminal
<1> QED BY <1>7, <1>8 DEF EndsOnce, t

RecvInv == RecvLifecycle /\ TerminalIsLast

LEMMA ReceiveTerminal ==
  ASSUME TypeOK, RecvInv, recv = "next", NEW event \in RawEvent, Receive(event)
  PROVE  RecvInv'
<1> DEFINE out == Translate(event, acc)
<1>1. out \in Outcome /\ WellShaped(out)
  BY TranslateFacts DEF TypeOK
<1>2. pending = << >> /\ terminal = FALSE
  BY DEF RecvInv, RecvLifecycle, TypeOK
<1>3. delivered \in Seq(StreamEvent) /\ delivered \o pending = delivered
  BY <1>2, ConcatEmptySeq DEF TypeOK
<1>4. EndsOnce(delivered, FALSE)
  BY <1>2, <1>3 DEF RecvInv, TerminalIsLast, Translated
<1>5. out.events \in Seq(StreamEvent) /\ pending \o out.events = out.events
  BY <1>1, <1>2, ConcatEmptySeq DEF Outcome
<1> HIDE DEF out
<1>6. terminal' = (terminal \/ out.terminal)
  BY DEF Receive, out
<1>7. out.terminal \in BOOLEAN /\ out.ok \in BOOLEAN
  BY <1>1 DEF Outcome
<1>8. CASE ~out.ok
  <2>1. recv' = "idle" /\ UNCHANGED <<pending, delivered>>
    BY <1>8 DEF Receive, Return, out
  <2>2. terminal' = FALSE
    BY <1>1, <1>2, <1>6, <1>7, <1>8 DEF WellShaped
  <2> QED BY <2>1, <2>2, <1>2, <1>3, <1>4 DEF RecvInv, RecvLifecycle, TerminalIsLast, Translated
<1>9. CASE out.ok /\ out.events # << >>
  <2>1. Deliver(out.events)
    BY <1>9, <1>5 DEF Receive, out
  <2>2. delivered' \o pending' = delivered \o out.events
    BY <2>1, <1>3, <1>5, <1>9, MoveHead DEF Deliver
  <2>3. EndsOnce(delivered \o out.events, out.terminal)
    BY <1>1, <1>3, <1>4, EndsOnceConcat
  <2>4. terminal' = out.terminal
    BY <1>2, <1>6, <1>7
  <2>5. recv' = "idle"
    BY <2>1 DEF Deliver, Return
  <2> QED BY <2>2, <2>3, <2>4, <2>5 DEF RecvInv, RecvLifecycle, TerminalIsLast, Translated
<1>10. CASE out.ok /\ out.events = << >>
  <2>1. UNCHANGED <<recv, pending, delivered>>
    BY <1>10, <1>5 DEF Receive, out
  <2>2. terminal' = FALSE
    BY <1>1, <1>2, <1>6, <1>7, <1>10 DEF WellShaped
  <2> QED BY <2>1, <2>2, <1>2, <1>3, <1>4 DEF RecvInv, RecvLifecycle, TerminalIsLast, Translated
<1> QED BY <1>7, <1>8, <1>9, <1>10


LEMMA RecvInvStep == TypeOK /\ RecvInv /\ [Next]_vars => RecvInv'
<1> USE DEF recvVars
<1> SUFFICES ASSUME TypeOK, RecvInv, [Next]_vars PROVE RecvInv'
  OBVIOUS
\* Steps of the others.
<1>1. ASSUME UNCHANGED <<recv, pending, terminal, delivered>> PROVE RecvInv'
  BY <1>1 DEF RecvInv, RecvLifecycle, TerminalIsLast, Translated
\* A Recv call returns without an event.
<1>2. ASSUME recv' = "idle", UNCHANGED <<pending, terminal, delivered>> PROVE RecvInv'
  BY <1>2 DEF RecvInv, RecvLifecycle, TerminalIsLast, Translated
<1>3. ASSUME NEW err, NEW truncated, ReceiveError(err, truncated) PROVE RecvInv'
  BY <1>2, <1>3 DEF ReceiveError, Return
<1>4. CASE ReceiveEnd
  BY <1>3, <1>4 DEF ReceiveEnd
<1>5. CASE UNCHANGED vars
  BY <1>1, <1>5 DEF vars
<1>6. CASE SourceReturns
  BY <1>1, <1>6 DEF SourceReturns, PumpEvent, PumpEnd
<1>7. CASE PumpStep
  BY <1>1, <1>7 DEF PumpStep, PumpSend, PumpAbandon, PumpCloseRaw, PumpCloseDone
<1>8. CASE RecvEnter
  BY <1>8 DEF RecvEnter, HasEnded, RecvInv, RecvLifecycle, TerminalIsLast, Translated
<1>9. CASE RecvProceed
  <2>1. recv = "entered" /\ UNCHANGED terminal
    BY <1>9 DEF RecvProceed
  <2>2. CASE Return(ContextReturned(rctx)) /\ UNCHANGED <<pending, delivered>>
    BY <1>2, <2>1, <2>2 DEF Return
  <2>3. CASE pending # << >> /\ Deliver(pending)
    <3>1. delivered' \o pending' = delivered \o pending
      BY <2>3, MoveHead DEF Deliver, TypeOK
    <3> QED BY <2>1, <2>3, <3>1 DEF Deliver, Return, RecvInv, RecvLifecycle, TerminalIsLast, Translated
  <2>4. CASE pending = << >> /\ recv' = "next" /\ UNCHANGED <<result, pending, delivered>>
    BY <2>1, <2>4 DEF RecvInv, RecvLifecycle, TerminalIsLast, Translated
  <2> QED BY <1>9, <2>2, <2>3, <2>4 DEF RecvProceed
<1>10. CASE RecvBuffered
  <2>1. Head(buffered).event \in RawEvent
    BY <1>10, SingletonFacts, RawResultFacts DEF RecvBuffered, TypeOK
  <2> QED BY <1>10, <2>1, ReceiveTerminal DEF RecvBuffered
<1>11. CASE RecvContextDone
  BY <1>3, <1>11 DEF RecvContextDone, RecvDone
<1>12. CASE RecvOperationDone
  BY <1>3, <1>12 DEF RecvOperationDone, RecvDone
<1>13. CASE RecvRaw
  <2>1. Head(raw).event \in RawEvent
    BY <1>13, SingletonFacts, RawResultFacts DEF RecvRaw, TypeOK
  <2>2. CASE ReceiveError(Head(raw).err, FALSE)
    BY <1>3, <2>2
  <2>3. CASE Receive(Head(raw).event)
    BY <1>13, <2>1, <2>3, ReceiveTerminal DEF RecvRaw
  <2> QED BY <1>13, <1>4, <2>2, <2>3 DEF RecvRaw
<1>14. CASE RecvRawClosed
  BY <1>4, <1>14 DEF RecvRawClosed
<1>15. ASSUME NEW c \in Closers, CloseCall(c) \/ CloseStep(c) PROVE RecvInv'
  BY <1>1, <1>15 DEF CloseCall, CloseStep, CloseFirst, CloseCancel, CloseSource, CloseJoin, CloseWait
<1>16. CASE OperationEnds
  BY <1>1, <1>16 DEF OperationEnds
<1>17. CASE RecvContextEnds
  BY <1>1, <1>17 DEF RecvContextEnds
<1> QED
  BY <1>5, <1>6, <1>7, <1>8, <1>9, <1>10, <1>11, <1>12, <1>13, <1>14, <1>15, <1>16, <1>17
     DEF Next, RecvStep

-----------------------------------------------------------------------------
(* The inductive invariant, and what follows from it.                       *)

StreamInvariant == TypeOK /\ Lifecycle /\ TerminalIsLast

LEMMA InitInvariant == Init => StreamInvariant
<1> SUFFICES ASSUME Init PROVE Lifecycle /\ TerminalIsLast
  BY InitType DEF StreamInvariant
<1>1. Lifecycle
  BY DEF Init, Lifecycle, PumpLifecycle, CloseLifecycle, RecvLifecycle
<1>2. Translated = << >> /\ Len(<< >>) = 0 /\ terminal = FALSE
  BY DEF Init, Translated
<1>3. TerminalIsLast
  BY <1>2 DEF TerminalIsLast, EndsOnce, HasTerminal
<1> QED BY <1>1, <1>3

LEMMA StepInvariant == StreamInvariant /\ [Next]_vars => StreamInvariant'
<1> SUFFICES ASSUME StreamInvariant, [Next]_vars PROVE StreamInvariant'
  OBVIOUS
<1>1. TypeOK /\ PumpLifecycle /\ CloseLifecycle /\ RecvInv
  BY DEF StreamInvariant, Lifecycle, RecvInv
<1>2. TypeOK'
  BY <1>1, StepType
<1>3. PumpLifecycle'
  BY <1>1, PumpLifecycleStep
<1>4. CloseLifecycle'
  BY <1>1, CloseLifecycleStep
<1>5. RecvInv'
  BY <1>1, RecvInvStep
<1> QED BY <1>2, <1>3, <1>4, <1>5 DEF StreamInvariant, Lifecycle, RecvInv

LEMMA Invariance == Spec => []StreamInvariant
BY InitInvariant, StepInvariant, PTL DEF Spec

\* The deferred calls of the pump, the owner of closeOnce and Recv stand to each
\* other as Lifecycle says; in particular Recv asks for a raw event only while
\* the stream has not ended, so the nil branch of endError is never taken.
THEOREM LifecycleHolds == Spec => []Lifecycle
<1>1. StreamInvariant => Lifecycle
  BY DEF StreamInvariant
<1> QED BY <1>1, Invariance, PTL

\* No event follows a terminal one, among those returned and those pending.
THEOREM TerminalEventIsLast == Spec => []TerminalIsLast
<1>1. StreamInvariant => TerminalIsLast
  BY DEF StreamInvariant
<1> QED BY <1>1, Invariance, PTL

\* When any of the Close calls has returned, the operation is cancelled, the
\* source closed and the pump gone, with its channel closed.
THEOREM CloseJoined == Spec => []CloseJoinsPump
<1>1. StreamInvariant => CloseJoinsPump
  BY DEF StreamInvariant, Lifecycle, PumpLifecycle, CloseLifecycle, CloseJoinsPump
<1> QED BY <1>1, Invariance, PTL

\* A Recv call never reports the end that Close itself caused as a truncated
\* stream: CloseNeverLooksLikeTruncation, step by step.
THEOREM CloseIsNoTruncation == Spec => CloseNeverLooksLikeTruncation
<1> DEFINE NoTruncation ==
      srcClosed /\ recv # "idle" /\ recv' = "idle" => ~(result'.is = "error" /\ result'.truncated)
<1>1. ASSUME StreamInvariant, [Next]_vars PROVE [NoTruncation]_vars
  <2> SUFFICES ASSUME srcClosed, recv # "idle", recv' = "idle",
                      result'.is = "error", result'.truncated
               PROVE  FALSE
    OBVIOUS
  <2>1. opctx # "live"
    BY <1>1 DEF StreamInvariant, Lifecycle, CloseLifecycle
  <2>2. ASSUME NEW err, ReceiveError(err, FALSE) PROVE FALSE
    BY <2>2 DEF ReceiveError, Return, ContextReturned, StreamError
  <2>3. CASE ReceiveEnd
    BY <2>1, <2>2, <2>3 DEF ReceiveEnd
  <2>4. ASSUME NEW events, Deliver(events) PROVE FALSE
    BY <2>4 DEF Deliver, Return, EventReturned
  <2>5. ASSUME NEW event, Receive(event) PROVE FALSE
    BY <2>4, <2>5 DEF Receive, Return, ProtocolError
  <2>6. RecvStep
    BY <1>1 DEF Next, vars, recvVars, SourceReturns, PumpEvent, PumpEnd, PumpStep, PumpSend,
         PumpAbandon, PumpCloseRaw, PumpCloseDone, RecvEnter, CloseCall, CloseStep, CloseFirst,
         CloseCancel, CloseSource, CloseJoin, CloseWait, OperationEnds, RecvContextEnds
  <2>7. CASE RecvProceed
    BY <2>4, <2>7 DEF RecvProceed, Return, ContextReturned
  <2>8. CASE RecvBuffered
    BY <2>5, <2>8 DEF RecvBuffered
  <2>9. CASE RecvContextDone \/ RecvOperationDone
    BY <2>2, <2>9 DEF RecvContextDone, RecvDone, RecvOperationDone
  <2>10. CASE RecvRaw
    BY <2>2, <2>3, <2>5, <2>10 DEF RecvRaw
  <2>11. CASE RecvRawClosed
    BY <2>3, <2>11 DEF RecvRawClosed
  <2> QED BY <2>6, <2>7, <2>8, <2>9, <2>10, <2>11 DEF RecvStep
<1> QED BY <1>1, Invariance, PTL DEF Spec, CloseNeverLooksLikeTruncation

-----------------------------------------------------------------------------
(* The pipeline.                                                            *)

\* One more element at the end of a sequence is one more at the end of its suffixes.
LEMMA SuffixGrows ==
  ASSUME NEW S, NEW s \in Seq(S), NEW x \in S, NEW n \in Nat, n <= Len(s)
  PROVE  /\ Len(s \o <<x>>) = Len(s) + 1
         /\ SubSeq(s \o <<x>>, n + 1, Len(s) + 1) = SubSeq(s, n + 1, Len(s)) \o <<x>>
<1> DEFINE t == s \o <<x>>
           u == SubSeq(t, n + 1, Len(s))
           v == SubSeq(s, n + 1, Len(s))
<1>1. <<x>> \in Seq(S) /\ Len(<<x>>) = 1 /\ Len(s) \in Nat
  BY LenProperties
<1>2. /\ t \in Seq(S) /\ Len(t) = Len(s) + 1 /\ t[Len(s) + 1] = x
      /\ \A i \in 1 .. Len(s) : t[i] = s[i]
  BY <1>1, ConcatProperties
<1>3. \A i \in n + 1 .. Len(s) : s[i] \in S /\ t[i] \in S
  BY <1>1, <1>2, ElementOfSeq
<1> HIDE DEF t
<1>4. /\ u \in Seq(S) /\ v \in Seq(S) /\ Len(u) = Len(v)
      /\ Len(v) = IF n + 1 <= Len(s) THEN Len(s) - (n + 1) + 1 ELSE 0
      /\ \A i \in 1 .. Len(s) - (n + 1) + 1 : u[i] = t[n + 1 + i - 1] /\ v[i] = s[n + 1 + i - 1]
  BY <1>1, <1>3, SubSeqProperties
<1>5. \A i \in 1 .. Len(u) : u[i] = v[i]
  BY <1>1, <1>2, <1>4
<1>6. u = v
  BY <1>4, <1>5, SeqEqual
<1>7. SubSeq(t, n + 1, Len(s) + 1) = SubSeq(t, n + 1, (Len(s) + 1) - 1) \o << t[Len(s) + 1] >>
  <2>1. n + 1 \in 1 .. Len(t) /\ Len(s) + 1 \in n + 1 .. Len(t)
    BY <1>1, <1>2
  <2> QED BY <1>2, <2>1, SubSeqRecursiveSecond
<1>8. (Len(s) + 1) - 1 = Len(s)
  BY <1>1
<1> QED BY <1>2, <1>6, <1>7, <1>8 DEF t

\* A part that starts with a known element continues with the rest of it.
LEMMA PartLosesHead ==
  ASSUME NEW S, NEW s \in Seq(S), NEW k \in Nat \ {0}, NEW m \in 0 .. Len(s),
         NEW h \in S, NEW rest \in Seq(S), SubSeq(s, k, m) = <<h>> \o rest
  PROVE  k <= m /\ SubSeq(s, k + 1, m) = rest
<1> DEFINE u == SubSeq(s, k, m)
<1>1. <<h>> \in Seq(S) /\ Len(<<h>>) = 1 /\ Len(s) \in Nat /\ Len(rest) \in Nat
  BY LenProperties
<1>2. u \in Seq(S) /\ Len(u) = 1 + Len(rest)
  BY <1>1, ConcatProperties
<1>3. k <= m
  <2>1. CASE m < k
    <3>1. u = << >>
      BY <2>1, SubSeqEmpty
    <3> QED BY <1>1, <1>2, <3>1
  <2> QED BY <2>1
<1>4. Tail(u) = SubSeq(s, k + 1, m)
  <2>1. k \in 1 .. Len(s) /\ m \in k .. Len(s)
    BY <1>1, <1>3
  <2> QED BY <2>1, HeadTailOfSubSeq
<1>5. Tail(u) = rest
  <2>1. u # << >>
    BY <1>1, <1>2
  <2>2. /\ Tail(u) \in Seq(S) /\ Len(Tail(u)) = Len(u) - 1
        /\ \A i \in 1 .. Len(Tail(u)) : Tail(u)[i] = u[i + 1]
    BY <1>2, <2>1, HeadTailProperties
  <2>3. \A i \in 1 .. Len(rest) : u[i + 1] = rest[i]
    <3>1. /\ Len(<<h>> \o rest) = 1 + Len(rest)
          /\ \A i \in 1 .. 1 + Len(rest) :
               (<<h>> \o rest)[i] = IF i <= 1 THEN <<h>>[i] ELSE rest[i - 1]
      BY <1>1, ConcatProperties
    <3>2. TAKE i \in 1 .. Len(rest)
    <3>3. i + 1 \in 1 .. 1 + Len(rest) /\ ~(i + 1 <= 1) /\ (i + 1) - 1 = i
      BY <1>1
    <3> QED BY <3>1, <3>3
  <2> DEFINE v == Tail(u)
  <2>4. v \in Seq(S) /\ Len(v) = Len(u) - 1 /\ \A i \in 1 .. Len(v) : v[i] = u[i + 1]
    BY <2>2
  <2> HIDE DEF u, v
  <2>5. Len(v) = Len(rest)
    BY <1>1, <1>2, <2>4
  <2>6. \A i \in 1 .. Len(v) : v[i] = rest[i]
    BY <2>3, <2>4, <2>5
  <2>7. v = rest
    BY <2>4, <2>5, <2>6, SeqEqual
  <2> QED BY <2>7 DEF v
<1> QED BY <1>3, <1>4, <1>5

\* A suffix that ends with a known element, without it.
LEMMA SuffixLosesLast ==
  ASSUME NEW S, NEW s \in Seq(S), NEW k \in Nat \ {0},
         NEW t \in Seq(S), NEW w \in Seq(S), Len(w) = 1,
         SubSeq(s, k, Len(s)) = t \o w
  PROVE  k <= Len(s) /\ SubSeq(s, k, Len(s) - 1) = t
<1> DEFINE u == SubSeq(s, k, Len(s))
           v == SubSeq(s, k, Len(s) - 1)
<1>1. Len(s) \in Nat /\ Len(t) \in Nat
  BY LenProperties
<1>2. /\ Len(u) = Len(t) + 1
      /\ \A i \in 1 .. Len(t) : u[i] = t[i]
  <2>1. u = t \o w
    OBVIOUS
  <2> HIDE DEF u
  <2>2. /\ Len(t \o w) = Len(t) + Len(w)
        /\ \A i \in 1 .. Len(t) + Len(w) : (t \o w)[i] = IF i <= Len(t) THEN t[i] ELSE w[i - Len(t)]
    BY ConcatProperties
  <2> QED BY <1>1, <2>1, <2>2
<1>3. k <= Len(s)
  <2>1. CASE Len(s) < k
    <3>1. u = << >>
      BY <1>1, <2>1, SubSeqEmpty
    <3> QED BY <1>1, <1>2, <3>1
  <2> QED BY <1>1, <2>1
<1>4. \A i \in k .. Len(s) : s[i] \in S
  BY <1>1, ElementOfSeq
<1>5. /\ Len(u) = IF k <= Len(s) THEN Len(s) - k + 1 ELSE 0
      /\ \A i \in 1 .. Len(s) - k + 1 : u[i] = s[k + i - 1]
  BY <1>1, <1>4, SubSeqProperties
<1>6. \A i \in k .. Len(s) - 1 : s[i] \in S
  BY <1>1, <1>4
<1>7. /\ v \in Seq(S)
      /\ Len(v) = IF k <= Len(s) - 1 THEN (Len(s) - 1) - k + 1 ELSE 0
      /\ \A i \in 1 .. (Len(s) - 1) - k + 1 : v[i] = s[k + i - 1]
  BY <1>1, <1>6, SubSeqProperties
<1> HIDE DEF u, v
<1>8. Len(v) = Len(t)
  BY <1>1, <1>2, <1>3, <1>5, <1>7
<1>9. \A i \in 1 .. Len(v) : v[i] = t[i]
  BY <1>1, <1>2, <1>3, <1>5, <1>7, <1>8
<1>10. v = t
  BY <1>7, <1>8, <1>9, SeqEqual
<1> QED BY <1>3, <1>10 DEF v

\* What a queue of capacity one holds when it is not empty.
LEMMA SingletonShape ==
  ASSUME NEW S, NEW q \in Seq(S), q # << >>, Len(q) <= 1
  PROVE  \E h \in S : q = <<h>>
<1>1. Len(q) = 1
  <2>1. Len(q) \in Nat \ {0}
    BY EmptySeq
  <2> QED BY <2>1
<1>2. q[1] \in S
  BY <1>1, ElementOfSeq
<1>3. << q[1] >> \in Seq(S) /\ Len(<< q[1] >>) = 1 /\ << q[1] >>[1] = q[1]
  BY <1>2
<1>4. q = << q[1] >>
  BY <1>1, <1>3, SeqEqual
<1> QED BY <1>2, <1>4

\* Consuming the first result in flight keeps the rest of them in flight.
LEMMA ConsumeKeepsPipeline ==
  ASSUME TypeOK, PipelineIntegrity, NEW h \in RawResult, NEW rest \in Seq(RawResult),
         InFlight = <<h>> \o rest, InFlight' = rest,
         taken' = taken + 1, UNCHANGED <<produced, opctx, pump>>
  PROVE  PipelineIntegrity'
<1>1. /\ produced \in Seq(RawResult) /\ Len(produced) \in Nat
      /\ taken \in Nat /\ taken <= Len(produced)
      /\ taken + 1 \in Nat \ {0} /\ taken' + 1 = (taken + 1) + 1
  BY LenProperties DEF TypeOK, PipelineIntegrity
<1>2. ASSUME NEW m \in 0 .. Len(produced), SubSeq(produced, taken + 1, m) = InFlight
      PROVE  taken + 1 <= m /\ SubSeq(produced, (taken + 1) + 1, m) = rest
  <2> DEFINE first == taken + 1
  <2>1. first \in Nat \ {0} /\ SubSeq(produced, first, m) = <<h>> \o rest
    BY <1>1, <1>2
  <2> HIDE DEF first
  <2>2. first <= m /\ SubSeq(produced, first + 1, m) = rest
    BY <1>1, <2>1, PartLosesHead, SMTT(30)
  <2> QED BY <2>2 DEF first
<1>3. CASE SubSeq(produced, taken + 1, Len(produced)) = InFlight
  <2>1. Len(produced) \in 0 .. Len(produced)
    BY <1>1
  <2>2. taken + 1 <= Len(produced) /\ SubSeq(produced, (taken + 1) + 1, Len(produced)) = rest
    BY <1>2, <1>3, <2>1
  <2> QED BY <1>1, <2>2 DEF PipelineIntegrity
<1>4. CASE /\ opctx # "live"
           /\ pump \in {"closeRaw", "closeDone", "done"}
           /\ Len(produced) > taken
           /\ SubSeq(produced, taken + 1, Len(produced) - 1) = InFlight
  <2>1. Len(produced) - 1 \in 0 .. Len(produced)
    BY <1>1, <1>4
  <2>2. /\ taken + 1 <= Len(produced) - 1
        /\ SubSeq(produced, (taken + 1) + 1, Len(produced) - 1) = rest
    BY <1>2, <1>4, <2>1
  <2> QED BY <1>1, <1>4, <2>2 DEF PipelineIntegrity
<1> QED BY <1>3, <1>4 DEF PipelineIntegrity

\* A result the source returns joins those in flight, behind them.
LEMMA ProduceKeepsPipeline ==
  ASSUME TypeOK, PipelineIntegrity, PumpLifecycle, pump = "next", NEW r \in RawResult,
         held' = <<r>>, produced' = produced \o <<r>>,
         UNCHANGED <<opctx, raw, buffered, taken>>
  PROVE  PipelineIntegrity'
<1>1. held = << >> /\ SubSeq(produced, taken + 1, Len(produced)) = InFlight
  BY DEF PumpLifecycle, PipelineIntegrity
<1>2. /\ buffered \o raw \in Seq(RawResult) /\ produced \in Seq(RawResult)
      /\ taken \in Nat /\ taken <= Len(produced) /\ Len(produced) \in Nat
  BY ConcatProperties, LenProperties DEF TypeOK, PipelineIntegrity
<1>3. InFlight = buffered \o raw
  BY <1>1, <1>2, ConcatEmptySeq DEF InFlight
<1>4. InFlight' = InFlight \o <<r>>
  BY <1>3 DEF InFlight
<1>5. /\ Len(produced') = Len(produced) + 1
      /\ SubSeq(produced', taken + 1, Len(produced) + 1)
           = SubSeq(produced, taken + 1, Len(produced)) \o <<r>>
  BY <1>2, SuffixGrows
<1>6. SubSeq(produced', taken' + 1, Len(produced')) = InFlight'
  BY <1>1, <1>4, <1>5
<1>7. taken' <= Len(produced')
  BY <1>2, <1>5
<1> QED BY <1>6, <1>7 DEF PipelineIntegrity

\* The select of the pump moves the held result to the empty channel, or drops it.
LEMMA PumpKeepsPipeline ==
  ASSUME TypeOK, PipelineIntegrity, PumpLifecycle, PumpSend \/ PumpAbandon
  PROVE  PipelineIntegrity'
<1>1. /\ pump \in {"offer", "offerEnd"} /\ held # << >> /\ held' = << >>
      /\ UNCHANGED <<opctx, buffered, produced, taken>>
      /\ SubSeq(produced, taken + 1, Len(produced)) = InFlight
  BY DEF PumpSend, PumpAbandon, PumpLifecycle, PipelineIntegrity, recvVars, chanVars
<1>2. /\ buffered \in Seq(RawResult) /\ raw \in Seq(RawResult) /\ held \in Seq(RawResult)
      /\ buffered \o raw \in Seq(RawResult) /\ produced \in Seq(RawResult)
      /\ taken \in Nat /\ taken <= Len(produced) /\ Len(produced) \in Nat
  BY ConcatProperties, LenProperties DEF TypeOK, PipelineIntegrity
<1>3. CASE PumpSend
  <2>1. raw = << >> /\ raw' = held
    BY <1>3 DEF PumpSend
  <2>2. InFlight = buffered \o held
    BY <1>2, <2>1, ConcatEmptySeq DEF InFlight
  <2>3. buffered \o held \in Seq(RawResult)
    BY <1>2, ConcatProperties
  <2>4. InFlight' = buffered \o held
    BY <1>1, <2>1, <2>3, ConcatEmptySeq DEF InFlight
  <2> QED BY <1>1, <1>2, <2>2, <2>4 DEF PipelineIntegrity
<1>4. CASE PumpAbandon
  <2>1. opctx # "live" /\ pump' = "closeRaw" /\ raw' = raw
    BY <1>4 DEF PumpAbandon, chanVars
  <2>2. Len(held) = 1
    <3> DEFINE size == Len(held)
    <3>1. size \in Nat \ {0}
      BY <1>1, <1>2, EmptySeq
    <3>2. size <= 1
      BY DEF TypeOK
    <3> HIDE DEF size
    <3>3. size = 1
      BY <3>1, <3>2
    <3> QED BY <3>3 DEF size
  <2> DEFINE first == taken + 1
             kept  == buffered \o raw
  <2>3. first \in Nat \ {0} /\ kept \in Seq(RawResult)
    BY <1>2
  <2>4. SubSeq(produced, first, Len(produced)) = kept \o held
    BY <1>1 DEF InFlight
  <2>5. InFlight' = kept
    BY <1>1, <1>2, <2>1, ConcatEmptySeq DEF InFlight
  <2> HIDE DEF first, kept
  <2>6. first <= Len(produced) /\ SubSeq(produced, first, Len(produced) - 1) = kept
    BY <1>2, <2>2, <2>3, <2>4, SuffixLosesLast
  <2>7. /\ taken < Len(produced)
        /\ SubSeq(produced, taken + 1, Len(produced) - 1) = InFlight'
    BY <1>2, <2>5, <2>6 DEF first
  <2> QED BY <1>1, <1>2, <2>1, <2>7 DEF PipelineIntegrity
<1> QED BY <1>3, <1>4

\* Recv consumes the prefetched event, or the result in the channel behind it.
LEMMA RecvKeepsPipeline ==
  ASSUME TypeOK, PipelineIntegrity, RecvBuffered \/ RecvRaw
  PROVE  PipelineIntegrity'
<1>1. /\ buffered \in Seq(RawResult) /\ Len(buffered) <= 1
      /\ raw \in Seq(RawResult) /\ Len(raw) <= 1 /\ held \in Seq(RawResult)
      /\ raw \o held \in Seq(RawResult)
  BY ConcatProperties DEF TypeOK
<1>2. CASE RecvBuffered
  <2>1. /\ buffered # << >> /\ buffered' = << >> /\ taken' = taken + 1
        /\ UNCHANGED <<opctx, pump, produced, raw, held>>
    BY <1>2 DEF RecvBuffered, pumpVars, chanVars
  <2>2. PICK h \in RawResult : buffered = <<h>>
    BY <1>1, <2>1, SingletonShape
  <2>3. InFlight = <<h>> \o (raw \o held)
    BY <1>1, <2>2, ConcatAssociative, SMTT(30) DEF InFlight
  <2>4. InFlight' = raw \o held
    BY <1>1, <2>1, ConcatEmptySeq DEF InFlight
  <2> QED BY <1>1, <2>1, <2>3, <2>4, ConsumeKeepsPipeline
<1>3. CASE RecvRaw
  <2>1. /\ buffered = << >> /\ raw # << >> /\ raw' = << >> /\ taken' = taken + 1
        /\ UNCHANGED <<opctx, pump, produced, buffered, held>>
    BY <1>3 DEF RecvRaw, pumpVars
  <2>2. PICK h \in RawResult : raw = <<h>>
    BY <1>1, <2>1, SingletonShape
  <2>3. InFlight = <<h>> \o held
    BY <1>1, <2>1, <2>2, ConcatEmptySeq DEF InFlight
  <2>4. InFlight' = held
    BY <1>1, <2>1, ConcatEmptySeq DEF InFlight
  <2> QED BY <1>1, <2>1, <2>3, <2>4, ConsumeKeepsPipeline
<1> QED BY <1>2, <1>3

\* The other steps leave the results where they are, and never make an ended
\* operation live again.
LEMMA PipelineUntouched ==
  ASSUME PipelineIntegrity, UNCHANGED <<buffered, raw, held, produced, taken>>,
         opctx # "live" => opctx' # "live",
         pump \in {"closeRaw", "closeDone", "done"} => pump' \in {"closeRaw", "closeDone", "done"}
  PROVE  PipelineIntegrity'
<1>1. InFlight' = InFlight
  BY DEF InFlight
<1> QED BY <1>1 DEF PipelineIntegrity

LEMMA InitPipeline == Init => PipelineIntegrity
<1> SUFFICES ASSUME Init PROVE PipelineIntegrity
  OBVIOUS
<1>1. /\ buffered \in Seq(RawResult) /\ produced = buffered /\ taken = 0
      /\ raw = << >> /\ held = << >>
  BY InitType DEF Init, TypeOK
<1>2. InFlight = buffered
  BY <1>1, ConcatEmptySeq DEF InFlight
<1>3. SubSeq(produced, 1, Len(produced)) = produced /\ Len(produced) \in Nat
  BY <1>1, SubSeqFull, LenProperties
<1>4. taken + 1 = 1 /\ taken <= Len(produced)
  BY <1>1, <1>3
<1>5. SubSeq(produced, taken + 1, Len(produced)) = InFlight
  BY <1>1, <1>2, <1>3, <1>4
<1> QED BY <1>4, <1>5 DEF PipelineIntegrity

LEMMA PipelineStep == TypeOK /\ PumpLifecycle /\ PipelineIntegrity /\ [Next]_vars => PipelineIntegrity'
<1> USE DEF pumpVars, chanVars, recvVars, closeVars
<1> SUFFICES ASSUME TypeOK, PumpLifecycle, PipelineIntegrity, [Next]_vars PROVE PipelineIntegrity'
  OBVIOUS
<1>1. CASE UNCHANGED vars
  BY <1>1, PipelineUntouched DEF vars
<1>2. ASSUME NEW event \in RawEvents, PumpEvent(event) PROVE PipelineIntegrity'
  BY <1>2, RawResultFacts, ProduceKeepsPipeline DEF PumpEvent
<1>3. ASSUME NEW err \in {Nil, Canceled, Deadline} \cup SourceErrors, PumpEnd(err)
      PROVE  PipelineIntegrity'
  BY <1>3, RawResultFacts, ProduceKeepsPipeline DEF PumpEnd
<1>4. CASE PumpSend \/ PumpAbandon
  BY <1>4, PumpKeepsPipeline
<1>5. CASE PumpCloseRaw \/ PumpCloseDone
  BY <1>5, PipelineUntouched DEF PumpCloseRaw, PumpCloseDone
<1>6. CASE RecvBuffered \/ RecvRaw
  BY <1>6, RecvKeepsPipeline
<1>7. CASE RecvEnter \/ RecvProceed \/ RecvContextEnds
  BY <1>7, PipelineUntouched DEF RecvEnter, RecvProceed, RecvContextEnds
<1>8. CASE RecvContextDone \/ RecvOperationDone \/ RecvRawClosed
  BY <1>8, PipelineUntouched DEF RecvContextDone, RecvOperationDone, RecvDone, RecvRawClosed
<1>9. ASSUME NEW c \in Closers, CloseCall(c) \/ CloseStep(c) PROVE PipelineIntegrity'
  BY <1>9, PipelineUntouched
     DEF CloseCall, CloseStep, CloseFirst, CloseCancel, CloseSource, CloseJoin, CloseWait
<1>10. CASE OperationEnds
  BY <1>10, PipelineUntouched DEF OperationEnds
<1> QED BY <1>1, <1>2, <1>3, <1>4, <1>5, <1>6, <1>7, <1>8, <1>9, <1>10
        DEF Next, SourceReturns, PumpStep, RecvStep

\* Whatever the source returns and however the pump, Recv and Close interleave, no
\* result is lost, duplicated or reordered between source.Next and Recv, except
\* the last one, which the pump may drop after the operation ended.
THEOREM PipelineKept == Spec => []PipelineIntegrity
<1>1. Lifecycle => PumpLifecycle
  BY DEF Lifecycle
<1> QED BY <1>1, LifecycleHolds, TypeCorrect, InitPipeline, PipelineStep, PTL DEF Spec

-----------------------------------------------------------------------------
(* The replay.                                                              *)

ReplayState == [events : Seq(StreamEvent), acc : Accumulator, rejected : BOOLEAN]

LEMMA ReplayStartType == ReplayStart \in ReplayState
<1>1. << >> \in Seq(StreamEvent) /\ << >> \in Text
  BY EmptySeq DEF Text
<1>2. [text |-> << >>, seen |-> {}] \in Accumulator
  BY <1>1 DEF Accumulator
<1> QED BY <1>1, <1>2 DEF ReplayStart, ReplayState

LEMMA ReplayStepType ==
  ASSUME NEW results \in Seq(RawResult), NEW i \in 1 .. Len(results), NEW before \in ReplayState
  PROVE  ReplayStep(results, i, before) \in ReplayState
<1> DEFINE out == Translate(results[i].event, before.acc)
<1>1. results[i] \in RawResult
  BY ElementOfSeq
<1>2. results[i].event \in RawEvent /\ before.acc \in Accumulator
  BY <1>1, RawResultFacts DEF ReplayState
<1>3. out \in Outcome
  BY <1>2, TranslateFacts
<1>4. CASE ~CarriesEvent(results, i)
  BY <1>4 DEF ReplayStep
<1>5. CASE CarriesEvent(results, i)
  <2>1. ReplayStep(results, i, before) =
          [events |-> before.events \o out.events, acc |-> out.acc,
           rejected |-> before.rejected \/ ~out.ok]
    BY <1>5 DEF ReplayStep
  <2> HIDE DEF out
  <2>2. before.events \o out.events \in Seq(StreamEvent)
    BY <1>3, ConcatProperties DEF Outcome, ReplayState
  <2> QED BY <1>3, <2>1, <2>2 DEF Outcome, ReplayState
<1> QED BY <1>4, <1>5

\* The replay of results is the run of its steps.
ReplaySteps(results) ==
  [i \in Nat |-> [before \in ReplayState |->
     IF i \in 1 .. Len(results) THEN ReplayStep(results, i, before) ELSE before]]

LEMMA ReplayStepsType ==
  ASSUME NEW results \in Seq(RawResult)
  PROVE  ReplaySteps(results) \in [Nat -> [ReplayState -> ReplayState]]
BY ReplayStepType DEF ReplaySteps

LEMMA ReplayIsRun ==
  ASSUME NEW results \in Seq(RawResult), NEW n \in 0 .. Len(results)
  PROVE  \E h : IsRun(h, ReplaySteps(results), ReplayState, ReplayStart, n) /\ Replay(results, n) = h[n]
<1> DEFINE F == ReplaySteps(results)
           Body(f) == [i \in 0 .. n |->
             IF i = 0 THEN ReplayStart ELSE ReplayStep(results, i, f[i - 1])]
           s == CHOOSE f : f = Body(f)
<1>1. n \in Nat /\ Len(results) \in Nat
  BY LenProperties
<1>2. PICK h : IsRun(h, F, ReplayState, ReplayStart, n)
  <2> HIDE DEF F
  <2>1. F \in [Nat -> [ReplayState -> ReplayState]]
    BY ReplayStepsType DEF F
  <2> QED BY <1>1, <2>1, ReplayStartType, RunExists
<1>3. ASSUME NEW i \in 1 .. n, NEW before \in ReplayState
      PROVE  F[i][before] = ReplayStep(results, i, before)
  BY <1>1 DEF ReplaySteps
<1> HIDE DEF F
<1>4. h = Body(h)
  <2>1. ASSUME NEW i \in 1 .. n PROVE h[i] = ReplayStep(results, i, h[i - 1])
    <3>1. h[i - 1] \in ReplayState /\ h[i] = F[i][h[i - 1]]
      BY <1>1, <1>2 DEF IsRun
    <3> QED BY <1>3, <3>1
  <2> QED BY <1>1, <1>2, <2>1 DEF IsRun
<1>5. s = Body(s)
  <2> HIDE DEF Body
  <2> QED BY <1>4
<1>6. Replay(results, n) = s[n]
  BY DEF Replay
<1> HIDE DEF s
<1>7. s[0] = ReplayStart /\ \A i \in 1 .. n : s[i] = ReplayStep(results, i, s[i - 1])
  BY <1>1, <1>5
<1>8. DOMAIN s = 0 .. n /\ s = [i \in 0 .. n |-> s[i]]
  BY <1>5
<1> HIDE DEF Body
<1>9. \A i \in 0 .. n : s[i] = h[i]
  <2> DEFINE T == {i \in Nat : i <= n => s[i] = h[i]}
  <2>1. 0 \in T
    BY <1>2, <1>7 DEF IsRun
  <2>2. \A i \in T : i + 1 \in T
    <3>1. SUFFICES ASSUME NEW i \in T, i + 1 <= n PROVE s[i + 1] = h[i + 1]
      OBVIOUS
    <3>2. i + 1 \in 1 .. n /\ (i + 1) - 1 = i /\ s[i] = h[i] /\ h[i] \in ReplayState
      BY <1>1, <1>2, <3>1 DEF IsRun
    <3>3. s[i + 1] = ReplayStep(results, i + 1, s[i])
      BY <1>7, <3>2
    <3>4. h[i + 1] = F[i + 1][h[i]]
      BY <1>2, <3>2 DEF IsRun
    <3> QED BY <1>3, <3>2, <3>3, <3>4
  <2>3. T = Nat
    <3> HIDE DEF T
    <3> QED BY <2>1, <2>2, SetInduction DEF T
  <2> QED BY <2>3
<1> QED BY <1>1, <1>2, <1>6, <1>9 DEF F

\* The replay, unfolded.
LEMMA ReplayUnfolds ==
  ASSUME NEW results \in Seq(RawResult)
  PROVE  /\ Replay(results, 0) = ReplayStart
         /\ \A n \in 0 .. Len(results) : Replay(results, n) \in ReplayState
         /\ \A n \in 1 .. Len(results) :
              Replay(results, n) = ReplayStep(results, n, Replay(results, n - 1))
<1> DEFINE F == ReplaySteps(results)
<1>1. Len(results) \in Nat
  BY LenProperties
<1> HIDE DEF F
<1>2. \A n \in 0 .. Len(results) :
        \E h : IsRun(h, F, ReplayState, ReplayStart, n) /\ Replay(results, n) = h[n]
  BY ReplayIsRun DEF F
<1>3. Replay(results, 0) = ReplayStart
  BY <1>1, <1>2 DEF IsRun
<1>4. ASSUME NEW n \in 0 .. Len(results) PROVE Replay(results, n) \in ReplayState
  BY <1>1, <1>2 DEF IsRun
<1>5. ASSUME NEW n \in 1 .. Len(results)
      PROVE  Replay(results, n) = ReplayStep(results, n, Replay(results, n - 1))
  <2>1. n - 1 \in 0 .. Len(results) /\ n \in 0 .. Len(results) /\ n - 1 \in Nat /\ n \in Nat
    BY <1>1
  <2>2. PICK g : IsRun(g, F, ReplayState, ReplayStart, n - 1) /\ Replay(results, n - 1) = g[n - 1]
    BY <1>2, <2>1
  <2>3. PICK h : IsRun(h, F, ReplayState, ReplayStart, n) /\ Replay(results, n) = h[n]
    BY <1>2, <2>1
  <2>4. g[n - 1] = h[n - 1]
    <3>1. n - 1 <= n /\ n - 1 \in 0 .. n - 1
      BY <2>1
    <3> QED BY <2>1, <2>2, <2>3, <3>1, RunUnique
  <2>5. h[n] = F[n][h[n - 1]] /\ h[n - 1] \in ReplayState
    BY <2>1, <2>3 DEF IsRun
  <2>6. F[n][h[n - 1]] = ReplayStep(results, n, h[n - 1])
    BY <2>1, <2>5 DEF F, ReplaySteps
  <2> QED BY <2>2, <2>3, <2>4, <2>5, <2>6
<1> QED BY <1>3, <1>4, <1>5

\* Results that arrive later do not change the replay of the earlier ones.
LEMMA ReplayKept ==
  ASSUME NEW results \in Seq(RawResult), NEW r \in RawResult, NEW n \in 0 .. Len(results)
  PROVE  Replay(results \o <<r>>, n) = Replay(results, n)
<1> DEFINE more == results \o <<r>>
<1>1. /\ more \in Seq(RawResult) /\ Len(results) \in Nat /\ Len(more) = Len(results) + 1
      /\ \A i \in 1 .. Len(results) : more[i] = results[i]
  <2>1. <<r>> \in Seq(RawResult) /\ Len(<<r>>) = 1 /\ Len(results) \in Nat
    BY LenProperties
  <2> QED BY <2>1, ConcatProperties
<1> HIDE DEF more
<1>2. \A i \in 1 .. Len(results), before \in ReplayState :
        ReplayStep(more, i, before) = ReplayStep(results, i, before)
  BY <1>1 DEF ReplayStep, CarriesEvent
<1> DEFINE T == {i \in Nat : i <= Len(results) => Replay(more, i) = Replay(results, i)}
<1>3. 0 \in T
  BY <1>1, ReplayUnfolds
<1>4. \A i \in T : i + 1 \in T
  <2>1. SUFFICES ASSUME NEW i \in T, i + 1 <= Len(results)
                 PROVE  Replay(more, i + 1) = Replay(results, i + 1)
    OBVIOUS
  <2>2. /\ i + 1 \in 1 .. Len(results) /\ i + 1 \in 1 .. Len(more) /\ (i + 1) - 1 = i
        /\ i \in 0 .. Len(results) /\ Replay(more, i) = Replay(results, i)
    BY <1>1, <2>1
  <2>3. /\ Replay(results, i) \in ReplayState
        /\ Replay(results, i + 1) = ReplayStep(results, i + 1, Replay(results, i))
        /\ Replay(more, i + 1) = ReplayStep(more, i + 1, Replay(more, i))
    BY <1>1, <2>2, ReplayUnfolds
  <2> QED BY <1>2, <2>2, <2>3
<1>5. T = Nat
  <2> HIDE DEF T
  <2> QED BY <1>3, <1>4, SetInduction DEF T
<1> QED BY <1>1, <1>5 DEF more

-----------------------------------------------------------------------------
(* Sequential equivalence.                                                  *)

\* receive appends the translation of its raw event to the events translated.
LEMMA ReceiveTranslates ==
  ASSUME TypeOK, NEW event \in RawEvent, Receive(event)
  PROVE  /\ Translated' = Translated \o Translate(event, acc).events
         /\ acc' = Translate(event, acc).acc
<1> DEFINE out  == Translate(event, acc)
           todo == pending \o out.events
<1>1. out \in Outcome /\ WellShaped(out)
  BY TranslateFacts DEF TypeOK
<1>2. acc' = out.acc
  BY DEF Receive
<1>3. \/ ~out.ok /\ UNCHANGED <<pending, delivered>>
      \/ out.ok /\ todo # << >> /\ Deliver(todo)
      \/ out.ok /\ todo = << >> /\ UNCHANGED <<pending, delivered>>
  BY DEF Receive
<1> HIDE DEF out
<1>4. /\ pending \in Seq(StreamEvent) /\ delivered \in Seq(StreamEvent)
      /\ out.events \in Seq(StreamEvent) /\ todo \in Seq(StreamEvent)
      /\ Translated \in Seq(StreamEvent)
  BY <1>1, ConcatProperties DEF TypeOK, Outcome, Translated
<1>5. delivered \o todo = Translated \o out.events
  <2> DEFINE events == out.events
  <2>1. delivered \in Seq(StreamEvent) /\ pending \in Seq(StreamEvent) /\ events \in Seq(StreamEvent)
    BY <1>4
  <2> HIDE DEF events
  <2>2. (delivered \o pending) \o events = delivered \o (pending \o events)
    BY <2>1, ConcatAssociative, SMTT(30)
  <2> QED BY <2>2 DEF events, Translated
<1>6. CASE ~out.ok /\ UNCHANGED <<pending, delivered>>
  <2>1. out.events = << >>
    BY <1>1, <1>6 DEF WellShaped
  <2>2. Translated \o out.events = Translated
    BY <1>4, <2>1, ConcatEmptySeq
  <2> QED BY <1>2, <1>6, <2>2 DEF Translated, out
<1>7. CASE todo # << >> /\ Deliver(todo)
  <2>1. Append(delivered, Head(todo)) \o Tail(todo) = delivered \o todo
    <3> HIDE DEF todo
    <3> QED BY <1>4, <1>7, MoveHead
  <2>2. Translated' = Append(delivered, Head(todo)) \o Tail(todo)
    BY <1>7 DEF Deliver, Translated
  <2> HIDE DEF todo
  <2> QED BY <1>2, <1>5, <2>1, <2>2 DEF out
<1>8. CASE todo = << >> /\ UNCHANGED <<pending, delivered>>
  <2>1. out.events = << >>
    BY <1>4, <1>8, ConcatSimplifications
  <2>2. Translated \o out.events = Translated
    BY <1>4, <2>1, ConcatEmptySeq
  <2> QED BY <1>2, <1>8, <2>2 DEF Translated, out
<1> QED BY <1>3, <1>6, <1>7, <1>8

\* Every other step leaves the translated events, the accumulator and the number
\* of results consumed alone.
ConsumesNothing == UNCHANGED <<Translated, acc, terminal, taken>>

LEMMA OtherStepsConsumeNothing ==
  ASSUME TypeOK, [Next]_vars, ~RecvBuffered, ~RecvRaw
  PROVE  ConsumesNothing
<1> USE DEF recvVars
<1>1. ASSUME UNCHANGED <<pending, delivered, acc, terminal, taken>> PROVE ConsumesNothing
  BY <1>1 DEF ConsumesNothing, Translated
<1>2. CASE UNCHANGED vars
  BY <1>1, <1>2 DEF vars
<1>3. CASE SourceReturns \/ PumpStep
  BY <1>1, <1>3 DEF SourceReturns, PumpEvent, PumpEnd, PumpStep, PumpSend, PumpAbandon,
     PumpCloseRaw, PumpCloseDone
<1>4. CASE RecvEnter \/ OperationEnds \/ RecvContextEnds
  BY <1>1, <1>4 DEF RecvEnter, OperationEnds, RecvContextEnds
<1>5. CASE RecvProceed
  <2>1. UNCHANGED <<acc, terminal, taken>>
    BY <1>5 DEF RecvProceed
  <2>2. UNCHANGED <<pending, delivered>> \/ (pending # << >> /\ Deliver(pending))
    BY <1>5 DEF RecvProceed
  <2>3. CASE pending # << >> /\ Deliver(pending)
    <3>1. pending \in Seq(StreamEvent) /\ delivered \in Seq(StreamEvent)
      BY DEF TypeOK
    <3>2. Append(delivered, Head(pending)) \o Tail(pending) = delivered \o pending
      BY <2>3, <3>1, MoveHead
    <3> QED BY <2>1, <2>3, <3>2 DEF Deliver, Translated, ConsumesNothing
  <2> QED BY <1>1, <2>1, <2>2, <2>3
<1>6. CASE RecvContextDone \/ RecvOperationDone \/ RecvRawClosed
  BY <1>1, <1>6 DEF RecvContextDone, RecvOperationDone, RecvDone, RecvRawClosed, ReceiveEnd, ReceiveError
<1>7. ASSUME NEW c \in Closers, CloseCall(c) \/ CloseStep(c) PROVE ConsumesNothing
  BY <1>1, <1>7 DEF CloseCall, CloseStep, CloseFirst, CloseCancel, CloseSource, CloseJoin, CloseWait
<1> QED BY <1>2, <1>3, <1>4, <1>5, <1>6, <1>7 DEF Next, RecvStep

\* The prefetched event is the first result Recv consumes.
PrefetchFirst == buffered # << >> <=> taken = 0

LEMMA PrefetchFirstStep == TypeOK /\ PrefetchFirst /\ [Next]_vars => PrefetchFirst'
<1> USE DEF pumpVars, chanVars, recvVars, closeVars
<1> SUFFICES ASSUME TypeOK, PrefetchFirst, [Next]_vars PROVE PrefetchFirst'
  OBVIOUS
<1>1. CASE UNCHANGED <<buffered, taken>>
  BY <1>1 DEF PrefetchFirst
<1>2. CASE RecvBuffered
  BY <1>2 DEF RecvBuffered, PrefetchFirst, TypeOK
<1>3. CASE RecvRaw
  BY <1>3 DEF RecvRaw, PrefetchFirst, TypeOK
<1>4. CASE UNCHANGED vars
  BY <1>1, <1>4 DEF vars
<1>5. CASE SourceReturns \/ PumpStep
  BY <1>1, <1>5 DEF SourceReturns, PumpEvent, PumpEnd, PumpStep, PumpSend, PumpAbandon,
     PumpCloseRaw, PumpCloseDone
<1>6. CASE RecvEnter \/ RecvProceed \/ OperationEnds \/ RecvContextEnds
  BY <1>1, <1>6 DEF RecvEnter, RecvProceed, OperationEnds, RecvContextEnds
<1>7. CASE RecvContextDone \/ RecvOperationDone \/ RecvRawClosed
  BY <1>1, <1>7 DEF RecvContextDone, RecvOperationDone, RecvDone, RecvRawClosed
<1>8. ASSUME NEW c \in Closers, CloseCall(c) \/ CloseStep(c) PROVE PrefetchFirst'
  BY <1>1, <1>8 DEF CloseCall, CloseStep, CloseFirst, CloseCancel, CloseSource, CloseJoin, CloseWait
<1> QED BY <1>2, <1>3, <1>4, <1>5, <1>6, <1>7, <1>8 DEF Next, RecvStep

\* The result at the head of those in flight is the next one of the source.
LEMMA NextInFlight ==
  ASSUME TypeOK, PipelineIntegrity, NEW h \in RawResult, NEW rest \in Seq(RawResult),
         InFlight = <<h>> \o rest
  PROVE  taken + 1 \in 1 .. Len(produced) /\ produced[taken + 1] = h
<1>1. produced \in Seq(RawResult) /\ Len(produced) \in Nat /\ taken \in Nat
  BY LenProperties DEF TypeOK
<1>2. Len(InFlight) >= 1 /\ InFlight[1] = h
  <2>1. <<h>> \in Seq(RawResult) /\ Len(<<h>>) = 1 /\ Len(rest) \in Nat
    BY LenProperties
  <2> QED BY <2>1, ConcatProperties
<1>3. ASSUME NEW m \in 0 .. Len(produced), SubSeq(produced, taken + 1, m) = InFlight
      PROVE  taken + 1 \in 1 .. Len(produced) /\ produced[taken + 1] = h
  <2> DEFINE first == taken + 1
             part  == SubSeq(produced, first, m)
  <2>1. first \in 1 .. Len(produced) + 1 /\ first \in Int /\ m \in Int
    BY <1>1, <1>3 DEF PipelineIntegrity
  <2>2. part = InFlight
    BY <1>3
  <2> HIDE DEF first
  <2>3. \A i \in first .. m : produced[i] \in RawResult
    BY <1>1, <2>1, ElementOfSeq
  <2>4. /\ Len(part) = IF first <= m THEN m - first + 1 ELSE 0
        /\ \A i \in 1 .. m - first + 1 : part[i] = produced[first + i - 1]
    BY <2>1, <2>3, SubSeqProperties
  <2> HIDE DEF part
  <2>5. first <= m
    BY <1>2, <2>1, <2>2, <2>4
  <2>6. 1 \in 1 .. m - first + 1 /\ first + 1 - 1 = first
    BY <2>1, <2>5
  <2>7. part[1] = produced[first]
    BY <2>4, <2>6
  <2> QED BY <1>1, <1>2, <2>1, <2>2, <2>5, <2>7 DEF first
<1>4. Len(produced) \in 0 .. Len(produced)
  BY <1>1
<1>5. CASE SubSeq(produced, taken + 1, Len(produced)) = InFlight
  BY <1>3, <1>4, <1>5
<1>6. CASE Len(produced) > taken /\ SubSeq(produced, taken + 1, Len(produced) - 1) = InFlight
  <2>1. Len(produced) - 1 \in 0 .. Len(produced)
    BY <1>1, <1>6
  <2> QED BY <1>3, <1>6, <2>1
<1> QED BY <1>5, <1>6 DEF PipelineIntegrity


\* What Recv consumed and translated, so far.
SequentialInvariant == TypeOK /\ PipelineIntegrity /\ PrefetchFirst /\ SequentialEquivalence

\* A step that consumes nothing keeps the replay of what was consumed.
LEMMA ReplayStays ==
  ASSUME TypeOK, PipelineIntegrity, SequentialEquivalence, ConsumesNothing,
         produced' = produced \/ \E r \in RawResult : produced' = produced \o <<r>>
  PROVE  SequentialEquivalence'
<1>1. produced \in Seq(RawResult) /\ taken \in 0 .. Len(produced)
  BY DEF TypeOK, PipelineIntegrity
<1>2. Replay(produced', taken) = Replay(produced, taken)
  BY <1>1, ReplayKept
<1> QED BY <1>2 DEF SequentialEquivalence, ConsumesNothing

\* A raw event received is one more step of the replay.
LEMMA ReplayAdvances ==
  ASSUME TypeOK, SequentialEquivalence, NEW h \in RawResult,
         taken + 1 \in 1 .. Len(produced), produced[taken + 1] = h,
         CarriesEvent(produced, taken + 1), Receive(h.event),
         taken' = taken + 1, produced' = produced
  PROVE  SequentialEquivalence'
<1> DEFINE out    == Translate(h.event, acc)
           before == Replay(produced, taken)
<1>1. produced \in Seq(RawResult) /\ taken \in Nat /\ (taken + 1) - 1 = taken
  BY DEF TypeOK
<1>2. h.event \in RawEvent
  BY RawResultFacts
<1>3. Translated' = Translated \o out.events /\ acc' = out.acc
  BY <1>2, ReceiveTranslates
<1>4. Translated = before.events /\ acc = before.acc
  BY DEF SequentialEquivalence
<1>5. Replay(produced, taken + 1) = ReplayStep(produced, taken + 1, before)
  BY <1>1, ReplayUnfolds
<1>6. /\ ReplayStep(produced, taken + 1, before).events = before.events \o out.events
      /\ ReplayStep(produced, taken + 1, before).acc = out.acc
  BY <1>4 DEF ReplayStep
<1>7. Replay(produced', taken') = ReplayStep(produced, taken + 1, before)
  BY <1>5
<1> HIDE DEF out, before
<1> QED BY <1>3, <1>4, <1>6, <1>7 DEF SequentialEquivalence

\* The end of the source is none.
LEMMA ReplayEnds ==
  ASSUME TypeOK, SequentialEquivalence,
         taken + 1 \in 1 .. Len(produced), ~CarriesEvent(produced, taken + 1),
         UNCHANGED <<pending, delivered, acc>>, taken' = taken + 1, produced' = produced
  PROVE  SequentialEquivalence'
<1>1. produced \in Seq(RawResult) /\ taken \in Nat /\ (taken + 1) - 1 = taken
  BY DEF TypeOK
<1>2. Replay(produced, taken + 1) = ReplayStep(produced, taken + 1, Replay(produced, taken))
  BY <1>1, ReplayUnfolds
<1>3. Replay(produced, taken + 1) = Replay(produced, taken)
  BY <1>2 DEF ReplayStep
<1> QED BY <1>3 DEF SequentialEquivalence, Translated

\* A step of Recv that consumes a result consumes the next one of the source, and
\* translates it if it carries a raw event.
LEMMA RecvConsumes ==
  ASSUME SequentialInvariant, RecvBuffered \/ RecvRaw
  PROVE  /\ recv = "next" /\ taken' = taken + 1 /\ produced' = produced
         /\ taken + 1 \in 1 .. Len(produced) /\ produced[taken + 1] \in RawResult
         /\ \/ CarriesEvent(produced, taken + 1) /\ Receive(produced[taken + 1].event)
            \/ /\ ~CarriesEvent(produced, taken + 1)
               /\ UNCHANGED <<pending, delivered, acc, terminal>>
<1>0. TypeOK /\ PipelineIntegrity /\ PrefetchFirst /\ SequentialEquivalence
  BY DEF SequentialInvariant
<1>1. /\ buffered \in Seq(RawResult) /\ Len(buffered) <= 1
      /\ raw \in Seq(RawResult) /\ Len(raw) <= 1 /\ held \in Seq(RawResult)
      /\ raw \o held \in Seq(RawResult) /\ taken \in Nat
  BY <1>0, ConcatProperties DEF TypeOK
<1>2. CASE RecvBuffered
  <2>1. /\ buffered # << >> /\ taken' = taken + 1 /\ produced' = produced /\ recv = "next"
        /\ Receive(Head(buffered).event)
    BY <1>2 DEF RecvBuffered
  <2>2. PICK h \in RawResult : buffered = <<h>>
    BY <1>1, <2>1, SingletonShape
  <2>3. InFlight = <<h>> \o (raw \o held)
    BY <1>1, <2>2, ConcatAssociative, SMTT(30) DEF InFlight
  <2>4. taken + 1 \in 1 .. Len(produced) /\ produced[taken + 1] = h
    BY <1>0, <1>1, <2>3, NextInFlight
  <2>5. CarriesEvent(produced, taken + 1)
    <3>1. taken = 0
      BY <1>0, <2>1 DEF PrefetchFirst
    <3> QED BY <3>1 DEF CarriesEvent
  <2>6. Receive(h.event)
    BY <2>1, <2>2
  <2> QED BY <2>1, <2>4, <2>5, <2>6
<1>3. CASE RecvRaw
  <2>1. buffered = << >> /\ raw # << >> /\ taken' = taken + 1 /\ produced' = produced /\ recv = "next"
    BY <1>3 DEF RecvRaw
  <2>2. PICK h \in RawResult : raw = <<h>>
    BY <1>1, <2>1, SingletonShape
  <2>3. InFlight = <<h>> \o held
    BY <1>1, <2>1, <2>2, ConcatEmptySeq DEF InFlight
  <2>4. taken + 1 \in 1 .. Len(produced) /\ produced[taken + 1] = h
    BY <1>0, <1>1, <2>3, NextInFlight
  <2>5. taken + 1 # 1
    BY <1>0, <1>1, <2>1 DEF PrefetchFirst
  <2>6. Head(raw) = h
    BY <2>2
  <2>7. CASE h.err = Nil /\ h.event # Untyped /\ Receive(h.event)
    <3>1. CarriesEvent(produced, taken + 1)
      BY <2>4, <2>7 DEF CarriesEvent
    <3> QED BY <2>1, <2>4, <2>7, <3>1
  <2>8. CASE /\ h.err # Nil \/ h.event = Untyped
             /\ ReceiveError(h.err, FALSE) \/ ReceiveEnd
    <3>1. ~CarriesEvent(produced, taken + 1)
      BY <2>4, <2>5, <2>8 DEF CarriesEvent
    <3>2. UNCHANGED <<pending, delivered, acc, terminal>>
      BY <2>8 DEF ReceiveEnd, ReceiveError
    <3> QED BY <2>1, <2>4, <3>1, <3>2
  <2> QED BY <1>3, <2>6, <2>7, <2>8 DEF RecvRaw
<1> QED BY <1>2, <1>3

\* A step of Recv that consumes nothing, or of another actor, may add a result.
LEMMA OtherStepsProduce ==
  ASSUME TypeOK, [Next]_vars, ~RecvBuffered, ~RecvRaw
  PROVE  produced' = produced \/ \E r \in RawResult : produced' = produced \o <<r>>
<1>1. CASE SourceReturns
  BY <1>1, RawResultFacts DEF SourceReturns, PumpEvent, PumpEnd
<1>2. CASE ~SourceReturns
  BY <1>2 DEF Next, vars, PumpStep, PumpSend, PumpAbandon, PumpCloseRaw, PumpCloseDone,
     RecvEnter, RecvStep, RecvProceed, RecvBuffered, RecvContextDone, RecvDone, RecvOperationDone,
     RecvRaw, RecvRawClosed, RecvContextEnds, OperationEnds,
     CloseCall, CloseStep, CloseFirst, CloseCancel, CloseSource, CloseJoin, CloseWait
<1> QED BY <1>1, <1>2

LEMMA SequentialStep == SequentialInvariant /\ [Next]_vars => SequentialEquivalence'
<1> SUFFICES ASSUME SequentialInvariant, [Next]_vars PROVE SequentialEquivalence'
  OBVIOUS
<1>0. TypeOK /\ PipelineIntegrity /\ PrefetchFirst /\ SequentialEquivalence
  BY DEF SequentialInvariant
<1>1. CASE ~RecvBuffered /\ ~RecvRaw
  BY <1>0, <1>1, OtherStepsConsumeNothing, OtherStepsProduce, ReplayStays
<1>2. CASE RecvBuffered \/ RecvRaw
  <2> DEFINE h == produced[taken + 1]
  <2>1. /\ taken' = taken + 1 /\ produced' = produced
        /\ taken + 1 \in 1 .. Len(produced) /\ h \in RawResult
        /\ \/ CarriesEvent(produced, taken + 1) /\ Receive(h.event)
           \/ /\ ~CarriesEvent(produced, taken + 1)
              /\ UNCHANGED <<pending, delivered, acc, terminal>>
    BY <1>2, RecvConsumes
  <2>2. CASE CarriesEvent(produced, taken + 1) /\ Receive(h.event)
    BY <1>0, <2>1, <2>2, ReplayAdvances
  <2>3. CASE ~CarriesEvent(produced, taken + 1) /\ UNCHANGED <<pending, delivered, acc, terminal>>
    BY <1>0, <2>1, <2>3, ReplayEnds
  <2> QED BY <2>1, <2>2, <2>3
<1> QED BY <1>1, <1>2

LEMMA InitSequential == Init => SequentialInvariant
<1> SUFFICES ASSUME Init PROVE PrefetchFirst /\ SequentialEquivalence
  BY InitType, InitPipeline DEF SequentialInvariant
<1>1. taken = 0 /\ buffered # << >>
  BY DEF Init
<1>2. produced \in Seq(RawResult)
  BY InitType DEF TypeOK
<1>3. Replay(produced, 0) = ReplayStart
  BY <1>2, ReplayUnfolds
<1>4. Translated = << >> /\ acc = [text |-> << >>, seen |-> {}]
  BY DEF Init, Translated
<1>5. ReplayStart.events = << >> /\ ReplayStart.acc = [text |-> << >>, seen |-> {}]
  BY DEF ReplayStart
<1> QED BY <1>1, <1>3, <1>4, <1>5 DEF PrefetchFirst, SequentialEquivalence

\* The events a stream returned and still holds are those of one goroutine that
\* translates the results of the source one after the other, however the pump,
\* Recv and Close interleave and whichever Recv calls fail in between.
THEOREM SequentiallyEquivalent == Spec => []SequentialEquivalence
<1>1. SequentialInvariant => SequentialEquivalence /\ TypeOK /\ PipelineIntegrity /\ PrefetchFirst
  BY DEF SequentialInvariant
<1>2. TypeOK' /\ PipelineIntegrity' /\ PrefetchFirst' /\ SequentialEquivalence' => SequentialInvariant'
  BY DEF SequentialInvariant
<1> QED BY <1>1, <1>2, TypeCorrect, PipelineKept, InitSequential, PrefetchFirstStep, SequentialStep,
           PTL DEF Spec

-----------------------------------------------------------------------------
(* The text of a stream.                                                   *)

TextOf(event) == IF event.kind = "text_delta" THEN event.text ELSE << >>
Texts(events) == [i \in 1 .. Len(events) |-> TextOf(events[i])]

LEMMA DeltaTexts ==
  ASSUME NEW events \in Seq(StreamEvent)
  PROVE  /\ Texts(events) \in Seq(Seq(Byte)) /\ Len(Texts(events)) = Len(events)
         /\ \A i \in 1 .. Len(events) : Texts(events)[i] = TextOf(events[i])
         /\ DeltaText(events) = FlattenSeq(Texts(events))
<1> DEFINE n == Len(events)
<1>1. n \in Nat /\ DOMAIN events = 1 .. n
  BY LenProperties
<1>2. \A i \in 1 .. n : TextOf(events[i]) \in Seq(Byte)
  <2>1. \A e \in StreamEvent : e.kind = "text_delta" => e.text \in Text
    BY DEF StreamEvent
  <2>2. \A i \in 1 .. n : events[i] \in StreamEvent
    BY ElementOfSeq
  <2>3. << >> \in Seq(Byte)
    BY EmptySeq
  <2> QED BY <2>1, <2>2, <2>3 DEF TextOf, Text
<1>3. DeltaText(events) = FlattenSeq(Texts(events))
  BY <1>1 DEF DeltaText, Texts, TextOf
<1> HIDE DEF n
<1>4. [i \in 1 .. n |-> TextOf(events[i])] \in Seq(Seq(Byte))
  BY <1>1, <1>2
<1>5. Len([i \in 1 .. n |-> TextOf(events[i])]) = n
  BY <1>1
<1> QED BY <1>3, <1>4, <1>5 DEF Texts, n

LEMMA DeltaConcat ==
  ASSUME NEW a \in Seq(StreamEvent), NEW b \in Seq(StreamEvent)
  PROVE  /\ DeltaText(a) \in Text
         /\ DeltaText(a \o b) = DeltaText(a) \o DeltaText(b)
<1> DEFINE c == a \o b
<1>1. /\ c \in Seq(StreamEvent) /\ Len(a) \in Nat /\ Len(b) \in Nat
      /\ Len(c) = Len(a) + Len(b)
      /\ \A i \in 1 .. Len(a) + Len(b) : c[i] = IF i <= Len(a) THEN a[i] ELSE b[i - Len(a)]
  BY ConcatProperties, LenProperties
<1> HIDE DEF c
<1> DEFINE ta == Texts(a)
           tb == Texts(b)
           tc == Texts(c)
<1>2. /\ ta \in Seq(Seq(Byte)) /\ Len(ta) = Len(a)
      /\ \A i \in 1 .. Len(a) : ta[i] = TextOf(a[i])
      /\ DeltaText(a) = FlattenSeq(ta)
  BY DeltaTexts
<1>3. /\ tb \in Seq(Seq(Byte)) /\ Len(tb) = Len(b)
      /\ \A i \in 1 .. Len(b) : tb[i] = TextOf(b[i])
      /\ DeltaText(b) = FlattenSeq(tb)
  BY DeltaTexts
<1>4. /\ tc \in Seq(Seq(Byte)) /\ Len(tc) = Len(c)
      /\ \A i \in 1 .. Len(c) : tc[i] = TextOf(c[i])
      /\ DeltaText(c) = FlattenSeq(tc)
  BY <1>1, DeltaTexts
<1> HIDE DEF ta, tb, tc
<1>5. tc = ta \o tb
  <2> DEFINE d == ta \o tb
  <2>1. /\ d \in Seq(Seq(Byte)) /\ Len(d) = Len(a) + Len(b)
        /\ \A i \in 1 .. Len(a) + Len(b) : d[i] = IF i <= Len(a) THEN ta[i] ELSE tb[i - Len(a)]
    <3> DEFINE S == Seq(Byte)
    <3>1. ta \in Seq(S) /\ tb \in Seq(S)
      BY <1>2, <1>3
    <3> HIDE DEF S
    <3>2. /\ d \in Seq(S) /\ Len(d) = Len(ta) + Len(tb)
          /\ \A i \in 1 .. Len(ta) + Len(tb) : d[i] = IF i <= Len(ta) THEN ta[i] ELSE tb[i - Len(ta)]
      BY <3>1, ConcatProperties
    <3> QED BY <1>2, <1>3, <3>2 DEF S
  <2> HIDE DEF d
  <2>2. ASSUME NEW i \in 1 .. Len(c) PROVE tc[i] = d[i]
    <3>1. CASE i <= Len(a)
      <4>1. i \in 1 .. Len(a)
        BY <1>1, <3>1
      <4> QED BY <1>1, <1>2, <1>4, <2>1, <3>1, <4>1
    <3>2. CASE ~(i <= Len(a))
      <4>1. i - Len(a) \in 1 .. Len(b)
        BY <1>1, <3>2
      <4> QED BY <1>1, <1>3, <1>4, <2>1, <3>2, <4>1
    <3> QED BY <3>1, <3>2
  <2>3. tc = d
    BY <1>1, <1>4, <2>1, <2>2, SeqEqual
  <2> QED BY <2>3 DEF d
<1>6. FlattenSeq(ta) \in Seq(Byte) /\ FlattenSeq(ta \o tb) = FlattenSeq(ta) \o FlattenSeq(tb)
  BY <1>2, <1>3, FlattenConcat
<1> QED BY <1>2, <1>3, <1>4, <1>5, <1>6 DEF Text, c

LEMMA DeltaNone ==
  ASSUME NEW events \in Seq(StreamEvent),
         \A i \in 1 .. Len(events) : events[i].kind # "text_delta"
  PROVE  DeltaText(events) = << >>
<1> DEFINE q == Texts(events)
           h == [i \in 0 .. Len(events) |-> << >>]
<1>1. /\ q \in Seq(Seq(Byte)) /\ Len(q) = Len(events)
      /\ \A i \in 1 .. Len(events) : q[i] = TextOf(events[i])
      /\ DeltaText(events) = FlattenSeq(q)
  BY DeltaTexts
<1>2. \A i \in 1 .. Len(events) : q[i] = << >>
  BY <1>1 DEF TextOf
<1>3. Len(events) \in Nat /\ << >> \in Seq(Byte) /\ << >> \o << >> = << >>
  BY LenProperties, EmptySeq, ConcatEmptySeq
<1> HIDE DEF q
<1>4. Joins(h, q, Byte)
  <2>1. h \in [0 .. Len(q) -> Seq(Byte)] /\ h[0] = << >>
    BY <1>1, <1>3
  <2>2. ASSUME NEW i \in 1 .. Len(q) PROVE h[i] = h[i - 1] \o q[i]
    <3>1. i \in 0 .. Len(events) /\ i - 1 \in 0 .. Len(events)
      BY <1>1, <1>3
    <3> QED BY <1>1, <1>2, <1>3, <3>1
  <2> HIDE DEF h
  <2> QED BY <2>1, <2>2 DEF Joins
<1>5. h[Len(q)] = << >>
  BY <1>1, <1>3
<1> HIDE DEF h
<1> QED BY <1>1, <1>4, <1>5, FlattenJoins

LEMMA DeltaOfText ==
  ASSUME NEW text \in Text
  PROVE  DeltaText(TextEvents(text)) = text
<1> DEFINE e == TextEvents(text)
<1>1. e \in Seq(StreamEvent) /\ \A i \in 1 .. Len(e) : e[i].kind = "text_delta"
  BY TextEventsFacts
<1>2. Texts(e) = [i \in 1 .. Len(e) |-> e[i].text]
  BY <1>1 DEF Texts, TextOf
<1> HIDE DEF e
<1>3. DeltaText(e) = FlattenSeq(Texts(e))
  BY <1>1, DeltaTexts
<1> QED BY <1>2, <1>3, ChunksJoin DEF e

\* The scan of a response gathers the text of its messages.
LEMMA ScanText ==
  ASSUME NEW output \in Seq(OutputItem), NEW seen \in SUBSET CallIDs, Scan(output, seen).ok
  PROVE  Scan(output, seen).text = ResponseText(output)
<1> DEFINE N == Len(output)
           part(item) == IF item.type = "message" THEN item.text ELSE << >>
           q == [i \in 1 .. N |-> part(output[i])]
<1>1. PICK s : ScanStates(s, output, seen) /\ Scan(output, seen) = s[N]
  BY ScanUnfolds
<1>2. N \in Nat /\ DOMAIN output = 1 .. N
  BY LenProperties
<1>3. ResponseText(output) = FlattenSeq(q)
  BY <1>2 DEF ResponseText
<1>4. \A i \in 1 .. N : output[i] \in OutputItem
  BY ElementOfSeq
<1>5. \A item \in OutputItem : part(item) \in Seq(Byte)
  <2>1. << >> \in Seq(Byte)
    BY EmptySeq
  <2>2. \A item \in OutputItem : item.type = "message" => item.text \in Text
    BY DEF OutputItem, MessageItem, CallItem, PlainItem
  <2> QED BY <2>1, <2>2 DEF Text
<1>6. /\ \A n \in 0 .. N : s[n] \in AcceptedScan
      /\ s[0] = ScanStart(seen)
      /\ \A n \in 1 .. N : s[n] = IF s[n - 1].ok THEN ScanItem(s[n - 1], output[n]) ELSE s[n - 1]
  BY <1>1 DEF ScanStates
<1>7. ASSUME NEW scan \in ScanState, NEW item \in OutputItem, ScanItem(scan, item).ok
      PROVE  ScanItem(scan, item).text = scan.text \o part(item)
  <2>1. scan.text \in Seq(Byte)
    BY DEF ScanState, Text
  <2>2. CASE item.type = "message" /\ item.supported
    BY <2>2 DEF ScanItem, ScanState
  <2>3. CASE item.type = "reasoning" \/ (item.type = "function_call" /\ AcceptsCall(scan, item))
    <3>1. ScanItem(scan, item).text = scan.text
      BY <2>3 DEF ScanItem, ScanState
    <3>2. part(item) = << >>
      BY <2>3
    <3> HIDE DEF part
    <3> QED BY <2>1, <3>1, <3>2, ConcatEmptySeq
  <2>4. CASE /\ ~(item.type = "message" /\ item.supported)
             /\ item.type # "reasoning"
             /\ ~(item.type = "function_call" /\ AcceptsCall(scan, item))
    <3>1. ScanItem(scan, item) = [scan EXCEPT !.ok = FALSE]
      BY <2>4 DEF ScanItem
    <3> QED BY <1>7, <3>1 DEF ScanState
  <2> QED BY <2>2, <2>3, <2>4
<1> HIDE DEF N, part
<1>8. q \in Seq(Seq(Byte)) /\ Len(q) = N
  BY <1>2, <1>4, <1>5
<1>9. PICK h : Joins(h, q, Byte)
  <2> HIDE DEF q
  <2> QED BY <1>8, JoinsExists
<1>10. /\ h[0] = << >>
       /\ \A i \in 1 .. N : h[i] = h[i - 1] \o part(output[i])
  <2>1. \A i \in 1 .. N : q[i] = part(output[i])
    OBVIOUS
  <2> HIDE DEF q
  <2> QED BY <1>8, <1>9, <2>1 DEF Joins
<1> HIDE DEF q
<1> DEFINE T == {n \in Nat : n <= N => (s[n].ok => s[n].text = h[n])}
<1>11. 0 \in T
  BY <1>6, <1>10 DEF ScanStart
<1>12. \A n \in T : n + 1 \in T
  <2>1. SUFFICES ASSUME NEW n \in T, n + 1 <= N, s[n + 1].ok PROVE s[n + 1].text = h[n + 1]
    OBVIOUS
  <2> DEFINE k == n + 1
  <2>2. k \in 1 .. N /\ k - 1 = n /\ n \in 0 .. N /\ (s[n].ok => s[n].text = h[n])
    BY <1>2, <2>1
  <2>3. s[k].ok
    BY <2>1
  <2> HIDE DEF k, T
  <2>4. s[n].ok /\ s[k] = ScanItem(s[n], output[k])
    BY <1>6, <2>2, <2>3
  <2>5. s[n] \in ScanState /\ output[k] \in OutputItem
    BY <1>4, <1>6, <2>2 DEF AcceptedScan
  <2>6. s[k].text = s[n].text \o part(output[k])
    BY <1>7, <2>3, <2>4, <2>5
  <2>7. h[k] = h[n] \o part(output[k])
    BY <1>10, <2>2
  <2>8. s[k].text = h[k]
    BY <2>2, <2>4, <2>6, <2>7
  <2> QED BY <2>8 DEF k
<1>13. T = Nat
  <2> HIDE DEF T
  <2> QED BY <1>11, <1>12, SetInduction DEF T
<1>14. s[N].text = h[N]
  BY <1>1, <1>2, <1>13
<1>15. FlattenSeq(q) = h[N]
  BY <1>8, <1>9, FlattenJoins
<1> QED BY <1>1, <1>3, <1>14, <1>15

\* An accepted raw event adds to the text streamed so far exactly what its deltas
\* carry, and a completed response ends with that text.
THEOREM TranslateKeepsText ==
  ASSUME NEW event \in RawEvent, NEW from \in Accumulator, Translate(event, from).ok
  PROVE  /\ Translate(event, from).acc.text = from.text \o DeltaText(Translate(event, from).events)
         /\ event.type = "completed" =>
              Translate(event, from).acc.text = ResponseText(event.output)
<1> DEFINE a   == from
           out == Translate(event, a)
<1>1. a.text \in Seq(Byte) /\ a.text \o << >> = a.text
  <2>1. a.text \in Seq(Byte)
    BY DEF Accumulator, Text
  <2> HIDE DEF a
  <2> QED BY <2>1, ConcatEmptySeq
<1>2. \A x : ~Reject(x).ok
  BY DEF Reject
<1>3. CASE event.type = "delta"
  <2> DEFINE text == event.text
             after == [a EXCEPT !.text = @ \o text]
  <2>1. text \in Text
    BY <1>3, RawEventFields
  <2>2. out = TranslateText(text, a)
    BY <1>3 DEF Translate
  <2>3. out = Accept(TextEvents(text), FALSE, after)
    BY <1>2, <2>2 DEF TranslateText
  <2>4. after.text = a.text \o text
    BY DEF Accumulator
  <2>5. DeltaText(TextEvents(text)) = text
    BY <2>1, DeltaOfText
  <2> HIDE DEF after, text, out
  <2>6. out.events = TextEvents(text) /\ out.acc = after
    BY <2>3 DEF Accept
  <2> QED BY <1>3, <2>4, <2>5, <2>6 DEF out
<1>4. CASE event.type = "completed"
  <2> DEFINE output  == event.output
             use     == event.usage
             scan    == Scan(output, a.seen)
             missing == SubSeq(scan.text, Len(a.text) + 1, Len(scan.text))
             scanned == [a EXCEPT !.seen = scan.seen]
             merged  == [scanned EXCEPT !.text = scan.text]
             d       == TextEvents(missing)
             c       == scan.calls
             events  == d \o c \o <<Completed(use)>>
  <2>1. output \in Seq(OutputItem) /\ use \in Int
    BY <1>4, RawEventFields
  <2>2. out = TranslateCompleted(output, use, a)
    BY <1>4 DEF Translate
  <2>3. Reconciles(a.text, scan) /\ out = Accept(events, TRUE, merged)
    BY <1>2, <2>2 DEF TranslateCompleted
  <2>4. scan \in AcceptedScan
    BY <2>1, ScanAccepts DEF Accumulator
  <2>5. scan.ok => scan.text = ResponseText(output)
    BY <2>1, ScanText DEF Accumulator
  <2> HIDE DEF scan
  <2>6. scan.text \in Seq(Byte) /\ c \in Seq(ToolCalls)
    BY <2>4 DEF AcceptedScan, ScanState, Text
  <2>7. merged.text = scan.text
    BY DEF Accumulator
  <2>8. scan.ok /\ Len(a.text) <= Len(scan.text) /\ a.text = SubSeq(scan.text, 1, Len(a.text))
    BY <2>3 DEF Reconciles, IsTextPrefix
  <2>9. missing \in Text
    BY <1>1, <2>6, MissingType DEF Text
  <2>10. a.text \o missing = scan.text
    <3> DEFINE p == a.text
               q == scan.text
               m == Len(p)
               n == Len(q)
    <3>1. p \in Seq(Byte) /\ q \in Seq(Byte) /\ m \in Nat /\ n \in Nat /\ m <= n /\ p = SubSeq(q, 1, m)
      BY <1>1, <2>6, <2>8
    <3>2. SubSeq(q, 1, n) = q
      BY <2>6, SubSeqFull
    <3>3. SubSeq(q, 1, m) \o SubSeq(q, m + 1, n) = SubSeq(q, 1, n)
      <4> HIDE DEF p, q, m
      <4>1. 1 \in 1 .. n + 1 /\ m \in 1 - 1 .. n /\ n \in m .. n
        BY <3>1
      <4> HIDE DEF n
      <4> QED BY <3>1, <4>1, ConcatAdjacentSubSeq DEF n
    <3> HIDE DEF p, q, m, n
    <3>4. p \o SubSeq(q, m + 1, n) = q
      BY <3>1, <3>2, <3>3
    <3> QED BY <3>4 DEF p, q, m, n
  <2> HIDE DEF missing, merged, scanned, c
  <2>11. /\ d \in Seq(StreamEvent) /\ DeltaText(d) = missing
    BY <2>9, TextEventsFacts, DeltaOfText
  <2> HIDE DEF d
  <2>12. /\ c \in Seq(StreamEvent)
         /\ \A i \in 1 .. Len(c) : c[i].kind # "text_delta"
    <3>1. ToolCalls \subseteq StreamEvent /\ \A x \in ToolCalls : x.kind # "text_delta"
      BY DEF ToolCalls, StreamEvent
    <3> QED BY <2>6, <3>1, ElementOfSeq, SeqMonotonic
  <2> DEFINE t == Completed(use)
             e == <<t>>
  <2>13. t \in StreamEvent /\ t.kind # "text_delta"
    BY <2>1 DEF Completed, StreamEvent
  <2> HIDE DEF t
  <2>14. /\ e \in Seq(StreamEvent)
         /\ \A i \in 1 .. Len(e) : e[i].kind # "text_delta"
    BY <2>13
  <2> HIDE DEF e
  <2>15. DeltaText(c) = << >> /\ DeltaText(e) = << >>
    BY <2>12, <2>14, DeltaNone
  <2>16. d \o c \in Seq(StreamEvent) /\ DeltaText(d \o c) = missing
    <3>1. DeltaText(d \o c) = DeltaText(d) \o DeltaText(c)
      BY <2>11, <2>12, DeltaConcat
    <3>2. missing \o << >> = missing
      BY <2>9, ConcatEmptySeq DEF Text
    <3> QED BY <2>11, <2>12, <2>15, <3>1, <3>2, ConcatProperties
  <2>17. DeltaText(events) = missing
    <3> DEFINE dc == d \o c
    <3>1. dc \in Seq(StreamEvent) /\ DeltaText(dc) = missing
      BY <2>16
    <3>2. events = dc \o e
      BY DEF e, t
    <3> HIDE DEF dc, events
    <3>3. DeltaText(dc \o e) = DeltaText(dc) \o DeltaText(e)
      BY <2>14, <3>1, DeltaConcat
    <3>4. missing \o << >> = missing
      BY <2>9, ConcatEmptySeq DEF Text
    <3> QED BY <2>15, <3>1, <3>2, <3>3, <3>4
  <2> HIDE DEF events, out
  <2>18. out.events = events /\ out.acc = merged
    BY <2>3 DEF Accept
  <2>19. out.acc.text = a.text \o DeltaText(out.events) /\ out.acc.text = ResponseText(output)
    BY <2>5, <2>7, <2>8, <2>10, <2>17, <2>18
  <2> QED BY <2>19 DEF out
<1>5. CASE event.type \in {"incomplete", "failed", "error"}
  <2>1. PICK code : out = Accept(<<Failed(code)>>, TRUE, a)
    BY <1>5 DEF Translate
  <2>2. out.events = <<Failed(code)>> /\ out.acc = a
    BY <2>1 DEF Accept
  <2>3. Len(<<Failed(code)>>) = 1 /\ <<Failed(code)>>[1].kind = "failed"
    BY DEF Failed
  <2>4. out.events \in Seq(StreamEvent)
    BY TranslateFacts DEF Outcome
  <2>5. DeltaText(<<Failed(code)>>) = << >>
    <3> DEFINE e == <<Failed(code)>>
    <3>1. e \in Seq(StreamEvent) /\ \A i \in 1 .. Len(e) : e[i].kind # "text_delta"
      BY <2>2, <2>3, <2>4
    <3> HIDE DEF e
    <3>2. DeltaText(e) = << >>
      BY <3>1, DeltaNone
    <3> QED BY <3>2 DEF e
  <2> HIDE DEF out
  <2> QED BY <1>1, <1>5, <2>2, <2>5 DEF out
<1>6. CASE event.type \in {"ignored", ""}
  <2>1. out = Accept(<< >>, FALSE, a)
    BY <1>6 DEF Translate
  <2>2. out.events = << >> /\ out.acc = a
    BY <2>1 DEF Accept
  <2>3. DeltaText(<< >>) = << >>
    <3> DEFINE e == << >>
    <3>1. e \in Seq(StreamEvent) /\ \A i \in 1 .. Len(e) : e[i].kind # "text_delta"
      BY EmptySeq
    <3> HIDE DEF e
    <3>2. DeltaText(e) = << >>
      BY <3>1, DeltaNone
    <3> QED BY <3>2 DEF e
  <2> HIDE DEF out
  <2> QED BY <1>1, <1>6, <2>2, <2>3 DEF out
<1> QED BY <1>3, <1>4, <1>5, <1>6, RawEventFields

\* Only a completed response yields the completed event.
LEMMA CompletedOnlyFrom ==
  ASSUME NEW event \in RawEvent, NEW from \in Accumulator, Translate(event, from).ok,
         event.type # "completed"
  PROVE  \A i \in 1 .. Len(Translate(event, from).events) :
           Translate(event, from).events[i].kind # "completed"
<1> DEFINE out == Translate(event, from)
<1>1. CASE event.type = "delta"
  <2>1. out = TranslateText(event.text, from)
    BY <1>1 DEF Translate
  <2>2. out.events = TextEvents(event.text)
    <3> DEFINE after == [from EXCEPT !.text = @ \o event.text]
    <3>1. out = Reject(from) \/ out = Accept(TextEvents(event.text), FALSE, after)
      BY <2>1 DEF TranslateText
    <3>2. ~Reject(from).ok /\ out.ok
      BY DEF Reject
    <3> HIDE DEF out, after
    <3> QED BY <3>1, <3>2 DEF Accept
  <2>3. \A i \in 1 .. Len(TextEvents(event.text)) : TextEvents(event.text)[i].kind = "text_delta"
    BY <1>1, RawEventFields, TextEventsFacts
  <2> QED BY <2>2, <2>3
<1>2. CASE event.type \in {"incomplete", "failed", "error"}
  <2>1. PICK code : out = Accept(<<Failed(code)>>, TRUE, from)
    BY <1>2 DEF Translate
  <2>2. out.events = <<Failed(code)>>
    BY <2>1 DEF Accept
  <2>3. Len(<<Failed(code)>>) = 1 /\ <<Failed(code)>>[1].kind = "failed"
    BY DEF Failed
  <2> QED BY <2>2, <2>3
<1>3. CASE event.type \in {"ignored", ""}
  <2>1. out.events = << >>
    BY <1>3 DEF Translate, Accept
  <2> QED BY <2>1, EmptySeq
<1> QED BY <1>1, <1>2, <1>3, RawEventFields

\* Without a rejection, the text accumulated by the replay is that of its deltas.
LEMMA ReplayText ==
  ASSUME NEW results \in Seq(RawResult)
  PROVE  \A n \in 0 .. Len(results) :
           Replay(results, n).rejected
             \/ Replay(results, n).acc.text = DeltaText(Replay(results, n).events)
<1> DEFINE N == Len(results)
           Good(r) == r.rejected \/ r.acc.text = DeltaText(r.events)
           T == {n \in Nat : n <= N => Good(Replay(results, n))}
<1>1. N \in Nat
  BY LenProperties
<1>2. 0 \in T
  <2>1. ReplayStart.events = << >> /\ ReplayStart.acc.text = << >>
    BY DEF ReplayStart
  <2>2. << >> \in Seq(StreamEvent) /\ \A i \in 1 .. Len(<< >>) : << >>[i].kind # "text_delta"
    BY EmptySeq
  <2>3. DeltaText(ReplayStart.events) = << >>
    BY <2>1, <2>2, DeltaNone
  <2> QED BY <2>1, <2>3, ReplayUnfolds
<1>3. ASSUME NEW i \in 1 .. N, NEW before \in ReplayState, Good(before)
      PROVE  Good(ReplayStep(results, i, before))
  <2> DEFINE after == ReplayStep(results, i, before)
             event == results[i].event
             out   == Translate(event, before.acc)
  <2>1. event \in RawEvent /\ before.acc \in Accumulator /\ before.events \in Seq(StreamEvent)
    BY ElementOfSeq, RawResultFacts DEF ReplayState
  <2>2. CASE ~CarriesEvent(results, i)
    BY <1>3, <2>2 DEF ReplayStep
  <2>3. CASE CarriesEvent(results, i)
    <3>1. /\ after.events = before.events \o out.events /\ after.acc = out.acc
          /\ after.rejected = (before.rejected \/ ~out.ok)
      BY <2>3 DEF ReplayStep
    <3>2. SUFFICES ASSUME ~before.rejected, out.ok PROVE after.acc.text = DeltaText(after.events)
      BY <3>1
    <3>3. before.acc.text = DeltaText(before.events)
      BY <1>3, <3>2
    <3>4. out.acc.text = before.acc.text \o DeltaText(out.events)
      BY <2>1, <3>2, TranslateKeepsText
    <3>5. out.events \in Seq(StreamEvent)
      BY <2>1, TranslateFacts DEF Outcome
    <3> HIDE DEF after, out
    <3>6. DeltaText(before.events \o out.events) = DeltaText(before.events) \o DeltaText(out.events)
      BY <2>1, <3>5, DeltaConcat
    <3> QED BY <3>1, <3>3, <3>4, <3>6
  <2> QED BY <2>2, <2>3
<1> HIDE DEF Good
<1>4. \A n \in T : n + 1 \in T
  <2>1. SUFFICES ASSUME NEW n \in T, n + 1 <= N PROVE Good(Replay(results, n + 1))
    OBVIOUS
  <2> DEFINE k == n + 1
  <2>2. k \in 1 .. N /\ k - 1 = n /\ n \in 0 .. N /\ Good(Replay(results, n))
    BY <1>1, <2>1
  <2> HIDE DEF k, T
  <2>3. Replay(results, k) = ReplayStep(results, k, Replay(results, n)) /\ Replay(results, n) \in ReplayState
    BY <2>2, ReplayUnfolds
  <2>4. Good(Replay(results, k))
    BY <1>3, <2>2, <2>3
  <2> QED BY <2>4 DEF k
<1>5. T = Nat
  <2> HIDE DEF T
  <2> QED BY <1>2, <1>4, SetInduction DEF T
<1> QED BY <1>1, <1>5 DEF Good

\* The terminal event came with the last result consumed: Recv consumes none after it.
EndsWithLast ==
  terminal =>
    /\ taken \in 1 .. Len(produced)
    /\ CarriesEvent(produced, taken)
    /\ Translate(produced[taken].event, Replay(produced, taken - 1).acc).terminal

LEMMA EndsWithLastStep ==
  SequentialInvariant /\ RecvLifecycle /\ EndsWithLast /\ [Next]_vars => EndsWithLast'
<1> SUFFICES ASSUME SequentialInvariant, RecvLifecycle, EndsWithLast, [Next]_vars
             PROVE  EndsWithLast'
  OBVIOUS
<1>0. TypeOK /\ PipelineIntegrity /\ PrefetchFirst /\ SequentialEquivalence
  BY DEF SequentialInvariant
<1>1. produced \in Seq(RawResult) /\ taken \in Nat /\ Len(produced) \in Nat
  BY <1>0, LenProperties DEF TypeOK
<1>2. CASE ~RecvBuffered /\ ~RecvRaw
  <2>1. terminal' = terminal /\ taken' = taken
    BY <1>0, <1>2, OtherStepsConsumeNothing DEF ConsumesNothing
  <2>2. SUFFICES ASSUME terminal PROVE EndsWithLast'
    BY <2>1 DEF EndsWithLast
  <2>3. /\ taken \in 1 .. Len(produced)
        /\ CarriesEvent(produced, taken)
        /\ Translate(produced[taken].event, Replay(produced, taken - 1).acc).terminal
    BY <2>2 DEF EndsWithLast
  <2>4. CASE produced' = produced
    BY <2>1, <2>3, <2>4 DEF EndsWithLast
  <2>5. ASSUME NEW r \in RawResult, produced' = produced \o <<r>> PROVE EndsWithLast'
    <3> DEFINE more == produced \o <<r>>
    <3>1. Len(more) = Len(produced) + 1 /\ \A i \in 1 .. Len(produced) : more[i] = produced[i]
      <4>1. <<r>> \in Seq(RawResult) /\ Len(<<r>>) = 1
        OBVIOUS
      <4> QED BY <1>1, <4>1, ConcatProperties
    <3> DEFINE last == taken - 1
    <3>2. last \in 0 .. Len(produced)
      BY <1>1, <2>3
    <3> HIDE DEF more, last
    <3>3. Replay(more, last) = Replay(produced, last)
      BY <1>1, <3>2, ReplayKept DEF more
    <3>4. taken \in 1 .. Len(more) /\ more[taken] = produced[taken]
      BY <1>1, <2>3, <3>1
    <3>5. CarriesEvent(more, taken)
      BY <2>3, <3>4 DEF CarriesEvent
    <3>6. produced' = more
      BY <2>5 DEF more
    <3>7. Translate(more[taken].event, Replay(more, last).acc).terminal
      BY <2>3, <3>3, <3>4 DEF last
    <3> QED BY <2>1, <3>4, <3>5, <3>6, <3>7 DEF EndsWithLast, last
  <2>6. produced' = produced \/ \E r \in RawResult : produced' = produced \o <<r>>
    BY <1>0, <1>2, OtherStepsProduce
  <2> QED BY <2>4, <2>5, <2>6
<1>3. CASE RecvBuffered \/ RecvRaw
  <2> DEFINE h == produced[taken + 1]
  <2>1. /\ recv = "next" /\ taken' = taken + 1 /\ produced' = produced
        /\ taken + 1 \in 1 .. Len(produced) /\ h \in RawResult
        /\ \/ CarriesEvent(produced, taken + 1) /\ Receive(h.event)
           \/ /\ ~CarriesEvent(produced, taken + 1)
              /\ UNCHANGED <<pending, delivered, acc, terminal>>
    BY <1>3, RecvConsumes
  <2>2. ~terminal
    BY <2>1 DEF RecvLifecycle
  <2>3. CASE CarriesEvent(produced, taken + 1) /\ Receive(h.event)
    <3>1. terminal' => Translate(h.event, acc).terminal
      BY <2>2, <2>3 DEF Receive
    <3>2. acc = Replay(produced, taken).acc /\ (taken + 1) - 1 = taken
      BY <1>0, <1>1 DEF SequentialEquivalence
    <3> QED BY <2>1, <2>3, <3>1, <3>2 DEF EndsWithLast
  <2>4. CASE UNCHANGED <<pending, delivered, acc, terminal>>
    BY <2>2, <2>4 DEF EndsWithLast
  <2> QED BY <2>1, <2>3, <2>4
<1> QED BY <1>2, <1>3

LEMMA TextFollows == SequentialInvariant /\ EndsWithLast => TextReconciled
<1> SUFFICES ASSUME SequentialInvariant, EndsWithLast, ~Replay(produced, taken).rejected,
                    terminal, Translated[Len(Translated)].kind = "completed"
             PROVE  DeltaText(Translated) = ResponseText(produced[taken].event.output)
  BY DEF TextReconciled, CompletedText
<1> DEFINE last   == taken - 1
           event  == produced[taken].event
           before == Replay(produced, last)
           out    == Translate(event, before.acc)
<1>1. /\ produced \in Seq(RawResult) /\ Len(produced) \in Nat
      /\ Translated = Replay(produced, taken).events
  BY LenProperties DEF SequentialInvariant, TypeOK, SequentialEquivalence
<1>2. taken \in 1 .. Len(produced) /\ CarriesEvent(produced, taken) /\ out.terminal
  BY DEF EndsWithLast
<1>3. last \in 0 .. Len(produced) /\ taken \in 0 .. Len(produced)
  BY <1>1, <1>2
<1>4. before \in ReplayState /\ Replay(produced, taken) = ReplayStep(produced, taken, before)
  BY <1>1, <1>2, <1>3, ReplayUnfolds
<1>5. event \in RawEvent /\ before.acc \in Accumulator /\ before.events \in Seq(StreamEvent)
  BY <1>1, <1>2, <1>4, ElementOfSeq, RawResultFacts DEF ReplayState
<1>6. /\ Translated = before.events \o out.events
      /\ Replay(produced, taken).acc = out.acc
      /\ out.ok
  <2> DEFINE r == Replay(produced, taken)
  <2>1. r = [events |-> before.events \o out.events, acc |-> out.acc,
             rejected |-> before.rejected \/ ~out.ok]
    BY <1>2, <1>4 DEF ReplayStep
  <2>2. ~r.rejected /\ Translated = r.events
    BY <1>1
  <2> HIDE DEF r, out, before
  <2>3. r.events = before.events \o out.events /\ r.acc = out.acc
    BY <2>1
  <2>4. r.rejected = (before.rejected \/ ~out.ok)
    BY <2>1
  <2>5. out.ok
    BY <2>2, <2>4, Zenon
  <2> QED BY <2>2, <2>3, <2>5 DEF r
<1>7. out \in Outcome /\ WellShaped(out)
  BY <1>5, TranslateFacts
<1>8. event.type = "completed"
  <2> DEFINE s == before.events
             t == out.events
  <2>1. s \in Seq(StreamEvent) /\ t \in Seq(StreamEvent) /\ t # << >>
    BY <1>2, <1>5, <1>7 DEF Outcome, WellShaped
  <2>2. Translated = s \o t
    BY <1>6
  <2>3. event.type # "completed" => \A i \in 1 .. Len(t) : t[i].kind # "completed"
    BY <1>5, <1>6, CompletedOnlyFrom
  <2> HIDE DEF s, t
  <2>4. /\ Len(s) \in Nat /\ Len(t) \in Nat \ {0} /\ Len(Translated) = Len(s) + Len(t)
        /\ \A i \in 1 .. Len(s) + Len(t) : Translated[i] = IF i <= Len(s) THEN s[i] ELSE t[i - Len(s)]
    BY <2>1, <2>2, ConcatProperties, LenProperties, EmptySeq
  <2>5. Translated[Len(Translated)] = t[Len(t)] /\ Len(t) \in 1 .. Len(t)
    BY <2>4
  <2> QED BY <2>3, <2>5
<1>9. out.acc.text = ResponseText(event.output)
  BY <1>5, <1>6, <1>8, TranslateKeepsText
<1>10. Replay(produced, taken).acc.text = DeltaText(Replay(produced, taken).events)
  BY <1>1, <1>3, ReplayText
<1> QED BY <1>1, <1>6, <1>9, <1>10

\* A stream that completes without a rejected raw event has delivered, or still
\* holds, exactly the text of the completed response.
THEOREM TextIsReconciled == Spec => []TextReconciled
<1>1. Init => EndsWithLast
  BY DEF Init, EndsWithLast
<1>2. TypeOK /\ PipelineIntegrity /\ PrefetchFirst /\ SequentialEquivalence => SequentialInvariant
  BY DEF SequentialInvariant
<1>3. SequentialInvariant => PrefetchFirst /\ TypeOK
  BY DEF SequentialInvariant
<1>4. Lifecycle => RecvLifecycle
  BY DEF Lifecycle
<1> QED BY <1>1, <1>2, <1>3, <1>4, TypeCorrect, PipelineKept, SequentiallyEquivalent, LifecycleHolds,
           InitSequential, PrefetchFirstStep, EndsWithLastStep, TextFollows, PTL DEF Spec

-----------------------------------------------------------------------------
(* The characters of a stream.                                              *)

\* The replay of results that carry whole texts keeps characters whole.
LEMMA ReplayKeepsCharacters ==
  ASSUME NEW size \in Sizes, \A event \in RawEvents : WholeEvent(event, size),
         NEW results \in Seq(RawResult)
  PROVE  \A n \in 0 .. Len(results) : AllKeepCharacters(Replay(results, n).events)
<1> DEFINE N == Len(results)
           Whole(r) == WholeText(r.acc.text, size) /\ AllKeepCharacters(r.events)
           T == {n \in Nat : n <= N => Whole(Replay(results, n))}
<1>1. N \in Nat
  BY LenProperties
<1>2. 0 \in T
  <2>1. ReplayStart.events = << >> /\ ReplayStart.acc.text = << >>
    BY DEF ReplayStart
  <2>2. WholeText(<< >>, size) /\ AllKeepCharacters(<< >>)
    BY EmptySeq, OthersKeepCharacters DEF WholeText, CharacterAt
  <2> QED BY <2>1, <2>2, ReplayUnfolds
<1>3. ASSUME NEW i \in 1 .. N, NEW before \in ReplayState, Whole(before)
      PROVE  Whole(ReplayStep(results, i, before))
  <2> DEFINE after == ReplayStep(results, i, before)
             event == results[i].event
             out   == Translate(event, before.acc)
  <2>1. results[i] \in RawResult
    BY ElementOfSeq
  <2>2. event \in RawEvent /\ before.acc \in Accumulator /\ before.events \in Seq(StreamEvent)
    BY <2>1, RawResultFacts DEF ReplayState
  <2>3. WholeEvent(event, size)
    <3>1. event \in RawEvents \/ event = Untyped
      BY <2>1 DEF RawResult
    <3>2. WholeEvent(Untyped, size)
      BY DEF WholeEvent, Untyped
    <3> QED BY <3>1, <3>2
  <2>4. CASE ~CarriesEvent(results, i)
    BY <1>3, <2>4 DEF ReplayStep
  <2>5. CASE CarriesEvent(results, i)
    <3>1. after.events = before.events \o out.events /\ after.acc = out.acc
      BY <2>5 DEF ReplayStep
    <3>2. WholeText(before.acc.text, size) /\ AllKeepCharacters(before.events)
      BY <1>3
    <3>3. WholeText(out.acc.text, size) /\ AllKeepCharacters(out.events)
      BY <2>2, <2>3, <3>2, TranslateKeepsCharacters
    <3>4. out.events \in Seq(StreamEvent)
      BY <2>2, TranslateFacts DEF Outcome
    <3> HIDE DEF after, out
    <3>5. AllKeepCharacters(before.events \o out.events)
      BY <2>2, <3>2, <3>3, <3>4, KeepsConcat
    <3> QED BY <3>1, <3>3, <3>5 DEF after
  <2> QED BY <2>4, <2>5
<1> HIDE DEF Whole
<1>4. \A n \in T : n + 1 \in T
  <2>1. SUFFICES ASSUME NEW n \in T, n + 1 <= N PROVE Whole(Replay(results, n + 1))
    OBVIOUS
  <2> DEFINE k == n + 1
  <2>2. k \in 1 .. N /\ k - 1 = n /\ n \in 0 .. N /\ Whole(Replay(results, n))
    BY <1>1, <2>1
  <2> HIDE DEF k, T
  <2>3. Replay(results, k) = ReplayStep(results, k, Replay(results, n)) /\ Replay(results, n) \in ReplayState
    BY <2>2, ReplayUnfolds
  <2>4. Whole(Replay(results, k))
    BY <1>3, <2>2, <2>3
  <2> QED BY <2>4 DEF k
<1>5. T = Nat
  <2> HIDE DEF T
  <2> QED BY <1>2, <1>4, SetInduction DEF T
<1> QED BY <1>1, <1>5 DEF Whole

\* If the texts of a response are made of whole characters of at most ChunkBytes,
\* as the JSON decoder leaves them, no delta is empty, over the limit or begins
\* inside a character: neither where textEvents cuts (provider.go:602-623) nor
\* where a completed response continues what was streamed (513-524).
THEOREM CharactersAreKept ==
  ASSUME NEW size \in [Byte \ Continuation -> 1 .. ChunkBytes],
         \A event \in RawEvents : WholeEvent(event, size)
  PROVE  Spec => []DeltasKeepCharacters
<1>1. TypeOK /\ PipelineIntegrity /\ SequentialEquivalence => DeltasKeepCharacters
  <2>1. SUFFICES ASSUME TypeOK, PipelineIntegrity, SequentialEquivalence PROVE DeltasKeepCharacters
    OBVIOUS
  <2> DEFINE e == Replay(produced, taken).events
  <2>2. produced \in Seq(RawResult) /\ taken \in 0 .. Len(produced)
    BY <2>1, LenProperties DEF TypeOK, PipelineIntegrity
  <2>3. size \in Sizes
    BY DEF Sizes
  <2>4. AllKeepCharacters(e)
    BY <2>2, <2>3, ReplayKeepsCharacters
  <2>5. e \in Seq(StreamEvent)
    BY <2>2, ReplayUnfolds DEF ReplayState
  <2> HIDE DEF e
  <2>6. Translated = e
    BY <2>1 DEF SequentialEquivalence, e
  <2>7. DOMAIN Translated = 1 .. Len(e)
    BY <2>5, <2>6
  <2> QED BY <2>4, <2>6, <2>7 DEF DeltasKeepCharacters, AllKeepCharacters, KeepsCharacters
<1> QED BY <1>1, TypeCorrect, PipelineKept, SequentiallyEquivalent, PTL

-----------------------------------------------------------------------------
(* Tool calls.                                                              *)

\* Events without a terminal one contain no call, so that calls stay consecutive.
LEMMA CallBlockConcat ==
  ASSUME NEW s \in Seq(StreamEvent), NEW t \in Seq(StreamEvent), EndsOnce(s, FALSE),
         HasCallBlock(s), HasCallBlock(t)
  PROVE  HasCallBlock(s \o t)
<1>1. PICK f \in Nat, n \in Nat : CallBlock(t, f, n)
  BY DEF HasCallBlock
<1>2. PICK g \in Nat, k \in Nat : CallBlock(s, g, k)
  BY DEF HasCallBlock
<1>3. /\ Len(s) \in Nat /\ Len(t) \in Nat /\ Len(s \o t) = Len(s) + Len(t)
      /\ \A i \in 1 .. Len(s) + Len(t) : (s \o t)[i] = IF i <= Len(s) THEN s[i] ELSE t[i - Len(s)]
  BY LenProperties, ConcatProperties
<1>4. CallsIn(s) = {}
  <2>1. CASE k > 0
    <3>1. s # << >> /\ s[Len(s)].kind = "completed"
      BY <1>2, <2>1 DEF CallBlock
    <3>2. Len(s) \in 1 .. Len(s)
      <4>1. Len(s) \in Nat \ {0}
        BY <3>1, EmptySeq
      <4> QED BY <4>1
    <3>3. HasTerminal(s)
      BY <3>1, <3>2 DEF HasTerminal, IsTerminal
    <3> QED BY <3>3 DEF EndsOnce
  <2>2. CASE k = 0
    <3>1. g + 1 .. g + k = {}
      BY <2>2
    <3> QED BY <1>2, <3>1 DEF CallBlock
  <2> QED BY <2>1, <2>2
<1> DEFINE u == s \o t
<1>5. \A i \in 1 .. Len(s) : u[i].kind # "tool_call"
  <2>1. \A i \in 1 .. Len(s) : s[i].kind # "tool_call"
    BY <1>4 DEF CallsIn
  <2>2. \A i \in 1 .. Len(s) : u[i] = s[i]
    BY <1>3
  <2> QED BY <2>1, <2>2
<1>6. \A i \in 1 .. Len(t) : Len(s) + i \in 1 .. Len(u) /\ u[Len(s) + i] = t[i]
  BY <1>3
<1>7. \A i \in 1 .. Len(u) : i \in 1 .. Len(s) \/ i - Len(s) \in 1 .. Len(t)
  BY <1>3
<1>8. Len(u) \in Nat
  BY <1>3
<1> HIDE DEF u
<1>9. ASSUME NEW i \in CallsIn(u)
      PROVE  i \in Int /\ i - Len(s) \in CallsIn(t) /\ u[i] = t[i - Len(s)]
  <2>1. i \in 1 .. Len(u) /\ u[i].kind = "tool_call"
    BY DEF CallsIn
  <2>2. i - Len(s) \in 1 .. Len(t)
    BY <1>5, <1>7, <2>1
  <2>3. Len(s) + (i - Len(s)) = i
    BY <1>3, <1>8, <2>1
  <2>4. u[i] = t[i - Len(s)]
    BY <1>6, <2>2, <2>3
  <2> QED BY <1>8, <2>1, <2>2, <2>4 DEF CallsIn
<1>10. ASSUME NEW i \in CallsIn(t) PROVE Len(s) + i \in CallsIn(u)
  BY <1>6, <1>10 DEF CallsIn
<1>11. CallsIn(u) = (Len(s) + f) + 1 .. (Len(s) + f) + n
  <2>1. ASSUME NEW i \in CallsIn(u) PROVE i \in (Len(s) + f) + 1 .. (Len(s) + f) + n
    <3>1. i \in Int /\ i - Len(s) \in f + 1 .. f + n
      BY <1>1, <1>9 DEF CallBlock
    <3> QED BY <1>3, <3>1
  <2>2. ASSUME NEW i \in (Len(s) + f) + 1 .. (Len(s) + f) + n PROVE i \in CallsIn(u)
    <3>1. i - Len(s) \in f + 1 .. f + n /\ Len(s) + (i - Len(s)) = i
      BY <1>3
    <3>2. i - Len(s) \in CallsIn(t)
      BY <1>1, <3>1 DEF CallBlock
    <3> QED BY <1>10, <3>1, <3>2
  <2> QED BY <2>1, <2>2
<1>12. ASSUME n > 0 PROVE u # << >> /\ u[Len(u)].kind = "completed"
  <2>1. t # << >> /\ t[Len(t)].kind = "completed"
    BY <1>1, <1>12 DEF CallBlock
  <2>2. Len(t) \in Nat \ {0}
    BY <2>1, EmptySeq
  <2>3. Len(u) = Len(s) + Len(t)
    BY <1>3 DEF u
  <2>4. u[Len(u)] = t[Len(t)]
    BY <1>6, <2>2, <2>3
  <2>5. u # << >>
    <3>1. Len(u) # 0
      BY <1>3, <2>2, <2>3
    <3> QED BY <3>1, EmptySeq
  <2> QED BY <2>1, <2>4, <2>5
<1>13. \A i \in CallsIn(u) : u[i].name \in AllowedTools
  BY <1>1, <1>9 DEF CallBlock
<1>14. ASSUME NEW i \in CallsIn(u), NEW j \in CallsIn(u), u[i].id = u[j].id PROVE i = j
  <2>1. i - Len(s) = j - Len(s)
    BY <1>1, <1>9, <1>14 DEF CallBlock
  <2>2. i \in Int /\ j \in Int
    BY <1>9
  <2> QED BY <1>3, <2>1, <2>2
<1>15. CallBlock(u, Len(s) + f, n)
  BY <1>1, <1>11, <1>12, <1>13, <1>14 DEF CallBlock
<1>16. Len(s) + f \in Nat
  BY <1>3
<1> QED BY <1>15, <1>16 DEF HasCallBlock, u

CallsInvariant == HasCallBlock(Translated)

LEMMA ReceiveCalls ==
  ASSUME StreamInvariant, CallsInvariant, recv = "next", NEW event \in RawEvent, Receive(event)
  PROVE  CallsInvariant'
<1>1. TypeOK /\ RecvLifecycle /\ TerminalIsLast
  BY DEF StreamInvariant, Lifecycle
<1>2. terminal = FALSE
  BY <1>1 DEF RecvLifecycle, TypeOK
<1>3. EndsOnce(Translated, FALSE)
  BY <1>1, <1>2 DEF TerminalIsLast
<1> DEFINE events == Translate(event, acc).events
<1>4. events \in Seq(StreamEvent) /\ HasCallBlock(events)
  <2>1. acc \in Accumulator
    BY <1>1 DEF TypeOK
  <2> QED BY <2>1, TranslateFacts, TranslateCalls DEF Outcome
<1>5. Translated' = Translated \o events
  BY <1>1, ReceiveTranslates
<1>6. Translated \in Seq(StreamEvent)
  BY <1>1, ConcatProperties DEF TypeOK, Translated
<1> HIDE DEF events
<1>7. HasCallBlock(Translated \o events)
  BY <1>3, <1>4, <1>6, CallBlockConcat DEF CallsInvariant
<1> QED BY <1>5, <1>7 DEF CallsInvariant

LEMMA CallsStep == StreamInvariant /\ CallsInvariant /\ [Next]_vars => CallsInvariant'
<1> SUFFICES ASSUME StreamInvariant, CallsInvariant, [Next]_vars PROVE CallsInvariant'
  OBVIOUS
<1>0. TypeOK
  BY DEF StreamInvariant
<1>1. ASSUME UNCHANGED <<pending, delivered>> PROVE CallsInvariant'
  BY <1>1 DEF CallsInvariant, Translated
<1>2. CASE ~RecvBuffered /\ ~RecvRaw
  BY <1>0, <1>2, OtherStepsConsumeNothing DEF ConsumesNothing, CallsInvariant
<1>3. CASE RecvBuffered
  <2>1. Head(buffered).event \in RawEvent
    BY <1>0, <1>3, SingletonFacts, RawResultFacts DEF RecvBuffered, TypeOK
  <2> QED BY <1>3, <2>1, ReceiveCalls DEF RecvBuffered
<1>4. CASE RecvRaw
  <2>1. Head(raw).event \in RawEvent
    BY <1>0, <1>4, SingletonFacts, RawResultFacts DEF RecvRaw, TypeOK
  <2>2. CASE ReceiveError(Head(raw).err, FALSE) \/ ReceiveEnd
    BY <1>1, <2>2 DEF ReceiveEnd, ReceiveError
  <2>3. CASE Receive(Head(raw).event)
    BY <1>4, <2>1, <2>3, ReceiveCalls DEF RecvRaw
  <2> QED BY <1>4, <2>2, <2>3 DEF RecvRaw
<1> QED BY <1>2, <1>3, <1>4

LEMMA CallBlockIsAccepted == TypeOK /\ CallsInvariant => CallsOnlyWithCompletion
<1> SUFFICES ASSUME TypeOK, CallsInvariant PROVE CallsOnlyWithCompletion
  OBVIOUS
<1> DEFINE calls == {i \in DOMAIN Translated : Translated[i].kind = "tool_call"}
<1>1. Translated \in Seq(StreamEvent)
  BY ConcatProperties DEF TypeOK, Translated
<1>2. DOMAIN Translated = 1 .. Len(Translated)
  BY <1>1, LenProperties
<1>3. PICK f \in Nat, n \in Nat : CallBlock(Translated, f, n)
  BY DEF CallsInvariant, HasCallBlock
<1>4. calls = CallsIn(Translated) /\ calls = f + 1 .. f + n
  BY <1>2, <1>3 DEF CallsIn, CallBlock
<1> HIDE DEF calls
<1>5. Cardinality(calls) <= MaxCalls
  <2>1. Cardinality(f + 1 .. f + n) = IF f + 1 > f + n THEN 0 ELSE (f + n) - (f + 1) + 1
    <3>1. f + 1 \in Int /\ f + n \in Int
      OBVIOUS
    <3> QED BY <3>1, FS_Interval
  <2>2. n <= MaxCalls
    BY <1>3 DEF CallBlock
  <2> QED BY <1>4, <2>1, <2>2, LimitsAssumption
<1>6. ASSUME calls # {} PROVE Translated[Len(Translated)].kind = "completed"
  <2>1. n > 0
    BY <1>4, <1>6
  <2> QED BY <1>3, <2>1 DEF CallBlock
<1>7. /\ \A i \in calls : Translated[i].name \in AllowedTools
      /\ \A i, j \in calls : Translated[i].id = Translated[j].id => i = j
  BY <1>3, <1>4 DEF CallBlock
<1> QED BY <1>5, <1>6, <1>7 DEF CallsOnlyWithCompletion, calls

LEMMA InitCalls == Init => CallsInvariant
<1> SUFFICES ASSUME Init PROVE CallsInvariant
  OBVIOUS
<1>1. Translated = << >> /\ Len(<< >>) = 0
  BY DEF Init, Translated
<1>2. HasCallBlock(<< >>)
  BY <1>1, NoCalls
<1> QED BY <1>1, <1>2 DEF CallsInvariant

\* A tool call becomes executable only with the completed event of the response
\* that carries it; the calls of a stream are not too many, of declared tools, and
\* no two share an ID.
THEOREM CallsComeWithCompletion == Spec => []CallsOnlyWithCompletion
<1>1. StreamInvariant => TypeOK
  BY DEF StreamInvariant
<1> QED BY <1>1, Invariance, InitCalls, CallsStep, CallBlockIsAccepted, PTL DEF Spec

-----------------------------------------------------------------------------
(* The stream implements the contract of model.Stream.                      *)

\* The contract's notion of an ended stream is the stream's own.
LEMMA EndedMeansTerminal ==
  ASSUME TypeOK, TerminalIsLast
  PROVE  Contract!Ended <=> terminal /\ pending = << >>
<1>1. /\ delivered \in Seq(StreamEvent) /\ pending \in Seq(StreamEvent)
      /\ terminal \in BOOLEAN
  BY DEF TypeOK
<1>2. /\ Len(delivered \o pending) = Len(delivered) + Len(pending)
      /\ \A i \in 1 .. Len(delivered) + Len(pending) :
           (delivered \o pending)[i] = IF i <= Len(delivered) THEN delivered[i]
                                       ELSE pending[i - Len(delivered)]
  BY <1>1, ConcatProperties
<1>3. Len(delivered) \in Nat /\ Len(pending) \in Nat
  BY <1>1
<1>4. (delivered = << >> <=> Len(delivered) = 0) /\ (pending = << >> <=> Len(pending) = 0)
  BY <1>1, EmptySeq
<1>5. /\ \A i \in 1 .. (Len(delivered) + Len(pending)) - 1 : ~IsTerminal((delivered \o pending)[i])
      /\ terminal <=> \E i \in 1 .. Len(delivered) + Len(pending) : IsTerminal((delivered \o pending)[i])
  BY <1>2 DEF TerminalIsLast, EndsOnce, HasTerminal, Translated
<1>6. Contract!Ended <=> delivered # << >> /\ IsTerminal(delivered[Len(delivered)])
  <2>1. delivered # << >> => delivered[Len(delivered)] \in StreamEvent
    BY <1>1, <1>3, <1>4
  <2> QED BY <2>1 DEF Contract!Ended
<1>7. ASSUME terminal, pending = << >> PROVE Contract!Ended
  <2>1. PICK i \in 1 .. Len(delivered) : IsTerminal((delivered \o pending)[i])
    BY <1>3, <1>4, <1>5, <1>7
  <2>2. i = Len(delivered)
    BY <2>1, <1>3, <1>4, <1>5, <1>7
  <2> QED BY <2>1, <2>2, <1>2, <1>3, <1>4, <1>6, <1>7
<1>8. ASSUME Contract!Ended PROVE terminal /\ pending = << >>
  <2>1. Len(delivered) \in 1 .. Len(delivered) + Len(pending)
    BY <1>3, <1>4, <1>6, <1>8
  <2>2. IsTerminal((delivered \o pending)[Len(delivered)])
    BY <2>1, <1>2, <1>3, <1>6, <1>8
  <2> QED BY <2>1, <2>2, <1>3, <1>4, <1>5
<1> QED BY <1>7, <1>8

LEMMA StepImplementsContract ==
  ASSUME StreamInvariant, [Next]_vars
  PROVE  Contract!Next \/ UNCHANGED Contract!contractVars
<1> USE DEF Contract!contractVars, recvVars
<1>0. TypeOK /\ (Contract!Ended <=> terminal /\ pending = << >>)
  BY EndedMeansTerminal DEF StreamInvariant
<1>1. ASSUME UNCHANGED <<delivered, closed, recv, result>> PROVE UNCHANGED Contract!contractVars
  BY <1>1
<1>2. ASSUME recv # "idle", recv' = "idle", result'.is \in {"error", "protocol_error", "context"},
             UNCHANGED <<delivered, closed>>
      PROVE  Contract!Next
  BY <1>2 DEF Contract!Next, Contract!RecvFails
<1>3. ASSUME recv # "idle", UNCHANGED closed, NEW events \in Seq(StreamEvent), events # << >>,
             Deliver(events)
      PROVE  Contract!Next
  <2>1. Head(events) \in StreamEvent
    BY <1>3, SingletonFacts
  <2>2. /\ delivered' = Append(delivered, Head(events))
        /\ Len(delivered') = Len(delivered) + 1
        /\ delivered'[Len(delivered')] = Head(events)
    <3>1. delivered' = Append(delivered, Head(events))
      BY <1>3 DEF Deliver
    <3> QED BY <3>1, <2>1, <1>0, AppendProperties DEF TypeOK
  <2>3. recv' = "idle" /\ result'.is = "event"
    BY <1>3 DEF Deliver, Return, EventReturned
  <2>4. ~Contract!Ended
    BY <1>0, <1>3 DEF StreamInvariant, Lifecycle, RecvLifecycle, TypeOK
  <2> QED BY <2>1, <2>2, <2>3, <2>4, <1>3 DEF Contract!Next, Contract!RecvDelivers
<1>4. ASSUME recv # "idle", UNCHANGED closed, NEW err, NEW truncated, ReceiveError(err, truncated)
      PROVE  Contract!Next
  BY <1>2, <1>4 DEF ReceiveError, Return, ContextReturned, StreamError
<1>5. ASSUME recv # "idle", UNCHANGED closed, ReceiveEnd PROVE Contract!Next
  BY <1>4, <1>5 DEF ReceiveEnd
<1>6. ASSUME recv # "idle", UNCHANGED closed, NEW event \in RawEvent, Receive(event)
      PROVE  Contract!Next \/ UNCHANGED Contract!contractVars
  <2> DEFINE out  == Translate(event, acc)
             todo == pending \o out.events
  <2>1. todo \in Seq(StreamEvent)
    <3>1. out.events \in Seq(StreamEvent)
      BY <1>0, TranslateFacts DEF TypeOK, Outcome
    <3> QED BY <3>1, <1>0, ConcatProperties DEF TypeOK
  <2>2. \/ Return(ProtocolError) /\ UNCHANGED <<pending, delivered>>
        \/ todo # << >> /\ Deliver(todo)
        \/ UNCHANGED <<recv, result, pending, delivered>>
    BY <1>6 DEF Receive
  <2> HIDE DEF todo
  <2> QED BY <1>2, <1>3, <1>6, <2>1, <2>2 DEF Return, ProtocolError
<1>7. CASE UNCHANGED vars
  BY <1>1, <1>7 DEF vars, closeVars
<1>8. CASE SourceReturns \/ PumpStep \/ OperationEnds
  BY <1>1, <1>8 DEF SourceReturns, PumpEvent, PumpEnd, PumpStep, PumpSend, PumpAbandon,
     PumpCloseRaw, PumpCloseDone, OperationEnds, closeVars
<1>9. CASE RecvEnter
  <2>1. recv = "idle" /\ UNCHANGED <<closed, delivered>>
    BY <1>9 DEF RecvEnter, closeVars
  <2>2. CASE (closed \/ (terminal /\ pending = << >>)) /\ result' = EOF /\ UNCHANGED recv
    BY <1>0, <2>1, <2>2 DEF Contract!Next, Contract!RecvEnds, EOF
  <2>3. CASE ~closed /\ ~(terminal /\ pending = << >>) /\ recv' = "entered" /\ result' = NoResult
    BY <1>0, <2>1, <2>3 DEF Contract!Next, Contract!RecvStarts, NoResult
  <2> QED BY <1>9, <2>2, <2>3 DEF RecvEnter, HasEnded
<1>10. CASE RecvProceed
  <2>1. recv = "entered" /\ UNCHANGED closed
    BY <1>10 DEF RecvProceed, closeVars
  <2>2. CASE Return(ContextReturned(rctx)) /\ UNCHANGED <<pending, delivered>>
    BY <1>2, <2>1, <2>2 DEF Return, ContextReturned
  <2>3. CASE pending # << >> /\ Deliver(pending)
    BY <1>0, <1>3, <2>1, <2>3 DEF TypeOK
  <2>4. CASE recv' = "next" /\ UNCHANGED <<result, pending, delivered>>
    BY <2>1, <2>4
  <2> QED BY <1>10, <2>2, <2>3, <2>4 DEF RecvProceed
<1>11. CASE RecvBuffered
  <2>1. Head(buffered).event \in RawEvent
    BY <1>0, <1>11, SingletonFacts, RawResultFacts DEF RecvBuffered, TypeOK
  <2>2. recv # "idle" /\ UNCHANGED closed /\ Receive(Head(buffered).event)
    BY <1>11 DEF RecvBuffered, closeVars
  <2> QED BY <1>6, <2>1, <2>2
<1>12. CASE RecvContextDone \/ RecvOperationDone
  BY <1>4, <1>12 DEF RecvContextDone, RecvDone, RecvOperationDone, closeVars
<1>13. CASE RecvRaw
  <2>1. Head(raw).event \in RawEvent
    BY <1>0, <1>13, SingletonFacts, RawResultFacts DEF RecvRaw, TypeOK
  <2>2. recv # "idle" /\ UNCHANGED closed
    BY <1>13 DEF RecvRaw, closeVars
  <2>3. ReceiveError(Head(raw).err, FALSE) \/ ReceiveEnd \/ Receive(Head(raw).event)
    BY <1>13 DEF RecvRaw
  <2> QED BY <1>4, <1>5, <1>6, <2>1, <2>2, <2>3
<1>14. CASE RecvRawClosed
  BY <1>5, <1>14 DEF RecvRawClosed, closeVars
<1>15. ASSUME NEW c \in Closers, CloseCall(c) \/ CloseStep(c)
       PROVE  Contract!Next \/ UNCHANGED Contract!contractVars
  <2>1. CASE CloseFirst(c)
    <3>1. ~closed
      BY <2>1 DEF CloseFirst, StreamInvariant, Lifecycle, CloseLifecycle
    <3> QED BY <2>1, <3>1 DEF CloseFirst, Contract!Next, Contract!Close
  <2>2. CASE CloseCall(c) \/ CloseCancel(c) \/ CloseSource(c) \/ CloseJoin(c) \/ CloseWait(c)
    BY <1>1, <2>2 DEF CloseCall, CloseCancel, CloseSource, CloseJoin, CloseWait
  <2> QED BY <1>15, <2>1, <2>2 DEF CloseStep
<1>16. CASE RecvContextEnds
  BY <1>16 DEF RecvContextEnds, closeVars
<1> QED
  BY <1>7, <1>8, <1>9, <1>10, <1>11, <1>12, <1>13, <1>14, <1>15, <1>16 DEF Next, RecvStep

\* The stream implements the contract: every behaviour of the goroutines and
\* channels is one of ModelStream.
THEOREM StreamImplementsContract == Spec => ImplementsModelStream
<1>1. Init => Contract!Init
  BY DEF Init, Contract!Init, NoResult
<1>2. ASSUME StreamInvariant, [Next]_vars PROVE [Contract!Next]_(Contract!contractVars)
  BY <1>2, StepImplementsContract
<1> QED BY <1>1, <1>2, Invariance, PTL DEF Spec, ImplementsModelStream, Contract!Spec


-----------------------------------------------------------------------------
(* The stream's part of an operation.                                       *)

\* What a step of the start does to the operation's context is something its
\* caller may do, as far as the stream can see.
LEMMA StartContext ==
  ASSUME Start!Next, StreamAssumption
  PROVE  opctx' = opctx \/ (opctx = "live" /\ opctx' \in {"canceled"} \cup ContextEnds)
<1> USE DEF Start!End
<1>1. CASE Start!SourceMissing \/ Start!Cancel \/ Start!CallerEnds
  BY <1>1 DEF Start!SourceMissing, Start!Cancel, Start!CallerEnds
<1>2. CASE Start!Refuse \/ Start!FirstAttempt \/ Start!NotSent \/ Start!AttemptEnded \/ Start!Retry
  BY <1>2 DEF Start!Refuse, Start!FirstAttempt, Start!NotSent, Start!AttemptEnded, Start!Retry,
              Start!Send, Start!SourceFails
<1>3. CASE Start!NextAttempt \/ Start!BackoffEnded \/ Start!Conclude \/ Start!ReadOperationErr \/ Start!CloseAndFail
  BY <1>3 DEF Start!NextAttempt, Start!BackoffEnded, Start!Conclude, Start!ReadOperationErr, Start!CloseAndFail,
              Start!Send, Start!SourceFails
<1>4. CASE Start!Transport \/ Start!Body \/ Start!AttemptTimesOut \/ Start!ClientTimesOut
  BY <1>4 DEF Start!Transport, Start!Body, Start!AttemptTimesOut, Start!ClientTimesOut, Start!Answered,
              Start!ReadErrorBody, Start!FirstEvent, Start!FirstFails, Start!SourceFails
<1> QED BY <1>1, <1>2, <1>3, <1>4 DEF Start!Next, Start!StreamCall

\* The caller may cancel, which is what a start that fails does as well.
LEMMA StreamPart ==
  ASSUME StreamAssumption, "canceled" \in ContextEnds, [OperationNext]_operationVars
  PROVE  [Next]_vars
<1>1. CASE Starting
  <2>1. UNCHANGED streamVars
    BY <1>1 DEF Starting
  <2>2. opctx' = opctx \/ (opctx = "live" /\ opctx' \in ContextEnds)
    BY <1>1, StartContext DEF Starting
  <2>3. CASE opctx' = opctx
    BY <2>1, <2>3 DEF streamVars, vars
  <2>4. CASE opctx = "live" /\ opctx' \in ContextEnds
    BY <2>1, <2>4 DEF streamVars, OperationEnds, Next
  <2> QED BY <2>2, <2>3, <2>4
<1>2. CASE CallerEndsStream
  BY <1>2 DEF CallerEndsStream, OnStream, Next
<1>3. CASE BodyTimesOut \/ ClientTimesOut
  BY <1>3 DEF BodyTimesOut, ClientTimesOut
<1>4. CASE ReadBody
  <2>1. \/ \E event \in RawEvents : PumpEvent(event)
        \/ \E err : PumpEnd(err)
    BY <1>4 DEF ReadBody, OnStream
  <2>2. CASE \E event \in RawEvents : PumpEvent(event)
    BY <2>2 DEF Next, SourceReturns
  <2>3. ASSUME NEW err, PumpEnd(err)
        PROVE  Next
    <3>1. err \in {Nil, Canceled, Deadline} \cup SourceErrors
      BY <2>3 DEF PumpEnd, ContextError
    <3> QED BY <2>3, <3>1 DEF Next, SourceReturns
  <2> QED BY <2>1, <2>2, <2>3
<1>5. CASE Pump \/ Recv \/ Call
  BY <1>5 DEF Pump, Recv, Call, OnStream, Next
<1>6. ASSUME NEW c \in Closers, CancelStream(c) \/ CloseBody(c) \/ Rest(c)
      PROVE  Next
  BY <1>6 DEF CancelStream, CloseBody, Rest, OnStream, Next, CloseStep
<1>7. CASE UNCHANGED operationVars
  BY <1>7 DEF operationVars
<1> QED BY <1>1, <1>2, <1>3, <1>4, <1>5, <1>6, <1>7 DEF OperationNext, Streaming

\* An operation's stream is a stream of ResponsesStream, if its caller may cancel
\* it (newStream, provider.go:72-85).
THEOREM OperationHasStream ==
  ASSUME "canceled" \in ContextEnds
  PROVE  OperationSpec => StreamIsResponsesStream
<1>1. OperationInit => Init
  BY DEF OperationInit
<1>2. [OperationNext]_operationVars => [Next]_vars
  BY StreamPart, StreamAssumption
<1> QED BY <1>1, <1>2, PTL DEF OperationSpec, StreamIsResponsesStream, Spec

\* So it keeps the contract of model.Stream, from the start's first event on.
THEOREM OperationKeepsContract ==
  ASSUME "canceled" \in ContextEnds
  PROVE  OperationSpec => ImplementsModelStream
BY OperationHasStream, StreamImplementsContract, PTL DEF StreamIsResponsesStream

-----------------------------------------------------------------------------
(* Who owns the contexts and the body.                                      *)

\* The source has every open response but one that came after its attempt's context
\* had ended; when a start fails, the source is closed.
Owned ==
  /\ phase = "called" => attempts = 0
  /\ phase = "close" => opctx # "live"
  /\ phase = "failed" /\ attempts > 0 => opctx # "live"
  /\ opctx # "live" => attctx # "live"
  /\ open \subseteq {attempts}
  /\ phase \in {"called", "sent", "backoff"} => open = {}
  /\ phase \in {"reading", "first", "streaming"} => handed
  /\ open # {} /\ phase \notin {"answered", "reading", "first", "streaming"} =>
       handed \/ (attctx # "live" /\ sourceErr = ContextError(attctx))
  /\ phase = "failed" /\ handed => open = {}
  /\ srcClosed => phase = "streaming" /\ open = {}

\* The start and the stream mean the same errors.
LEMMA SameErrors ==
  /\ Start!Nil = Nil /\ Start!Other = Other /\ Start!Deadline = Deadline
  /\ \A state : Start!ContextError(state) = ContextError(state)
BY DEF Start!Nil, Start!Other, Start!Canceled, Start!Deadline, Start!ContextError,
       Nil, Other, Canceled, Deadline, ContextError

LEMMA InitOwned == OperationInit => Owned
BY DEF OperationInit, Init, Start!Init, Owned

LEMMA StartingOwned == ASSUME Owned, Starting PROVE Owned'
<1> USE DEF Start!End, Start!Fail, Start!SourceFails, Start!Send, Start!Answered,
            Start!attemptVars, Start!bodyVars, Start!errorVars, Owned
<1>1. UNCHANGED srcClosed
  BY DEF Starting, streamVars
<1>2. CASE Start!SourceMissing \/ Start!Cancel \/ Start!CallerEnds
  BY <1>1, <1>2 DEF Start!SourceMissing, Start!Cancel, Start!CallerEnds
<1>3. CASE Start!Refuse
  BY <1>1, <1>3 DEF Start!Refuse
<1>4. CASE Start!FirstAttempt \/ Start!NotSent \/ Start!AttemptEnded \/ Start!Retry
  BY <1>1, <1>4, SameErrors DEF Start!FirstAttempt, Start!NotSent, Start!AttemptEnded, Start!Retry
<1>5. CASE Start!NextAttempt \/ Start!BackoffEnded \/ Start!Conclude
  BY <1>1, <1>5 DEF Start!NextAttempt, Start!BackoffEnded, Start!Conclude
<1>6. CASE Start!ReadOperationErr
  BY <1>1, <1>6 DEF Start!ReadOperationErr
<1>9. CASE Start!CloseAndFail
  <2>1. /\ phase = "close" /\ phase' = "failed"
        /\ open' = IF handed THEN open \ {attempts} ELSE open
        /\ UNCHANGED <<opctx, attctx, attempts, handed, sourceErr>>
    BY <1>9 DEF Start!CloseAndFail
  <2>2. open' \subseteq open /\ (handed => open' = {})
    BY <2>1
  <2> QED BY <1>1, <2>1, <2>2
<1>7. CASE Start!Transport \/ Start!AttemptTimesOut \/ Start!ClientTimesOut
  BY <1>1, <1>7 DEF Start!Transport, Start!AttemptTimesOut, Start!ClientTimesOut
<1>8. CASE Start!Body
  BY <1>1, <1>8 DEF Start!Body, Start!ReadErrorBody, Start!FirstEvent, Start!FirstFails
<1> QED BY <1>2, <1>3, <1>4, <1>5, <1>6, <1>7, <1>8, <1>9 DEF Starting, Start!Next, Start!StreamCall

LEMMA StreamingOwned == ASSUME Owned, Streaming PROVE Owned'
<1> USE DEF Start!End, startVars, bodyVars, OnStream, Owned
<1>1. phase = "streaming" /\ UNCHANGED <<phase, attempts, handed, sourceErr>>
  BY DEF Streaming, CallerEndsStream, BodyTimesOut, ClientTimesOut, ReadBody, Pump, Recv, Call, CancelStream, CloseBody, Rest
<1>2. CASE CallerEndsStream
  BY <1>1, <1>2 DEF CallerEndsStream, OperationEnds
<1>3. CASE BodyTimesOut \/ ClientTimesOut
  BY <1>1, <1>3 DEF BodyTimesOut, ClientTimesOut, vars
<1>4. CASE ReadBody
  BY <1>1, <1>4 DEF ReadBody, PumpEvent, PumpEnd
<1>5. CASE Pump
  BY <1>1, <1>5 DEF Pump, PumpStep, PumpSend, PumpAbandon, PumpCloseRaw, PumpCloseDone
<1>6. CASE Recv
  <2>1. UNCHANGED <<opctx, srcClosed, attctx, open, callerEnd>>
    <3>1. CASE RecvProceed \/ RecvBuffered \/ RecvContextDone \/ RecvOperationDone
      BY <1>6, <3>1 DEF Recv, RecvProceed, RecvBuffered, RecvContextDone, RecvOperationDone, RecvDone
    <3>2. CASE RecvRaw \/ RecvRawClosed
      BY <1>6, <3>2 DEF Recv, RecvRaw, RecvRawClosed
    <3> QED BY <1>6, <3>1, <3>2 DEF Recv, RecvStep
  <2> QED BY <1>1, <2>1
<1>7. CASE Call
  BY <1>1, <1>7 DEF Call, RecvEnter, RecvContextEnds, CloseCall
<1>8. ASSUME NEW c \in Closers, CancelStream(c)
      PROVE  Owned'
  BY <1>1, <1>8 DEF CancelStream, CloseCancel
<1>9. ASSUME NEW c \in Closers, CloseBody(c)
      PROVE  Owned'
  BY <1>1, <1>9 DEF CloseBody, CloseSource
<1>10. ASSUME NEW c \in Closers, Rest(c)
       PROVE  Owned'
  BY <1>1, <1>10 DEF Rest, CloseFirst, CloseJoin, CloseWait
<1> QED BY <1>2, <1>3, <1>4, <1>5, <1>6, <1>7, <1>8, <1>9, <1>10 DEF Streaming

LEMMA AlwaysOwned == OperationSpec => []Owned
<1>1. Owned /\ UNCHANGED operationVars => Owned'
  BY DEF operationVars, vars, startVars, bodyVars, Owned
<1>2. Owned /\ [OperationNext]_operationVars => Owned'
  BY <1>1, StartingOwned, StreamingOwned DEF OperationNext
<1> QED BY InitOwned, <1>2, PTL DEF OperationSpec

\* At no time is more than one response open, and the source closes the one it was
\* given; one that Execute kept to itself came under a context that had ended
\* (requestconfig.go:593-639, 665-676; provider.go:53-85).
THEOREM BodyIsOwned == OperationSpec => []BodyHasOwner
<1>1. Owned => BodyHasOwner
  <2> SUFFICES ASSUME Owned PROVE BodyHasOwner
    OBVIOUS
  <2>1. ASSUME open # {}
        PROVE  open = {attempts} /\ phase \notin {"called", "sent", "backoff"}
    BY <2>1 DEF Owned
  <2>2. ASSUME open # {}
        PROVE  \/ phase = "answered"
               \/ handed /\ phase # "failed" /\ ~srcClosed
               \/ ~handed /\ attctx # "live"
    BY <2>2 DEF Owned
  <2> QED BY <2>1, <2>2 DEF Owned, BodyHasOwner
<1> QED BY <1>1, AlwaysOwned, PTL

\* A closed operation leaves no context, timer, body or goroutine behind; a failed
\* start no context, and no body but one that came after its attempt's context had
\* ended, which Execute does not close (provider.go:59-70, 334-345;
\* requestconfig.go:597-599).
THEOREM OperationLeavesNothing ==
  ASSUME "canceled" \in ContextEnds
  PROVE  OperationSpec => []NothingLeft
<1>1. Owned /\ Lifecycle => NothingLeft
  BY DEF Owned, Lifecycle, CloseLifecycle, NothingLeft
<1>2. OperationSpec => []Lifecycle
  BY OperationHasStream, LifecycleHolds, PTL DEF StreamIsResponsesStream
<1> QED BY <1>1, <1>2, AlwaysOwned, PTL


-----------------------------------------------------------------------------
(* What a host is told about the end of its operation.                      *)

DeadlineExplained == attctx = "deadline" \/ timedOut

EndSeen == \E i \in 1 .. Len(produced) : produced[i].event = Untyped

CancelExplained == callerEnd = "canceled" \/ closed

\* A result on its way to Recv.
Explained(got) ==
  /\ got.err \in {Nil, Other, Canceled, Deadline}
  /\ got.err = Canceled => CancelExplained
  /\ got.err = Deadline => DeadlineExplained
  /\ got.event = Untyped => EndSeen

\* The attempt's context ends with the operation's or by its timeout, and the
\* operation's by its caller, by Close or by the cleanup of a failed start.
ContextsExplained ==
  /\ opctx \in ContextState /\ attctx \in ContextState
  /\ opctx = "deadline" => attctx = "deadline"
  /\ attctx = "canceled" => opctx = "canceled"
  /\ callerEnd # "live" => opctx # "live"
  /\ opctx = "canceled" => CancelExplained \/ phase \in {"close", "failed"}
  /\ closed => phase = "streaming"

\* What the start read of a context stays true of it.
StartExplained ==
  /\ sourceErr.kind \in {"nil", "canceled", "deadline", "api", "other"}
  /\ sourceErr.kind = "canceled" => callerEnd = "canceled"
  /\ sourceErr.kind = "deadline" => DeadlineExplained
  /\ phase \notin {"sourceFailed", "cancel", "close", "failed"} => sourceErr.kind = "nil"
  /\ operationErr \in ContextState
  /\ operationErr = "canceled" => callerEnd = "canceled"
  /\ operationErr = "deadline" => DeadlineExplained
  /\ phase \notin {"cancel", "close", "failed"} => operationErr = "live"
  /\ failure.cause = "canceled" => callerEnd = "canceled"
  /\ failure.cause = "deadline" => DeadlineExplained
  /\ failure.cause # "nil" => phase = "failed"

FlightExplained ==
  /\ \A i \in 1 .. Len(held) : Explained(held[i])
  /\ \A i \in 1 .. Len(raw) : Explained(raw[i])
  /\ pump = "offerEnd" => EndSeen
  /\ pump \in {"closeRaw", "closeDone", "done"} => opctx # "live" \/ EndSeen

ResultExplained ==
  result.is = "error" =>
    /\ result.code = "cancelled" => CancelExplained
    /\ result.code = "deadline_exceeded" => DeadlineExplained
    /\ result.truncated => EndSeen

\* Until the start returns it, its stream stands as newly made.
StreamWaits == phase # "streaming" => pump = "next" /\ held = << >> /\ raw = << >> /\ result = NoResult

Explanations ==
  ContextsExplained /\ StartExplained /\ FlightExplained /\ ResultExplained /\ StreamWaits

LEMMA InitExplanations == OperationInit => Explanations
<1> SUFFICES ASSUME OperationInit PROVE Explanations
  OBVIOUS
<1> USE DEF OperationInit
<1>1. opctx \in ContextState /\ attctx = opctx /\ callerEnd = opctx /\ phase = "called" /\ ~closed
  BY StreamAssumption DEF Init, Start!Init, ContextState
<1>2. ContextsExplained
  BY <1>1 DEF ContextsExplained, CancelExplained
<1>3. StartExplained
  BY <1>1 DEF StartExplained, Start!Init, Start!NoFailure, Start!FailureOf, FailureOf, Start!Nil, Nil, ContextState
<1>4. pump = "next" /\ held = << >> /\ raw = << >> /\ result = NoResult
  BY DEF Init
<1>5. FlightExplained /\ ResultExplained /\ StreamWaits
  BY <1>4 DEF FlightExplained, ResultExplained, StreamWaits, NoResult
<1> QED BY <1>2, <1>3, <1>5 DEF Explanations

\* The start's view of the contexts.
LEMMA StartingContexts ==
  ASSUME Owned, Explanations, Starting
  PROVE  /\ ContextsExplained'
         /\ callerEnd = "canceled" => callerEnd' = "canceled"
         /\ phase # "streaming"
<1> USE DEF Start!End, Start!Fail, Start!SourceFails, Start!Send, Start!Answered,
            Start!attemptVars, Start!bodyVars, Start!errorVars, ContextState
<1>0. /\ UNCHANGED <<closed, closer>> /\ ContextsExplained /\ Owned
      /\ ContextEnds \subseteq {"canceled", "deadline"}
  BY StreamAssumption DEF Starting, streamVars, closeVars, Explanations
<1> USE DEF ContextsExplained, CancelExplained, Owned
<1>1. CASE Start!SourceMissing \/ Start!Cancel
  BY <1>0, <1>1 DEF Start!SourceMissing, Start!Cancel
<1>2. CASE Start!CallerEnds
  BY <1>0, <1>2 DEF Start!CallerEnds
<1>3. CASE Start!Refuse
  BY <1>0, <1>3 DEF Start!Refuse
<1>4. CASE Start!FirstAttempt \/ Start!NotSent \/ Start!AttemptEnded \/ Start!Retry
  BY <1>0, <1>4 DEF Start!FirstAttempt, Start!NotSent, Start!AttemptEnded, Start!Retry
<1>5. CASE Start!NextAttempt \/ Start!BackoffEnded \/ Start!Conclude
  BY <1>0, <1>5 DEF Start!NextAttempt, Start!BackoffEnded, Start!Conclude
<1>6. CASE Start!ReadOperationErr \/ Start!CloseAndFail
  BY <1>0, <1>6 DEF Start!ReadOperationErr, Start!CloseAndFail
<1>7. CASE Start!Transport \/ Start!AttemptTimesOut \/ Start!ClientTimesOut
  BY <1>0, <1>7 DEF Start!Transport, Start!AttemptTimesOut, Start!ClientTimesOut
<1>8. CASE Start!Body
  BY <1>0, <1>8 DEF Start!Body, Start!ReadErrorBody, Start!FirstEvent, Start!FirstFails
<1> QED BY <1>1, <1>2, <1>3, <1>4, <1>5, <1>6, <1>7, <1>8 DEF Starting, Start!Next, Start!StreamCall


\* The error of a context that has ended, and why it ended.
LEMMA StartContextError ==
  ASSUME NEW state \in {"canceled", "deadline"}
  PROVE  Start!ContextError(state).kind = state
BY DEF Start!ContextError, Start!Canceled, Start!Deadline

SourceFailsAs(err) ==
  /\ phase' = "sourceFailed" /\ sourceErr' = err
  /\ UNCHANGED <<opctx, attctx, timedOut, operationErr, failure, callerEnd>>

LEMMA StartingStart ==
  ASSUME Owned, Explanations, Starting
  PROVE  StartExplained'
<1> USE DEF Start!Fail, Start!SourceFails, Start!Send, Start!Answered, Start!attemptVars, Start!errorVars,
            DeadlineExplained
<1>0. ContextsExplained /\ StartExplained /\ ~closed /\ ContextEnds \subseteq {"canceled", "deadline"}
  <2>1. phase # "streaming"
    BY StartingContexts
  <2> QED BY <2>1, StreamAssumption DEF Explanations, ContextsExplained
\* A context read while the start goes on.
<1>1. ASSUME phase \notin {"close", "failed"}
      PROVE  /\ opctx = "canceled" => callerEnd = "canceled"
             /\ opctx = "deadline" => attctx = "deadline"
             /\ attctx = "canceled" => callerEnd = "canceled"
             /\ opctx \in ContextState /\ attctx \in ContextState
  BY <1>0, <1>1 DEF ContextsExplained, CancelExplained
\* No failure yet, and no attempt follows a source that failed.
<1>2. ASSUME UNCHANGED failure, phase # "failed"
      PROVE  /\ failure'.cause = "canceled" => callerEnd' = "canceled"
             /\ failure'.cause = "deadline" => DeadlineExplained'
             /\ failure'.cause # "nil" => phase' = "failed"
  BY <1>0, <1>2 DEF StartExplained
<1>3. ASSUME UNCHANGED <<sourceErr, operationErr, failure>>, phase # "failed", phase' # "failed",
             callerEnd = "canceled" => callerEnd' = "canceled",
             DeadlineExplained => DeadlineExplained',
             phase \notin {"sourceFailed", "cancel", "close"} \/ phase' \in {"sourceFailed", "cancel", "close"},
             phase \notin {"cancel", "close"} \/ phase' \in {"cancel", "close"}
      PROVE  StartExplained'
  BY <1>0, <1>3 DEF StartExplained
<1>4. CASE Start!Cancel \/ Start!CallerEnds
  BY <1>0, <1>3, <1>4 DEF Start!Cancel, Start!CallerEnds, Start!End
<1>5. CASE Start!SourceMissing \/ Start!Refuse
  <2>1. failure'.cause = "nil" /\ phase' = "failed"
    BY <1>5 DEF Start!SourceMissing, Start!Refuse, Start!FailureOf
  <2>2. sourceErr.kind = "nil" /\ operationErr = "live" /\ UNCHANGED <<sourceErr, operationErr>>
    BY <1>0, <1>5 DEF Start!SourceMissing, Start!Refuse, StartExplained
  <2> QED BY <2>1, <2>2 DEF StartExplained, ContextState
<1>6. CASE Start!FirstAttempt \/ Start!NextAttempt
  <2>1. /\ phase \in {"called", "backoff"} /\ phase' = "sent"
        /\ UNCHANGED <<sourceErr, operationErr, failure, callerEnd>>
    BY <1>6 DEF Start!FirstAttempt, Start!NextAttempt
  <2>2. sourceErr.kind = "nil" /\ operationErr = "live" /\ failure.cause = "nil"
    BY <1>0, <2>1 DEF StartExplained
  <2> QED BY <2>1, <2>2 DEF StartExplained, ContextState
<1>7. CASE Start!Retry \/ Start!Transport \/ Start!AttemptTimesOut \/ Start!ClientTimesOut
  BY <1>0, <1>3, <1>7 DEF Start!Retry, Start!Transport, Start!AttemptTimesOut, Start!ClientTimesOut
<1>8. ASSUME NEW err, SourceFailsAs(err), 
             \/ err.kind \in {"nil", "api", "other"}
             \/ err.kind = "deadline" /\ timedOut
             \/ attctx # "live" /\ err = Start!ContextError(attctx),
             phase \in {"called", "answered", "backoff", "reading", "first"}
      PROVE  StartExplained'
  <2>1. err.kind = "canceled" => callerEnd = "canceled"
    BY <1>1, <1>8, StartContextError DEF ContextState
  <2>2. err.kind = "deadline" => DeadlineExplained
    BY <1>1, <1>8, StartContextError DEF ContextState
  <2>3. err.kind \in {"nil", "canceled", "deadline", "api", "other"}
    BY <1>1, <1>8, StartContextError DEF ContextState
  <2> QED BY <1>0, <1>8, <2>1, <2>2, <2>3 DEF StartExplained, SourceFailsAs
<1>16. Start!Other.kind = "other" /\ Start!Nil.kind = "nil" /\ Start!Deadline.kind = "deadline"
  BY DEF Start!Other, Start!Nil, Start!Deadline
\* What the transport fails with.
<1>17. ASSUME NEW err \in Start!TransportErrors, SourceFailsAs(err),
              phase \in {"answered", "reading", "first"}
       PROVE  StartExplained'
  <2>1. CASE err = Start!Other
    BY <1>8, <1>16, <1>17, <2>1
  <2>2. CASE err = Start!Deadline /\ timedOut
    BY <1>8, <1>16, <1>17, <2>2
  <2>3. CASE attctx # "live" /\ err = Start!ContextError(attctx)
    BY <1>8, <1>17, <2>3
  <2> QED BY <1>17, <2>1, <2>2, <2>3 DEF Start!TransportErrors
<1>9. CASE Start!NotSent
  <2>1. SourceFailsAs(Start!Other) /\ phase = "called"
    BY <1>9 DEF Start!NotSent, SourceFailsAs
  <2> QED BY <1>8, <1>16, <2>1
<1>10. CASE Start!AttemptEnded \/ Start!BackoffEnded
  <2>1. SourceFailsAs(Start!ContextError(attctx)) /\ attctx # "live" /\ phase \in {"answered", "backoff"}
    BY <1>10 DEF Start!AttemptEnded, Start!BackoffEnded, SourceFailsAs
  <2> QED BY <1>8, <2>1
<1>11. CASE Start!Conclude
  <2>1. CASE answer = Start!NoAnswer
    <3>1. PICK err \in Start!TransportErrors : SourceFailsAs(err)
      BY <1>11, <2>1 DEF Start!Conclude, SourceFailsAs
    <3> QED BY <1>11, <1>17, <3>1 DEF Start!Conclude
  <2>2. CASE answer # Start!NoAnswer
    BY <1>3, <1>11, <2>2 DEF Start!Conclude
  <2> QED BY <2>1, <2>2
<1>12. CASE Start!FirstEvent
  BY <1>3, <1>12 DEF Start!FirstEvent
<1>13. CASE Start!ReadErrorBody \/ Start!FirstFails
  <2> DEFINE api == [kind |-> "api", code |-> answer.code, status |-> answer.status]
  <2>1. /\ phase \in {"reading", "first"}
        /\ \/ SourceFailsAs(Start!Nil) \/ SourceFailsAs(api)
           \/ \E err \in Start!TransportErrors : SourceFailsAs(err)
    BY <1>13 DEF Start!ReadErrorBody, Start!FirstFails, SourceFailsAs
  <2>2. api.kind = "api"
    OBVIOUS
  <2> HIDE DEF api
  <2>3. CASE SourceFailsAs(Start!Nil)
    BY <1>8, <1>16, <2>1, <2>3
  <2>4. CASE SourceFailsAs(api)
    BY <1>8, <2>1, <2>2, <2>4
  <2>5. CASE \E err \in Start!TransportErrors : SourceFailsAs(err)
    BY <1>17, <2>1, <2>5
  <2> QED BY <2>1, <2>3, <2>4, <2>5
<1>14. CASE Start!ReadOperationErr
  BY <1>0, <1>1, <1>14 DEF Start!ReadOperationErr, StartExplained
<1>15. CASE Start!CloseAndFail
  <2>1. PICK failed \in {Start!Nil, Start!Other} :
          failure' = Start!NormalizeFailure(Start!Cause(failed), TRUE)
    BY <1>15 DEF Start!CloseAndFail
  <2> DEFINE cause == Start!Cause(failed)
  <2>2. /\ cause.kind \in {"nil", "canceled", "deadline", "api", "other"}
        /\ cause.kind = "canceled" => callerEnd = "canceled"
        /\ cause.kind = "deadline" => DeadlineExplained
    <3>1. CASE operationErr # "live"
      BY <1>0, <3>1, StartContextError DEF Start!Cause, StartExplained, ContextState
    <3>2. CASE operationErr = "live" /\ sourceErr # Start!Nil
      BY <1>0, <3>2 DEF Start!Cause, StartExplained
    <3>3. CASE operationErr = "live" /\ sourceErr = Start!Nil
      <4>1. cause = failed
        BY <3>3 DEF Start!Cause
      <4> QED BY <1>16, <2>1, <4>1
    <3> QED BY <3>1, <3>2, <3>3
  <2> HIDE DEF cause
  <2>3. failure'.cause = IF cause.kind \in {"canceled", "deadline"} THEN cause.kind ELSE "nil"
    <3>1. failure' = Start!NormalizeFailure(cause, TRUE)
      BY <2>1 DEF cause
    <3> QED BY <2>2, <3>1 DEF Start!NormalizeFailure, Start!ApiFailure, Start!FailureOf
  <2>4. phase' = "failed" /\ UNCHANGED <<attctx, timedOut, sourceErr, operationErr, callerEnd>>
    BY <1>15 DEF Start!CloseAndFail
  <2> QED BY <1>0, <2>2, <2>3, <2>4 DEF StartExplained
<1> QED BY <1>4, <1>5, <1>6, <1>7, <1>9, <1>10, <1>11, <1>12, <1>13, <1>14, <1>15
        DEF Starting, Start!Next, Start!StreamCall, Start!Body

LEMMA StartingExplanations ==
  ASSUME Owned, Explanations, Starting
  PROVE  Explanations'
<1>1. ContextsExplained' /\ phase # "streaming"
  BY StartingContexts
<1>2. StartExplained'
  BY StartingStart
<1>3. UNCHANGED <<pump, held, raw, result>> /\ pump = "next" /\ held = << >> /\ raw = << >> /\ result = NoResult
  BY <1>1 DEF Starting, streamVars, pumpVars, chanVars, recvVars, Explanations, StreamWaits
<1>4. FlightExplained' /\ ResultExplained' /\ StreamWaits'
  BY <1>3 DEF FlightExplained, ResultExplained, StreamWaits, NoResult
<1> QED BY <1>1, <1>2, <1>4 DEF Explanations


\* While the stream runs, nothing that explains its end is taken back.
Kept ==
  /\ phase = "streaming" /\ phase' = "streaming"
  /\ UNCHANGED <<sourceErr, operationErr, failure>>
  /\ callerEnd = "canceled" => callerEnd' = "canceled"
  /\ CancelExplained => CancelExplained'
  /\ DeadlineExplained => DeadlineExplained'
  /\ opctx # "live" => opctx' # "live"
  /\ EndSeen => EndSeen'

\* The steps that leave all that Kept is about alone.
LEMMA KeptUntouched ==
  ASSUME phase = "streaming", UNCHANGED <<startVars, opctx, bodyVars, produced>>,
         closed => closed'
  PROVE  Kept
BY DEF Kept, startVars, bodyVars, CancelExplained, DeadlineExplained, EndSeen

\* A history that grows keeps what it has.
LEMMA ProducedGrows ==
  ASSUME NEW s \in Seq(RawResult), NEW r \in RawResult, NEW i \in 1 .. Len(s)
  PROVE  i \in 1 .. Len(s \o <<r>>) /\ (s \o <<r>>)[i] = s[i]
<1>1. <<r>> \in Seq(RawResult) /\ Len(<<r>>) = 1 /\ Len(s) \in Nat
  BY LenProperties
<1> QED BY <1>1, ConcatProperties

LEMMA ProducedLast ==
  ASSUME NEW s \in Seq(RawResult), NEW r \in RawResult
  PROVE  Len(s) + 1 \in 1 .. Len(s \o <<r>>) /\ (s \o <<r>>)[Len(s) + 1] = r
<1>1. <<r>> \in Seq(RawResult) /\ Len(<<r>>) = 1 /\ <<r>>[1] = r /\ Len(s) \in Nat
  BY LenProperties
<1> QED BY <1>1, ConcatProperties

LEMMA StreamingContexts ==
  ASSUME Owned, Explanations, StreamInvariant, Streaming
  PROVE  Kept /\ ContextsExplained'
<1>0. /\ ContextsExplained /\ Owned /\ CloseLifecycle /\ phase = "streaming" /\ UNCHANGED startVars
      /\ ContextEnds \subseteq {"canceled", "deadline"}
  BY StreamAssumption DEF Explanations, StreamInvariant, Lifecycle, Streaming, OnStream, CallerEndsStream,
     BodyTimesOut, ClientTimesOut, ReadBody, Pump, Recv, Call, CancelStream, CloseBody, Rest
<1>1. ASSUME UNCHANGED <<opctx, bodyVars, produced>>, closed => closed'
      PROVE  Kept /\ ContextsExplained'
  <2>1. Kept
    BY <1>0, <1>1, KeptUntouched
  <2> QED BY <1>0, <1>1, <2>1 DEF ContextsExplained, CancelExplained, Kept, bodyVars
<1>2. ASSUME UNCHANGED <<closed, produced>>, timedOut => timedOut',
             opctx' \in ContextState, attctx' \in ContextState,
             callerEnd' = callerEnd \/ (callerEnd = "live" /\ callerEnd' = opctx'),
             opctx # "live" => opctx' = opctx, attctx # "live" => attctx' = attctx,
             opctx' # opctx => opctx' = callerEnd' \/ (opctx' = "canceled" /\ closed),
             attctx' # attctx => attctx' = opctx' \/ attctx' = "deadline",
             opctx' # "live" => attctx' # "live",
             callerEnd' # callerEnd => opctx' # "live"
      PROVE  Kept /\ ContextsExplained'
  <2>1. EndSeen => EndSeen'
    BY <1>2 DEF EndSeen
  <2>2. /\ callerEnd = "canceled" => callerEnd' = "canceled"
        /\ CancelExplained => CancelExplained'
        /\ DeadlineExplained => DeadlineExplained'
        /\ opctx # "live" => opctx' # "live"
    BY <1>0, <1>2 DEF CancelExplained, DeadlineExplained, ContextState
  <2>3. Kept
    BY <1>0, <2>1, <2>2 DEF Kept, startVars
  <2> QED BY <1>0, <1>2, <2>2, <2>3 DEF ContextsExplained, CancelExplained, ContextState, Kept
<1>3. CASE CallerEndsStream
  BY <1>0, <1>2, <1>3 DEF CallerEndsStream, OnStream, OperationEnds, Start!End, ContextsExplained, ContextState, closeVars
<1>4. CASE BodyTimesOut
  BY <1>0, <1>2, <1>4 DEF BodyTimesOut, vars, closeVars, ContextsExplained, ContextState, Owned
<1>12. CASE ClientTimesOut
  BY <1>0, <1>2, <1>12 DEF ClientTimesOut, vars, closeVars, ContextsExplained, ContextState, Owned
<1>5. CASE ReadBody
  <2>1. UNCHANGED <<opctx, bodyVars, closed>> /\ produced' = produced \o held' /\ \E r \in RawResult : held' = <<r>>
    <3>1. CASE \E event \in RawEvents : PumpEvent(event)
      BY <3>1, <1>5, RawResultFacts DEF ReadBody, PumpEvent, closeVars
    <3>2. CASE \E err : PumpEnd(err)
      <4>1. PICK err : PumpEnd(err)
        BY <3>2
      <4>2. err \in {Nil, Canceled, Deadline} \cup SourceErrors
        BY <4>1 DEF PumpEnd, ContextError
      <4>3. held' = <<EndResult(err)>> /\ EndResult(err) \in RawResult
        BY <4>1, <4>2, RawResultFacts DEF PumpEnd
      <4> QED BY <1>5, <4>1, <4>3 DEF ReadBody, PumpEnd, closeVars
    <3> QED BY <1>5, <3>1, <3>2 DEF ReadBody, OnStream
  <2>2. EndSeen => EndSeen'
    BY <2>1, ProducedGrows DEF EndSeen, StreamInvariant, TypeOK
  <2>3. Kept
    BY <1>0, <2>1, <2>2 DEF Kept, startVars, bodyVars, CancelExplained, DeadlineExplained
  <2> QED BY <1>0, <2>1, <2>3 DEF ContextsExplained, CancelExplained, Kept, bodyVars
<1>6. CASE Pump
  BY <1>1, <1>6 DEF Pump, OnStream, PumpStep, PumpSend, PumpAbandon, PumpCloseRaw, PumpCloseDone, closeVars
<1>7. CASE Recv
  <2>1. RecvOnly
    BY <1>7, RecvOnlySteps DEF Recv, OnStream
  <2> QED BY <1>1, <1>7, <2>1 DEF Recv, RecvOnly
<1>8. CASE Call
  BY <1>1, <1>8 DEF Call, OnStream, RecvEnter, RecvContextEnds, CloseCall, closeVars
<1>9. ASSUME NEW c \in Closers, CancelStream(c)
      PROVE  Kept /\ ContextsExplained'
  <2>1. closer[c] = "cancel" /\ closed
    BY <1>0, <1>9 DEF CancelStream, OnStream, CloseCancel, CloseLifecycle
  <2> QED BY <1>0, <1>2, <1>9, <2>1 DEF CancelStream, OnStream, CloseCancel, Start!End, ContextsExplained, ContextState
<1>10. ASSUME NEW c \in Closers, CloseBody(c)
       PROVE  Kept /\ ContextsExplained'
  <2>1. opctx # "live" /\ attctx # "live"
    BY <1>0, <1>10 DEF CloseBody, OnStream, CloseSource, CloseLifecycle, Owned
  <2> QED BY <1>0, <1>2, <1>10, <2>1 DEF CloseBody, OnStream, CloseSource, Start!End, ContextsExplained
<1>11. ASSUME NEW c \in Closers, Rest(c)
       PROVE  Kept /\ ContextsExplained'
  BY <1>1, <1>11 DEF Rest, OnStream, CloseFirst, CloseJoin, CloseWait
<1> QED BY <1>3, <1>4, <1>5, <1>6, <1>7, <1>8, <1>9, <1>10, <1>11, <1>12 DEF Streaming


LEMMA CodesExplain ==
  /\ Code(Canceled) = "cancelled" /\ Code(Deadline) = "deadline_exceeded"
  /\ Code(Other) = "transport_error"
<1>1. \A err : /\ err.kind = "canceled" => Code(err) = "cancelled"
               /\ err.kind = "deadline" => Code(err) = "deadline_exceeded"
               /\ err.kind = "other" => Code(err) = "transport_error"
  BY DEF Code, NormalizeFailure, FailureOf
<1>2. Canceled.kind = "canceled" /\ Deadline.kind = "deadline" /\ Other.kind = "other"
  BY DEF Canceled, Deadline, Other
<1> HIDE DEF Canceled, Deadline, Other
<1> QED BY <1>1, <1>2

LEMMA ErrorsDiffer == Nil \notin {Canceled, Deadline} /\ Other \notin {Canceled, Deadline} /\ Canceled # Deadline
<1>1. /\ Canceled.kind = "canceled" /\ Deadline.kind = "deadline"
      /\ Other.kind = "other" /\ Nil.kind = "nil"
  BY DEF Canceled, Deadline, Other, Nil
<1> HIDE DEF Canceled, Deadline, Other, Nil
<1> QED BY <1>1

\* The results on their way, in the steps of the pump and its source.
LEMMA StreamingFlight ==
  ASSUME Owned, Explanations, StreamInvariant, Streaming
  PROVE  FlightExplained'
<1>0. FlightExplained /\ ContextsExplained /\ Kept /\ PumpLifecycle /\ produced \in Seq(RawResult)
  BY StreamingContexts DEF Explanations, StreamInvariant, Lifecycle, TypeOK
<1>1. ASSUME UNCHANGED <<pump, held>>, raw' = raw \/ raw' = << >>
      PROVE  FlightExplained'
  BY <1>0, <1>1 DEF FlightExplained, Explained, Kept
<1>2. CASE CallerEndsStream \/ BodyTimesOut \/ ClientTimesOut
  BY <1>1, <1>2 DEF CallerEndsStream, BodyTimesOut, ClientTimesOut, OnStream, OperationEnds, vars, pumpVars, chanVars
<1>3. ASSUME NEW r \in RawResult, held' = <<r>>, produced' = produced \o <<r>>, raw' = raw,
             UNCHANGED bodyVars,
             \/ r.err \in {Nil, Other}
             \/ r.err = Deadline /\ timedOut
             \/ attctx # "live" /\ r.err = ContextError(attctx),
             pump' = "offer" \/ (pump' = "offerEnd" /\ r.event = Untyped)
      PROVE  FlightExplained'
  <2>1. r.event = Untyped => EndSeen'
    <3>1. Len(produced) + 1 \in 1 .. Len(produced') /\ produced'[Len(produced) + 1] = r
      BY <1>0, <1>3, ProducedLast
    <3> QED BY <3>1 DEF EndSeen
  <2>2. r.err \in {Nil, Other, Canceled, Deadline}
    BY <1>0, <1>3 DEF ContextError
  <2>3. r.err = Canceled => CancelExplained'
    <3>1. r.err = Canceled => opctx = "canceled"
      BY <1>0, <1>3, ErrorsDiffer DEF ContextError, ContextsExplained, ContextState
    <3> QED BY <1>0, <3>1 DEF ContextsExplained, Kept
  <2>4. r.err = Deadline => DeadlineExplained'
    BY <1>0, <1>3, ErrorsDiffer DEF ContextError, ContextsExplained, ContextState, DeadlineExplained, bodyVars
  <2>5. \A i \in 1 .. Len(raw') : Explained(raw[i])'
    BY <1>0, <1>3 DEF FlightExplained, Explained, Kept
  <2>6. \A i \in 1 .. Len(held') : Explained(held[i])'
    <3>1. \A i \in 1 .. Len(held') : held'[i] = r
      BY <1>3
    <3>2. Explained(r)'
      BY <2>1, <2>2, <2>3, <2>4 DEF Explained
    <3> QED BY <3>1, <3>2 DEF Explained
  <2> QED BY <1>3, <2>1, <2>5, <2>6 DEF FlightExplained
<1>4. CASE ReadBody
  <2>1. CASE \E event \in RawEvents : OnStream(PumpEvent(event))
    <3>1. PICK event \in RawEvents : PumpEvent(event)
      BY <2>1 DEF OnStream
    <3>2. EventResult(event) \in RawResult /\ EventResult(event).err = Nil
      BY RawResultFacts DEF EventResult
    <3>3. held' = <<EventResult(event)>> /\ produced' = produced \o <<EventResult(event)>> /\ raw' = raw /\ pump' = "offer"
      BY <3>1 DEF PumpEvent, chanVars
    <3> QED BY <1>3, <1>4, <3>2, <3>3 DEF ReadBody
  <2>2. CASE \E err \in {Nil} \cup Start!TransportErrors : OnStream(PumpEnd(err))
    <3>1. PICK err \in {Nil} \cup Start!TransportErrors : PumpEnd(err)
      BY <2>2 DEF OnStream
    <3>2. err \in {Nil, Canceled, Deadline} \cup SourceErrors
      BY <3>1 DEF PumpEnd, ContextError
    <3>3. EndResult(err) \in RawResult /\ EndResult(err).err = err /\ EndResult(err).event = Untyped
      BY <3>2, RawResultFacts DEF EndResult
    <3>4. held' = <<EndResult(err)>> /\ produced' = produced \o <<EndResult(err)>> /\ raw' = raw /\ pump' = "offerEnd"
      BY <3>1 DEF PumpEnd, chanVars
    <3>5. \/ err \in {Nil, Other}
          \/ err = Deadline /\ timedOut
          \/ attctx # "live" /\ err = ContextError(attctx)
      BY <3>1, SameErrors DEF Start!TransportErrors
    <3> QED BY <1>3, <1>4, <3>3, <3>4, <3>5 DEF ReadBody
  <2> QED BY <1>4, <2>1, <2>2 DEF ReadBody
<1>5. CASE Pump
  <2>1. CASE PumpSend
    BY <1>0, <2>1 DEF PumpSend, FlightExplained, Explained, Kept, PumpLifecycle
  <2>2. CASE PumpAbandon \/ PumpCloseRaw \/ PumpCloseDone
    BY <1>0, <2>2 DEF PumpAbandon, PumpCloseRaw, PumpCloseDone, chanVars, FlightExplained, Explained, Kept
  <2> QED BY <1>5, <2>1, <2>2 DEF Pump, OnStream, PumpStep
<1>6. CASE Recv
  <2>1. UNCHANGED <<pump, held>> /\ (raw' = raw \/ raw' = << >>)
    BY <1>6 DEF Recv, OnStream, RecvStep, RecvProceed, RecvBuffered, RecvContextDone, RecvOperationDone,
                RecvDone, RecvRaw, RecvRawClosed, pumpVars, chanVars
  <2> QED BY <1>1, <2>1
<1>7. CASE Call
  BY <1>1, <1>7 DEF Call, OnStream, RecvEnter, RecvContextEnds, CloseCall, pumpVars, chanVars
<1>8. ASSUME NEW c \in Closers, CancelStream(c) \/ CloseBody(c) \/ Rest(c)
      PROVE  FlightExplained'
  BY <1>1, <1>8 DEF CancelStream, CloseBody, Rest, OnStream, CloseCancel, CloseSource, CloseFirst, CloseJoin,
                    CloseWait, pumpVars, chanVars
<1> QED BY <1>2, <1>4, <1>5, <1>6, <1>7, <1>8 DEF Streaming

\* What Recv returns of them.
LEMMA StreamingResult ==
  ASSUME Owned, Explanations, StreamInvariant, Streaming
  PROVE  ResultExplained'
<1>0. FlightExplained /\ ContextsExplained /\ ResultExplained /\ Kept /\ PumpLifecycle
  BY StreamingContexts DEF Explanations, StreamInvariant, Lifecycle
<1>1. ASSUME result' = result \/ result'.is # "error"
      PROVE  ResultExplained'
  BY <1>0, <1>1 DEF ResultExplained, Kept
\* A result that Recv reports.
<1>2. ASSUME NEW err \in {Nil, Other, Canceled, Deadline}, NEW truncated \in BOOLEAN,
             ReceiveError(err, truncated), err # Nil,
             err = Canceled => CancelExplained, err = Deadline => DeadlineExplained,
             truncated => EndSeen
      PROVE  ResultExplained'
  <2>1. \/ result'.is = "context"
        \/ result' = [is |-> "error", code |-> Code(err), truncated |-> truncated]
    BY <1>2 DEF ReceiveError, Return, ContextReturned, StreamError
  <2>2. /\ Code(err) = "cancelled" => err = Canceled
        /\ Code(err) = "deadline_exceeded" => err = Deadline
    BY <1>2, CodesExplain
  <2>3. CASE result'.is = "context"
    BY <1>1, <2>3
  <2>4. CASE result' = [is |-> "error", code |-> Code(err), truncated |-> truncated]
    <3>1. /\ result'.code = Code(err) /\ result'.truncated = truncated
      BY <2>4
    <3> QED BY <1>0, <1>2, <2>2, <3>1 DEF ResultExplained, Kept
  <2> QED BY <2>1, <2>3, <2>4
\* The end of the operation's context.
<1>3. ASSUME opctx # "live"
      PROVE  /\ ContextError(opctx) \in {Canceled, Deadline}
             /\ ContextError(opctx) = Canceled => CancelExplained
             /\ ContextError(opctx) = Deadline => DeadlineExplained
  BY <1>0, <1>3, ErrorsDiffer DEF ContextError, ContextsExplained, ContextState, Kept, DeadlineExplained
<1>4. ASSUME ReceiveEnd, opctx = "live" => EndSeen
      PROVE  ResultExplained'
  <2>1. CASE opctx # "live"
    BY <1>2, <1>3, <1>4, <2>1, ErrorsDiffer DEF ReceiveEnd
  <2>2. CASE opctx = "live"
    <3>1. ReceiveError(Other, TRUE) /\ EndSeen
      BY <1>4, <2>2 DEF ReceiveEnd
    <3>2. Other # Nil /\ Other # Canceled /\ Other # Deadline
      BY ErrorsDiffer DEF Other, Nil
    <3> QED BY <1>2, <3>1, <3>2
  <2> QED BY <2>1, <2>2
<1>5. ASSUME NEW event, Receive(event)
      PROVE  ResultExplained'
  BY <1>1, <1>5 DEF Receive, Return, Deliver, ProtocolError, EventReturned
<1>6. CASE Recv
  <2>1. CASE RecvProceed
    BY <1>1, <2>1 DEF RecvProceed, Return, Deliver, ContextReturned, EventReturned
  <2>2. CASE RecvBuffered
    BY <1>5, <2>2 DEF RecvBuffered
  <2>3. CASE RecvContextDone
    BY <1>1, <2>3 DEF RecvContextDone, RecvDone, ReceiveError, Return, ContextReturned
  <2>4. CASE RecvOperationDone
    BY <1>2, <1>3, <2>4, ErrorsDiffer DEF RecvOperationDone, RecvDone
  <2>5. CASE RecvRaw
    <3> DEFINE got == Head(raw)
    <3>1. Explained(got)
      <4>1. Head(raw) = raw[1] /\ 1 \in 1 .. Len(raw)
        BY <2>5 DEF RecvRaw, StreamInvariant, TypeOK
      <4> QED BY <1>0, <4>1 DEF FlightExplained
    <3>2. CASE got.err # Nil /\ ReceiveError(got.err, FALSE)
      BY <1>2, <3>1, <3>2 DEF Explained
    <3>3. CASE got.err = Nil /\ got.event = Untyped /\ ReceiveEnd
      BY <1>4, <3>1, <3>3 DEF Explained
    <3>4. CASE got.err = Nil /\ got.event # Untyped /\ Receive(got.event)
      BY <1>5, <3>4
    <3> QED BY <2>5, <3>2, <3>3, <3>4 DEF RecvRaw
  <2>6. CASE RecvRawClosed
    <3>1. opctx = "live" => EndSeen
      BY <1>0, <2>6 DEF RecvRawClosed, PumpLifecycle, FlightExplained
    <3> QED BY <1>4, <2>6, <3>1 DEF RecvRawClosed
  <2> QED BY <1>6, <2>1, <2>2, <2>3, <2>4, <2>5, <2>6 DEF Recv, OnStream, RecvStep
<1>7. CASE Call
  <2>1. result' = result \/ result' \in {EOF, NoResult}
    BY <1>7 DEF Call, OnStream, RecvEnter, RecvContextEnds, CloseCall, recvVars
  <2> QED BY <1>1, <2>1 DEF EOF, NoResult
<1>8. CASE CallerEndsStream \/ BodyTimesOut \/ ClientTimesOut \/ ReadBody \/ Pump
  BY <1>1, <1>8 DEF CallerEndsStream, BodyTimesOut, ClientTimesOut, ReadBody, Pump, OnStream, OperationEnds, vars, PumpEvent, PumpEnd,
                    PumpStep, PumpSend, PumpAbandon, PumpCloseRaw, PumpCloseDone, recvVars
<1>9. ASSUME NEW c \in Closers, CancelStream(c) \/ CloseBody(c) \/ Rest(c)
      PROVE  ResultExplained'
  BY <1>1, <1>9 DEF CancelStream, CloseBody, Rest, OnStream, CloseCancel, CloseSource, CloseFirst, CloseJoin,
                    CloseWait, recvVars
<1> QED BY <1>6, <1>7, <1>8, <1>9 DEF Streaming

LEMMA StreamingExplanations ==
  ASSUME Owned, Explanations, StreamInvariant, Streaming
  PROVE  Explanations'
<1>1. ContextsExplained' /\ Kept
  BY StreamingContexts
<1>2. StartExplained'
  BY <1>1 DEF Kept, StartExplained, Explanations
<1>3. StreamWaits'
  BY <1>1 DEF Kept, StreamWaits
<1> QED BY <1>1, <1>2, <1>3, StreamingFlight, StreamingResult DEF Explanations

LEMMA AlwaysExplanations ==
  ASSUME "canceled" \in ContextEnds
  PROVE  OperationSpec => []Explanations
<1>1. OperationSpec => []StreamInvariant
  BY OperationHasStream, Invariance, PTL DEF StreamIsResponsesStream
<1>2. Explanations /\ UNCHANGED operationVars => Explanations'
  <2> SUFFICES ASSUME Explanations, UNCHANGED operationVars PROVE Explanations'
    OBVIOUS
  <2>1. UNCHANGED <<vars, startVars, bodyVars>>
    BY DEF operationVars
  <2>2. ContextsExplained' /\ StartExplained' /\ StreamWaits'
    BY <2>1 DEF Explanations, ContextsExplained, CancelExplained, DeadlineExplained, StartExplained, StreamWaits, vars, startVars,
                bodyVars, closeVars, recvVars, pumpVars, chanVars
  <2>3. FlightExplained' /\ ResultExplained'
    BY <2>1 DEF Explanations, FlightExplained, ResultExplained, Explained, CancelExplained, DeadlineExplained, EndSeen, vars, startVars,
                bodyVars, closeVars, recvVars, pumpVars, chanVars
  <2> QED BY <2>2, <2>3 DEF Explanations
<1>3. Owned /\ StreamInvariant /\ Explanations /\ [OperationNext]_operationVars => Explanations'
  BY <1>2, StartingExplanations, StreamingExplanations DEF OperationNext
<1> QED BY <1>1, <1>3, InitExplanations, AlwaysOwned, PTL DEF OperationSpec

\* Whatever hits an operation, its host is told why: a cancellation is reported
\* only after the caller or Close cancelled, a deadline only after the caller's, the
\* attempt's or one of the HTTP client's came, and a truncation only after the source ended
\* (a failed start, provider.go:59-70; receive, nextRaw and endError, 301-309 and
\* 411-446; normalizeFailure, error.go:77-86).
THEOREM EndIsExplained ==
  ASSUME "canceled" \in ContextEnds
  PROVE  OperationSpec => []EndExplained
<1>1. Explanations => EndExplained
  BY DEF Explanations, StartExplained, ResultExplained, CancelExplained, DeadlineExplained, EndSeen, EndExplained
<1> QED BY <1>1, AlwaysExplanations, PTL

=============================================================================
