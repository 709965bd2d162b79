------------------------------ MODULE Iteration ------------------------------
(***************************************************************************)
(* Functions defined step by step: induction over a set of naturals, which *)
(* needs no operator parameter, the existence and uniqueness of runs of    *)
(* step functions, and with them what FlattenSeq returns.                  *)
(***************************************************************************)
EXTENDS SequencesExt, FiniteSetTheorems, SequenceTheorems, WellFoundedInduction, Integers, TLAPS

\* A set of naturals that contains 0 and the successor of each of its elements
\* contains every natural: otherwise the initial segments 0 .. n of the missing
\* n have a smallest one.
LEMMA SetInduction ==
  ASSUME NEW T \in SUBSET Nat, 0 \in T, \A n \in T : n + 1 \in T
  PROVE  T = Nat
<1> DEFINE U == Nat \ T
           Segments == {0 .. n : n \in U}
<1>1. SUFFICES ASSUME U # {} PROVE FALSE
  OBVIOUS
<1>2. Segments # {}
  BY <1>1
<1>3. Segments \subseteq FiniteSubsetsOf(Nat)
  <2>1. \A n \in Nat : IsFiniteSet(0 .. n)
    BY FS_Interval
  <2> QED BY <2>1 DEF FiniteSubsetsOf
<1>4. PICK X \in Segments : \A Y \in Segments : ~(<<Y, X>> \in StrictSubsetOrdering(Nat))
  <2> HIDE DEF Segments
  <2> QED BY <1>2, <1>3, FS_StrictSubsetOrderingWellFounded, WFMin
<1>5. PICK x \in U : X = 0 .. x
  OBVIOUS
<1>6. \A y \in U : ~(y < x)
  <2>1. SUFFICES ASSUME NEW y \in U, y < x PROVE FALSE
    OBVIOUS
  <2>2. 0 .. y \in Segments
    OBVIOUS
  <2>3. 0 .. y \subseteq 0 .. x /\ 0 .. y # 0 .. x
    <3>0. x \in Nat /\ y \in Nat
      OBVIOUS
    <3>1. x \in 0 .. x /\ ~(x \in 0 .. y)
      BY <2>1, <3>0
    <3>2. 0 .. y # 0 .. x
      BY <3>1
    <3>3. 0 .. y \subseteq 0 .. x
      BY <2>1, <3>0
    <3> QED BY <3>2, <3>3
  <2>4. <<0 .. y, X>> \in StrictSubsetOrdering(Nat)
    <3> DEFINE A == 0 .. y
               B == 0 .. x
    <3>1. A \in SUBSET Nat /\ B \in SUBSET Nat
      OBVIOUS
    <3>2. A \subseteq B /\ A # B
      BY <2>3
    <3> HIDE DEF A, B
    <3>3. <<A, B>> \in StrictSubsetOrdering(Nat)
      BY <3>1, <3>2 DEF StrictSubsetOrdering
    <3> QED BY <3>3, <1>5 DEF A, B
  <2> QED BY <2>2, <2>4, <1>4
<1>7. x # 0 /\ x - 1 \in Nat
  OBVIOUS
<1>8. x - 1 \in T
  BY <1>6, <1>7
<1> QED BY <1>7, <1>8

\* A partial run of the step functions F from a, up to n.
IsRun(h, F, S, a, n) ==
  /\ h \in [0 .. n -> S]
  /\ h[0] = a
  /\ \A i \in 1 .. n : h[i] = F[i][h[i - 1]]

\* Two runs agree wherever both are defined.
LEMMA RunUnique ==
  ASSUME NEW S, NEW F, NEW a, NEW m \in Nat, NEW n \in Nat, NEW g, NEW h,
         IsRun(g, F, S, a, m), IsRun(h, F, S, a, n), m <= n
  PROVE  \A i \in 0 .. m : g[i] = h[i]
<1> DEFINE T == {i \in Nat : i <= m => g[i] = h[i]}
<1>1. 0 \in T
  BY DEF IsRun
<1>2. \A i \in T : i + 1 \in T
  <2>1. SUFFICES ASSUME NEW i \in T, i + 1 <= m PROVE g[i + 1] = h[i + 1]
    OBVIOUS
  <2>2. g[i] = h[i]
    BY <2>1
  <2>3. i + 1 \in 1 .. m /\ i + 1 \in 1 .. n /\ (i + 1) - 1 = i
    BY <2>1
  <2>4. g[i + 1] = F[i + 1][g[i]] /\ h[i + 1] = F[i + 1][h[i]]
    BY <2>3 DEF IsRun
  <2> QED BY <2>2, <2>4
<1>3. T = Nat
  <2> HIDE DEF T
  <2> QED BY <1>1, <1>2, SetInduction DEF T
<1> QED BY <1>3

\* A run exists up to every n.
LEMMA RunExists ==
  ASSUME NEW S, NEW F \in [Nat -> [S -> S]], NEW a \in S, NEW n \in Nat
  PROVE  \E h : IsRun(h, F, S, a, n)
<1> DEFINE T == {k \in Nat : \E h : IsRun(h, F, S, a, k)}
<1>1. 0 \in T
  <2>1. IsRun([i \in 0 .. 0 |-> a], F, S, a, 0)
    BY DEF IsRun
  <2> QED BY <2>1
<1>2. \A k \in T : k + 1 \in T
  <2>1. SUFFICES ASSUME NEW k \in T PROVE \E h : IsRun(h, F, S, a, k + 1)
    OBVIOUS
  <2>2. PICK g : IsRun(g, F, S, a, k)
    BY <2>1
  <2> DEFINE h == [i \in 0 .. k + 1 |-> IF i <= k THEN g[i] ELSE F[k + 1][g[k]]]
  <2>3. g[k] \in S /\ F[k + 1] \in [S -> S]
    BY <2>2 DEF IsRun
  <2>4. h \in [0 .. k + 1 -> S]
    BY <2>2, <2>3 DEF IsRun
  <2>5. h[0] = a
    BY <2>2 DEF IsRun
  <2>6. ASSUME NEW i \in 1 .. k + 1 PROVE h[i] = F[i][h[i - 1]]
    <3>1. CASE i <= k
      BY <3>1, <2>2 DEF IsRun
    <3>2. CASE i = k + 1
      <4>1. i - 1 = k /\ k \in 0 .. k + 1 /\ ~(i <= k) /\ i \in 0 .. k + 1
        BY <3>2
      <4>2. h[i - 1] = g[k] /\ h[i] = F[k + 1][g[k]]
        BY <4>1
      <4> QED BY <4>2, <3>2
    <3> QED BY <3>1, <3>2
  <2>7. IsRun(h, F, S, a, k + 1)
    <3> HIDE DEF h
    <3> QED BY <2>4, <2>5, <2>6 DEF IsRun
  <2> QED BY <2>7
<1>3. T = Nat
  <2> HIDE DEF T
  <2> QED BY <1>1, <1>2, SetInduction DEF T
<1> QED BY <1>3

\* A run without end.
IsIteration(g, F, S, a) ==
  /\ g \in [Nat -> S]
  /\ g[0] = a
  /\ \A n \in Nat \ {0} : g[n] = F[n][g[n - 1]]

\* The function defined step by step exists on every initial segment and takes
\* its values in S.
LEMMA IterationExists ==
  ASSUME NEW S, NEW F \in [Nat -> [S -> S]], NEW a \in S
  PROVE  \E g : IsIteration(g, F, S, a)
<1> DEFINE run(n) == CHOOSE h : IsRun(h, F, S, a, n)
           g == [n \in Nat |-> run(n)[n]]
<1>1. \A n \in Nat : IsRun(run(n), F, S, a, n)
  BY RunExists
<1>2. g \in [Nat -> S]
  <2>1. \A n \in Nat : run(n)[n] \in S
    <3> HIDE DEF run
    <3> QED BY <1>1 DEF IsRun
  <2> HIDE DEF run
  <2> QED BY <2>1
<1>3. ASSUME NEW n \in Nat PROVE g[n] = IF n = 0 THEN a ELSE F[n][g[n - 1]]
  <2> HIDE DEF run
  <2>1. CASE n = 0
    BY <2>1, <1>1 DEF IsRun
  <2>2. CASE n # 0
    <3>1. n - 1 \in Nat /\ n - 1 <= n /\ n \in 1 .. n /\ n - 1 \in 0 .. n - 1
      BY <2>2
    <3>2. IsRun(run(n - 1), F, S, a, n - 1) /\ IsRun(run(n), F, S, a, n)
      BY <1>1, <3>1
    <3>3. run(n - 1)[n - 1] = run(n)[n - 1]
      BY <3>1, <3>2, RunUnique
    <3>4. run(n)[n] = F[n][run(n)[n - 1]]
      BY <3>1, <3>2 DEF IsRun
    <3> QED BY <3>1, <3>3, <3>4, <2>2
  <2> QED BY <2>1, <2>2
<1> QED
  <2>1. IsIteration(g, F, S, a)
    <3> HIDE DEF g
    <3> QED BY <1>2, <1>3 DEF IsIteration
  <2> QED BY <2>1

-----------------------------------------------------------------------------
(* Joining sequences.                                                      *)

\* The texts joined one by one, up to each of them.
Joins(h, seqs, S) ==
  /\ h \in [0 .. Len(seqs) -> Seq(S)]
  /\ h[0] = << >>
  /\ \A i \in 1 .. Len(seqs) : h[i] = h[i - 1] \o seqs[i]

LEMMA JoinsExists ==
  ASSUME NEW S, NEW seqs \in Seq(Seq(S))
  PROVE  \E h : Joins(h, seqs, S)
<1> DEFINE n == Len(seqs)
           F == [i \in Nat |-> [s \in Seq(S) |-> IF i \in 1 .. n THEN s \o seqs[i] ELSE s]]
<1>1. n \in Nat /\ << >> \in Seq(S)
  BY LenProperties, EmptySeq
<1>2. F \in [Nat -> [Seq(S) -> Seq(S)]]
  <2>1. ASSUME NEW i \in 1 .. n, NEW s \in Seq(S) PROVE s \o seqs[i] \in Seq(S)
    BY ElementOfSeq, ConcatProperties
  <2> QED BY <2>1
<1>3. \A i \in 1 .. n, s \in Seq(S) : F[i][s] = s \o seqs[i]
  <2>1. \A i \in 1 .. n : i \in Nat
    BY <1>1
  <2> HIDE DEF n
  <2> QED BY <2>1
<1> HIDE DEF F, n
<1>4. PICK h : IsRun(h, F, Seq(S), << >>, n)
  BY <1>1, <1>2, RunExists
<1>5. \A i \in 1 .. n : i - 1 \in 0 .. n
  BY <1>1
<1>6. Joins(h, seqs, S)
  BY <1>1, <1>3, <1>4, <1>5 DEF Joins, IsRun, n
<1> QED BY <1>6

LEMMA FlattenJoins ==
  ASSUME NEW S, NEW seqs \in Seq(Seq(S)), NEW h, Joins(h, seqs, S)
  PROVE  FlattenSeq(seqs) = h[Len(seqs)]
<1> DEFINE n == Len(seqs)
           Body(f) == [i \in 1 .. n |-> IF i = 1 THEN seqs[i] ELSE f[i - 1] \o seqs[i]]
           t == [i \in 1 .. n |-> h[i]]
           s == CHOOSE f : f = Body(f)
<1>1. n \in Nat
  BY LenProperties
<1>2. CASE n = 0
  BY <1>2, EmptySeq DEF FlattenSeq, Joins
<1>3. CASE n # 0
  <2>1. h[1] = seqs[1]
    <3>1. seqs[1] \in Seq(S)
      BY <1>1, <1>3, ElementOfSeq
    <3>2. 1 \in 1 .. n
      BY <1>1, <1>3
    <3>3. h[1] = h[1 - 1] \o seqs[1]
      BY <3>2 DEF Joins
    <3>4. 1 - 1 = 0 /\ h[0] = << >>
      BY DEF Joins
    <3>5. h[1] = << >> \o seqs[1]
      BY <3>3, <3>4
    <3> QED BY <3>1, <3>5, ConcatEmptySeq
  <2>2. t = Body(t)
    <3>1. ASSUME NEW i \in 1 .. n, i # 1 PROVE h[i] = t[i - 1] \o seqs[i]
      <4>1. h[i] = h[i - 1] \o seqs[i]
        BY DEF Joins
      <4>2. i - 1 \in 1 .. n
        BY <1>1, <3>1
      <4> QED BY <4>1, <4>2
    <3> HIDE DEF t
    <3>2. \A i \in 1 .. n : t[i] = h[i]
      BY DEF t
    <3>3. \A i \in 1 .. n : h[i] = IF i = 1 THEN seqs[i] ELSE t[i - 1] \o seqs[i]
      BY <2>1, <3>1
    <3> QED BY <3>3 DEF t
  <2>3. s = Body(s)
    <3> HIDE DEF Body, t
    <3> QED BY <2>2
  <2>4. FlattenSeq(seqs) = s[n]
    BY <1>3 DEF FlattenSeq
  <2> HIDE DEF s
  <2>5. \A i \in 1 .. n : s[i] = IF i = 1 THEN seqs[i] ELSE s[i - 1] \o seqs[i]
    BY <2>3
  <2> DEFINE T == {k \in Nat : k + 1 <= n => s[k + 1] = h[k + 1]}
  <2>6. 0 \in T
    BY <1>1, <1>3, <2>1, <2>5
  <2>7. \A k \in T : k + 1 \in T
    <3>1. SUFFICES ASSUME NEW k \in T, k + 2 <= n PROVE s[k + 2] = h[k + 2]
      OBVIOUS
    <3>2. k + 2 \in 1 .. n /\ k + 2 # 1 /\ (k + 2) - 1 = k + 1 /\ s[k + 1] = h[k + 1]
      BY <1>1, <3>1
    <3>3. s[k + 2] = s[k + 1] \o seqs[k + 2]
      BY <2>5, <3>2
    <3>4. h[k + 2] = h[k + 1] \o seqs[k + 2]
      BY <3>2 DEF Joins
    <3> QED BY <3>2, <3>3, <3>4
  <2>8. T = Nat
    <3> HIDE DEF T
    <3> QED BY <2>6, <2>7, SetInduction DEF T
  <2>9. s[n] = h[n]
    <3>1. n - 1 \in Nat /\ n - 1 + 1 = n
      BY <1>1, <1>3
    <3>2. n - 1 \in T
      BY <2>8, <3>1
    <3> HIDE DEF n
    <3> QED BY <3>1, <3>2
  <2> QED BY <2>4, <2>9
<1> QED BY <1>2, <1>3

\* Flattening is a homomorphism.
LEMMA FlattenConcat ==
  ASSUME NEW S, NEW a \in Seq(Seq(S)), NEW b \in Seq(Seq(S))
  PROVE  /\ FlattenSeq(a) \in Seq(S)
         /\ FlattenSeq(a \o b) = FlattenSeq(a) \o FlattenSeq(b)
<1>1. PICK f : Joins(f, a, S)
  BY JoinsExists
<1>2. PICK g : Joins(g, b, S)
  BY JoinsExists
<1> DEFINE m == Len(a)
           n == Len(b)
           c == a \o b
           h == [i \in 0 .. m + n |-> IF i <= m THEN f[i] ELSE f[m] \o g[i - m]]
<1>3. m \in Nat /\ n \in Nat
  BY LenProperties
<1>4. /\ c \in Seq(Seq(S)) /\ Len(c) = m + n
      /\ \A i \in 1 .. m + n : c[i] = IF i <= m THEN a[i] ELSE b[i - m]
  BY ConcatProperties
<1>5. FlattenSeq(a) = f[m] /\ FlattenSeq(b) = g[n]
  BY <1>1, <1>2, FlattenJoins
<1> HIDE DEF m, n, c
<1>6. /\ \A i \in 0 .. m : f[i] \in Seq(S)
      /\ f[0] = << >>
      /\ \A i \in 1 .. m : f[i] = f[i - 1] \o a[i]
  BY <1>1 DEF Joins, m
<1>7. /\ \A i \in 0 .. n : g[i] \in Seq(S)
      /\ g[0] = << >>
      /\ \A i \in 1 .. n : g[i] = g[i - 1] \o b[i]
  BY <1>2 DEF Joins, n
<1>8. f[m] \in Seq(S)
  BY <1>3, <1>6
<1>9. h \in [0 .. m + n -> Seq(S)]
  <2>1. ASSUME NEW i \in 0 .. m + n, ~(i <= m) PROVE f[m] \o g[i - m] \in Seq(S)
    <3>1. i - m \in 0 .. n
      BY <1>3, <2>1
    <3>2. g[i - m] \in Seq(S)
      BY <1>7, <3>1
    <3> QED BY <1>8, <3>2, ConcatProperties
  <2>2. ASSUME NEW i \in 0 .. m + n, i <= m PROVE f[i] \in Seq(S)
    BY <1>3, <1>6, <2>2
  <2> QED BY <2>1, <2>2
<1>10. ASSUME NEW i \in 1 .. m + n PROVE h[i] = h[i - 1] \o c[i]
  <2>1. CASE i <= m
    <3>1. i \in 1 .. m /\ i - 1 <= m /\ i \in 0 .. m + n /\ i - 1 \in 0 .. m + n
      BY <1>3, <2>1
    <3>2. h[i] = f[i] /\ h[i - 1] = f[i - 1] /\ c[i] = a[i]
      BY <1>4, <2>1, <3>1
    <3> QED BY <1>6, <3>1, <3>2
  <2>2. CASE ~(i <= m)
    <3> DEFINE j == i - m
    <3>1. j \in 1 .. n /\ j - 1 \in 0 .. n /\ i \in 0 .. m + n /\ i - 1 \in 0 .. m + n /\ (i - 1) - m = j - 1
      BY <1>3, <2>2
    <3>2. h[i] = f[m] \o g[j] /\ c[i] = b[j]
      BY <1>4, <2>2, <3>1
    <3>3. h[i - 1] = f[m] \o g[j - 1]
      <4>1. CASE i - 1 <= m
        <5>1. i - 1 = m /\ j - 1 = 0
          BY <1>3, <2>2, <4>1
        <5>2. h[i - 1] = f[m]
          BY <3>1, <4>1, <5>1
        <5>3. f[m] \o << >> = f[m]
          BY <1>8, ConcatEmptySeq
        <5> QED BY <1>7, <5>1, <5>2, <5>3
      <4>2. CASE ~(i - 1 <= m)
        BY <3>1, <4>2
      <4> QED BY <4>1, <4>2
    <3> HIDE DEF h, j
    <3>4. b[j] \in Seq(S)
      BY <3>1, ElementOfSeq DEF n
    <3>5. g[j - 1] \in Seq(S) /\ g[j] = g[j - 1] \o b[j]
      BY <1>7, <3>1
    <3>6. (f[m] \o g[j - 1]) \o b[j] = f[m] \o (g[j - 1] \o b[j])
      <4> DEFINE x == f[m]
                 y == g[j - 1]
                 z == b[j]
      <4>1. x \in Seq(S) /\ y \in Seq(S) /\ z \in Seq(S)
        BY <1>8, <3>4, <3>5
      <4> HIDE DEF x, y, z
      <4>2. (x \o y) \o z = x \o (y \o z)
        BY <4>1, ConcatAssociative, SMTT(30)
      <4> QED BY <4>2 DEF x, y, z
    <3> QED BY <3>2, <3>3, <3>5, <3>6
  <2> QED BY <2>1, <2>2
<1>11. h[0] = << >>
  BY <1>3, <1>6
<1>12. h[m + n] = f[m] \o g[n]
  <2>1. CASE n = 0
    <3>1. m + n = m /\ m \in 0 .. m + n
      BY <1>3, <2>1
    <3>2. h[m + n] = f[m]
      BY <3>1
    <3> HIDE DEF h
    <3> QED BY <1>7, <1>8, <2>1, <3>2, ConcatEmptySeq
  <2>2. CASE n # 0
    <3>1. ~(m + n <= m) /\ m + n \in 0 .. m + n /\ (m + n) - m = n
      BY <1>3, <2>2
    <3> QED BY <3>1
  <2> QED BY <2>1, <2>2
<1> HIDE DEF h
<1>13. Joins(h, c, S)
  BY <1>4, <1>9, <1>10, <1>11 DEF Joins
<1>14. FlattenSeq(c) = h[m + n]
  BY <1>4, <1>13, FlattenJoins
<1> QED BY <1>5, <1>8, <1>12, <1>14 DEF c

LEMMA FlattenEmpty ==
  ASSUME NEW seqs, Len(seqs) = 0, seqs = << >>
  PROVE  FlattenSeq(seqs) = << >>
BY DEF FlattenSeq

LEMMA FlattenOne ==
  ASSUME NEW S, NEW x \in Seq(S)
  PROVE  FlattenSeq(<<x>>) = x
<1> DEFINE q == <<x>>
           h == [i \in 0 .. 1 |-> IF i = 0 THEN << >> ELSE x]
<1>1. q \in Seq(Seq(S)) /\ Len(q) = 1 /\ q[1] = x
  OBVIOUS
<1>2. << >> \in Seq(S) /\ << >> \o x = x
  BY EmptySeq, ConcatEmptySeq
<1>3. h[0] = << >> /\ h[1] = x /\ h \in [0 .. 1 -> Seq(S)]
  BY <1>2
<1> HIDE DEF q, h
<1>4. ASSUME NEW i \in 1 .. 1 PROVE h[i] = h[i - 1] \o q[i]
  <2>1. i = 1 /\ 1 - 1 = 0
    OBVIOUS
  <2> QED BY <1>1, <1>2, <1>3, <2>1
<1>5. Joins(h, q, S)
  BY <1>1, <1>3, <1>4 DEF Joins
<1> QED BY <1>1, <1>3, <1>5, FlattenJoins DEF q

\* Flattening a sequence of n + 1 sequences appends the last of them.
LEMMA FlattenGrows ==
  ASSUME NEW S, NEW n \in Nat, NEW f, \A i \in 1 .. n + 1 : f[i] \in Seq(S)
  PROVE  /\ FlattenSeq([i \in 1 .. n |-> f[i]]) \in Seq(S)
         /\ FlattenSeq([i \in 1 .. n + 1 |-> f[i]]) = FlattenSeq([i \in 1 .. n |-> f[i]]) \o f[n + 1]
<1> DEFINE a == [i \in 1 .. n |-> f[i]]
           c == [i \in 1 .. n + 1 |-> f[i]]
           x == f[n + 1]
           b == <<x>>
           T == Seq(S)
<1>1. x \in T /\ \A i \in 1 .. n : f[i] \in T
  OBVIOUS
<1> HIDE DEF T
<1>2. a \in Seq(T) /\ Len(a) = n /\ c \in Seq(T) /\ Len(c) = n + 1
  BY DEF T
<1>3. /\ \A i \in 1 .. n : a[i] = f[i]
      /\ \A i \in 1 .. n + 1 : c[i] = f[i]
  OBVIOUS
<1> HIDE DEF a, c, x
<1>4. b \in Seq(T) /\ Len(b) = 1 /\ b[1] = x
  BY <1>1
<1> HIDE DEF b
<1>5. c = a \o b
  <2> DEFINE d == a \o b
  <2>1. /\ d \in Seq(T) /\ Len(d) = n + 1
        /\ \A i \in 1 .. n + 1 : d[i] = IF i <= n THEN a[i] ELSE b[i - n]
    <3>1. /\ d \in Seq(T) /\ Len(d) = Len(a) + Len(b)
          /\ \A i \in 1 .. Len(a) + Len(b) : d[i] = IF i <= Len(a) THEN a[i] ELSE b[i - Len(a)]
      BY <1>2, <1>4, ConcatProperties
    <3> QED BY <1>2, <1>4, <3>1
  <2> HIDE DEF d
  <2>2. ASSUME NEW i \in 1 .. n + 1 PROVE c[i] = d[i]
    <3>1. CASE i \in 1 .. n
      BY <1>3, <2>1, <3>1
    <3>2. CASE i = n + 1
      <4>1. i - n = 1 /\ ~(i <= n)
        BY <3>2
      <4> QED BY <1>3, <1>4, <2>1, <3>2, <4>1 DEF x
    <3> QED BY <3>1, <3>2
  <2>3. c = d
    BY <1>2, <2>1, <2>2, SeqEqual
  <2> QED BY <2>3 DEF d
<1>6. FlattenSeq(a) \in Seq(S) /\ FlattenSeq(a \o b) = FlattenSeq(a) \o FlattenSeq(b)
  BY <1>2, <1>4, FlattenConcat DEF T
<1>7. FlattenSeq(b) = x
  BY <1>1, FlattenOne DEF T, b
<1> QED BY <1>5, <1>6, <1>7 DEF a, c, x

=============================================================================
